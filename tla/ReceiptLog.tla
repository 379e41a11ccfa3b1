------------------------------ MODULE ReceiptLog ------------------------------
(***************************************************************************)
(* The payment receipt log (cmd/grimlock/receipt.go): Append links, writes *)
(* and flushes one receipt under the log's mutex, OpenReceiptLogFile       *)
(* recovers the head of the chain when the daemon starts.  Writes and      *)
(* flushes fail, the process is killed, the machine goes down.             *)
(*                                                                         *)
(* The file is the sequence of the pieces written to it, a piece being     *)
(* what one write left there: the whole line, the line without its newline *)
(* ("bare") or less ("part").  A receipt is written once and its hash      *)
(* covers all of it, so its identity stands for its hash; an edited entry  *)
(* has an identity of its own.                                             *)
(***************************************************************************)
EXTENDS Naturals, FiniteSets, Sequences

CONSTANTS
    Receipts,       \* the payment decisions
    MaxCrashes,     \* bound on the daemon's ends
    MaxFaults,      \* bound on disk errors and torn lines
    Edits,          \* what someone with the file may write in an entry's stead
    Shown           \* bound on the entries before a receipt an auditor knows

\* 0 is the empty hash, which starts the chain.
ASSUME LogAssumption ==
    /\ Receipts \subseteq Nat \ {0}
    /\ MaxCrashes \in Nat /\ MaxFaults \in Nat
    /\ Edits \subseteq Nat \ {0} /\ Edits \cap Receipts = {}
    /\ Shown \in Nat

VARIABLES
    file,           \* the pieces in the file
    synced,         \* how many of them are on stable storage
    head,           \* ReceiptLog.prev
    holder,         \* the receipt whose Append has the mutex, 0 if none
    link,           \* its PrevHash
    stage,          \* stage[r]: how far r has come
    daemon,         \* whether the daemon runs
    crashes, faults

vars == <<file, synced, head, holder, link, stage, daemon, crashes, faults>>

Form == {"whole", "bare", "part"}
Piece == [id : Receipts, prev : {0} \cup Receipts, form : Form]

\* "pending": in the memory of its channel until its settlement arrives or the
\* channel ends; "append", "write", "sync": in Append; "logged", "dropped":
\* Append returned nil or an error; "lost": the daemon ended before it did.
Appending == {"append", "write", "sync"}
Stage == Appending \cup {"undecided", "pending", "logged", "dropped", "lost"}

\* Every variable holds a value of its type, and a receipt is between Append's
\* first and last statement exactly while it has the mutex.
TypeOK ==
    /\ file \in Seq(Piece)
    /\ synced \in 0..Len(file)
    /\ head \in {0} \cup Receipts
    /\ holder \in {0} \cup Receipts
    /\ link \in {0} \cup Receipts
    /\ stage \in [Receipts -> Stage]
    /\ daemon \in {"up", "down", "refused"}
    /\ crashes \in 0..MaxCrashes
    /\ faults \in 0..MaxFaults
    /\ \A r \in Receipts : holder = r <=> stage[r] \in {"write", "sync"}

Init ==
    /\ file = <<>>
    /\ synced = 0
    /\ head = 0
    /\ holder = 0
    /\ link = 0
    /\ stage = [r \in Receipts |-> "undecided"]
    /\ daemon = "up"
    /\ crashes = 0
    /\ faults = 0

------------------------------------------------------------------------------
(* Reading the file. *)

\* A line ends where a piece brought its newline, and at the end of the file.
Ends == {i \in DOMAIN file : file[i].form = "whole" \/ i = Len(file)}

\* The line is one receipt: it starts with its piece, and all of it is there.
Parses(i) ==
    /\ i = 1 \/ file[i - 1].form = "whole"
    /\ file[i].form # "part"

\* hashHex: collision-free, over all the fields of an entry but Hash.
hashHex(entry) == entry.id

\* Mutant: the links are compared, but no hash is computed again.
MutantVerifyChain(entries) ==
    \A i \in DOMAIN entries :
        entries[i].prev = IF i = 1 THEN 0 ELSE entries[i - 1].hash

\* VerifyChain: each entry names the hash of the one before it, and has its own.
VerifyChain(entries) ==
    \A i \in DOMAIN entries :
        /\ entries[i].prev = IF i = 1 THEN 0 ELSE entries[i - 1].hash
        /\ entries[i].hash = hashHex(entries[i])

------------------------------------------------------------------------------
(* The channels: a decision, and the settlement an allowed payment waits for. *)

\* A denied payment is appended at once, an allowed one kept for its settlement.
Record(r) ==
    /\ daemon = "up" /\ stage[r] = "undecided"
    /\ \E s \in {"append", "pending"} : stage' = [stage EXCEPT ![r] = s]
    /\ UNCHANGED <<file, synced, head, holder, link, daemon, crashes, faults>>

\* The settlement arrives (finalizePending) or the channel ends (finish).
Finalize(r) ==
    /\ stage[r] = "pending"
    /\ stage' = [stage EXCEPT ![r] = "append"]
    /\ UNCHANGED <<file, synced, head, holder, link, daemon, crashes, faults>>

------------------------------------------------------------------------------
(* Append. *)

\* Mutant: the receipt is linked and written without the mutex.
MutantLock(r) ==
    /\ stage[r] = "append"
    /\ holder' = r
    /\ link' = head
    /\ stage' = [stage EXCEPT ![r] = "write"]
    /\ UNCHANGED <<file, synced, head, daemon, crashes, faults>>

\* The mutex is taken and the receipt linked to the head.
Lock(r) ==
    /\ stage[r] = "append" /\ holder = 0
    /\ holder' = r
    /\ link' = head
    /\ stage' = [stage EXCEPT ![r] = "write"]
    /\ UNCHANGED <<file, synced, head, daemon, crashes, faults>>

\* What may be left of a piece when not all of it is written or kept.
Cut(piece) == IF piece.form = "whole" THEN {"bare", "part"} ELSE {"part"}

Line(form) == [id |-> holder, prev |-> link, form |-> form]

\* Mutant: the receipt counts as logged when it is written, before the flush.
MutantWrite(r) ==
    /\ stage[r] = "write"
    /\ file' = Append(file, Line("whole"))
    /\ holder' = 0
    /\ head' = r
    /\ stage' = [stage EXCEPT ![r] = "logged"]
    /\ UNCHANGED <<synced, link, daemon, crashes, faults>>

Write(r) ==
    /\ stage[r] = "write"
    /\ file' = Append(file, Line("whole"))
    /\ stage' = [stage EXCEPT ![r] = "sync"]
    /\ UNCHANGED <<synced, head, holder, link, daemon, crashes, faults>>

\* Append returns the error: the mutex is released, the head stays.
Drop(r) ==
    /\ holder' = 0
    /\ stage' = [stage EXCEPT ![r] = "dropped"]
    /\ UNCHANGED <<synced, head, link, daemon, crashes>>

\* Mutant: an error return that leaves the mutex locked.
MutantWriteRefused(r) ==
    /\ stage[r] = "write" /\ faults < MaxFaults
    /\ stage' = [stage EXCEPT ![r] = "dropped"]
    /\ UNCHANGED <<file, synced, head, holder, link, daemon, crashes, faults>>

\* The write fails and leaves nothing in the file.
WriteRefused(r) ==
    /\ stage[r] = "write" /\ faults < MaxFaults
    /\ Drop(r)
    /\ UNCHANGED <<file, faults>>

\* The disk is full in the middle of the line: what was written stays.
WriteCutShort(r) ==
    /\ stage[r] = "write" /\ faults < MaxFaults
    /\ \E form \in Cut(Line("whole")) : file' = Append(file, Line(form))
    /\ faults' = faults + 1
    /\ Drop(r)

\* Flushing the file makes all of it stable; then the head advances.
Sync(r) ==
    /\ stage[r] = "sync"
    /\ synced' = Len(file)
    /\ head' = r
    /\ holder' = 0
    /\ stage' = [stage EXCEPT ![r] = "logged"]
    /\ UNCHANGED <<file, link, daemon, crashes, faults>>

\* The line is in the file, but Append returns the error of Sync.
SyncFails(r) ==
    /\ stage[r] = "sync" /\ faults < MaxFaults
    /\ faults' = faults + 1
    /\ Drop(r)
    /\ UNCHANGED file

------------------------------------------------------------------------------
(* The daemon's end and its next start. *)

\* What was written or on its way to the file.
Submitted ==
    IF holder # 0 /\ stage[holder] = "write" THEN Append(file, Line("whole")) ELSE file

\* The daemon is killed, or stopped by a signal, which main does not let the
\* channels notice: what the kernel has stays.  When the machine goes down, no
\* more than the flushed pieces is sure to.  The last line may be cut.
Crash ==
    /\ daemon = "up" /\ crashes < MaxCrashes
    /\ crashes' = crashes + 1
    /\ \E machine \in BOOLEAN :
       \E k \in (IF machine THEN synced ELSE Len(file))..Len(Submitted) :
            /\ \/ file' = SubSeq(Submitted, 1, k) /\ UNCHANGED faults
               \/ /\ k < Len(Submitted) /\ faults < MaxFaults
                  /\ \E form \in Cut(Submitted[k + 1]) :
                        file' = Append(SubSeq(Submitted, 1, k),
                                       [Submitted[k + 1] EXCEPT !.form = form])
                  /\ faults' = faults + 1
            /\ synced' = IF machine THEN Len(file') ELSE synced
    /\ daemon' = "down"
    /\ holder' = 0
    /\ head' = 0 /\ link' = 0
    /\ stage' = [r \in Receipts |->
            IF stage[r] \in Appending \cup {"pending"} THEN "lost" ELSE stage[r]]

\* Mutant: a new chain is begun on every start.
MutantLastReceiptHash == 0

\* lastReceiptHash: the hash of the last line, bare or not.
LastReceiptHash == IF file = <<>> THEN 0 ELSE file[Len(file)].id

\* OpenReceiptLogFile; without the log the daemon does not start.
Start ==
    /\ daemon = "down"
    /\ IF file = <<>> \/ Parses(Len(file))
       THEN daemon' = "up" /\ head' = LastReceiptHash
       ELSE daemon' = "refused" /\ UNCHANGED head
    /\ UNCHANGED <<file, synced, holder, link, stage, crashes, faults>>

InAppend(r) ==
    Lock(r) \/ Write(r) \/ WriteRefused(r) \/ WriteCutShort(r) \/ Sync(r) \/ SyncFails(r)

Next ==
    \/ \E r \in Receipts : Record(r) \/ Finalize(r) \/ InAppend(r)
    \/ Crash \/ Start

Spec == Init /\ [][Next]_vars

\* The goroutines run.
FairSpec == Spec /\ \A r \in Receipts : WF_vars(InAppend(r))

------------------------------------------------------------------------------
(* Properties. *)

\* Links an auditor finds broken: a line that is no receipt, or a receipt that
\* does not name the receipt of the line before it.
Breaks ==
    {i \in Ends :
        \/ ~Parses(i)
        \/ file[i].prev # IF i = 1 THEN 0 ELSE file[i - 1].id
        \/ i > 1 /\ ~Parses(i - 1)}

\* "A restart continues the same chain", and an error does no lasting harm:
\* without disk errors and torn lines the file is one unbroken chain through
\* any interleaving of channels, kills and restarts, and each of those breaks
\* at most two links of it, after which the chain goes on.
BreaksBounded == Cardinality(Breaks) <= 2 * faults

\* The entry that line i of the file is.
Entry(i) == [id |-> file[i].id, prev |-> file[i].prev, hash |-> file[i].id]

\* What an auditor may be shown in the place of a line: a line of the file, or an
\* edit, whose PrevHash and Hash are chosen at will.
Hashes == {0} \cup Edits \cup {file[i].id : i \in DOMAIN file}
Entries ==
    {Entry(i) : i \in Ends} \cup [id : Edits, prev : Hashes, hash : Hashes]

\* "Any later edit/removal breaks the chain", as far as the chain can show it:
\* before a receipt that the auditor knows to be genuine VerifyChain accepts
\* exactly the lines of the file, whichever were edited (with their hashes
\* computed again or not), removed, reordered or repeated, up to the first link
\* that an error broke.  Behind the last such receipt it shows nothing: the end
\* of the file may be cut off or forged.
TamperEvident ==
    \A n \in 0..Shown : \A before \in [1..n -> Entries] : VerifyChain(before) =>
        \A i \in Ends :
            VerifyChain(Append(before, Entry(i))) /\ (\A b \in Breaks : i < b)
                => before = [j \in 1..(i - 1) |-> Entry(j)]

\* The file, as far as it is stable, implements the auditor's trail: receipts
\* are only added to it, each once, and whatever Append acknowledged is there
\* for good, through crashes of the daemon and of the machine, unless its line
\* began in a torn one, which costs one receipt for each of those.
Readable(i) == file[i].form = "whole" /\ (i > 1 => file[i - 1].form = "whole")
Stable == [i \in 1..synced |-> IF Readable(i) THEN file[i].id ELSE 0]
Trail == INSTANCE AuditTrail
            WITH Torn <- 0,
                 trail <- Stable,
                 acknowledged <- {r \in Receipts : stage[r] = "logged"}
ImplementsTrail == Trail!Spec

\* Appends end, whoever fails before them: no error return keeps the mutex.
AppendsEnd == \A r \in Receipts : stage[r] = "append" ~> stage[r] \notin Appending

\* What the comment of Append says: "a failed write drops the receipt without
\* corrupting the chain": the receipts that were logged are readable and linked.
FailedWriteHarmless ==
    crashes = 0 => \A i \in Breaks : stage[file[i].id] # "logged"

==============================================================================

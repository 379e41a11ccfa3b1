--------------------------- MODULE ReceiptLogProofs ---------------------------
(***************************************************************************)
(* Proofs about the receipt log, for any receipts, any number of crashes   *)
(* of the daemon or the machine and any number of disk errors: its types,  *)
(* how many links an error breaks, what an auditor can tell from an        *)
(* unbroken file, and that the file implements the auditor's trail.        *)
(***************************************************************************)
EXTENDS ReceiptLog, FunctionTheorems, FiniteSetTheorems, WellFoundedInduction, TLAPS

\* The receipt a line appended behind the first n pieces should name.
Tip(n) == IF n = 0 THEN 0 ELSE file[n].id

\* The pieces a disk error or a crash left their mark on: torn ones, and whole
\* ones whose Append returned an error after it had written them.
Marks ==
    {i \in DOMAIN file : file[i].form # "whole" \/ stage[file[i].id] = "dropped"}

\* A receipt is in the file at most once, and not before it is written.
WrittenOnce ==
    /\ \A i, j \in DOMAIN file : file[i].id = file[j].id => i = j
    /\ \A i \in DOMAIN file : stage[file[i].id] \in Stage \ {"undecided", "pending", "append", "write"}

\* No channel outlives its daemon.
Outlived ==
    daemon # "up" => \A r \in Receipts : stage[r] \notin Appending \cup {"pending"}

\* Until it is flushed, the line of the receipt in Append is the last piece.
AtTheEnd ==
    \A r \in Receipts : stage[r] = "sync" =>
        /\ Len(file) > 0
        /\ file[Len(file)].id = r /\ file[Len(file)].form = "whole"

\* What was logged is stable, and all of it.
LoggedStable ==
    \A r \in Receipts : stage[r] = "logged" =>
        \E i \in 1..synced : file[i].id = r /\ file[i].form = "whole"

\* Between two writes the head is the last piece's receipt, unless that piece
\* was dropped; the receipt about to be written names the head.
HeadFollows ==
    /\ daemon = "up" /\ (\A r \in Receipts : stage[r] # "sync")
            => head = Tip(Len(file)) \/ Len(file) \in Marks
    /\ \A r \in Receipts : stage[r] = "write" => link = head

\* A piece names the one before it, unless that one is marked.
Linked == \A i \in DOMAIN file : file[i].prev = Tip(i - 1) \/ i - 1 \in Marks

\* No more pieces are marked than there were errors.
FewMarks == Cardinality(Marks) <= faults

IInv ==
    /\ TypeOK /\ WrittenOnce /\ Outlived /\ AtTheEnd /\ LoggedStable
    /\ HeadFollows /\ Linked /\ FewMarks

------------------------------------------------------------------------------
(* Types. *)

LEMMA Zero == 0 \notin Receipts /\ Receipts \subseteq Nat
  BY LogAssumption

LEMMA LineType ==
    ASSUME TypeOK, holder # 0, NEW form \in Form
    PROVE  /\ Line(form) \in Piece
           /\ Line(form).id = holder /\ Line(form).prev = link /\ Line(form).form = form
  BY DEF TypeOK, Line, Piece

\* The receipt that is being written or flushed has the mutex.
LEMMA HolderIs ==
    ASSUME TypeOK, NEW r \in Receipts, stage[r] \in {"write", "sync"}
    PROVE  holder = r /\ holder # 0
  BY Zero DEF TypeOK

LEMMA Appended ==
    ASSUME NEW f \in Seq(Piece), NEW piece \in Piece, NEW g, g = Append(f, piece)
    PROVE  /\ g \in Seq(Piece)
           /\ Len(g) = Len(f) + 1
           /\ DOMAIN f = 1..Len(f) /\ DOMAIN g = 1..Len(f) + 1
           /\ g[Len(f) + 1] = piece
           /\ \A i \in 1..Len(f) : g[i] = f[i]
  OBVIOUS

LEMMA Cutting ==
    ASSUME NEW f \in Seq(Piece), NEW k \in 0..Len(f)
    PROVE  /\ SubSeq(f, 1, k) \in Seq(Piece)
           /\ Len(SubSeq(f, 1, k)) = k
           /\ \A i \in 1..k : SubSeq(f, 1, k)[i] = f[i]
  OBVIOUS

LEMMA CutType ==
    ASSUME NEW piece \in Piece, NEW form \in Cut(piece), NEW torn,
           torn = [piece EXCEPT !.form = form]
    PROVE  /\ form \in Form /\ form # "whole"
           /\ torn \in Piece
           /\ torn.id = piece.id /\ torn.prev = piece.prev /\ torn.form = form
<1>1. form \in Form /\ form # "whole"
  BY DEF Cut, Form
<1>2. torn = [id |-> piece.id, prev |-> piece.prev, form |-> form]
  BY DEF Piece
<1> QED
  BY <1>1, <1>2 DEF Piece

\* What was on its way when the daemon or the machine goes down: the file and
\* perhaps the line that Append is writing.
LEMMA SubmittedIs ==
    ASSUME TypeOK
    PROVE  /\ Submitted \in Seq(Piece)
           /\ Len(Submitted) \in {Len(file), Len(file) + 1}
           /\ \A i \in 1..Len(file) : Submitted[i] = file[i]
           /\ Len(Submitted) # Len(file) =>
                /\ holder # 0 /\ stage[holder] = "write"
                /\ Submitted[Len(file) + 1] = Line("whole")
<1>0. file \in Seq(Piece)
  BY DEF TypeOK
<1>1. CASE holder # 0 /\ stage[holder] = "write"
  <2>1. Line("whole") \in Piece
    BY <1>1, LineType DEF Form
  <2>2. Submitted = Append(file, Line("whole"))
    BY <1>1 DEF Submitted
  <2> QED
    BY <1>0, <1>1, <2>1, <2>2, Appended
<1>2. CASE ~(holder # 0 /\ stage[holder] = "write")
  <2>1. Submitted = file
    BY <1>2 DEF Submitted
  <2> QED
    BY <1>0, <2>1
<1> QED
  BY <1>1, <1>2

\* A crash leaves the flushed pieces and some of what was submitted after them,
\* the last of it perhaps torn.
CleanEnd == faults' = faults /\ \A i \in 1..Len(file') : file'[i] = Submitted[i]
TornEnd ==
    /\ faults < MaxFaults /\ faults' = faults + 1
    /\ Len(file') > synced
    /\ file'[Len(file')].form # "whole"
    /\ \A i \in 1..Len(file') - 1 : file'[i] = Submitted[i]

CrashLeaves ==
    /\ file' \in Seq(Piece)
    /\ Len(file') \in synced..Len(Submitted)
    /\ CleanEnd \/ TornEnd
    /\ \A i \in 1..Len(file') :
            file'[i].id = Submitted[i].id /\ file'[i].prev = Submitted[i].prev
    /\ \A i \in 1..synced : file'[i] = file[i]
    /\ synced' \in synced..Len(file')

LEMMA CrashFile == ASSUME TypeOK, Crash PROVE CrashLeaves
<1>0. /\ file \in Seq(Piece) /\ synced \in Nat /\ Len(file) \in Nat /\ synced <= Len(file)
      /\ Submitted \in Seq(Piece) /\ Len(Submitted) \in Nat
      /\ Len(file) <= Len(Submitted)
      /\ \A i \in 1..Len(file) : Submitted[i] = file[i]
  BY SubmittedIs DEF TypeOK
<1>a. PICK machine \in BOOLEAN :
      \E k \in (IF machine THEN synced ELSE Len(file))..Len(Submitted) :
        /\ \/ file' = SubSeq(Submitted, 1, k) /\ UNCHANGED faults
           \/ /\ k < Len(Submitted) /\ faults < MaxFaults
              /\ \E form \in Cut(Submitted[k + 1]) :
                    file' = Append(SubSeq(Submitted, 1, k),
                                   [Submitted[k + 1] EXCEPT !.form = form])
              /\ faults' = faults + 1
        /\ synced' = IF machine THEN Len(file') ELSE synced
  BY DEF Crash
<1>1. PICK k \in (IF machine THEN synced ELSE Len(file))..Len(Submitted) :
        /\ \/ file' = SubSeq(Submitted, 1, k) /\ UNCHANGED faults
           \/ /\ k < Len(Submitted) /\ faults < MaxFaults
              /\ \E form \in Cut(Submitted[k + 1]) :
                    file' = Append(SubSeq(Submitted, 1, k),
                                   [Submitted[k + 1] EXCEPT !.form = form])
              /\ faults' = faults + 1
        /\ synced' = IF machine THEN Len(file') ELSE synced
  BY <1>a
<1>2. k \in 0..Len(Submitted) /\ synced <= k
  BY <1>0
<1>3. /\ SubSeq(Submitted, 1, k) \in Seq(Piece)
      /\ Len(SubSeq(Submitted, 1, k)) = k
      /\ \A i \in 1..k : SubSeq(Submitted, 1, k)[i] = Submitted[i]
  BY <1>0, <1>2, Cutting
<1>4. \A i \in 1..synced : i \in 1..k /\ Submitted[i] = file[i]
  BY <1>0, <1>2
<1>5. CASE file' = SubSeq(Submitted, 1, k) /\ UNCHANGED faults
  <2>1. CleanEnd /\ file' \in Seq(Piece) /\ Len(file') = k
    BY <1>3, <1>5 DEF CleanEnd
  <2>2. \A i \in 1..synced : file'[i] = file[i]
    BY <1>3, <1>4, <1>5
  <2>3. synced' \in synced..Len(file')
    BY <1>0, <1>1, <1>2, <2>1
  <2> QED
    BY <1>2, <2>1, <2>2, <2>3, <1>0 DEF CrashLeaves, CleanEnd
<1>6. ASSUME k < Len(Submitted), faults < MaxFaults, faults' = faults + 1,
             NEW form \in Cut(Submitted[k + 1]),
             file' = Append(SubSeq(Submitted, 1, k),
                            [Submitted[k + 1] EXCEPT !.form = form])
      PROVE  CrashLeaves
  <2> DEFINE torn == [Submitted[k + 1] EXCEPT !.form = form]
  <2>1. Submitted[k + 1] \in Piece
    BY <1>0, <1>2, <1>6
  <2>2. torn \in Piece /\ torn.form # "whole"
        /\ torn.id = Submitted[k + 1].id /\ torn.prev = Submitted[k + 1].prev
    BY <2>1, <1>6, CutType
  <2>3. file' = Append(SubSeq(Submitted, 1, k), torn)
    BY <1>6
  <2> HIDE DEF torn
  <2>4. /\ file' \in Seq(Piece) /\ Len(file') = k + 1 /\ file'[k + 1] = torn
        /\ \A i \in 1..k : file'[i] = SubSeq(Submitted, 1, k)[i]
    BY <1>3, <2>2, <2>3, Appended
  <2>5. \A i \in 1..k : file'[i] = Submitted[i]
    BY <1>3, <2>4
  <2>6. TornEnd
    <3>1. Len(file') > synced /\ Len(file') - 1 = k
      BY <1>0, <1>2, <2>4
    <3>2. file'[Len(file')].form # "whole"
      BY <2>2, <2>4
    <3> QED
      BY <1>6, <2>5, <3>1, <3>2 DEF TornEnd
  <2>7. \A i \in 1..Len(file') :
            file'[i].id = Submitted[i].id /\ file'[i].prev = Submitted[i].prev
    <3> TAKE i \in 1..Len(file')
    <3>1. i \in 1..k \/ i = k + 1
      BY <1>2, <2>4
    <3> QED
      BY <3>1, <2>2, <2>4, <2>5
  <2>8. \A i \in 1..synced : file'[i] = file[i]
    BY <1>4, <2>5
  <2>9. synced' \in synced..Len(file') /\ Len(file') \in synced..Len(Submitted)
    BY <1>0, <1>1, <1>2, <1>6, <2>4
  <2> QED
    BY <2>4, <2>6, <2>7, <2>8, <2>9 DEF CrashLeaves
<1> QED
  BY <1>1, <1>5, <1>6

LEMMA TypeStep == TypeOK /\ [Next]_vars => TypeOK'
<1> SUFFICES ASSUME TypeOK, [Next]_vars PROVE TypeOK'
  OBVIOUS
<1> USE Zero
<1>1. ASSUME NEW r \in Receipts, Record(r) \/ Finalize(r) PROVE TypeOK'
  BY <1>1 DEF TypeOK, Record, Finalize, Stage, Appending
<1>2. ASSUME NEW r \in Receipts, Lock(r) PROVE TypeOK'
  BY <1>2 DEF TypeOK, Lock, Stage, Appending
<1>3. ASSUME NEW r \in Receipts, Write(r) PROVE TypeOK'
  <2>1. holder = r /\ holder # 0
    BY <1>3, HolderIs DEF Write
  <2>2. Line("whole") \in Piece
    BY <2>1, LineType DEF Form
  <2>3. file' \in Seq(Piece) /\ Len(file') = Len(file) + 1
    BY <1>3, <2>2, Appended DEF Write, TypeOK
  <2> QED
    BY <1>3, <2>1, <2>3 DEF TypeOK, Write, Stage, Appending
<1>4. ASSUME NEW r \in Receipts, WriteRefused(r) \/ SyncFails(r) PROVE TypeOK'
  <2>1. holder = r
    BY <1>4, HolderIs DEF WriteRefused, SyncFails
  <2> QED
    BY <1>4, <2>1, LogAssumption DEF TypeOK, WriteRefused, SyncFails, Drop, Stage, Appending
<1>5. ASSUME NEW r \in Receipts, WriteCutShort(r) PROVE TypeOK'
  <2>1. holder = r /\ holder # 0
    BY <1>5, HolderIs DEF WriteCutShort
  <2>2. PICK form \in Cut(Line("whole")) : file' = Append(file, Line(form))
    BY <1>5 DEF WriteCutShort
  <2>3. Line(form) \in Piece
    BY <2>1, LineType DEF Form, Cut
  <2>4. file' \in Seq(Piece) /\ Len(file') = Len(file) + 1
    BY <2>2, <2>3, Appended DEF TypeOK
  <2> QED
    BY <1>5, <2>1, <2>4, LogAssumption DEF TypeOK, WriteCutShort, Drop, Stage, Appending
<1>6. ASSUME NEW r \in Receipts, Sync(r) PROVE TypeOK'
  <2>1. holder = r
    BY <1>6, HolderIs DEF Sync
  <2> QED
    BY <1>6, <2>1 DEF TypeOK, Sync, Stage, Appending
<1>7. CASE Crash
  <2>1. CrashLeaves
    BY <1>7, CrashFile
  <2>2. file' \in Seq(Piece) /\ synced' \in 0..Len(file')
    BY <2>1 DEF CrashLeaves, TypeOK
  <2>3. faults' \in 0..MaxFaults
    BY <2>1, LogAssumption DEF CrashLeaves, CleanEnd, TornEnd, TypeOK
  <2>4. /\ daemon' = "down" /\ holder' = 0 /\ head' = 0 /\ link' = 0
        /\ crashes < MaxCrashes /\ crashes' = crashes + 1
    BY <1>7 DEF Crash
  <2>5. crashes' \in 0..MaxCrashes
    BY <2>4, LogAssumption DEF TypeOK
  <2>6. stage' \in [Receipts -> Stage \ Appending]
    BY <1>7 DEF Crash, TypeOK, Stage, Appending
  <2>7. \A r \in Receipts : holder' = r <=> stage'[r] \in {"write", "sync"}
    BY <2>4, <2>6 DEF Appending
  <2>8. stage' \in [Receipts -> Stage]
    BY <2>6
  <2>9. /\ head' \in {0} \cup Receipts /\ holder' \in {0} \cup Receipts
        /\ link' \in {0} \cup Receipts /\ daemon' \in {"up", "down", "refused"}
    BY <2>4
  <2> QED
    BY <2>2, <2>3, <2>5, <2>7, <2>8, <2>9 DEF TypeOK
<1>8. CASE Start
  <2>1. file # <<>> => LastReceiptHash \in Receipts
    <3>1. file # <<>> => file[Len(file)] \in Piece
      BY DEF TypeOK
    <3> QED
      BY <3>1 DEF LastReceiptHash, Piece
  <2> QED
    BY <1>8, <2>1 DEF TypeOK, Start, LastReceiptHash
<1>9. CASE UNCHANGED vars
  BY <1>9 DEF TypeOK, vars
<1> QED
  BY <1>1, <1>2, <1>3, <1>4, <1>5, <1>6, <1>7, <1>8, <1>9 DEF Next, InAppend

\* The types of the receipt log (ReceiptLog in receipt.go), and that a receipt
\* is between Append's first and last statement exactly while it has the mutex.
THEOREM TypeCorrect == Spec => []TypeOK
<1>1. Init => TypeOK
  BY LogAssumption DEF Init, TypeOK, Stage
<1> QED
  BY <1>1, TypeStep, PTL DEF Spec

------------------------------------------------------------------------------
(* The inductive invariant, part by part. *)

LEMMA Adding ==
    ASSUME TypeOK, NEW r \in Receipts, Write(r) \/ WriteCutShort(r)
    PROVE  /\ stage[r] = "write" /\ holder = r
           /\ Len(file) \in Nat /\ Len(file') = Len(file) + 1
           /\ DOMAIN file = 1..Len(file) /\ DOMAIN file' = 1..Len(file) + 1
           /\ \A i \in 1..Len(file) : file'[i] = file[i]
           /\ file'[Len(file) + 1].id = r /\ file'[Len(file) + 1].prev = link
           /\ Write(r) => file'[Len(file) + 1].form = "whole"
           /\ WriteCutShort(r) => file'[Len(file) + 1].form # "whole"
<1>1. stage[r] = "write" /\ holder = r /\ holder # 0
  BY HolderIs DEF Write, WriteCutShort
<1>2. PICK form \in Form :
        /\ file' = Append(file, Line(form))
        /\ Write(r) => form = "whole"
        /\ WriteCutShort(r) => form # "whole"
  <2>1. CASE Write(r)
    <3>1. file' = Append(file, Line("whole")) /\ "whole" \in Form /\ stage'[r] = "sync"
      BY <2>1 DEF Write, Form, TypeOK
    <3>2. ~WriteCutShort(r)
      BY <3>1 DEF WriteCutShort, Drop, TypeOK
    <3> QED
      BY <3>1, <3>2
  <2>2. CASE WriteCutShort(r)
    <3>1. PICK form \in Cut(Line("whole")) : file' = Append(file, Line(form))
      BY <2>2 DEF WriteCutShort
    <3>2. form \in Form /\ form # "whole"
      BY DEF Cut, Form
    <3>3. ~Write(r)
      BY <2>2 DEF Write, WriteCutShort, Drop, TypeOK
    <3> QED
      BY <3>1, <3>2, <3>3
  <2> QED
    BY <2>1, <2>2
<1>3. /\ Line(form) \in Piece
      /\ Line(form).id = r /\ Line(form).prev = link /\ Line(form).form = form
  BY <1>1, LineType
<1>4. file \in Seq(Piece) /\ Len(file) \in Nat
  BY DEF TypeOK
<1> QED
  BY <1>1, <1>2, <1>3, <1>4, Appended

\* The stages after a crash, and the pieces that were submitted.
LEMMA Crashing ==
    ASSUME TypeOK, Crash
    PROVE  /\ \A r \in Receipts :
                stage'[r] = IF stage[r] \in Appending \cup {"pending"} THEN "lost" ELSE stage[r]
           /\ daemon' = "down"
           /\ Len(file) \in Nat /\ Len(file') \in Nat /\ synced \in Nat
           /\ DOMAIN file = 1..Len(file) /\ DOMAIN file' = 1..Len(file')
           /\ synced <= Len(file) /\ synced <= Len(file') /\ Len(file') <= Len(file) + 1
           /\ \A i \in 1..Len(file') :
                \/ /\ i \in 1..Len(file)
                   /\ file'[i].id = file[i].id /\ file'[i].prev = file[i].prev
                \/ /\ i = Len(file) + 1
                   /\ holder \in Receipts /\ stage[holder] = "write"
                   /\ file'[i].id = holder /\ file'[i].prev = link
<1>1. CrashLeaves
  BY CrashFile
<1>2. /\ Len(file) \in Nat /\ Len(file') \in Nat /\ synced \in Nat
      /\ DOMAIN file = 1..Len(file) /\ DOMAIN file' = 1..Len(file')
  BY <1>1 DEF CrashLeaves, TypeOK
<1>3. synced <= Len(file) /\ synced <= Len(file') /\ Len(file') <= Len(Submitted)
  BY <1>1, <1>2 DEF CrashLeaves, TypeOK
<1>4. Len(Submitted) \in {Len(file), Len(file) + 1}
  BY SubmittedIs
<1>5. ASSUME NEW i \in 1..Len(file')
      PROVE  \/ /\ i \in 1..Len(file)
                /\ file'[i].id = file[i].id /\ file'[i].prev = file[i].prev
             \/ /\ i = Len(file) + 1
                /\ holder \in Receipts /\ stage[holder] = "write"
                /\ file'[i].id = holder /\ file'[i].prev = link
  <2>1. file'[i].id = Submitted[i].id /\ file'[i].prev = Submitted[i].prev
    BY <1>1 DEF CrashLeaves
  <2>2. CASE i \in 1..Len(file)
    BY <2>1, <2>2, SubmittedIs
  <2>3. CASE i \notin 1..Len(file)
    <3>1. i = Len(file) + 1 /\ Len(Submitted) # Len(file)
      BY <1>2, <1>3, <1>4, <2>3
    <3>2. holder # 0 /\ stage[holder] = "write" /\ Submitted[i] = Line("whole")
      BY <3>1, SubmittedIs
    <3>3. Line("whole").id = holder /\ Line("whole").prev = link
      BY <3>2, LineType DEF Form
    <3> QED
      BY <2>1, <3>1, <3>2, <3>3 DEF TypeOK
  <2> QED
    BY <2>2, <2>3
<1>6. /\ stage' = [r \in Receipts |->
            IF stage[r] \in Appending \cup {"pending"} THEN "lost" ELSE stage[r]]
      /\ daemon' = "down"
  BY DEF Crash
<1>7. \A r \in Receipts :
            stage'[r] = IF stage[r] \in Appending \cup {"pending"} THEN "lost" ELSE stage[r]
  BY <1>6
<1> QED
  BY <1>2, <1>3, <1>4, <1>5, <1>6, <1>7

\* The stages of the receipts that are in the file.
InFile == Stage \ {"undecided", "pending", "append", "write"}

LEMMA FileType ==
    ASSUME TypeOK
    PROVE  /\ DOMAIN file = 1..Len(file) /\ Len(file) \in Nat
           /\ \A i \in DOMAIN file : file[i] \in Piece /\ file[i].id \in Receipts
           /\ stage \in [Receipts -> Stage]
<1>1. \A i \in DOMAIN file : file[i] \in Piece
  BY DEF TypeOK
<1> QED
  BY <1>1 DEF TypeOK, Piece

LEMMA WrittenOnceKept ==
    ASSUME TypeOK, WrittenOnce, file' = file, NEW r \in Receipts, NEW s \in Stage,
           stage' = [stage EXCEPT ![r] = s], stage[r] \notin InFile \/ s \in InFile
    PROVE  WrittenOnce'
<1>1. ASSUME NEW i \in DOMAIN file PROVE stage'[file[i].id] \in InFile
  <2>1. file[i].id \in Receipts /\ stage[file[i].id] \in InFile
    BY FileType DEF WrittenOnce, InFile
  <2> QED
    BY <2>1 DEF TypeOK
<1> QED
  BY <1>1 DEF WrittenOnce, InFile

LEMMA WrittenOnceStep ==
    ASSUME TypeOK, WrittenOnce, [Next]_vars PROVE WrittenOnce'
<1> USE Zero
<1>0. /\ DOMAIN file = 1..Len(file) /\ \A i \in DOMAIN file : file[i].id \in Receipts
      /\ stage \in [Receipts -> Stage]
  BY FileType
<1>1. ASSUME NEW r \in Receipts, Record(r) \/ Finalize(r) \/ Lock(r) PROVE WrittenOnce'
  <2>1. /\ file' = file /\ stage[r] \notin InFile
        /\ \E s \in Stage : stage' = [stage EXCEPT ![r] = s]
    BY <1>1 DEF Record, Finalize, Lock, Stage, Appending, InFile
  <2> QED
    BY <2>1, WrittenOnceKept
<1>2. ASSUME NEW r \in Receipts, WriteRefused(r) \/ Sync(r) \/ SyncFails(r) PROVE WrittenOnce'
  <2>1. file' = file /\ \E s \in InFile : stage' = [stage EXCEPT ![r] = s]
    BY <1>2 DEF WriteRefused, Sync, SyncFails, Drop, Stage, Appending, InFile
  <2>2. InFile \subseteq Stage
    BY DEF InFile
  <2> QED
    BY <2>1, <2>2, WrittenOnceKept
<1>3. ASSUME NEW r \in Receipts, Write(r) \/ WriteCutShort(r) PROVE WrittenOnce'
  <2>1. \A i \in DOMAIN file : file[i].id # r
    BY <1>3, Adding DEF WrittenOnce
  <2>2. \A i, j \in DOMAIN file' : file'[i].id = file'[j].id => i = j
    <3> TAKE i, j \in DOMAIN file'
    <3>1. (i \in DOMAIN file \/ i = Len(file) + 1) /\ (j \in DOMAIN file \/ j = Len(file) + 1)
      BY <1>3, Adding
    <3> QED
      BY <1>3, <2>1, <3>1, Adding DEF WrittenOnce
  <2>3. PICK s \in {"sync", "dropped"} : stage' = [stage EXCEPT ![r] = s]
    BY <1>3 DEF Write, WriteCutShort, Drop
  <2>4. ASSUME NEW i \in DOMAIN file'
        PROVE  stage'[file'[i].id] \in Stage \ {"undecided", "pending", "append", "write"}
    <3>1. CASE i \in DOMAIN file
      <4>1. file'[i].id = file[i].id /\ file[i].id \in Receipts
        BY <1>0, <1>3, <3>1, Adding
      <4>2. stage[file[i].id] \in InFile
        BY <3>1 DEF WrittenOnce, InFile
      <4>3. stage'[file[i].id] \in InFile
        BY <1>0, <2>3, <4>1, <4>2 DEF InFile, Stage, Appending
      <4> QED
        BY <4>1, <4>3 DEF InFile
    <3>2. CASE i = Len(file) + 1
      <4>1. file'[i].id = r
        BY <1>3, <3>2, Adding
      <4> QED
        BY <1>0, <2>3, <4>1 DEF Stage, Appending
    <3> QED
      BY <1>3, <3>1, <3>2, Adding
  <2> QED
    BY <2>2, <2>4 DEF WrittenOnce
<1>4. CASE Crash
  <2>1. ASSUME NEW i \in DOMAIN file', NEW j \in DOMAIN file', file'[i].id = file'[j].id
        PROVE  i = j
    <3>1. CASE i \in DOMAIN file /\ j \in DOMAIN file
      BY <1>4, <2>1, <3>1, Crashing DEF WrittenOnce
    <3>2. CASE ~(i \in DOMAIN file /\ j \in DOMAIN file)
      <4>1. \A k \in DOMAIN file : stage[file[k].id] # "write"
        BY DEF WrittenOnce
      <4> QED
        BY <1>4, <2>1, <3>2, <4>1, Crashing
    <3> QED
      BY <3>1, <3>2
  <2>2. ASSUME NEW i \in DOMAIN file'
        PROVE  stage'[file'[i].id] \in Stage \ {"undecided", "pending", "append", "write"}
    <3>1. file'[i].id \in Receipts /\ stage[file'[i].id] \notin {"undecided", "pending", "append"}
      BY <1>0, <1>4, Crashing DEF WrittenOnce
    <3>2. stage[file'[i].id] \in Stage
      BY <1>0, <3>1
    <3> QED
      BY <1>4, <3>1, <3>2, Crashing DEF Stage, Appending
  <2> QED
    BY <2>1, <2>2 DEF WrittenOnce
<1>5. CASE Start \/ UNCHANGED vars
  BY <1>5 DEF WrittenOnce, Start, vars
<1> QED
  BY <1>1, <1>2, <1>3, <1>4, <1>5 DEF Next, InAppend

LEMMA OutlivedStep ==
    ASSUME TypeOK, Outlived, [Next]_vars PROVE Outlived'
<1>1. ASSUME NEW r \in Receipts, Record(r) PROVE Outlived'
  BY <1>1 DEF Outlived, Record
<1>2. ASSUME NEW r \in Receipts, Finalize(r) \/ InAppend(r) PROVE Outlived'
  <2>1. stage[r] \in Appending \cup {"pending"} /\ daemon' = daemon
    BY <1>2 DEF Finalize, InAppend, Lock, Write, WriteRefused, WriteCutShort, Sync,
                SyncFails, Drop, Appending
  <2> QED
    BY <2>1 DEF Outlived
<1>3. CASE Crash
  BY <1>3, Crashing DEF Outlived, Appending
<1>4. CASE Start \/ UNCHANGED vars
  BY <1>4 DEF Outlived, Start, vars
<1> QED
  BY <1>1, <1>2, <1>3, <1>4 DEF Next

\* At most one receipt is being written or flushed.
LEMMA OneHolder ==
    ASSUME TypeOK, NEW r \in Receipts, stage[r] \in {"write", "sync"},
           NEW q \in Receipts, stage[q] \in {"write", "sync"}
    PROVE  q = r
  BY HolderIs

LEMMA AtTheEndStep ==
    ASSUME TypeOK, AtTheEnd, [Next]_vars PROVE AtTheEnd'
<1>1. ASSUME NEW r \in Receipts,
             \/ Record(r) \/ Finalize(r) \/ Lock(r) \/ WriteRefused(r)
             \/ Sync(r) \/ SyncFails(r)
      PROVE AtTheEnd'
  <2>1. file' = file /\ \A q \in Receipts : stage'[q] = "sync" => stage[q] = "sync"
    BY <1>1 DEF Record, Finalize, Lock, WriteRefused, Sync, SyncFails, Drop, TypeOK
  <2> QED
    BY <2>1 DEF AtTheEnd
<1>2. ASSUME NEW r \in Receipts, Write(r) PROVE AtTheEnd'
  <2>1. ASSUME NEW q \in Receipts, stage'[q] = "sync" PROVE q = r
    <3>1. q # r => stage[q] = "sync"
      BY <1>2, <2>1 DEF Write, TypeOK
    <3> QED
      BY <1>2, <3>1, OneHolder DEF Write
  <2> QED
    BY <1>2, <2>1, Adding DEF AtTheEnd
<1>3. ASSUME NEW r \in Receipts, WriteCutShort(r) PROVE AtTheEnd'
  <2>1. \A q \in Receipts : stage'[q] # "sync"
    <3> SUFFICES ASSUME NEW q \in Receipts, stage'[q] = "sync" PROVE FALSE
      OBVIOUS
    <3>1. q # r /\ stage[q] = "sync"
      BY <1>3 DEF WriteCutShort, Drop, TypeOK
    <3> QED
      BY <1>3, <3>1, OneHolder DEF WriteCutShort
  <2> QED
    BY <2>1 DEF AtTheEnd
<1>4. CASE Crash
  BY <1>4, Crashing DEF AtTheEnd, Appending
<1>5. CASE Start \/ UNCHANGED vars
  BY <1>5 DEF AtTheEnd, Start, vars
<1> QED
  BY <1>1, <1>2, <1>3, <1>4, <1>5 DEF Next, InAppend

\* What is stable stays as it is, and what is logged stays logged.
LEMMA StableStays ==
    ASSUME TypeOK, [Next]_vars
    PROVE  /\ synced' \in Nat /\ synced <= synced'
           /\ \A i \in 1..synced : file'[i] = file[i]
           /\ \A r \in Receipts : stage[r] = "logged" => stage'[r] = "logged"
<1>0. synced \in Nat /\ Len(file) \in Nat /\ synced <= Len(file)
  BY DEF TypeOK
<1>1. ASSUME NEW r \in Receipts, Record(r) \/ Finalize(r) \/ InAppend(r)
      PROVE  \A q \in Receipts : stage[q] = "logged" => stage'[q] = "logged"
  <2>1. stage[r] # "logged" /\ \E s \in Stage : stage' = [stage EXCEPT ![r] = s]
    BY <1>1 DEF Record, Finalize, InAppend, Lock, Write, WriteRefused, WriteCutShort, Sync,
                SyncFails, Drop, Stage, Appending
  <2> QED
    BY <2>1 DEF TypeOK
<1>2. ASSUME NEW r \in Receipts,
             \/ Record(r) \/ Finalize(r) \/ Lock(r) \/ WriteRefused(r)
             \/ Sync(r) \/ SyncFails(r)
      PROVE  file' = file /\ synced' \in {synced, Len(file)}
  BY <1>2 DEF Record, Finalize, Lock, WriteRefused, Sync, SyncFails, Drop
<1>3. ASSUME NEW r \in Receipts, Write(r) \/ WriteCutShort(r)
      PROVE  synced' = synced /\ \A i \in 1..synced : file'[i] = file[i]
  <2>1. synced' = synced
    BY <1>3 DEF Write, WriteCutShort, Drop
  <2>2. \A i \in 1..synced : i \in 1..Len(file)
    BY <1>0
  <2> QED
    BY <1>3, <2>1, <2>2, Adding
<1>4. CASE Crash
  <2>1. synced' \in Nat /\ synced <= synced' /\ \A i \in 1..synced : file'[i] = file[i]
    BY <1>0, <1>4, CrashFile DEF CrashLeaves
  <2>2. \A r \in Receipts : stage[r] = "logged" => stage'[r] = "logged"
    BY <1>4, Crashing DEF Appending
  <2> QED
    BY <2>1, <2>2
<1>5. CASE Start \/ UNCHANGED vars
  BY <1>0, <1>5 DEF Start, vars
<1> QED
  BY <1>0, <1>1, <1>2, <1>3, <1>4, <1>5 DEF Next, InAppend

LEMMA LoggedStableStep ==
    ASSUME TypeOK, AtTheEnd, LoggedStable, [Next]_vars PROVE LoggedStable'
<1>1. ASSUME NEW r \in Receipts, stage[r] = "logged"
      PROVE  \E i \in 1..synced' : file'[i].id = r /\ file'[i].form = "whole"
  <2>1. PICK i \in 1..synced : file[i].id = r /\ file[i].form = "whole"
    BY <1>1 DEF LoggedStable
  <2>2. synced \in Nat /\ i \in 1..synced' /\ file'[i] = file[i]
    BY <2>1, StableStays DEF TypeOK
  <2> QED
    BY <2>1, <2>2
<1>2. ASSUME NEW r \in Receipts, stage[r] # "logged", stage'[r] = "logged"
      PROVE  \E i \in 1..synced' : file'[i].id = r /\ file'[i].form = "whole"
  <2>1. Sync(r)
    <3>1. ASSUME NEW q \in Receipts,
                 \/ Record(q) \/ Finalize(q) \/ Lock(q) \/ Write(q) \/ WriteRefused(q)
                 \/ WriteCutShort(q) \/ SyncFails(q)
          PROVE  FALSE
      BY <1>2, <3>1 DEF Record, Finalize, Lock, Write, WriteRefused, WriteCutShort,
                        SyncFails, Drop, TypeOK
    <3>2. ASSUME NEW q \in Receipts, Sync(q) PROVE q = r
      BY <1>2, <3>2 DEF Sync, TypeOK
    <3>3. ~Crash
      <4> SUFFICES ASSUME Crash PROVE FALSE
        OBVIOUS
      <4> QED
        BY <1>2, Crashing
    <3>4. ~Start /\ ~UNCHANGED vars
      BY <1>2 DEF Start, vars
    <3> QED
      BY <3>1, <3>2, <3>3, <3>4 DEF Next, InAppend
  <2>2. stage[r] = "sync" /\ synced' = Len(file) /\ file' = file
    BY <2>1 DEF Sync
  <2>3. Len(file) \in 1..synced' /\ file'[Len(file)].id = r /\ file'[Len(file)].form = "whole"
    BY <2>2 DEF AtTheEnd, TypeOK
  <2> QED
    BY <2>3
<1> QED
  BY <1>1, <1>2 DEF LoggedStable

\* The pieces after a crash are those before it, but for one that is torn.
LEMMA CrashPieces ==
    ASSUME TypeOK, Crash, NEW i \in 1..Len(file')
    PROVE  \/ /\ faults' = faults + 1 /\ i = Len(file') /\ file'[i].form # "whole"
           \/ i \in 1..Len(file) /\ file'[i] = file[i]
           \/ /\ i = Len(file) + 1 /\ file'[i].form = "whole" /\ file'[i].id = holder
              /\ stage[holder] = "write" /\ holder \in Receipts
<1>1. CrashLeaves
  BY CrashFile
<1>2. \/ faults' = faults + 1 /\ i = Len(file') /\ file'[i].form # "whole"
      \/ file'[i] = Submitted[i]
  <2>1. Len(file') \in Nat
    BY Crashing
  <2>2. i \in 1..Len(file') - 1 \/ i = Len(file')
    BY <2>1
  <2> QED
    BY <1>1, <2>2 DEF CrashLeaves, CleanEnd, TornEnd
<1>3. CASE file'[i] = Submitted[i] /\ i \in 1..Len(file)
  BY <1>3, SubmittedIs
<1>4. CASE file'[i] = Submitted[i] /\ i \notin 1..Len(file)
  <2>1. /\ i = Len(file) + 1 /\ holder \in Receipts /\ stage[holder] = "write"
        /\ file'[i].id = holder
    BY <1>4, Crashing
  <2>2. Len(Submitted) # Len(file)
    <3>1. Len(file') <= Len(Submitted)
      BY <1>1, SubmittedIs DEF CrashLeaves, TypeOK
    <3> QED
      BY <2>1, <3>1, Crashing, SubmittedIs
  <2>3. Submitted[i] = Line("whole") /\ Line("whole").form = "whole"
    BY <2>1, <2>2, SubmittedIs, LineType DEF Form
  <2> QED
    BY <1>4, <2>1, <2>3
<1> QED
  BY <1>2, <1>3, <1>4

\* A receipt whose Append failed stays dropped.
LEMMA DroppedStays ==
    ASSUME TypeOK, [Next]_vars, NEW q \in Receipts, stage[q] = "dropped"
    PROVE  stage'[q] = "dropped"
<1>1. ASSUME NEW r \in Receipts, Record(r) \/ Finalize(r) \/ InAppend(r)
      PROVE  stage'[q] = "dropped"
  <2>1. stage[r] # "dropped" /\ \E s \in Stage : stage' = [stage EXCEPT ![r] = s]
    BY <1>1 DEF Record, Finalize, InAppend, Lock, Write, WriteRefused, WriteCutShort, Sync,
                SyncFails, Drop, Stage, Appending
  <2> QED
    BY <2>1 DEF TypeOK
<1>2. CASE Crash
  BY <1>2, Crashing DEF Appending
<1>3. CASE Start \/ UNCHANGED vars
  BY <1>3 DEF Start, vars
<1> QED
  BY <1>1, <1>2, <1>3 DEF Next

\* Without a crash the pieces that are there stay as they are.
LEMMA PiecesStay ==
    ASSUME TypeOK, [Next]_vars, ~Crash
    PROVE  /\ Len(file) <= Len(file')
           /\ \A i \in DOMAIN file : i \in DOMAIN file' /\ file'[i] = file[i]
<1>1. ASSUME NEW r \in Receipts, Write(r) \/ WriteCutShort(r)
      PROVE  /\ Len(file) <= Len(file')
             /\ \A i \in DOMAIN file : i \in DOMAIN file' /\ file'[i] = file[i]
  BY <1>1, Adding
<1>2. ASSUME ~\E r \in Receipts : Write(r) \/ WriteCutShort(r) PROVE file' = file
  BY <1>2 DEF Next, InAppend, Record, Finalize, Lock, WriteRefused, Sync, SyncFails, Drop,
              Start, vars
<1> QED
  BY <1>1, <1>2, FileType

\* A marked piece stays marked as long as it is there.
LEMMA MarksStay ==
    ASSUME TypeOK, [Next]_vars, NEW i \in Marks, i \in DOMAIN file'
    PROVE  i \in Marks'
<1>1. i \in DOMAIN file /\ file[i].id \in Receipts
  BY FileType DEF Marks
<1>2. CASE file[i].form # "whole" /\ file'[i] = file[i]
  BY <1>2 DEF Marks
<1>3. CASE stage[file[i].id] = "dropped" /\ file'[i].id = file[i].id
  BY <1>1, <1>3, DroppedStays DEF Marks
<1>4. CASE ~Crash
  BY <1>1, <1>2, <1>3, <1>4, PiecesStay DEF Marks
<1>5. CASE Crash
  <2>1. i \in 1..Len(file) /\ i \in 1..Len(file') /\ file'[i].id = file[i].id
    BY <1>1, <1>5, Crashing
  <2>2. file'[i] = file[i] \/ file'[i].form # "whole"
    <3>1. i # Len(file) + 1
      BY <2>1, FileType
    <3> QED
      BY <1>5, <2>1, <3>1, CrashPieces
  <2> QED
    BY <1>2, <1>3, <2>1, <2>2 DEF Marks
<1> QED
  BY <1>4, <1>5

\* An error marks at most one piece, and nothing else does.
MarksGrow ==
    \/ faults' = faults /\ Marks' \subseteq Marks
    \/ faults' = faults + 1 /\ \E x : Marks' \subseteq Marks \cup {x}

\* What a step that leaves the pieces alone marks.
LEMMA MarkedBy ==
    ASSUME TypeOK, file' = file, NEW r \in Receipts, NEW s \in Stage,
           stage' = [stage EXCEPT ![r] = s], NEW i \in Marks'
    PROVE  i \in Marks \/ (s = "dropped" /\ i \in DOMAIN file /\ file[i].id = r)
<1>1. i \in DOMAIN file /\ file[i].id \in Receipts
  BY FileType DEF Marks
<1>2. file[i].form # "whole" \/ stage'[file[i].id] = "dropped"
  BY DEF Marks
<1>3. CASE file[i].id = r
  BY <1>1, <1>2, <1>3, FileType DEF Marks
<1>4. CASE file[i].id # r
  BY <1>1, <1>2, <1>4, FileType DEF Marks
<1> QED
  BY <1>3, <1>4

LEMMA MarksStep ==
    ASSUME TypeOK, WrittenOnce, AtTheEnd, [Next]_vars PROVE MarksGrow
<1>1. ASSUME NEW r \in Receipts, Record(r) \/ Finalize(r) \/ Lock(r) \/ Sync(r)
      PROVE  MarksGrow
  <2>1. /\ file' = file /\ faults' = faults
        /\ \E s \in Stage \ {"dropped"} : stage' = [stage EXCEPT ![r] = s]
    BY <1>1 DEF Record, Finalize, Lock, Sync, Stage, Appending
  <2> QED
    BY <2>1, MarkedBy DEF MarksGrow
<1>2. ASSUME NEW r \in Receipts, WriteRefused(r) PROVE MarksGrow
  <2>1. /\ file' = file /\ faults' = faults /\ stage[r] = "write"
        /\ stage' = [stage EXCEPT ![r] = "dropped"]
    BY <1>2 DEF WriteRefused, Drop
  <2>2. "dropped" \in Stage
    BY DEF Stage
  <2>3. \A i \in DOMAIN file : file[i].id # r
    BY <2>1 DEF WrittenOnce
  <2> QED
    BY <2>1, <2>2, <2>3, MarkedBy DEF MarksGrow
<1>3. ASSUME NEW r \in Receipts, SyncFails(r) PROVE MarksGrow
  <2>1. /\ file' = file /\ faults' = faults + 1 /\ stage[r] = "sync"
        /\ stage' = [stage EXCEPT ![r] = "dropped"]
    BY <1>3 DEF SyncFails, Drop
  <2>2. "dropped" \in Stage
    BY DEF Stage
  <2>3. Len(file) \in DOMAIN file /\ file[Len(file)].id = r
    BY <2>1, FileType DEF AtTheEnd
  <2>4. \A i \in DOMAIN file : file[i].id = r => i = Len(file)
    BY <2>3 DEF WrittenOnce
  <2>5. Marks' \subseteq Marks \cup {Len(file)}
    BY <2>1, <2>2, <2>4, MarkedBy
  <2> QED
    BY <2>1, <2>5 DEF MarksGrow
<1>4. ASSUME NEW r \in Receipts, Write(r) \/ WriteCutShort(r) PROVE MarksGrow
  <2>1. \A i \in DOMAIN file : file[i].id # r
    BY <1>4, Adding DEF WrittenOnce
  <2>2. ASSUME NEW i \in Marks' PROVE i \in Marks \/ i = Len(file) + 1
    <3>1. i \in DOMAIN file' /\ (file'[i].form # "whole" \/ stage'[file'[i].id] = "dropped")
      BY DEF Marks
    <3>2. CASE i \in DOMAIN file
      <4>1. file'[i] = file[i] /\ file[i].id \in Receipts \ {r}
        BY <1>4, <2>1, <3>2, Adding, FileType
      <4>2. \E s \in Stage : stage' = [stage EXCEPT ![r] = s]
        BY <1>4 DEF Write, WriteCutShort, Drop, Stage, Appending
      <4>3. stage'[file[i].id] = stage[file[i].id]
        BY <4>1, <4>2, FileType
      <4> QED
        BY <3>1, <3>2, <4>1, <4>3 DEF Marks
    <3> QED
      BY <1>4, <3>1, <3>2, Adding
  <2>3. CASE Write(r)
    <3>1. Len(file) + 1 \notin Marks'
      <4>1. /\ file'[Len(file) + 1].form = "whole" /\ file'[Len(file) + 1].id = r
            /\ stage'[r] = "sync"
        BY <2>3, Adding DEF Write, TypeOK
      <4> QED
        BY <4>1 DEF Marks
    <3>2. faults' = faults
      BY <2>3 DEF Write
    <3> QED
      BY <2>2, <3>1, <3>2 DEF MarksGrow
  <2>4. CASE WriteCutShort(r)
    <3>1. Marks' \subseteq Marks \cup {Len(file) + 1} /\ faults' = faults + 1
      BY <2>2, <2>4 DEF WriteCutShort
    <3> QED
      BY <3>1 DEF MarksGrow
  <2> QED
    BY <1>4, <2>3, <2>4
<1>5. CASE Crash
  <2>1. ASSUME NEW i \in Marks'
        PROVE  i \in Marks \/ (faults' = faults + 1 /\ i = Len(file'))
    <3>1. i \in 1..Len(file') /\ (file'[i].form # "whole" \/ stage'[file'[i].id] = "dropped")
      BY <1>5, Crashing DEF Marks
    <3>2. CASE i \in 1..Len(file) /\ file'[i] = file[i]
      <4>1. i \in DOMAIN file /\ file[i].id \in Receipts
        BY <3>2, FileType
      <4>2. stage'[file[i].id] = "dropped" => stage[file[i].id] = "dropped"
        BY <1>5, <4>1, Crashing
      <4> QED
        BY <3>1, <3>2, <4>1, <4>2 DEF Marks
    <3>3. CASE /\ i = Len(file) + 1 /\ file'[i].form = "whole" /\ file'[i].id = holder
               /\ stage[holder] = "write" /\ holder \in Receipts
      <4>1. stage'[holder] = "lost"
        BY <1>5, <3>3, Crashing DEF Appending
      <4> QED
        BY <3>1, <3>3, <4>1
    <3> QED
      BY <1>5, <3>1, <3>2, <3>3, CrashPieces
  <2>2. faults' = faults \/ faults' = faults + 1
    BY <1>5, CrashFile DEF CrashLeaves, CleanEnd, TornEnd
  <2>3. faults \in Nat
    BY LogAssumption DEF TypeOK
  <2>4. faults' = faults => Marks' \subseteq Marks
    BY <2>1, <2>3
  <2>5. Marks' \subseteq Marks \cup {Len(file')}
    BY <2>1
  <2> QED
    BY <2>2, <2>4, <2>5 DEF MarksGrow
<1>6. CASE Start \/ UNCHANGED vars
  BY <1>6 DEF MarksGrow, Marks, Start, vars
<1> QED
  BY <1>1, <1>2, <1>3, <1>4, <1>5, <1>6 DEF Next, InAppend

LEMMA MarksFinite ==
    ASSUME TypeOK
    PROVE  IsFiniteSet(Marks) /\ Cardinality(Marks) \in Nat
<1>1. Marks \subseteq 1..Len(file)
  BY FileType DEF Marks
<1>2. IsFiniteSet(1..Len(file))
  BY FileType, FS_Interval
<1> QED
  BY <1>1, <1>2, FS_Subset, FS_CardinalityType

\* One more element, or none.
LEMMA AtMostOneMore ==
    ASSUME NEW S, IsFiniteSet(S), NEW x, NEW T, T \subseteq S \cup {x}
    PROVE  /\ IsFiniteSet(T) /\ Cardinality(T) \in Nat
           /\ Cardinality(T) <= Cardinality(S) + 1
<1>1. IsFiniteSet(S \cup {x}) /\ Cardinality(S) \in Nat /\ Cardinality(S \cup {x}) \in Nat
  BY FS_AddElement, FS_CardinalityType
<1>2. Cardinality(S \cup {x}) <= Cardinality(S) + 1
  BY <1>1, FS_AddElement
<1>3. IsFiniteSet(T) /\ Cardinality(T) <= Cardinality(S \cup {x})
  BY <1>1, FS_Subset
<1>4. Cardinality(T) \in Nat
  BY <1>3, FS_CardinalityType
<1> QED
  BY <1>1, <1>2, <1>3, <1>4

LEMMA FewMarksStep ==
    ASSUME TypeOK, WrittenOnce, AtTheEnd, FewMarks, [Next]_vars PROVE FewMarks'
<1>1. IsFiniteSet(Marks) /\ Cardinality(Marks) \in Nat /\ faults \in Nat
  BY MarksFinite, LogAssumption DEF TypeOK
<1>2. CASE faults' = faults /\ Marks' \subseteq Marks
  <2>1. Cardinality(Marks') <= Cardinality(Marks) /\ Cardinality(Marks') \in Nat
    BY <1>1, <1>2, FS_Subset, FS_CardinalityType
  <2> QED
    BY <1>1, <1>2, <2>1 DEF FewMarks
<1>3. ASSUME faults' = faults + 1, NEW x, Marks' \subseteq Marks \cup {x} PROVE FewMarks'
  <2>1. Cardinality(Marks') <= Cardinality(Marks) + 1 /\ Cardinality(Marks') \in Nat
    BY <1>1, <1>3, AtMostOneMore
  <2> QED
    BY <1>1, <1>3, <2>1 DEF FewMarks
<1> QED
  BY <1>2, <1>3, MarksStep DEF MarksGrow

\* The receipt that is being written names the last piece, or that is marked.
LEMMA LinkIs ==
    ASSUME TypeOK, Outlived, HeadFollows, NEW r \in Receipts, stage[r] = "write"
    PROVE  link = Tip(Len(file)) \/ Len(file) \in Marks
<1>1. daemon = "up"
  BY DEF Outlived, Appending
<1>2. \A q \in Receipts : stage[q] # "sync"
  BY OneHolder
<1> QED
  BY <1>1, <1>2 DEF HeadFollows

LEMMA HeadFollowsStep ==
    ASSUME TypeOK, Outlived, AtTheEnd, HeadFollows, [Next]_vars PROVE HeadFollows'
<1> DEFINE Quiet == daemon = "up" /\ \A q \in Receipts : stage[q] # "sync"
           Named == head = Tip(Len(file)) \/ Len(file) \in Marks
           Links == \A q \in Receipts : stage[q] = "write" => link = head
<1>0. SUFFICES (Quiet' => Named') /\ Links'
  BY DEF HeadFollows
<1>1. file' = file /\ head' = head /\ Named => Named'
  <2> SUFFICES ASSUME file' = file, head' = head, Len(file) \in Marks PROVE Len(file) \in Marks'
    BY DEF Tip
  <2> QED
    BY MarksStay DEF Marks
<1>2. (Quiet => Named) /\ Links
  BY DEF HeadFollows
<1>3. ASSUME NEW r \in Receipts, Record(r) \/ Finalize(r) \/ WriteRefused(r)
      PROVE  (Quiet' => Named') /\ Links'
  <2>1. /\ file' = file /\ head' = head /\ link' = link
        /\ \A q \in Receipts : /\ stage[q] = "sync" => stage'[q] = "sync"
                               /\ stage'[q] = "write" => stage[q] = "write"
        /\ daemon' = daemon
    BY <1>3 DEF Record, Finalize, WriteRefused, Drop, TypeOK
  <2> QED
    BY <1>1, <1>2, <2>1
<1>4. ASSUME NEW r \in Receipts, Lock(r) PROVE (Quiet' => Named') /\ Links'
  <2>1. /\ file' = file /\ head' = head /\ link' = head /\ daemon' = daemon
        /\ \A q \in Receipts : stage[q] = "sync" => stage'[q] = "sync"
    BY <1>4 DEF Lock, TypeOK
  <2> QED
    BY <1>1, <1>2, <2>1
<1>5. ASSUME NEW r \in Receipts, Write(r) \/ WriteCutShort(r)
      PROVE  (Quiet' => Named') /\ Links'
  <2>1. \A q \in Receipts : stage'[q] # "write"
    <3> SUFFICES ASSUME NEW q \in Receipts, stage'[q] = "write" PROVE FALSE
      OBVIOUS
    <3>1. q # r /\ stage[q] = "write"
      BY <1>5 DEF Write, WriteCutShort, Drop, TypeOK
    <3> QED
      BY <1>5, <3>1, OneHolder DEF Write, WriteCutShort
  <2>2. Write(r) => ~Quiet'
    BY DEF Write, TypeOK
  <2>3. WriteCutShort(r) => Len(file') \in Marks'
    BY Adding DEF Marks
  <2> QED
    BY <1>5, <2>1, <2>2, <2>3
<1>6. ASSUME NEW r \in Receipts, Sync(r) \/ SyncFails(r)
      PROVE  (Quiet' => Named') /\ Links'
  <2>1. \A q \in Receipts : stage'[q] # "write"
    <3> SUFFICES ASSUME NEW q \in Receipts, stage'[q] = "write" PROVE FALSE
      OBVIOUS
    <3>1. q # r /\ stage[q] = "write"
      BY <1>6 DEF Sync, SyncFails, Drop, TypeOK
    <3> QED
      BY <1>6, <3>1, OneHolder DEF Sync, SyncFails
  <2>2. file' = file /\ Len(file) > 0 /\ file[Len(file)].id = r /\ Len(file) \in DOMAIN file
    BY <1>6, FileType DEF Sync, SyncFails, AtTheEnd
  <2>3. Sync(r) => Named'
    <3>1. Sync(r) => head' = r
      BY DEF Sync
    <3> QED
      BY <2>2, <3>1 DEF Tip
  <2>4. SyncFails(r) => Named'
    <3>1. SyncFails(r) => stage'[r] = "dropped"
      BY DEF SyncFails, Drop, TypeOK
    <3> QED
      BY <2>2, <3>1 DEF Marks
  <2> QED
    BY <1>6, <2>1, <2>3, <2>4
<1>7. CASE Crash
  BY <1>7, Crashing DEF Appending
<1>8. CASE Start
  <2>1. \A q \in Receipts : stage'[q] # "write"
    BY <1>8 DEF Start, Outlived, Appending
  <2>2. Quiet' => head' = Tip(Len(file)) /\ file' = file
    <3>1. Quiet' => head' = LastReceiptHash /\ file' = file
      BY <1>8 DEF Start
    <3>2. file = <<>> <=> Len(file) = 0
      BY DEF TypeOK
    <3> QED
      BY <3>1, <3>2 DEF LastReceiptHash, Tip
  <2> QED
    BY <2>1, <2>2 DEF Tip
<1>9. CASE UNCHANGED vars
  <2>1. Quiet' <=> Quiet
    BY <1>9 DEF vars
  <2>2. Links'
    BY <1>2, <1>9 DEF vars
  <2> QED
    BY <1>1, <1>2, <1>9, <2>1, <2>2 DEF vars
<1> QED
  BY <1>3, <1>4, <1>5, <1>6, <1>7, <1>8, <1>9 DEF Next, InAppend

LEMMA LinkedStep ==
    ASSUME TypeOK, Outlived, HeadFollows, Linked, [Next]_vars PROVE Linked'
<1>1. SUFFICES ASSUME NEW i \in DOMAIN file'
               PROVE  file'[i].prev = (IF i - 1 = 0 THEN 0 ELSE file'[i - 1].id)
                        \/ i - 1 \in Marks'
  BY DEF Linked, Tip
<1>2. \/ i \in DOMAIN file /\ file'[i].prev = file[i].prev
      \/ /\ i = Len(file) + 1 /\ file'[i].prev = link
         /\ \E r \in Receipts : stage[r] = "write"
  <2>1. CASE Crash
    BY <2>1, Crashing
  <2>2. ASSUME NEW r \in Receipts, Write(r) \/ WriteCutShort(r)
        PROVE  \/ i \in DOMAIN file /\ file'[i].prev = file[i].prev
               \/ i = Len(file) + 1 /\ file'[i].prev = link /\ stage[r] = "write"
    BY <2>2, Adding
  <2>3. ASSUME ~Crash, ~\E r \in Receipts : Write(r) \/ WriteCutShort(r) PROVE file' = file
    BY <2>3 DEF Next, InAppend, Record, Finalize, Lock, WriteRefused, Sync, SyncFails, Drop,
                Start, vars
  <2> QED
    BY <2>1, <2>2, <2>3
<1>3. file'[i].prev = Tip(i - 1) \/ i - 1 \in Marks
  <2>1. CASE i \in DOMAIN file /\ file'[i].prev = file[i].prev
    BY <2>1 DEF Linked
  <2>2. CASE /\ i = Len(file) + 1 /\ file'[i].prev = link
             /\ \E r \in Receipts : stage[r] = "write"
    BY <2>2, LinkIs, FileType
  <2> QED
    BY <1>2, <2>1, <2>2
<1>4. i \in Nat /\ (i = 1 \/ (i - 1 \in DOMAIN file' /\ i - 1 \in DOMAIN file))
  <2>1. DOMAIN file' = 1..Len(file') /\ Len(file') \in Nat
    BY TypeStep DEF TypeOK
  <2> QED
    BY <1>2, <2>1, FileType
<1>5. i - 1 \in DOMAIN file /\ i - 1 \in DOMAIN file' => file'[i - 1].id = file[i - 1].id
  <2>1. CASE Crash
    <3> SUFFICES ASSUME i - 1 \in DOMAIN file, i - 1 \in DOMAIN file'
                 PROVE  file'[i - 1].id = file[i - 1].id
      OBVIOUS
    <3>1. i - 1 \in 1..Len(file') /\ i - 1 # Len(file) + 1
      BY <2>1, Crashing
    <3> QED
      BY <2>1, <3>1, Crashing
  <2>2. CASE ~Crash
    BY <2>2, PiecesStay
  <2> QED
    BY <2>1, <2>2
<1>6. i - 1 \in Marks => i - 1 \in DOMAIN file
  BY DEF Marks
<1>7. i - 1 \in Marks => i - 1 \in Marks'
  BY <1>4, <1>6, MarksStay, FileType
<1> QED
  BY <1>3, <1>4, <1>5, <1>7 DEF Tip

LEMMA Invariance == Spec => []IInv
<1>1. Init => IInv
  <2> SUFFICES ASSUME Init PROVE IInv
    OBVIOUS
  <2>1. TypeOK /\ DOMAIN file = {} /\ Len(file) = 0
    BY LogAssumption DEF Init, TypeOK, Stage
  <2>2. Marks = {}
    BY <2>1 DEF Marks
  <2>3. FewMarks
    BY <2>2, FS_EmptySet DEF FewMarks, Init
  <2> QED
    BY <2>1, <2>3 DEF Init, IInv, WrittenOnce, Outlived, AtTheEnd, LoggedStable, HeadFollows,
                      Linked, Tip
<1>2. IInv /\ [Next]_vars => IInv'
  BY TypeStep, WrittenOnceStep, OutlivedStep, AtTheEndStep, LoggedStableStep,
     HeadFollowsStep, LinkedStep, FewMarksStep DEF IInv
<1> QED
  BY <1>1, <1>2, PTL DEF Spec

------------------------------------------------------------------------------
(* What the invariant implies. *)

\* Where the mark is that explains a broken link: on the piece before, on the
\* one before that, or on the torn end of the file itself.
LEMMA BreakExplained ==
    ASSUME IInv, NEW i \in Breaks
    PROVE  i - 1 \in Marks \/ i - 2 \in Marks \/ (i = Len(file) /\ i \in Marks)
<1>1. /\ i \in Ends /\ i \in DOMAIN file
      /\ DOMAIN file = 1..Len(file) /\ Len(file) \in Nat
  BY FileType DEF IInv, Breaks, Ends
<1>2. CASE ~Parses(i)
  <2>1. CASE ~(i = 1 \/ file[i - 1].form = "whole")
    BY <1>1, <2>1 DEF Marks
  <2>2. CASE file[i].form = "part"
    BY <1>1, <2>2 DEF Ends, Marks
  <2> QED
    BY <1>2, <2>1, <2>2 DEF Parses
<1>3. CASE file[i].prev # IF i = 1 THEN 0 ELSE file[i - 1].id
  <2>1. Tip(i - 1) = IF i = 1 THEN 0 ELSE file[i - 1].id
    BY <1>1 DEF Tip
  <2> QED
    BY <1>1, <1>3, <2>1 DEF IInv, Linked
<1>4. CASE i > 1 /\ ~Parses(i - 1)
  <2>1. i - 1 \in DOMAIN file
    BY <1>1, <1>4
  <2>2. CASE ~(i - 1 = 1 \/ file[(i - 1) - 1].form = "whole")
    <3>1. (i - 1) - 1 = i - 2 /\ i - 2 \in DOMAIN file
      BY <1>1, <1>4, <2>2
    <3> QED
      BY <2>2, <3>1 DEF Marks
  <2>3. CASE file[i - 1].form = "part"
    BY <2>1, <2>3 DEF Marks
  <2> QED
    BY <1>4, <2>2, <2>3 DEF Parses
<1> QED
  BY <1>2, <1>3, <1>4 DEF Breaks

\* A mark explains at most two broken links: that behind it and the next.
LEMMA BreaksFew == IInv => BreaksBounded
<1> SUFFICES ASSUME IInv PROVE BreaksBounded
  OBVIOUS
<1>0. /\ Len(file) \in Nat /\ Breaks \subseteq 1..Len(file) /\ Marks \subseteq 1..Len(file)
      /\ IsFiniteSet(Marks) /\ Cardinality(Marks) \in Nat
      /\ Cardinality(Marks) <= faults /\ faults \in Nat
  BY FileType, MarksFinite, LogAssumption DEF IInv, TypeOK, Breaks, Ends, Marks, FewMarks
<1> DEFINE mark == [i \in Breaks |->
                        IF i - 1 \in Marks THEN <<i - 1, 1>>
                        ELSE IF i - 2 \in Marks THEN <<i - 2, 2>> ELSE <<i, 2>>]
<1>1. mark \in Injection(Breaks, Marks \X (1..2))
  <2>1. ASSUME NEW i \in Breaks PROVE mark[i] \in Marks \X (1..2)
    <3>1. i - 1 \in Marks \/ i - 2 \in Marks \/ i \in Marks
      BY BreakExplained
    <3> QED
      BY <3>1
  <2>2. ASSUME NEW i \in Breaks, NEW j \in Breaks, mark[i] = mark[j] PROVE i = j
    <3>1. i \in 1..Len(file) /\ j \in 1..Len(file)
      BY <1>0
    <3>2. \A k \in {i, j} : k - 1 \in Marks \/ k - 2 \in Marks \/ k = Len(file)
      BY BreakExplained
    <3> QED
      BY <1>0, <2>2, <3>1, <3>2
  <2> QED
    BY <2>1, <2>2 DEF Injection, IsInjective
<1> HIDE DEF mark
<1>2. IsFiniteSet(1..2) /\ Cardinality(1..2) = 2
  <2>1. IsFiniteSet(1..2) /\ Cardinality(1..2) = IF 1 > 2 THEN 0 ELSE (2 - 1) + 1
    BY FS_Interval, 1 \in Int, 2 \in Int
  <2> QED
    BY <2>1
<1>3. /\ IsFiniteSet(Marks \X (1..2))
      /\ Cardinality(Marks \X (1..2)) = Cardinality(Marks) * 2
  BY <1>0, <1>2, FS_Product
<1>4. IsFiniteSet(Breaks) /\ Cardinality(Breaks) <= Cardinality(Marks) * 2
  BY <1>1, <1>3, FS_Injection
<1>5. Cardinality(Breaks) \in Nat
  BY <1>4, FS_CardinalityType
<1> QED
  BY <1>0, <1>4, <1>5 DEF BreaksBounded

\* VerifyChain's condition, as Append, OpenReceiptLogFile and the daemon's
\* crashes leave it: without disk errors and torn lines the file is one chain
\* through all channels and restarts, and an error breaks at most two links.
THEOREM BreaksBoundedHolds == Spec => []BreaksBounded
BY Invariance, BreaksFew, PTL

\* Every set of numbers that is not empty has a least one.
LEMMA LeastExists ==
    ASSUME NEW T, T \subseteq Nat, T # {}
    PROVE  \E x \in T : \A y \in T : x <= y
<1> DEFINE below == {1..x : x \in T}
<1>1. IsWellFoundedOn(StrictSubsetOrdering(Nat), FiniteSubsetsOf(Nat))
  BY FS_StrictSubsetOrderingWellFounded
<1>2. below \subseteq FiniteSubsetsOf(Nat)
  <2> SUFFICES ASSUME NEW x \in T PROVE 1..x \in FiniteSubsetsOf(Nat)
    OBVIOUS
  <2>1. IsFiniteSet(1..x)
    BY FS_Interval
  <2>2. 1..x \subseteq Nat
    OBVIOUS
  <2> QED
    BY <2>1, <2>2 DEF FiniteSubsetsOf
<1>3. below # {}
  OBVIOUS
<1> HIDE DEF below
<1>4. PICK m \in below : \A n \in below : <<n, m>> \notin StrictSubsetOrdering(Nat)
  BY <1>1, <1>2, <1>3, WFMin, Zenon
<1> USE DEF below
<1>5. PICK x \in T : m = 1..x
  OBVIOUS
<1>6. ASSUME NEW y \in T, y < x PROVE FALSE
  <2>1. <<1..y, m>> \notin StrictSubsetOrdering(Nat)
    BY <1>4
  <2>2. 1..y \subseteq m /\ x \in m /\ x \notin 1..y
    BY <1>5, <1>6
  <2>3. 1..y \in SUBSET Nat /\ m \in SUBSET Nat
    BY <1>5
  <2> QED
    BY <2>1, <2>2, <2>3 DEF StrictSubsetOrdering
<1> QED
  BY <1>6

\* Where no link is broken, a line of the file is a line by itself, and names the
\* line before it or is the first.
LEMMA Unbroken ==
    ASSUME IInv, NEW p \in Ends, p \notin Breaks
    PROVE  /\ p \in Nat \ {0}
           /\ file[p].prev = IF p = 1 THEN 0 ELSE file[p - 1].id
           /\ p # 1 => p - 1 \in Ends /\ file[p - 1].id \in Receipts
<1>1. /\ p \in DOMAIN file /\ DOMAIN file = 1..Len(file) /\ Len(file) \in Nat
      /\ \A i \in DOMAIN file : file[i].id \in Receipts
  BY FileType DEF IInv, Ends
<1>2. file[p].prev = IF p = 1 THEN 0 ELSE file[p - 1].id
  BY DEF Breaks
<1>3. p # 1 => p - 1 \in DOMAIN file /\ file[p - 1].form = "whole"
  BY <1>1 DEF Breaks, Parses
<1> QED
  BY <1>1, <1>2, <1>3 DEF Ends

\* An entry whose hash is right and belongs to a line of the file is that line.
LEMMA Genuine ==
    ASSUME IInv, NEW entry \in Entries, entry.hash = hashHex(entry)
    PROVE  /\ entry.id # 0
           /\ \A p \in Ends : entry.hash = file[p].id => entry = Entry(p)
<1>0. /\ \A i \in DOMAIN file : file[i].id \in Receipts
      /\ \A i, j \in DOMAIN file : file[i].id = file[j].id => i = j
      /\ Ends \subseteq DOMAIN file
  BY FileType DEF IInv, WrittenOnce, Ends
<1>1. CASE entry \in [id : Edits, prev : Hashes, hash : Hashes]
  <2>1. entry.id \in Edits
    BY <1>1
  <2> QED
    BY <1>0, <2>1, LogAssumption DEF hashHex
<1>2. ASSUME NEW q \in Ends, entry = Entry(q)
      PROVE  entry.id # 0 /\ \A p \in Ends : entry.hash = file[p].id => entry = Entry(p)
  <2>1. entry.id = file[q].id /\ entry.hash = file[q].id
    BY <1>2 DEF Entry
  <2>2. \A p \in Ends : entry.hash = file[p].id => p = q
    BY <1>0, <2>1
  <2> QED
    BY <1>0, <1>2, <2>1, <2>2, Zero
<1> QED
  BY <1>1, <1>2 DEF Entries

\* Going back from a genuine receipt, entry by entry and line by line.
LEMMA Evident == IInv => TamperEvident
<1> SUFFICES ASSUME IInv,
                    NEW n \in 0..Shown, NEW before \in [1..n -> Entries],
                    NEW i \in Ends, \A b \in Breaks : i < b,
                    VerifyChain(Append(before, Entry(i)))
             PROVE  before = [j \in 1..(i - 1) |-> Entry(j)]
  BY DEF TamperEvident
<1> DEFINE seen == Append(before, Entry(i))
           Same(k) == i - k \in Ends /\ seen[n + 1 - k] = Entry(i - k)
           wrong == {k \in 0..n : ~Same(k)}
<1>0. n \in Nat /\ i \in Nat \ {0} /\ Ends \subseteq Nat
  BY FileType, LogAssumption DEF IInv, Ends
<1>1. /\ DOMAIN seen = 1..n + 1
      /\ seen[n + 1] = Entry(i)
      /\ \A j \in 1..n : seen[j] = before[j] /\ seen[j] \in Entries
  <2>1. before \in Seq(Entries) /\ Len(before) = n
    BY <1>0
  <2> QED
    BY <1>0, <2>1
<1>2. /\ \A j \in 1..n + 1 :
            seen[j].prev = IF j = 1 THEN 0 ELSE seen[j - 1].hash
      /\ \A j \in 1..n + 1 : seen[j].hash = hashHex(seen[j])
  <2> HIDE DEF seen
  <2> QED
    BY <1>1 DEF VerifyChain, seen
<1> HIDE DEF seen
<1>3. wrong = {}
  <2> SUFFICES ASSUME wrong # {} PROVE FALSE
    OBVIOUS
  <2>1. PICK k \in wrong : \A l \in wrong : k <= l
    <3>1. wrong \subseteq Nat
      BY <1>0
    <3> HIDE DEF wrong
    <3> QED
      BY <3>1, LeastExists
  <2>2. k \in 0..n /\ ~Same(k)
    OBVIOUS
  <2>3. k # 0
    BY <1>0, <1>1, <2>2
  <2>4. Same(k - 1)
    <3>1. k - 1 \in 0..n /\ ~(k <= k - 1)
      BY <1>0, <2>2, <2>3
    <3>2. k - 1 \notin wrong
      BY <2>1, <3>1
    <3> HIDE DEF Same
    <3> QED
      BY <3>1, <3>2
  <2> DEFINE p == i - (k - 1)
             at == n + 1 - (k - 1)
  <2>5. p \in Ends /\ p \in Nat /\ seen[at] = Entry(p) /\ at \in 2..n + 1
    BY <1>0, <2>2, <2>3, <2>4
  <2>6. p \notin Breaks
    BY <1>0, <2>2, <2>3, <2>5
  <2>7. /\ n + 1 - k = at - 1 /\ at - 1 \in 1..n
        /\ i - k = p - 1
    BY <1>0, <2>2, <2>3
  <2> HIDE DEF p, at
  <2>8. file[p].prev = seen[at - 1].hash
    BY <1>0, <1>2, <2>5 DEF Entry
  <2>9. seen[at - 1] \in Entries /\ seen[at - 1].hash = hashHex(seen[at - 1])
    BY <1>0, <1>1, <1>2, <2>7
  <2>10. p # 1
    BY <2>5, <2>6, <2>8, <2>9, Genuine, Unbroken DEF hashHex
  <2>11. p - 1 \in Ends /\ file[p - 1].id = seen[at - 1].hash
    BY <2>5, <2>6, <2>8, <2>10, Unbroken
  <2>12. seen[at - 1] = Entry(p - 1)
    BY <2>9, <2>11, Genuine
  <2> QED
    BY <2>2, <2>7, <2>11, <2>12
<1>4. \A k \in 0..n : Same(k)
  BY <1>3
<1>5. i = n + 1
  <2>1. Same(n) /\ n + 1 - n = 1 /\ 1 \in 1..n + 1
    BY <1>0, <1>4
  <2>2. i - n \in Ends /\ seen[1] = Entry(i - n)
    BY <1>0, <2>1
  <2>3. file[i - n].prev = 0
    BY <1>2, <2>1, <2>2 DEF Entry
  <2>4. i - n \notin Breaks
    BY <1>0, <2>2
  <2>5. i - n = 1
    BY <2>2, <2>3, <2>4, Unbroken, Zero
  <2> QED
    BY <1>0, <2>5
<1>6. ASSUME NEW j \in 1..n PROVE before[j] = Entry(j)
  <2>1. n + 1 - j \in 0..n /\ n + 1 - (n + 1 - j) = j /\ i - (n + 1 - j) = j
    BY <1>0, <1>5, <1>6
  <2>2. seen[j] = Entry(j)
    BY <1>4, <2>1
  <2> QED
    BY <1>1, <2>2
<1>7. 1..(i - 1) = 1..n
  BY <1>0, <1>5
<1> QED
  BY <1>6, <1>7

\* An auditor who runs VerifyChain over any entries, genuine or edited, that end
\* in a receipt known to be genuine is satisfied only by the lines of the file
\* before it, all of them, in order, if no error broke a link up to there.
THEOREM TamperEvidentHolds == Spec => []TamperEvident
BY Invariance, Evident, PTL

------------------------------------------------------------------------------
(* The file implements the trail. *)

\* The trail line by line.
TrailLines ==
    /\ synced \in Nat /\ Len(Stable) = synced /\ DOMAIN Stable = 1..synced
    /\ \A i \in 1..synced :
            /\ i \in DOMAIN file
            /\ Stable[i] = IF Readable(i) THEN file[i].id ELSE 0
    /\ Stable \in Seq({0} \cup Receipts)

LEMMA StableTrail == TypeOK => TrailLines
<1> SUFFICES ASSUME TypeOK PROVE TrailLines
  OBVIOUS
<1>1. synced \in Nat /\ \A i \in 1..synced : i \in DOMAIN file
  BY FileType DEF TypeOK
<1>2. \A i \in 1..synced : (IF Readable(i) THEN file[i].id ELSE 0) \in {0} \cup Receipts
  BY <1>1, FileType
<1> QED
  BY <1>1, <1>2 DEF Stable, TrailLines

\* Receipts are in the trail once, and those that are logged can be read in it or
\* are accounted for.
TrailComplete ==
    /\ Trail!EachOnce(Stable)
    /\ Trail!Accounted({r \in Receipts : stage[r] = "logged"}, Stable)

LEMMA StableComplete == IInv => TrailComplete
<1> SUFFICES ASSUME IInv PROVE TrailComplete
  OBVIOUS
<1>0. TrailLines
  BY StableTrail DEF IInv
<1>1. ASSUME NEW i \in DOMAIN Stable, NEW j \in DOMAIN Stable, Stable[i] = Stable[j], Stable[i] # 0
      PROVE  i = j
  <2>1. file[i].id = file[j].id /\ i \in DOMAIN file /\ j \in DOMAIN file
    BY <1>0, <1>1 DEF TrailLines
  <2> QED
    BY <2>1 DEF IInv, WrittenOnce
<1> DEFINE missing == {r \in Receipts : stage[r] = "logged"} \ Trail!Range(Stable)
           place == [r \in missing |->
                        CHOOSE i \in 1..synced : file[i].id = r /\ file[i].form = "whole"]
<1>2. ASSUME NEW r \in missing
      PROVE  place[r] \in 1..synced /\ file[place[r]].id = r /\ file[place[r]].form = "whole"
  <2>1. \E i \in 1..synced : file[i].id = r /\ file[i].form = "whole"
    BY <1>2 DEF IInv, LoggedStable
  <2> QED
    BY <2>1
<1> HIDE DEF place
\* A missing receipt was written whole, so the piece before it was not.
<1>3. ASSUME NEW r \in missing
      PROVE  LET p == place[r]
             IN  p \in 2..synced /\ Stable[p] = 0 /\ Stable[p - 1] = 0
                 /\ file[p - 1].form # "whole"
  <2> DEFINE p == place[r]
  <2>1. p \in 1..synced /\ p \in DOMAIN Stable /\ file[p].id = r /\ file[p].form = "whole"
    BY <1>0, <1>2 DEF TrailLines
  <2>2. Stable[p] # r
    BY <2>1 DEF Trail!Range
  <2>3. ~Readable(p)
    BY <1>0, <2>1, <2>2 DEF TrailLines
  <2>4. p > 1 /\ file[p - 1].form # "whole"
    BY <2>1, <2>3 DEF Readable
  <2>5. p \in 2..synced /\ p - 1 \in 1..synced /\ ~Readable(p - 1)
    BY <1>0, <2>1, <2>4 DEF TrailLines, Readable
  <2> QED
    BY <1>0, <2>1, <2>3, <2>4, <2>5 DEF TrailLines
<1>4. place \in Trail!Injection(missing, 2..Len(Stable))
  <2>1. place \in [missing -> 2..Len(Stable)]
    BY <1>0, <1>3 DEF place, TrailLines
  <2>2. \A r, q \in missing : place[r] = place[q] => r = q
    BY <1>2
  <2> QED
    BY <2>1, <2>2 DEF Trail!Injection, Trail!IsInjective
<1>5. ASSUME NEW p \in Trail!Range(place)
      PROVE  Stable[p] = 0 /\ Stable[p - 1] = 0 /\ p - 1 \notin Trail!Range(place)
  <2>0. DOMAIN place = missing
    BY DEF place
  <2>1. PICK r \in missing : p = place[r]
    BY <2>0 DEF Trail!Range
  <2>2. \A q \in missing : place[q] # p - 1
    BY <1>2, <1>3, <2>1
  <2> QED
    BY <1>3, <2>0, <2>1, <2>2 DEF Trail!Range
<1>6. Trail!Accounted({r \in Receipts : stage[r] = "logged"}, Stable)
  BY <1>4, <1>5 DEF Trail!Accounted
<1> QED
  BY <1>1, <1>6 DEF Trail!EachOnce, TrailComplete

\* A beginning of a sequence.
LEMMA Beginning ==
    ASSUME NEW S, NEW s \in Seq(S), NEW t \in Seq(S), Len(s) <= Len(t),
           \A i \in 1..Len(s) : t[i] = s[i]
    PROVE  s = SubSeq(t, 1, Len(s))
  OBVIOUS

\* A step of the log extends the trail.
LEMMA TrailGrows ==
    ASSUME TypeOK, TypeOK', [Next]_vars
    PROVE  /\ Len(Stable) <= Len(Stable')
           /\ Stable = SubSeq(Stable', 1, Len(Stable))
<1>1. TrailLines /\ TrailLines'
  BY StableTrail, PTL
<1>2. synced <= synced' /\ \A i \in 1..synced : file'[i] = file[i]
  BY StableStays
<1>3. Len(Stable) = synced /\ Len(Stable') = synced' /\ synced \in Nat /\ synced' \in Nat
  BY <1>1 DEF TrailLines
<1>4. \A i \in 1..synced : i \in 1..synced'
  BY <1>2, <1>3
<1>5. \A i \in 1..synced : Stable'[i] = Stable[i]
  <2> SUFFICES ASSUME NEW i \in 1..synced PROVE Stable'[i] = Stable[i]
    OBVIOUS
  <2>1. i > 1 => i - 1 \in 1..synced
    BY <1>3
  <2>2. Readable(i)' <=> Readable(i)
    BY <1>2, <2>1 DEF Readable
  <2> QED
    BY <1>1, <1>2, <1>4, <2>2 DEF TrailLines
<1>6. Stable \in Seq({0} \cup Receipts) /\ Stable' \in Seq({0} \cup Receipts)
  BY <1>1 DEF TrailLines
<1> QED
  BY <1>2, <1>3, <1>5, <1>6, Beginning

\* ReceiptLog's file, as far as it is flushed, is the auditor's trail: Append,
\* its errors, crashes of daemon and machine and restarts only extend it, and
\* what Append acknowledged (returned nil for) can be read in it for good, or
\* was written behind a torn piece, one receipt for each of those.
THEOREM Implements == Spec => ImplementsTrail
<1>1. Init => Trail!Init
  BY DEF Init, Trail!Init, Stable
<1>2. IInv /\ IInv' /\ [Next]_vars => [Trail!Record]_(Trail!vars)
  <2> SUFFICES ASSUME IInv, IInv', [Next]_vars PROVE Trail!Record
    BY DEF Trail!vars
  <2>1. /\ Len(Stable) <= Len(Stable')
        /\ Stable = SubSeq(Stable', 1, Len(Stable))
    BY TrailGrows DEF IInv
  <2>2. TrailComplete'
    BY StableComplete, PTL
  <2>3. {r \in Receipts : stage[r] = "logged"} \subseteq {r \in Receipts : stage'[r] = "logged"}
    BY StableStays DEF IInv
  <2> QED
    BY <2>1, <2>2, <2>3 DEF Trail!Record, TrailComplete
<1> QED
  BY <1>1, <1>2, Invariance, PTL DEF Spec, ImplementsTrail, Trail!Spec

==============================================================================

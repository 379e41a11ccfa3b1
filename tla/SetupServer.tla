----------------------------- MODULE SetupServer -----------------------------
(***************************************************************************)
(* The server end of a tunnel (cmd/grimlock/tunnel.go): handleIncomingTCP, *)
(* serverAttest and handleForwardingConnection, for several inbound        *)
(* connections that share the semaphore of set-up slots.                   *)
(*                                                                         *)
(* A connection has one deadline at a time, and each stage of its life     *)
(* sets, inherits or clears it: the set-up sets it, a gate or resumption   *)
(* overwrites it and clears it on return, the header sets it again.        *)
(* Deadlines and timers are counted down by Tick; a goroutine that waits   *)
(* past its deadline fails whenever it is scheduled, not at once.          *)
(***************************************************************************)
EXTENDS Naturals, FiniteSets

CONSTANTS
    Conns,          \* inbound connections that may exist at a time
    Capacity,       \* maxConcurrentSetups
    SetupTimeout, AcquireTimeout, DialTimeout,      \* in ticks
    Settings,       \* the daemon's flags: see SettingsType
    Unbounded       \* SetDeadline(time.Time{})

SettingsType ==
    [attested : BOOLEAN,    \* attestEnabled
     gate : Nat,            \* --attest-timeout, 0 for none
     ttl : Nat]             \* --attest-reattest-interval, 0 for none

ASSUME ServerAssumption ==
    /\ IsFiniteSet(Conns)
    /\ {Capacity, SetupTimeout, AcquireTimeout, DialTimeout} \subseteq Nat \ {0}
    /\ Settings \subseteq SettingsType
    /\ Unbounded \notin Nat

Deadline == Nat \cup {Unbounded}

VARIABLES
    flags,      \* the settings the daemon was started with
    sem,        \* tokens in setupSem
    slotFreed,  \* slotFreed[c]: c holds no slot
    pc,         \* pc[c]: the stage c's handler is in
    deadline,   \* deadline[c]: ticks until reads and writes on c fail
    timer,      \* timer[c]: ticks until the wait for a slot or an agent ends
    peer,       \* peer[c]: the client's end: open, eof (half-closed) or gone
    relays,     \* relays[c]: directions being copied
    blocked,    \* blocked[c]: the relay to the agent waits to write to it
    agent,      \* agent[c]: the local agent's end: away, open, ended (it has
                \* been sent the end of the requests) or closed
    reply       \* reply[c]: what the agent answered: none, written, delivered

conn == <<pc, deadline, timer, relays, blocked, agent, reply>>
vars == <<flags, sem, slotFreed, peer, conn>>

Directions == {"to agent", "to peer"}
Setup == {"handshake", "mode", "gate", "resume"}
Stages == {"none", "waiting", "header", "dial", "relay"} \cup Setup

\* Every variable holds a value of its type.
TypeOK ==
    /\ flags \in Settings
    /\ sem \in 0..Capacity
    /\ slotFreed \in [Conns -> BOOLEAN]
    /\ pc \in [Conns -> Stages]
    /\ deadline \in [Conns -> Deadline]
    /\ timer \in [Conns -> Nat]
    /\ peer \in [Conns -> {"open", "eof", "gone"}]
    /\ relays \in [Conns -> SUBSET Directions]
    /\ blocked \in [Conns -> BOOLEAN]
    /\ agent \in [Conns -> {"away", "open", "ended", "closed"}]
    /\ reply \in [Conns -> {"none", "written", "delivered"}]

Init ==
    /\ flags \in Settings
    /\ sem = 0
    /\ slotFreed = [c \in Conns |-> TRUE]
    /\ pc = [c \in Conns |-> "none"]
    /\ deadline = [c \in Conns |-> Unbounded]
    /\ timer = [c \in Conns |-> 0]
    /\ peer = [c \in Conns |-> "gone"]
    /\ relays = [c \in Conns |-> {}]
    /\ blocked = [c \in Conns |-> FALSE]
    /\ agent = [c \in Conns |-> "away"]
    /\ reply = [c \in Conns |-> "none"]

------------------------------------------------------------------------------
(* Slots. *)

Holders == {c \in Conns : ~slotFreed[c]}

\* Mutant: a slot is given back whether or not it was before.
MutantFreeSlot(c) ==
    /\ sem > 0 /\ sem' = sem - 1
    /\ slotFreed' = [slotFreed EXCEPT ![c] = TRUE]

\* freeSlot: receiving from setupSem would block if it were empty.
FreeSlot(c) ==
    \/ slotFreed[c] /\ UNCHANGED <<sem, slotFreed>>
    \/ /\ ~slotFreed[c]
       /\ sem > 0 /\ sem' = sem - 1
       /\ slotFreed' = [slotFreed EXCEPT ![c] = TRUE]

\* The handler returns: its deferred calls free the slot and close the connections.
Return(c) ==
    /\ pc' = [pc EXCEPT ![c] = "none"]
    /\ deadline' = [deadline EXCEPT ![c] = Unbounded]
    /\ timer' = [timer EXCEPT ![c] = 0]
    /\ relays' = [relays EXCEPT ![c] = {}]
    /\ blocked' = [blocked EXCEPT ![c] = FALSE]
    /\ agent' = [agent EXCEPT ![c] = "away"]
    /\ reply' = [reply EXCEPT ![c] = "none"]
    /\ FreeSlot(c)
    /\ UNCHANGED <<flags, peer>>

\* A peer connects; acceptLoop starts a handler, which waits for a slot.
Accept(c) ==
    /\ pc[c] = "none"
    /\ pc' = [pc EXCEPT ![c] = "waiting"]
    /\ timer' = [timer EXCEPT ![c] = AcquireTimeout]
    /\ peer' = [peer EXCEPT ![c] = "open"]
    /\ UNCHANGED <<flags, sem, slotFreed, deadline, relays, blocked, agent, reply>>

\* Mutant: one connection too many is admitted.
MutantSlotFree == sem <= Capacity

SlotFree == sem < Capacity

\* Mutant: the set-up starts without a deadline.
MutantAcquire(c) ==
    /\ pc[c] = "waiting" /\ SlotFree
    /\ sem' = sem + 1
    /\ slotFreed' = [slotFreed EXCEPT ![c] = FALSE]
    /\ pc' = [pc EXCEPT ![c] = "handshake"]
    /\ timer' = [timer EXCEPT ![c] = 0]
    /\ UNCHANGED <<flags, deadline, peer, relays, blocked, agent, reply>>

\* A slot is free: the set-up starts, under its deadline.
Acquire(c) ==
    /\ pc[c] = "waiting" /\ SlotFree
    /\ sem' = sem + 1
    /\ slotFreed' = [slotFreed EXCEPT ![c] = FALSE]
    /\ pc' = [pc EXCEPT ![c] = "handshake"]
    /\ deadline' = [deadline EXCEPT ![c] = SetupTimeout]
    /\ timer' = [timer EXCEPT ![c] = 0]
    /\ UNCHANGED <<flags, peer, relays, blocked, agent, reply>>

\* The wait for a slot is over; when one is free as well either may happen.
Shed(c) ==
    /\ pc[c] = "waiting" /\ timer[c] = 0
    /\ Return(c)

------------------------------------------------------------------------------
(* Set-up. *)

Reading == Setup \cup {"header"}
Expired(c) == deadline[c] = 0

\* The peer's bytes for this stage arrive in time.
Arrives(c) == peer[c] # "gone" /\ ~Expired(c)

Enter(c, stage) == pc' = [pc EXCEPT ![c] = stage]

\* The handshake completes: in CA mode that is the whole set-up.
Handshake(c) ==
    /\ pc[c] = "handshake" /\ Arrives(c)
    /\ \/ flags.attested /\ Enter(c, "mode") /\ UNCHANGED <<sem, slotFreed>>
       \/ ~flags.attested /\ Enter(c, "header") /\ FreeSlot(c)
    /\ UNCHANGED <<flags, peer, deadline, timer, relays, blocked, agent, reply>>

\* serverAttest: resume if the peer proposes it and its secret is cached here,
\* else a full gate.  Either sets its own deadline, if it has one.
Mode(c) ==
    /\ pc[c] = "mode" /\ Arrives(c)
    /\ \E stage \in {"gate", "resume"} : Enter(c, stage)
    /\ deadline' = IF flags.gate > 0 THEN [deadline EXCEPT ![c] = flags.gate] ELSE deadline
    /\ UNCHANGED <<flags, sem, slotFreed, peer, timer, relays, blocked, agent, reply>>

\* The gate or resumption succeeds, clears the deadline it set, and the slot
\* is freed.
Attested(c) ==
    /\ pc[c] \in {"gate", "resume"} /\ Arrives(c)
    /\ Enter(c, "header")
    /\ deadline' = IF flags.gate > 0 THEN [deadline EXCEPT ![c] = Unbounded] ELSE deadline
    /\ FreeSlot(c)
    /\ UNCHANGED <<flags, peer, timer, relays, blocked, agent, reply>>

\* The peer, a quote or an authentication tag is not accepted.
Rejected(c) ==
    /\ pc[c] \in {"handshake", "gate", "resume"}
    /\ Return(c)

\* A read or write fails: the deadline has passed or the peer has gone.
SetupFails(c) ==
    /\ pc[c] \in Reading
    /\ Expired(c) \/ peer[c] # "open"
    /\ Return(c)

\* Mutant: the deadline is not set again when the set-up is complete.
MutantServingDeadline(c) == deadline' = [deadline EXCEPT ![c] = Unbounded]

\* From the header on a connection is served for one re-attestation interval.
ServingDeadline(c) ==
    deadline' = [deadline EXCEPT ![c] = IF flags.ttl > 0 THEN flags.ttl ELSE Unbounded]

Header(c) ==
    /\ pc[c] = "header" /\ Arrives(c)
    /\ Enter(c, "dial")
    /\ ServingDeadline(c)
    /\ timer' = [timer EXCEPT ![c] = DialTimeout]
    /\ UNCHANGED <<flags, sem, slotFreed, peer, relays, blocked, agent, reply>>

------------------------------------------------------------------------------
(* Data. *)

\* The local agent is dialled: it accepts, or refuses, or does not answer.
Connected(c) ==
    /\ pc[c] = "dial"
    /\ Enter(c, "relay")
    /\ timer' = [timer EXCEPT ![c] = 0]
    /\ relays' = [relays EXCEPT ![c] = Directions]
    /\ agent' = [agent EXCEPT ![c] = "open"]
    /\ UNCHANGED <<flags, sem, slotFreed, peer, deadline, blocked, reply>>

Refused(c) == pc[c] = "dial" /\ Return(c)

DialFails(c) == pc[c] = "dial" /\ timer[c] = 0 /\ Return(c)

Told(c) == agent' = [agent EXCEPT ![c] = IF @ = "open" THEN "ended" ELSE @]

\* Mutant: the relay to the agent ends without closing the agent's write side.
MutantStop(c, direction) ==
    /\ relays' = [relays EXCEPT ![c] = @ \ {direction}]
    /\ UNCHANGED agent

\* A relay ends and closes the write side it copied to; the other goes on.
Stop(c, direction) ==
    /\ relays' = [relays EXCEPT ![c] = @ \ {direction}]
    /\ IF direction = "to agent" THEN Told(c) ELSE UNCHANGED agent

\* Requests are copied faster than the agent takes them: the relay to the agent
\* waits in a write, which no deadline bounds.  (An end that the peer sends
\* behind them counts from when it is the next to be read.)
Blocks(c) ==
    /\ "to agent" \in relays[c] /\ ~blocked[c]
    /\ agent[c] = "open" /\ peer[c] = "open" /\ ~Expired(c)
    /\ blocked' = [blocked EXCEPT ![c] = TRUE]
    /\ UNCHANGED <<flags, sem, slotFreed, peer, pc, deadline, timer, relays, agent, reply>>

\* The relay to the agent reads an EOF or an error from the tunnel.
RequestsEnd(c) ==
    /\ "to agent" \in relays[c] /\ ~blocked[c]
    /\ peer[c] # "open" \/ Expired(c)
    /\ Stop(c, "to agent")
    /\ UNCHANGED <<flags, sem, slotFreed, peer, pc, deadline, timer, blocked, reply>>

\* It writes what the peer sent, now or before, to an agent that has closed.
RequestsRefused(c) ==
    /\ "to agent" \in relays[c]
    /\ agent[c] = "closed" /\ (peer[c] = "open" \/ blocked[c])
    /\ Stop(c, "to agent")
    /\ blocked' = [blocked EXCEPT ![c] = FALSE]
    /\ UNCHANGED <<flags, sem, slotFreed, peer, pc, deadline, timer, reply>>

\* The relay to the peer copies what the agent has written.
Deliver(c) ==
    /\ "to peer" \in relays[c]
    /\ reply[c] = "written" /\ peer[c] # "gone" /\ ~Expired(c)
    /\ reply' = [reply EXCEPT ![c] = "delivered"]
    /\ UNCHANGED <<flags, sem, slotFreed, peer, pc, deadline, timer, relays, blocked, agent>>

\* It cannot write, or all is copied and the agent has closed.
RepliesEnd(c) ==
    /\ "to peer" \in relays[c]
    /\ \/ reply[c] = "written" /\ (peer[c] = "gone" \/ Expired(c))
       \/ reply[c] # "written" /\ agent[c] = "closed"
    /\ Stop(c, "to peer")
    /\ UNCHANGED <<flags, sem, slotFreed, peer, pc, deadline, timer, blocked, reply>>

\* wg.Wait: both relays have ended.
Served(c) ==
    /\ pc[c] = "relay" /\ relays[c] = {}
    /\ Return(c)

------------------------------------------------------------------------------
(* The peer, the agent and time. *)

PeerCloses(c) ==
    /\ pc[c] # "none"
    /\ \/ peer[c] = "open" /\ peer' = [peer EXCEPT ![c] = "eof"]
       \/ peer[c] # "gone" /\ peer' = [peer EXCEPT ![c] = "gone"]
    /\ UNCHANGED <<flags, sem, slotFreed, conn>>

\* The agent takes the requests that were waiting.
AgentReads(c) ==
    /\ blocked[c] /\ agent[c] = "open"
    /\ blocked' = [blocked EXCEPT ![c] = FALSE]
    /\ UNCHANGED <<flags, sem, slotFreed, peer, pc, deadline, timer, relays, agent, reply>>

AgentReplies(c) ==
    /\ agent[c] \in {"open", "ended"} /\ reply[c] = "none"
    /\ reply' = [reply EXCEPT ![c] = "written"]
    /\ UNCHANGED <<flags, sem, slotFreed, peer, pc, deadline, timer, relays, blocked, agent>>

AgentCloses(c) ==
    /\ agent[c] \in {"open", "ended"}
    /\ agent' = [agent EXCEPT ![c] = "closed"]
    /\ UNCHANGED <<flags, sem, slotFreed, peer, pc, deadline, timer, relays, blocked, reply>>

Tick ==
    /\ deadline' = [c \in Conns |->
            IF deadline[c] \in {Unbounded, 0} THEN deadline[c] ELSE deadline[c] - 1]
    /\ timer' = [c \in Conns |-> IF timer[c] > 0 THEN timer[c] - 1 ELSE 0]
    /\ UNCHANGED <<flags, sem, slotFreed, pc, peer, relays, blocked, agent, reply>>

\* What the handler does of its own accord.
Handler(c) ==
    \/ Acquire(c) \/ Shed(c) \/ SetupFails(c) \/ DialFails(c)
    \/ RequestsEnd(c) \/ (blocked[c] /\ RequestsRefused(c)) \/ RepliesEnd(c)
    \/ Served(c)

\* What needs the peer or the agent to answer.
Answered(c) ==
    \/ Handshake(c) \/ Mode(c) \/ Attested(c) \/ Rejected(c) \/ Header(c)
    \/ Connected(c) \/ Refused(c) \/ Blocks(c) \/ RequestsRefused(c) \/ Deliver(c)

Environment(c) ==
    \/ Accept(c) \/ PeerCloses(c)
    \/ AgentReads(c) \/ AgentReplies(c) \/ AgentCloses(c)

Next == Tick \/ \E c \in Conns : Handler(c) \/ Answered(c) \/ Environment(c)

Spec == Init /\ [][Next]_vars

\* Handlers run and time passes; no peer and no agent owes an answer.
FairSpec ==
    /\ Spec
    /\ \A c \in Conns : WF_vars(Handler(c))
    /\ WF_vars(Tick)
------------------------------------------------------------------------------
(* Properties. *)

\* The tokens in the semaphore are those of the connections that hold a slot,
\* and a connection holds one from its admission to the end of its set-up: no
\* path frees a slot twice, keeps it into the data phase or loses it.
SlotsConserved ==
    /\ sem = Cardinality(Holders)
    /\ Holders = {c \in Conns : pc[c] \in Setup}

\* A peer that stalls anywhere between its connect and the end of the gate is
\* cut, freeing its slot (docs/threat-model.md 8.1), whatever the flags.
SetupEnds ==
    \A c \in Conns : pc[c] \in Setup \cup {"waiting"} ~> pc[c] \notin Setup \cup {"waiting"}

\* With re-attestation on, a tunnel held open past the interval takes no more
\* requests if the local agent reads what it was sent, and is closed once the
\* agent has closed, whatever the peer does.  The comment of
\* handleForwardingConnection promises more: "a validly established tunnel held
\* open past the TTL is closed" (tunnel.go:582-583), but no deadline bounds the
\* relays' writes to the agent and reads from it.
ServingEnds ==
    \A c \in Conns :
        /\ WF_vars(AgentReads(c)) =>
                (flags.ttl > 0 /\ pc[c] = "relay") ~> "to agent" \notin relays[c]
        /\ (flags.ttl > 0 /\ agent[c] = "closed") ~> pc[c] = "none"

AnswersAtEnd(c) == agent[c] = "ended" /\ AgentReplies(c)

\* A client that has sent its request and closed its write side still gets the
\* answer (closeWrite), also of an agent that answers only when it has read the
\* request's end, unless the client goes away, stops reading or runs out of
\* time, or the agent closes without answering.
HalfCloseServed ==
    \A c \in Conns :
        WF_vars(Deliver(c)) /\ WF_vars(AgentReads(c)) /\ WF_vars(AnswersAtEnd(c)) =>
            (pc[c] = "relay" /\ (reply[c] = "written" \/ peer[c] = "eof"))
                ~> \/ reply[c] = "delivered" \/ peer[c] = "gone" \/ Expired(c)
                   \/ reply[c] = "none" /\ agent[c] = "closed"

\* What docs/architecture.md says of the whole set-up: "every setup (dial, TLS
\* handshake, gate/resume, header) is deadline-bound so a stalled/slowloris
\* peer can't wedge a goroutine".
HeaderEnds == \A c \in Conns : pc[c] = "header" ~> pc[c] # "header"

==============================================================================

-------------------------- MODULE SetupServerProofs --------------------------
(***************************************************************************)
(* Proofs about SetupServer, for every finite set of connections, every    *)
(* capacity of the semaphore and all timeouts: the server's types, and the *)
(* conservation of set-up slots.                                           *)
(***************************************************************************)
EXTENDS SetupServer, FiniteSetTheorems, TLAPS

\* SlotsConserved is inductive once the types are known.
IInv == TypeOK /\ SlotsConserved

\* The type of everything but the slots, which most actions leave alone.
ConnTypeOK ==
    /\ flags \in Settings
    /\ pc \in [Conns -> Stages]
    /\ deadline \in [Conns -> Deadline]
    /\ timer \in [Conns -> Nat]
    /\ peer \in [Conns -> {"open", "eof", "gone"}]
    /\ relays \in [Conns -> SUBSET Directions]
    /\ blocked \in [Conns -> BOOLEAN]
    /\ agent \in [Conns -> {"away", "open", "ended", "closed"}]
    /\ reply \in [Conns -> {"none", "written", "delivered"}]

\* The flags' timeouts are numbers of ticks.
LEMMA FlagsType ==
    ASSUME TypeOK
    PROVE  flags.gate \in Nat /\ flags.ttl \in Nat
BY ServerAssumption DEF TypeOK, SettingsType

\* The holders of slots are a finite set of connections.
LEMMA HoldersFinite == IsFiniteSet(Holders) /\ Cardinality(Holders) \in Nat
<1>1. Holders \subseteq Conns
  BY DEF Holders
<1>2. IsFiniteSet(Holders)
  BY <1>1, ServerAssumption, FS_Subset
<1> QED
  BY <1>2, FS_CardinalityType

\* freeSlot takes the connection out of the holders, if it is one, and one
\* token out of the semaphore exactly then.
LEMMA FreeSlotFrees ==
    ASSUME IInv, NEW c \in Conns, FreeSlot(c)
    PROVE  /\ sem' \in 0..Capacity
           /\ slotFreed' \in [Conns -> BOOLEAN]
           /\ Holders' = Holders \ {c}
           /\ sem' = Cardinality(Holders')
<1>1. CASE slotFreed[c]
  <2>1. UNCHANGED <<sem, slotFreed>>
    BY <1>1 DEF FreeSlot
  <2>2. Holders' = Holders /\ c \notin Holders
    BY <1>1, <2>1 DEF Holders
  <2> QED
    BY <2>1, <2>2 DEF IInv, TypeOK, SlotsConserved
<1>2. CASE ~slotFreed[c]
  <2>1. /\ sem > 0 /\ sem' = sem - 1
        /\ slotFreed' = [slotFreed EXCEPT ![c] = TRUE]
    BY <1>2 DEF FreeSlot
  <2>2. slotFreed' \in [Conns -> BOOLEAN]
    BY <2>1 DEF IInv, TypeOK
  <2>3. c \in Holders
    BY <1>2 DEF Holders
  <2>4. Holders' = Holders \ {c}
    BY <2>1 DEF Holders, IInv, TypeOK
  <2>5. Cardinality(Holders \ {c}) = Cardinality(Holders) - 1
    BY <2>3, HoldersFinite, FS_RemoveElement
  <2>6. sem' \in 0..Capacity
    BY <2>1, ServerAssumption DEF IInv, TypeOK
  <2> QED
    BY <2>1, <2>2, <2>4, <2>5, <2>6 DEF IInv, SlotsConserved
<1> QED
  BY <1>1, <1>2

\* Admitting a connection puts it among the holders and its token into the
\* semaphore, which does not overflow.
LEMMA AcquireHolds ==
    ASSUME IInv, NEW c \in Conns, Acquire(c)
    PROVE  /\ sem' \in 0..Capacity
           /\ slotFreed' \in [Conns -> BOOLEAN]
           /\ Holders' = Holders \cup {c}
           /\ sem' = Cardinality(Holders')
<1>1. /\ sem < Capacity /\ sem' = sem + 1 /\ pc[c] = "waiting"
      /\ slotFreed' = [slotFreed EXCEPT ![c] = FALSE]
  BY DEF Acquire, SlotFree
<1>2. c \notin Holders
  BY <1>1 DEF IInv, SlotsConserved, Setup
<1>3. slotFreed' \in [Conns -> BOOLEAN]
  BY <1>1 DEF IInv, TypeOK
<1>4. Holders' = Holders \cup {c}
  BY <1>1 DEF Holders, IInv, TypeOK
<1>5. Cardinality(Holders \cup {c}) = Cardinality(Holders) + 1
  BY <1>2, HoldersFinite, FS_AddElement
<1>6. sem' \in 0..Capacity
  BY <1>1, ServerAssumption DEF IInv, TypeOK
<1> QED
  BY <1>1, <1>3, <1>4, <1>5, <1>6 DEF IInv, SlotsConserved

\* A step that frees c's slot and leaves the set-up, or does neither: what the
\* connections' stages must do for the holders to stay those in set-up.
LEMMA Leaving ==
    ASSUME IInv, NEW c \in Conns, NEW stage \in Stages \ Setup,
           FreeSlot(c), Enter(c, stage)
    PROVE  /\ sem' \in 0..Capacity
           /\ slotFreed' \in [Conns -> BOOLEAN]
           /\ SlotsConserved'
<1>1. pc' = [pc EXCEPT ![c] = stage] /\ pc \in [Conns -> Stages]
  BY DEF Enter, IInv, TypeOK
<1>2. {d \in Conns : pc'[d] \in Setup} = {d \in Conns : pc[d] \in Setup} \ {c}
  BY <1>1
<1>3. Holders = {d \in Conns : pc[d] \in Setup}
  BY DEF IInv, SlotsConserved
<1> QED
  BY <1>2, <1>3, FreeSlotFrees DEF SlotsConserved

\* A step that changes no slot keeps them conserved when no connection enters
\* or leaves the set-up.
LEMMA SlotsUnchanged ==
    ASSUME IInv, UNCHANGED <<sem, slotFreed>>,
           \A c \in Conns : pc'[c] \in Setup <=> pc[c] \in Setup
    PROVE  /\ sem' \in 0..Capacity
           /\ slotFreed' \in [Conns -> BOOLEAN]
           /\ SlotsConserved'
<1>1. Holders' = Holders
  BY DEF Holders
<1>2. {c \in Conns : pc'[c] \in Setup} = {c \in Conns : pc[c] \in Setup}
  OBVIOUS
<1> QED
  BY <1>1, <1>2 DEF IInv, TypeOK, SlotsConserved

\* A handler that returns preserves the invariant, wherever it returns from.
LEMMA ReturnStep ==
    ASSUME IInv, NEW c \in Conns, Return(c)
    PROVE  IInv'
<1>1. "none" \in Stages \ Setup
  BY DEF Stages, Setup
<1>2. FreeSlot(c) /\ Enter(c, "none")
  BY DEF Return, Enter
<1>3. sem' \in 0..Capacity /\ slotFreed' \in [Conns -> BOOLEAN] /\ SlotsConserved'
  BY <1>1, <1>2, Leaving
<1>4. ConnTypeOK'
  BY <1>1 DEF Return, IInv, TypeOK, ConnTypeOK, Deadline
<1> QED
  BY <1>3, <1>4 DEF IInv, TypeOK, ConnTypeOK

\* Initially no connection holds a slot.
LEMMA InitInv == Init => IInv
<1> SUFFICES ASSUME Init PROVE IInv
  OBVIOUS
<1>1. TypeOK
  BY ServerAssumption DEF Init, TypeOK, Stages, Deadline
<1>2. Holders = {} /\ {c \in Conns : pc[c] \in Setup} = {}
  BY DEF Init, Holders, Setup
<1>3. SlotsConserved
  BY <1>2, FS_EmptySet DEF Init, SlotsConserved
<1> QED
  BY <1>1, <1>3 DEF IInv

\* A relay that ends tells the agent, or leaves it as it is.
LEMMA StopType ==
    ASSUME IInv, NEW c \in Conns, NEW d \in Directions, Stop(c, d)
    PROVE  /\ relays' \in [Conns -> SUBSET Directions]
           /\ agent' \in [Conns -> {"away", "open", "ended", "closed"}]
<1>1. /\ relays \in [Conns -> SUBSET Directions]
      /\ agent \in [Conns -> {"away", "open", "ended", "closed"}]
  BY DEF IInv, TypeOK
<1>2. relays' \in [Conns -> SUBSET Directions]
  BY <1>1 DEF Stop
<1>3. agent' = agent \/ agent' = [agent EXCEPT ![c] = IF agent[c] = "open" THEN "ended" ELSE agent[c]]
  BY DEF Stop, Told
<1> QED
  BY <1>1, <1>2, <1>3

LEMMA RefusedStep ==
    ASSUME IInv, NEW c \in Conns, RequestsRefused(c)
    PROVE  IInv'
<1>1. ConnTypeOK'
  BY StopType DEF RequestsRefused, Directions, IInv, TypeOK, ConnTypeOK
<1> QED
  BY <1>1, SlotsUnchanged DEF RequestsRefused, IInv, TypeOK, ConnTypeOK

\* The handler's own steps preserve the invariant.
LEMMA HandlerStep ==
    ASSUME IInv, NEW c \in Conns, Handler(c)
    PROVE  IInv'
<1>1. CASE Acquire(c)
  <2>1. pc' = [pc EXCEPT ![c] = "handshake"] /\ pc \in [Conns -> Stages]
    BY <1>1 DEF Acquire, IInv, TypeOK
  <2>2. {d \in Conns : pc'[d] \in Setup} = {d \in Conns : pc[d] \in Setup} \cup {c}
    BY <2>1 DEF Setup
  <2>3. SlotsConserved'
    BY <1>1, <2>2, AcquireHolds DEF IInv, SlotsConserved
  <2>4. ConnTypeOK'
    BY <1>1, ServerAssumption DEF Acquire, IInv, TypeOK, ConnTypeOK, Stages, Setup, Deadline
  <2> QED
    BY <1>1, <2>3, <2>4, AcquireHolds DEF IInv, TypeOK, ConnTypeOK
<1>2. CASE Shed(c)
  BY <1>2, ReturnStep DEF Shed
<1>3. CASE SetupFails(c)
  BY <1>3, ReturnStep DEF SetupFails
<1>4. CASE DialFails(c)
  BY <1>4, ReturnStep DEF DialFails
<1>5. CASE RequestsEnd(c)
  <2>1. ConnTypeOK'
    BY <1>5, StopType DEF RequestsEnd, Directions, IInv, TypeOK, ConnTypeOK
  <2> QED
    BY <1>5, <2>1, SlotsUnchanged DEF RequestsEnd, IInv, TypeOK, ConnTypeOK
<1>6. CASE RepliesEnd(c)
  <2>1. ConnTypeOK'
    BY <1>6, StopType DEF RepliesEnd, Directions, IInv, TypeOK, ConnTypeOK
  <2> QED
    BY <1>6, <2>1, SlotsUnchanged DEF RepliesEnd, IInv, TypeOK, ConnTypeOK
<1>7. CASE Served(c)
  BY <1>7, ReturnStep DEF Served
<1>8. CASE RequestsRefused(c)
  BY <1>8, RefusedStep
<1> QED
  BY <1>1, <1>2, <1>3, <1>4, <1>5, <1>6, <1>7, <1>8 DEF Handler

\* The steps that need an answer preserve it.
LEMMA AnsweredStep ==
    ASSUME IInv, NEW c \in Conns, Answered(c)
    PROVE  IInv'
<1> USE DEF ConnTypeOK
<1>1. CASE Handshake(c)
  <2>1. ConnTypeOK'
    BY <1>1 DEF Handshake, Enter, IInv, TypeOK, Stages, Setup
  <2>2. CASE flags.attested
    <3>1. Enter(c, "mode") /\ pc[c] = "handshake" /\ UNCHANGED <<sem, slotFreed>>
      BY <1>1, <2>2 DEF Handshake
    <3>2. \A d \in Conns : pc'[d] \in Setup <=> pc[d] \in Setup
      BY <3>1 DEF Enter, Setup, IInv, TypeOK
    <3> QED
      BY <2>1, <3>1, <3>2, SlotsUnchanged DEF IInv, TypeOK
  <2>3. CASE ~flags.attested
    <3>1. Enter(c, "header") /\ FreeSlot(c) /\ "header" \in Stages \ Setup
      BY <1>1, <2>3 DEF Handshake, Stages, Setup
    <3> QED
      BY <2>1, <3>1, Leaving DEF IInv, TypeOK
  <2> QED
    BY <2>2, <2>3
<1>2. CASE Mode(c)
  <2>1. PICK stage \in {"gate", "resume"} : Enter(c, stage)
    BY <1>2 DEF Mode
  <2>2. pc[c] = "mode" /\ UNCHANGED <<sem, slotFreed>>
    BY <1>2 DEF Mode
  <2>3. \A d \in Conns : pc'[d] \in Setup <=> pc[d] \in Setup
    BY <2>1, <2>2 DEF Enter, Setup, IInv, TypeOK
  <2>4. pc' \in [Conns -> Stages]
    BY <2>1 DEF Enter, Stages, Setup, IInv, TypeOK
  <2>5. deadline' \in [Conns -> Deadline]
    BY <1>2, FlagsType DEF Mode, Deadline, IInv, TypeOK
  <2>6. ConnTypeOK'
    BY <1>2, <2>4, <2>5 DEF Mode, IInv, TypeOK
  <2> QED
    BY <2>2, <2>3, <2>6, SlotsUnchanged DEF IInv, TypeOK
<1>3. CASE Attested(c)
  <2>1. Enter(c, "header") /\ FreeSlot(c) /\ "header" \in Stages \ Setup
    BY <1>3 DEF Attested, Stages, Setup
  <2>2. pc' \in [Conns -> Stages]
    BY <2>1 DEF Enter, IInv, TypeOK
  <2>3. deadline' \in [Conns -> Deadline]
    BY <1>3 DEF Attested, Deadline, IInv, TypeOK
  <2>4. ConnTypeOK'
    BY <1>3, <2>2, <2>3 DEF Attested, IInv, TypeOK
  <2> QED
    BY <2>1, <2>4, Leaving DEF IInv, TypeOK
<1>4. CASE Rejected(c)
  BY <1>4, ReturnStep DEF Rejected
<1>5. CASE Header(c)
  <2>1. Enter(c, "dial") /\ pc[c] = "header" /\ UNCHANGED <<sem, slotFreed>>
    BY <1>5 DEF Header
  <2>2. \A d \in Conns : pc'[d] \in Setup <=> pc[d] \in Setup
    BY <2>1 DEF Enter, Setup, IInv, TypeOK
  <2>3. pc' \in [Conns -> Stages] /\ timer' \in [Conns -> Nat]
    BY <1>5, <2>1, ServerAssumption DEF Header, Enter, Stages, IInv, TypeOK
  <2>4. deadline' \in [Conns -> Deadline]
    BY <1>5, FlagsType DEF Header, ServingDeadline, Deadline, IInv, TypeOK
  <2>5. ConnTypeOK'
    BY <1>5, <2>3, <2>4 DEF Header, IInv, TypeOK
  <2> QED
    BY <2>1, <2>2, <2>5, SlotsUnchanged DEF IInv, TypeOK
<1>6. CASE Connected(c)
  <2>1. Enter(c, "relay") /\ pc[c] = "dial" /\ UNCHANGED <<sem, slotFreed>>
    BY <1>6 DEF Connected
  <2>2. \A d \in Conns : pc'[d] \in Setup <=> pc[d] \in Setup
    BY <2>1 DEF Enter, Setup, IInv, TypeOK
  <2>3. ConnTypeOK'
    BY <1>6 DEF Connected, Enter, Stages, IInv, TypeOK
  <2> QED
    BY <2>1, <2>2, <2>3, SlotsUnchanged DEF IInv, TypeOK
<1>7. CASE Refused(c)
  BY <1>7, ReturnStep DEF Refused
<1>8. CASE RequestsRefused(c)
  BY <1>8, RefusedStep
<1>9. CASE Deliver(c)
  <2>1. ConnTypeOK'
    BY <1>9 DEF Deliver, IInv, TypeOK
  <2> QED
    BY <1>9, <2>1, SlotsUnchanged DEF Deliver, IInv, TypeOK
<1>10. CASE Blocks(c)
  <2>1. ConnTypeOK'
    BY <1>10 DEF Blocks, IInv, TypeOK
  <2> QED
    BY <1>10, <2>1, SlotsUnchanged DEF Blocks, IInv, TypeOK
<1> QED
  BY <1>1, <1>2, <1>3, <1>4, <1>5, <1>6, <1>7, <1>8, <1>9, <1>10 DEF Answered

\* What peers and agents do preserves it.
LEMMA EnvironmentStep ==
    ASSUME IInv, NEW c \in Conns, Environment(c)
    PROVE  IInv'
<1> USE DEF ConnTypeOK
<1>1. CASE Accept(c)
  <2>1. pc' = [pc EXCEPT ![c] = "waiting"] /\ pc[c] = "none" /\ UNCHANGED <<sem, slotFreed>>
    BY <1>1 DEF Accept
  <2>2. \A d \in Conns : pc'[d] \in Setup <=> pc[d] \in Setup
    BY <2>1 DEF Setup, IInv, TypeOK
  <2>3. ConnTypeOK'
    BY <1>1, ServerAssumption DEF Accept, Stages, IInv, TypeOK
  <2> QED
    BY <2>1, <2>2, <2>3, SlotsUnchanged DEF IInv, TypeOK
<1>2. CASE PeerCloses(c)
  <2>1. ConnTypeOK'
    BY <1>2 DEF PeerCloses, conn, IInv, TypeOK
  <2> QED
    BY <1>2, <2>1, SlotsUnchanged DEF PeerCloses, conn, IInv, TypeOK
<1>3. CASE AgentReplies(c)
  <2>1. ConnTypeOK'
    BY <1>3 DEF AgentReplies, IInv, TypeOK
  <2> QED
    BY <1>3, <2>1, SlotsUnchanged DEF AgentReplies, IInv, TypeOK
<1>4. CASE AgentCloses(c)
  <2>1. ConnTypeOK'
    BY <1>4 DEF AgentCloses, IInv, TypeOK
  <2> QED
    BY <1>4, <2>1, SlotsUnchanged DEF AgentCloses, IInv, TypeOK
<1>5. CASE AgentReads(c)
  <2>1. ConnTypeOK'
    BY <1>5 DEF AgentReads, IInv, TypeOK
  <2> QED
    BY <1>5, <2>1, SlotsUnchanged DEF AgentReads, IInv, TypeOK
<1> QED
  BY <1>1, <1>2, <1>3, <1>4, <1>5 DEF Environment

\* So does the passing of time, and a step that changes nothing.
LEMMA TickStep ==
    ASSUME IInv, Tick \/ UNCHANGED vars
    PROVE  IInv'
<1>1. CASE Tick
  <2>1. deadline' \in [Conns -> Deadline]
    BY <1>1, ServerAssumption DEF Tick, Deadline, IInv, TypeOK
  <2>2. timer' \in [Conns -> Nat]
    BY <1>1 DEF Tick, IInv, TypeOK
  <2>3. ConnTypeOK'
    BY <1>1, <2>1, <2>2 DEF Tick, IInv, TypeOK, ConnTypeOK
  <2> QED
    BY <1>1, <2>3, SlotsUnchanged DEF Tick, IInv, TypeOK, ConnTypeOK
<1>2. CASE UNCHANGED vars
  <2>1. ConnTypeOK'
    BY <1>2 DEF vars, conn, IInv, TypeOK, ConnTypeOK
  <2> QED
    BY <1>2, <2>1, SlotsUnchanged DEF vars, conn, IInv, TypeOK, ConnTypeOK
<1> QED
  BY <1>1, <1>2

\* IInv is an invariant of the server.
LEMMA Invariance == Spec => []IInv
<1>1. ASSUME IInv, [Next]_vars PROVE IInv'
  BY <1>1, HandlerStep, AnsweredStep, EnvironmentStep, TickStep DEF Next
<1> QED
  BY <1>1, InitInv, PTL DEF Spec

\* Every variable of handleIncomingTCP and what it calls keeps its type; the
\* semaphore never holds more tokens than maxConcurrentSetups.
THEOREM TypeCorrect == Spec => []TypeOK
<1>1. IInv => TypeOK
  BY DEF IInv
<1> QED
  BY <1>1, Invariance, PTL

\* Set-up slots are conserved: the semaphore holds the tokens of exactly the
\* connections between their admission and the end of their set-up.
THEOREM SlotsConservedHolds == Spec => []SlotsConserved
<1>1. IInv => SlotsConserved
  BY DEF IInv
<1> QED
  BY <1>1, Invariance, PTL

==============================================================================

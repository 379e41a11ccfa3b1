--------------------------- MODULE AttestGateProofs ---------------------------
(***************************************************************************)
(* The gate keeps the promise of MutualBarrier, whatever the transport's   *)
(* capacity, the sessions, the checks that fail, and with or without a     *)
(* deadline.                                                               *)
(***************************************************************************)
EXTENDS AttestGate, TLAPS

\* The rounds are numbers and there are two ends.
LEMMA Ends ==
    /\ Attachment = 1 /\ Agent = 2 /\ Quote = 3 /\ Barrier = 4
    /\ Endpoints = {"client", "server"}
    /\ \A e \in Endpoints : Peer(e) \in Endpoints /\ Peer(e) # e /\ Peer(Peer(e)) = e
    /\ \A e, x \in Endpoints : x # e => x = Peer(e)
BY DEF Attachment, Agent, Quote, Barrier, Endpoints, Peer

------------------------------------------------------------------------------
(* The inductive invariant. *)

\* A frame is on the transport once its writing goroutine has started; an end
\* that is in a round, or through reading in it, has its peer's frames.
Frames ==
    \A e \in Endpoints :
        /\ sent[e] = IF writer[e] = "idle" THEN round[e] - 1 ELSE round[e]
        /\ sent[Peer(e)] >= IF reader[e] = "done" THEN round[e] ELSE round[e] - 1

\* Where Run is: it quotes between two rounds, and holds a verdict exactly in
\* the barrier.
Phases ==
    \A e \in Endpoints :
        /\ pc[e] = "quoting" =>
              round[e] = Agent /\ writer[e] # "idle" /\ reader[e] = "done"
        /\ verdict[e] = "none" <=> round[e] # Barrier
        /\ result[e] = "running" <=> pc[e] # "returned"

\* A verdict is what the appraisal of the peer came to.
Verdicts == \A e \in Endpoints : verdict[e] = "ok" => Accepts(e)

\* What a result says of the two verdicts.
Results ==
    \A e \in Endpoints :
        /\ result[e] = "ok" => \A x \in Endpoints : verdict[x] = "ok"
        /\ result[e] = "trust" => \E x \in Endpoints : verdict[x] = "nak"
        /\ result[e] # "running" /\ verdict[e] = "nak" => result[e] = "trust"

IInv == TypeOK /\ Frames /\ Phases /\ Verdicts /\ Results

LEMMA InitIInv == Init => IInv
<1> SUFFICES ASSUME Init PROVE IInv
    OBVIOUS
<1> USE Ends DEF Init
<1>1. TypeOK
  <2>1. big \in [Endpoints -> SUBSET (Attachment..Quote)]
    BY GateAssumption
  <2> QED
    BY <2>1, GateAssumption DEF TypeOK, Attachment, Barrier
<1>2. Frames /\ Phases
    BY DEF Frames, Phases
<1>3. Verdicts /\ Results
    BY DEF Verdicts, Results
<1> QED BY <1>1, <1>2, <1>3 DEF IInv

\* What an end does in its exchange leaves its round and its verdict alone.
LEMMA ExchangeIInv ==
    ASSUME IInv, NEW e \in Endpoints,
           StartWrite(e) \/ WriteDone(e) \/ WriteFails(e) \/ Read(e) \/ ReadFails(e)
    PROVE  IInv'
<1> USE Ends DEF IInv, inputs, Exchanging
<1>1. CASE StartWrite(e)
    BY <1>1 DEF StartWrite, CanWrite, TypeOK, Frames, Phases, Verdicts, Results, Accepts
<1>2. CASE WriteDone(e)
    BY <1>2 DEF WriteDone, TypeOK, Frames, Phases, Verdicts, Results, Accepts
<1>3. CASE WriteFails(e)
    BY <1>3 DEF WriteFails, TypeOK, Frames, Phases, Verdicts, Results, Accepts
<1>4. CASE Read(e)
    BY <1>4 DEF Read, FrameHere, TypeOK, Frames, Phases, Verdicts, Results, Accepts
<1>5. CASE ReadFails(e)
    BY <1>5 DEF ReadFails, TypeOK, Frames, Phases, Verdicts, Results, Accepts
<1> QED BY <1>1, <1>2, <1>3, <1>4, <1>5

\* Going on to the next round, or to the quote between two.
LEMMA RoundIInv ==
    ASSUME IInv, NEW e \in Endpoints,
           AttachmentsExchanged(e) \/ StartQuote(e) \/ QuoteReady(e) \/ Appraise(e)
    PROVE  IInv'
<1> USE Ends DEF IInv, inputs, Exchanging, Over, Failed
<1>1. CASE AttachmentsExchanged(e)
    BY <1>1 DEF AttachmentsExchanged, NextRound,
                TypeOK, Frames, Phases, Verdicts, Results, Accepts
<1>2. CASE StartQuote(e)
    BY <1>2 DEF StartQuote, TypeOK, Frames, Phases, Verdicts, Results, Accepts
<1>3. CASE QuoteReady(e)
    BY <1>3 DEF QuoteReady, NextRound,
                TypeOK, Frames, Phases, Verdicts, Results, Accepts
<1>4. CASE Appraise(e)
    BY <1>4 DEF Appraise, NextRound,
                TypeOK, Frames, Phases, Verdicts, Results, Accepts
<1> QED BY <1>1, <1>2, <1>3, <1>4

\* Run returns.  The barrier is what makes a success mutual: the end that read
\* its peer's verdict knows that the peer has one.
LEMMA ReturnIInv ==
    ASSUME IInv, NEW e \in Endpoints,
           ExchangeError(e) \/ QuoteFails(e) \/ Conclude(e)
    PROVE  IInv'
<1> USE Ends DEF IInv, inputs, Exchanging, Over, Failed, Return
<1>1. CASE ExchangeError(e)
    BY <1>1 DEF ExchangeError, TypeOK, Frames, Phases, Verdicts, Results, Accepts
<1>2. CASE QuoteFails(e)
    BY <1>2 DEF QuoteFails, TypeOK, Frames, Phases, Verdicts, Results, Accepts
<1>3. CASE Conclude(e)
    <2>1. TypeOK' /\ Frames' /\ Phases' /\ Verdicts'
        BY <1>3 DEF Conclude, Outcome, TypeOK, Frames, Phases, Verdicts, Accepts
    <2>2. ~Failed(e) => verdict[Peer(e)] # "none"
        <3>1. ~Failed(e) => sent[Peer(e)] >= Barrier
            BY <1>3 DEF Conclude, TypeOK, Frames
        <3> QED BY <3>1 DEF TypeOK, Frames, Phases
    <2>3. Results'
        BY <1>3, <2>2 DEF Conclude, Outcome, TypeOK, Phases, Results
    <2> QED BY <2>1, <2>3
<1> QED BY <1>1, <1>2, <1>3

LEMMA NextIInv == IInv /\ [Next]_vars => IInv'
<1> SUFFICES ASSUME IInv, [Next]_vars
             PROVE  IInv'
    OBVIOUS
<1>1. ASSUME NEW e \in Endpoints, Step(e)
      PROVE  IInv'
    BY <1>1, ExchangeIInv, RoundIInv, ReturnIInv DEF Step
<1>2. ASSUME NEW e \in Endpoints, Expire(e)
      PROVE  IInv'
    BY <1>2 DEF Expire, inputs, progress, IInv, TypeOK, Frames, Phases,
                Verdicts, Results, Accepts
<1>3. CASE Network
    BY <1>3 DEF Network, Break, Stall, Recover, NetStep, inputs, progress,
                IInv, TypeOK, Frames, Phases, Verdicts, Results, Accepts
<1>4. CASE UNCHANGED vars
    BY <1>4 DEF vars, inputs, progress, IInv, TypeOK, Frames, Phases,
                Verdicts, Results, Accepts
<1> QED BY <1>1, <1>2, <1>3, <1>4 DEF Next

LEMMA Invariance == Spec => []IInv
BY InitIInv, NextIInv, PTL DEF Spec

------------------------------------------------------------------------------
(* The theorems. *)

\* The gate's variables hold values of their types.
THEOREM TypeCorrect == Spec => []TypeOK
<1>1. IInv => TypeOK
    BY DEF IInv
<1> QED BY <1>1, Invariance, PTL

\* Nobody forwards to a peer that did not pass, or did not accept it.
THEOREM MutualTrustHolds == Spec => []MutualTrust
<1>1. IInv => MutualTrust
    BY DEF IInv, MutualTrust, Results, Verdicts, Accepts, Endpoints, Peer
<1> QED BY <1>1, Invariance, PTL

\* The error's class says whether trust failed.
THEOREM FailureClassHolds == Spec => []FailureClass
<1>1. IInv => FailureClass
    BY DEF IInv, FailureClass, Results
<1> QED BY <1>1, Invariance, PTL

\* The protocol of frames, rounds and goroutines implements the barrier.
THEOREM Implements == Spec => ImplementsBarrier
<1>1. Init => Barriers!Init
    BY DEF Init, Barriers!Init
<1>2. IInv /\ IInv' /\ [Next]_vars => [Barriers!Next]_(Barriers!vars)
    <2> SUFFICES ASSUME IInv, IInv', [Next]_vars
                 PROVE  Barriers!Next \/ UNCHANGED <<verdict, result>>
        BY DEF Barriers!vars
    <2>1. ASSUME NEW e \in Endpoints, Appraise(e)
          PROVE  Barriers!Appraise(e)
        <3>1. verdict[e] = "none" /\ result[e] = "running" /\ UNCHANGED result
            BY <2>1, Ends DEF Appraise, Over, Exchanging, IInv, Phases
        <3>2. PICK v \in {"ok", "nak"} : verdict' = [verdict EXCEPT ![e] = v]
            BY <2>1 DEF Appraise
        <3> QED BY <3>1, <3>2 DEF Barriers!Appraise
    <2>2. ASSUME NEW e \in Endpoints, ExchangeError(e) \/ QuoteFails(e)
          PROVE  Barriers!Abort(e)
        BY <2>2, Ends DEF ExchangeError, QuoteFails, Over, Exchanging, Return,
                          IInv, TypeOK, Phases, Barriers!Abort, Barriers!Return
    <2>3. ASSUME NEW e \in Endpoints, Conclude(e)
          PROVE  Barriers!Succeed(e) \/ Barriers!Refuse(e) \/ Barriers!Abort(e)
        <3>1. Barriers!Return(e, Outcome(e))
            BY <2>3 DEF Conclude, Over, Exchanging, Return, IInv, Phases, Barriers!Return
        <3>2. result'[e] = Outcome(e) /\ verdict' = verdict
            BY <2>3 DEF Conclude, Return, IInv, TypeOK
        <3>3. Outcome(e) = "ok" => \A x \in Endpoints : verdict[x] = "ok"
            BY <3>2 DEF IInv, Results
        <3>4. Outcome(e) = "trust" => \E x \in Endpoints : verdict[x] = "nak"
            BY <3>2 DEF IInv, Results
        <3>5. Outcome(e) \in {"ok", "trust", "io"}
              /\ (Outcome(e) = "io" => verdict[e] # "nak")
            BY DEF Outcome
        <3> QED BY <3>1, <3>3, <3>4, <3>5
                DEF Barriers!Succeed, Barriers!Refuse, Barriers!Abort
    <2>4. ASSUME NEW e \in Endpoints, Step(e) \/ Expire(e)
          PROVE  Barriers!Next \/ UNCHANGED <<verdict, result>>
        BY <2>1, <2>2, <2>3, <2>4
        DEF Step, StartWrite, WriteDone, WriteFails, Read, ReadFails,
            AttachmentsExchanged, StartQuote, QuoteReady, Expire, progress,
            Barriers!Next
    <2>5. CASE Network
        BY <2>5 DEF Network, Break, Stall, Recover, NetStep, progress
    <2>6. CASE UNCHANGED vars
        BY <2>6 DEF vars, progress
    <2> QED BY <2>4, <2>5, <2>6 DEF Next
<1> QED BY <1>1, <1>2, Invariance, PTL DEF Spec, ImplementsBarrier, Barriers!Spec

==============================================================================

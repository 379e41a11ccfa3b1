------------------------------ MODULE AttestGate ------------------------------
(***************************************************************************)
(* The attestation gate, GateConfig.Run of internal/attest/gate.go: the    *)
(* client and the server of one TLS session exchange frames round by       *)
(* round, appraise each other and meet at a verdict barrier.               *)
(*                                                                         *)
(* Every round is one exchange*() call: a goroutine writes our frame while *)
(* the caller reads the peer's, and the call returns when both are over.   *)
(* Frames arrive in order.  What a frame carries is written once by its    *)
(* writer (attachment, quote, verdict) before the frame is handed over, so *)
(* the wire is a count of frames and the reader looks the content up.      *)
(* Run's only caller passes fresh = false: there is no nonce round.        *)
(***************************************************************************)
EXTENDS Naturals

CONSTANTS
    HasDeadline,    \* whether g.Timeout > 0
    Capacity,       \* frames the transport holds before a write blocks
    Sessions,       \* TLS exporter values an endpoint's session may have
    Defects,        \* the sets of checks an endpoint may fail, see Checks
    BadSizes        \* the sets of rounds in which its frames may be refused

Endpoints == {"client", "server"}
Peer(e) == IF e = "client" THEN "server" ELSE "client"

\* The rounds, in order.
Attachment == 1
Agent == 2
Quote == 3
Barrier == 4

\* The four appraisals of step 5: each can reject the peer on its own.
Checks == {"quote", "attachment", "identity", "agent"}

ASSUME GateAssumption ==
    /\ HasDeadline \in BOOLEAN
    /\ Capacity \in Nat
    /\ Defects \subseteq SUBSET Checks
    /\ BadSizes \subseteq SUBSET (Attachment..Quote)

VARIABLES
    ekm,        \* ekm[e]: exporter value of the session e terminates
    defects,    \* defects[e]: the checks the peer's appraisal of e fails
    big,        \* big[e]: the rounds in which e's frame exceeds maxQuoteBytes,
                \* or is a quote of no bytes
    link,       \* the transport: "up", "stalled" or "cut"
    expired,    \* expired[e]: e's deadline has passed
    pc,         \* pc[e]: "exchange", "quoting" or "returned"
    round,      \* round[e]: e's current or last exchange
    sent,       \* sent[e]: frames e has handed to the transport
    writer,     \* writer[e]: the goroutine of e's current exchange
    reader,     \* reader[e]: the read of e's current exchange
    verdict,    \* verdict[e]: e's appraisal of its peer
    result      \* result[e]: what Run returned to e's caller

inputs == <<ekm, defects, big>>
progress == <<pc, round, sent, writer, reader, verdict, result>>
vars == <<inputs, link, expired, progress>>

\* Every variable holds a value of its type.
TypeOK ==
    /\ ekm \in [Endpoints -> Sessions]
    /\ defects \in [Endpoints -> SUBSET Checks]
    /\ big \in [Endpoints -> SUBSET (Attachment..Quote)]
    /\ link \in {"up", "stalled", "cut"}
    /\ expired \in [Endpoints -> BOOLEAN]
    /\ pc \in [Endpoints -> {"exchange", "quoting", "returned"}]
    /\ round \in [Endpoints -> Attachment..Barrier]
    /\ sent \in [Endpoints -> 0..Barrier]
    /\ writer \in [Endpoints -> {"idle", "busy", "done", "failed"}]
    /\ reader \in [Endpoints -> {"busy", "done", "failed"}]
    /\ verdict \in [Endpoints -> {"none", "ok", "nak"}]
    /\ result \in [Endpoints -> {"running", "ok", "trust", "io"}]

Init ==
    /\ ekm \in [Endpoints -> Sessions]
    /\ defects \in [Endpoints -> Defects]
    /\ big \in [Endpoints -> BadSizes]
    /\ link = "up"
    /\ expired = [e \in Endpoints |-> FALSE]
    /\ pc = [e \in Endpoints |-> "exchange"]
    /\ round = [e \in Endpoints |-> Attachment]
    /\ sent = [e \in Endpoints |-> 0]
    /\ writer = [e \in Endpoints |-> "idle"]
    /\ reader = [e \in Endpoints |-> "busy"]
    /\ verdict = [e \in Endpoints |-> "none"]
    /\ result = [e \in Endpoints |-> "running"]

------------------------------------------------------------------------------
(* One exchange: the write and the read run side by side. *)

Exchanging(e) == pc[e] = "exchange"

\* Frames of x that its peer has taken off the transport.
Consumed(x) == IF reader[Peer(x)] = "done" THEN round[Peer(x)] ELSE round[Peer(x)] - 1

\* Mutant: without the goroutine, the frame is written after the read.
MutantWriteAfterRead(e) == Exchanging(e) /\ writer[e] = "idle" /\ reader[e] # "busy"

\* The goroutine starts at once, whatever the read beside it does.
CanWrite(e) == Exchanging(e) /\ writer[e] = "idle"

\* Mutant: the caller does not note that the goroutine is running.
MutantStartWrite(e) ==
    /\ CanWrite(e)
    /\ sent' = [sent EXCEPT ![e] = @ + 1]
    /\ UNCHANGED <<inputs, link, expired, pc, round, reader, writer, verdict, result>>

StartWrite(e) ==
    /\ CanWrite(e)
    /\ writer' = [writer EXCEPT ![e] = "busy"]
    /\ sent' = [sent EXCEPT ![e] = round[e]]
    /\ UNCHANGED <<inputs, link, expired, pc, round, reader, verdict, result>>

WriteDone(e) ==
    /\ Exchanging(e) /\ writer[e] = "busy"
    /\ sent[e] <= Consumed(e) + Capacity
    /\ ~expired[e]
    /\ writer' = [writer EXCEPT ![e] = "done"]
    /\ UNCHANGED <<inputs, link, expired, pc, round, sent, reader, verdict, result>>

\* Mutant: no SetDeadline.
MutantNoDeadline(e) == link = "cut"

\* A read or a write of e cannot go on.
Unusable(e) == link = "cut" \/ expired[e]

WriteFails(e) ==
    /\ Exchanging(e) /\ writer[e] = "busy" /\ Unusable(e)
    /\ writer' = [writer EXCEPT ![e] = "failed"]
    /\ UNCHANGED <<inputs, link, expired, pc, round, sent, reader, verdict, result>>

\* A frame that got through is still delivered after the connection broke.
FrameHere(e) == sent[Peer(e)] >= round[e] /\ link # "stalled" /\ ~expired[e]

\* readBlob and readFrame refuse the length before they read the rest.
TooLarge(e) == round[e] \in big[Peer(e)]

Read(e) ==
    /\ Exchanging(e) /\ reader[e] = "busy" /\ FrameHere(e)
    /\ reader' = [reader EXCEPT ![e] = IF TooLarge(e) THEN "failed" ELSE "done"]
    /\ UNCHANGED <<inputs, link, expired, pc, round, sent, writer, verdict, result>>

ReadFails(e) ==
    /\ Exchanging(e) /\ reader[e] = "busy" /\ Unusable(e)
    /\ reader' = [reader EXCEPT ![e] = "failed"]
    /\ UNCHANGED <<inputs, link, expired, pc, round, sent, writer, verdict, result>>

------------------------------------------------------------------------------
(* What Run does between and after the exchanges. *)

Over(e) == Exchanging(e) /\ writer[e] \in {"done", "failed"} /\ reader[e] # "busy"
Failed(e) == writer[e] = "failed" \/ reader[e] = "failed"

NextRound(e) ==
    /\ round' = [round EXCEPT ![e] = @ + 1]
    /\ writer' = [writer EXCEPT ![e] = "idle"]
    /\ reader' = [reader EXCEPT ![e] = "busy"]

\* Run returns; on an error the caller closes the connection.
Return(e, r) ==
    /\ pc' = [pc EXCEPT ![e] = "returned"]
    /\ result' = [result EXCEPT ![e] = r]
    /\ link' = IF r # "ok" /\ link = "up" THEN "cut" ELSE link
    /\ UNCHANGED <<inputs, expired, round, sent, writer, reader, verdict>>

ExchangeError(e) ==
    /\ Over(e) /\ Failed(e) /\ round[e] # Barrier
    /\ Return(e, "io")

AttachmentsExchanged(e) ==
    /\ Over(e) /\ ~Failed(e) /\ round[e] = Attachment
    /\ NextRound(e)
    /\ UNCHANGED <<inputs, link, expired, pc, sent, verdict, result>>

StartQuote(e) ==
    /\ Over(e) /\ ~Failed(e) /\ round[e] = Agent
    /\ pc' = [pc EXCEPT ![e] = "quoting"]
    /\ UNCHANGED <<inputs, link, expired, round, sent, writer, reader, verdict, result>>

QuoteReady(e) ==
    /\ pc[e] = "quoting"
    /\ pc' = [pc EXCEPT ![e] = "exchange"]
    /\ NextRound(e)
    /\ UNCHANGED <<inputs, link, expired, sent, verdict, result>>

\* The exporter or the TDX quoter fails: Run returns without sending a NAK.
QuoteFails(e) == pc[e] = "quoting" /\ Return(e, "io")

\* Mutant: no VerifyCVMIdentity.
MutantSkipIdentity(e) == ekm[Peer(e)] = ekm[e] /\ defects[Peer(e)] \subseteq {"identity"}

\* The peer's quote commits to the peer's session, so it verifies against our
\* report data only when both ends terminate the same session.
Accepts(e) == ekm[Peer(e)] = ekm[e] /\ defects[Peer(e)] = {}

Appraise(e) ==
    /\ Over(e) /\ ~Failed(e) /\ round[e] = Quote
    /\ verdict' = [verdict EXCEPT ![e] = IF Accepts(e) THEN "ok" ELSE "nak"]
    /\ NextRound(e)
    /\ UNCHANGED <<inputs, link, expired, pc, sent, result>>

\* Mutant: the peer's verdict is received and dropped.
MutantIgnorePeerVerdict(e) ==
    IF verdict[e] = "nak" THEN "trust" ELSE IF Failed(e) THEN "io" ELSE "ok"

\* Mutant: the error of the verdict exchange is returned before our rejection.
MutantTransportFirst(e) ==
    IF Failed(e) THEN "io"
    ELSE IF "nak" \in {verdict[e], verdict[Peer(e)]} THEN "trust" ELSE "ok"

\* The order of the returns after the barrier: our own rejection first, then
\* a failed verdict exchange, then the peer's rejection.
Outcome(e) ==
    IF verdict[e] = "nak" THEN "trust"
    ELSE IF Failed(e) THEN "io"
    ELSE IF verdict[Peer(e)] = "nak" THEN "trust" ELSE "ok"

Conclude(e) ==
    /\ Over(e) /\ round[e] = Barrier
    /\ Return(e, Outcome(e))

------------------------------------------------------------------------------
(* The deadline and the network. *)

Expire(e) ==
    /\ HasDeadline /\ pc[e] # "returned" /\ ~expired[e]
    /\ expired' = [expired EXCEPT ![e] = TRUE]
    /\ UNCHANGED <<inputs, link, progress>>

NetStep(from, to) ==
    /\ link = from /\ link' = to
    /\ UNCHANGED <<inputs, expired, progress>>

Break == NetStep("up", "cut")
Stall == NetStep("up", "stalled")
Recover == NetStep("stalled", "up")

Step(e) ==
    \/ StartWrite(e) \/ WriteDone(e) \/ WriteFails(e)
    \/ Read(e) \/ ReadFails(e)
    \/ ExchangeError(e) \/ AttachmentsExchanged(e)
    \/ StartQuote(e) \/ QuoteReady(e) \/ QuoteFails(e)
    \/ Appraise(e) \/ Conclude(e)

Network == Break \/ Stall \/ Recover

Next == (\E e \in Endpoints : Step(e) \/ Expire(e)) \/ Network

Spec == Init /\ [][Next]_vars

\* Goroutines run: an endpoint that can take a step eventually takes one.
FairSpec == Spec /\ \A e \in Endpoints : WF_vars(Step(e))

------------------------------------------------------------------------------
(* Properties. *)

\* A call that succeeds proves, whatever happened to the transport, that both
\* ends terminate one session and that neither fails any appraisal: no byte
\* is forwarded by a side whose peer rejected it (Run's mutual ACK barrier).
MutualTrust ==
    \A e \in Endpoints : result[e] = "ok" =>
        /\ ekm["client"] = ekm["server"]
        /\ defects["client"] = {} /\ defects["server"] = {}

\* ErrTrustFailure is reported exactly when trust failed: never for a broken
\* transport between sound peers, always by the side that rejected, even when
\* its verdict could not be delivered (the hard-kill rule at the end of Run).
FailureClass ==
    \A e \in Endpoints :
        /\ result[e] = "trust" => \E x \in Endpoints : verdict[x] = "nak"
        /\ result[e] # "running" /\ verdict[e] = "nak" => result[e] = "trust"

\* A passed deadline ends the call, also when the peer is silent and also when
\* the writing goroutine is blocked (exchange* waits for it).
DeadlineEnds == \A e \in Endpoints : expired[e] ~> result[e] # "running"

\* Nothing an appraisal or a size check could object to.
Sound ==
    /\ ekm["client"] = ekm["server"]
    /\ \A e \in Endpoints : defects[e] = {} /\ big[e] = {}

\* Left alone by network and deadline, a gate between sound endpoints ends: the
\* two ends never wait for each other's read, on an unbuffered transport too
\* (what exchange*'s writing goroutine is for).
UndisturbedCompletes ==
    [](Sound /\ link = "up" /\ \A e \in Endpoints : ~expired[e])
        => <>(\A e \in Endpoints : result[e] = "ok")

\* The gate implements the abstract barrier.
Barriers == INSTANCE MutualBarrier
            WITH Endpoints <- Endpoints, verdict <- verdict, result <- result
ImplementsBarrier == Barriers!Spec

==============================================================================

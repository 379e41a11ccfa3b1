---------------------------- MODULE MutualBarrier ----------------------------
(***************************************************************************)
(* What the attestation gate promises its two callers, without the wire.   *)
(*                                                                         *)
(* Each endpoint appraises the other once and each call returns once.  A   *)
(* call may succeed only when both appraisals accepted, may blame trust    *)
(* only when some appraisal rejected, and may report a transport error     *)
(* only when its own appraisal did not reject.  AttestGate is the protocol *)
(* that implements this promise.                                           *)
(***************************************************************************)
CONSTANT Endpoints              \* the two ends of one session

VARIABLES verdict,              \* verdict[e]: what e decided about its peer
          result                \* result[e]: how e's call of Run returned

vars == <<verdict, result>>

Verdicts == {"none", "ok", "nak"}
Results == {"running", "ok", "trust", "io"}

Init == /\ verdict = [e \in Endpoints |-> "none"]
        /\ result = [e \in Endpoints |-> "running"]

Appraise(e) ==
    /\ verdict[e] = "none"
    /\ result[e] = "running"
    /\ verdict' \in {[verdict EXCEPT ![e] = v] : v \in {"ok", "nak"}}
    /\ UNCHANGED result

Return(e, r) ==
    /\ result[e] = "running"
    /\ result' = [result EXCEPT ![e] = r]
    /\ UNCHANGED verdict

Succeed(e) == Return(e, "ok") /\ \A x \in Endpoints : verdict[x] = "ok"
Refuse(e) == Return(e, "trust") /\ \E x \in Endpoints : verdict[x] = "nak"
Abort(e) == Return(e, "io") /\ verdict[e] # "nak"

Next == \E e \in Endpoints : Appraise(e) \/ Succeed(e) \/ Refuse(e) \/ Abort(e)

Spec == Init /\ [][Next]_vars

==============================================================================

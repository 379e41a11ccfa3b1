---------------------------- MODULE MCSetupServer ----------------------------
(***************************************************************************)
(* SetupServer with two connections and one slot, under the daemon's       *)
(* default flags, with re-attestation, without the gate's own deadline,    *)
(* and in CA mode.                                                         *)
(***************************************************************************)
EXTENDS SetupServer

CONSTANTS c1, c2

Flags(attested, gate, ttl) == [attested |-> attested, gate |-> gate, ttl |-> ttl]

MCSettings == {Flags(TRUE, 1, 0), Flags(TRUE, 1, 1), Flags(TRUE, 0, 1), Flags(FALSE, 1, 1)}

==============================================================================

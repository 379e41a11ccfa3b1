---------------------------- MODULE MCAttestSession ----------------------------
(***************************************************************************)
(* Two daemons: a keeps connecting to b, which has a manifest, two sessions *)
(* at a time; b connects to a now and then.                                 *)
(***************************************************************************)
EXTENDS AttestSession

CONSTANTS a, b

AToB == {<<a, b>>}
BToA == {<<b, a>>}

==============================================================================

----------------------------- MODULE MCCapability -----------------------------
(***************************************************************************)
(* Capabilities of up to three segments over two, grants of up to two of   *)
(* them, chains of three hops.                                             *)
(***************************************************************************)
EXTENDS Capability, FiniteSets

MCSegment == {"fs", "read"}
MCName == UNION {[1..n -> MCSegment] : n \in 1..3}
MCGrants == {G \in SUBSET MCName : Cardinality(G) <= 2}

==============================================================================

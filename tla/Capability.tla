------------------------------ MODULE Capability ------------------------------
(***************************************************************************)
(* The capability order of internal/capability/capability.go and the       *)
(* delegation chain built on it: each hop hands on what it was granted,    *)
(* attenuated by its own policy.                                           *)
(*                                                                         *)
(* A capability "fs.read" is the sequence of its dot-separated segments;   *)
(* one string is another's dot-prefix exactly when its segments are a      *)
(* prefix of the other's.  A grant list is a set: Attenuate removes        *)
(* duplicates and sorts.                                                   *)
(***************************************************************************)
EXTENDS Naturals, Sequences

CONSTANTS
    Segment,        \* what stands between two dots
    Name,           \* capabilities that are granted or requested
    Grants,         \* grant lists a hop may hold or apply
    MaxHops         \* bound on the length of a chain

ASSUME CapabilityAssumption ==
    /\ \A n \in Name : n \in Seq(Segment)
    /\ Grants \subseteq SUBSET Name

VARIABLES
    chain,          \* the grants along the chain, the first hop's first
    authority       \* what the last hop may exercise

vars == <<chain, authority>>

------------------------------------------------------------------------------
(* The order on capabilities. *)

\* g equals r or is a dot-prefix of r.
capCovers(g, r) == Len(g) <= Len(r) /\ \A i \in 1..Len(g) : g[i] = r[i]

\* Some grant covers the request.
CoveredBy(r, G) == \E g \in G : capCovers(g, r)

\* Mutant: what a comparable pair has in common is handed on.
MutantCommon(upstream, local) ==
    {SubSeq(a, 1, Len(a) - 1) : a \in {x \in upstream : CoveredBy(x, local)}}

\* Mutant: the more general capability of a comparable pair is handed on.
MutantAttenuate(upstream, local) ==
    {a \in upstream : \E b \in local : capCovers(a, b) \/ capCovers(b, a)}

\* Of every comparable pair the more specific capability.
Attenuate(upstream, local) ==
    {b \in local : \E a \in upstream : capCovers(a, b)}
        \cup {a \in upstream : \E b \in local : capCovers(b, a)}

------------------------------------------------------------------------------
(* AttenuateChain *)

Init == \E g \in Grants : chain = <<g>> /\ authority = g

HandOff(local) ==
    /\ Len(chain) < MaxHops
    /\ chain' = Append(chain, local)
    /\ authority' = Attenuate(authority, local)

Next == \E local \in Grants : HandOff(local)

Spec == Init /\ [][Next]_vars

------------------------------------------------------------------------------
(* Properties. *)

\* A chain is a sequence of grant lists, what it grants a set of capabilities.
TypeOK == chain \in Seq(Grants) /\ authority \subseteq Name

\* No hop escalates and none loses what all allow: the last hop may exercise
\* exactly what every grant along the chain covers (Attenuate's "generating set
\* of upstream and local"; AttenuateChain's shrinking authority).
EndToEnd ==
    \A r \in Name :
        CoveredBy(r, authority) <=> \A i \in DOMAIN chain : CoveredBy(r, chain[i])

==============================================================================

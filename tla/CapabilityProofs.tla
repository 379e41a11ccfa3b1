--------------------------- MODULE CapabilityProofs ---------------------------
(***************************************************************************)
(* Attenuation, for every set of capabilities and chains of every length.  *)
(***************************************************************************)
EXTENDS Capability, TLAPS

\* capCovers is transitive: what refines a refinement refines the grant.
LEMMA CoversTransitive ==
    ASSUME NEW a \in Seq(Segment), NEW b \in Seq(Segment), NEW r \in Seq(Segment),
           capCovers(a, b), capCovers(b, r)
    PROVE  capCovers(a, r)
BY DEF capCovers

\* Two capabilities that cover one request are comparable, which is why looking
\* at comparable pairs is enough for Attenuate.
LEMMA CoversComparable ==
    ASSUME NEW a \in Seq(Segment), NEW b \in Seq(Segment), NEW r \in Seq(Segment),
           capCovers(a, r), capCovers(b, r)
    PROVE  capCovers(a, b) \/ capCovers(b, a)
<1>1. Len(a) \in Nat /\ Len(b) \in Nat /\ Len(r) \in Nat
    OBVIOUS
<1>2. CASE Len(a) <= Len(b)
    BY <1>1, <1>2 DEF capCovers
<1>3. CASE Len(b) <= Len(a)
    BY <1>1, <1>3 DEF capCovers
<1> QED BY <1>1, <1>2, <1>3

\* Attenuate generates the intersection: it covers what both lists cover, no
\* more (no hop escalates) and no less.
THEOREM Attenuation ==
    ASSUME NEW U \in SUBSET Name, NEW L \in SUBSET Name, NEW r \in Name
    PROVE  CoveredBy(r, Attenuate(U, L)) <=> CoveredBy(r, U) /\ CoveredBy(r, L)
<1>0. \A n \in Name : n \in Seq(Segment)
    BY CapabilityAssumption DEF CapabilityAssumption
<1>1. ASSUME CoveredBy(r, Attenuate(U, L))
      PROVE  CoveredBy(r, U) /\ CoveredBy(r, L)
    <2>1. PICK g \in Attenuate(U, L) : capCovers(g, r)
        BY <1>1 DEF CoveredBy
    <2>2. CASE g \in L /\ \E a \in U : capCovers(a, g)
        <3>1. PICK a \in U : capCovers(a, g)
            BY <2>2
        <3>2. capCovers(a, r)
            BY <1>0, <2>1, <2>2, <3>1, CoversTransitive
        <3> QED BY <2>1, <2>2, <3>2 DEF CoveredBy
    <2>3. CASE g \in U /\ \E b \in L : capCovers(b, g)
        <3>1. PICK b \in L : capCovers(b, g)
            BY <2>3
        <3>2. capCovers(b, r)
            BY <1>0, <2>1, <2>3, <3>1, CoversTransitive
        <3> QED BY <2>1, <2>3, <3>2 DEF CoveredBy
    <2> QED BY <2>1, <2>2, <2>3 DEF Attenuate
<1>2. ASSUME CoveredBy(r, U), CoveredBy(r, L)
      PROVE  CoveredBy(r, Attenuate(U, L))
    <2>1. PICK a \in U : capCovers(a, r)
        BY <1>2 DEF CoveredBy
    <2>2. PICK b \in L : capCovers(b, r)
        BY <1>2 DEF CoveredBy
    <2>3. capCovers(a, b) \/ capCovers(b, a)
        BY <1>0, <2>1, <2>2, CoversComparable
    <2>4. a \in Attenuate(U, L) \/ b \in Attenuate(U, L)
        BY <2>3 DEF Attenuate
    <2> QED BY <2>1, <2>2, <2>4 DEF CoveredBy
<1> QED BY <1>1, <1>2

\* Chains are sequences of grant lists and grant only capabilities.
THEOREM TypeCorrect == Spec => []TypeOK
<1>1. Init => TypeOK
    BY CapabilityAssumption DEF CapabilityAssumption, Init, TypeOK
<1>2. TypeOK /\ [Next]_vars => TypeOK'
    BY CapabilityAssumption
    DEF CapabilityAssumption, TypeOK, Next, HandOff, Attenuate, vars
<1> QED BY <1>1, <1>2, PTL DEF Spec

\* Along every chain the last hop may exercise exactly what all grants cover.
THEOREM ChainExact == Spec => []EndToEnd
<1>1. Init => EndToEnd
    BY DEF Init, EndToEnd
<1>2. TypeOK /\ EndToEnd /\ [Next]_vars => EndToEnd'
    <2> SUFFICES ASSUME TypeOK, EndToEnd, [Next]_vars
                 PROVE  EndToEnd'
        OBVIOUS
    <2>1. ASSUME NEW local \in Grants, HandOff(local)
          PROVE  EndToEnd'
        <3>1. chain' = Append(chain, local) /\ authority' = Attenuate(authority, local)
            BY <2>1 DEF HandOff
        <3>2. chain \in Seq(Grants) /\ authority \in SUBSET Name /\ local \in SUBSET Name
            BY CapabilityAssumption DEF CapabilityAssumption, TypeOK
        <3>3. DOMAIN chain' = 1..(Len(chain) + 1) /\ DOMAIN chain = 1..Len(chain)
            BY <3>1, <3>2
        <3>4. /\ chain'[Len(chain) + 1] = local
              /\ \A i \in DOMAIN chain : chain'[i] = chain[i]
            BY <3>1, <3>2
        <3>5. ASSUME NEW r \in Name
              PROVE  CoveredBy(r, authority') <=>
                        \A i \in DOMAIN chain' : CoveredBy(r, chain'[i])
            <4>1. CoveredBy(r, authority') <=> CoveredBy(r, authority) /\ CoveredBy(r, local)
                BY <3>1, <3>2, Attenuation
            <4>2. CoveredBy(r, authority) <=> \A i \in DOMAIN chain : CoveredBy(r, chain[i])
                BY DEF EndToEnd
            <4>3. (\A i \in DOMAIN chain' : CoveredBy(r, chain'[i])) <=>
                     /\ \A i \in DOMAIN chain : CoveredBy(r, chain[i])
                     /\ CoveredBy(r, local)
                <5>1. Len(chain) \in Nat
                    BY <3>2
                <5> QED BY <3>3, <3>4, <5>1
            <4> QED BY <4>1, <4>2, <4>3
        <3> QED BY <3>5 DEF EndToEnd
    <2>2. CASE UNCHANGED vars
        BY <2>2 DEF vars, EndToEnd
    <2> QED BY <2>1, <2>2 DEF Next
<1> QED BY <1>1, <1>2, TypeCorrect, PTL DEF Spec

==============================================================================

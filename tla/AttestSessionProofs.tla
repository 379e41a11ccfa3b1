------------------------- MODULE AttestSessionProofs -------------------------
(***************************************************************************)
(* Proofs about AttestSession, for any finite set of daemons in any roles,  *)
(* any number of overlapping sessions and any number of events: its types,  *)
(* that the two ends of a tunnel rest on one gate, and which manifest the   *)
(* client of a tunnel enforces.                                             *)
(***************************************************************************)
EXTENDS AttestSession, FunctionTheorems, FiniteSetTheorems, TLAPS

\* How far the two ends may be apart.
Agreeing(s) ==
    LET c == Pc(s, "client")
        p == Pc(s, "server")
    IN  /\ p \notin {"ack", "store"} /\ c # "mode"
        /\ c = "ack" => /\ p \in {"mode", "gate", "resume", "failed"}
                        /\ conn[s].ack = "R" => p \in {"resume", "failed"}
                        /\ conn[s].ack = "F" => p \in {"gate", "failed"}
        /\ p = "mode" => /\ c \in {"ack", "gate", "failed"} /\ conn[s].ack = "none"
                         /\ conn[s].mode = "R" => c # "gate"
                         /\ conn[s].mode = "F" => c # "ack"
                         /\ conn[s].mode # "none"
        /\ c = "gate" => p \in {"mode", "gate", "up", "failed"}
        /\ c = "store" => p \in {"gate", "up", "failed"}
        /\ c = "resume" => p \in {"resume", "up", "failed"}
        /\ p = "resume" => c \in {"ack", "resume", "up", "failed"}
        /\ p = "gate" => c \in {"ack", "gate", "store", "up", "failed"}

\* In a session whose gate has made a secret, the ends past the gate hold it.
Gated(s) ==
    /\ conn[s].id # 0 =>
            /\ \A r \in Role : Pc(s, r) \in {"store", "up"} => end[s][r].rs = conn[s].id
            /\ Pc(s, "client") \notin {"ack", "resume"}
            /\ Pc(s, "server") \notin {"mode", "resume"}
    /\ Pc(s, "client") = "store" => conn[s].id # 0
    /\ Pc(s, "client") = "up" /\ Pc(s, "server") = "gate" => conn[s].id # 0
    /\ Pc(s, "client") = "gate" /\ Pc(s, "server") = "up" => conn[s].id # 0

\* In the others an end is up only when the other had the same secret.
Resumed(s) ==
    /\ conn[s].id = 0
    /\ \A r \in Role : Pc(s, r) \in {"resume", "up"}
    /\ \E r \in Role : Pc(s, r) = "up"
    => Proves(s)

Paired(s) == Agreeing(s) /\ Gated(s) /\ Resumed(s)

IInv == TypeOK /\ \A s \in Slot : Paired(s)

------------------------------------------------------------------------------
(* There is always an unused identity for a new secret. *)

LEMMA IdsFinite ==
    /\ Cardinality(Node) * Cardinality(Node) \in Nat /\ Cardinality(Slot) \in Nat
    /\ Ids \subseteq Nat \ {0}
    /\ IsFiniteSet(Ids)
    /\ Cardinality(Ids) =
            Cardinality(Node) * Cardinality(Node) + 3 * Cardinality(Slot)
<1>1. Cardinality(Node) \in Nat /\ Cardinality(Slot) \in Nat
  BY SessionAssumption, FS_CardinalityType
<1>2. Cardinality(Node) * Cardinality(Node) \in Nat
  BY <1>1
<1> DEFINE k == Cardinality(Node) * Cardinality(Node) + 3 * Cardinality(Slot)
<1>3. k \in Nat
  BY <1>1, <1>2
<1> HIDE DEF k
<1>4. IsFiniteSet(1..k) /\ Cardinality(1..k) = k
  BY <1>3, FS_Interval
<1> QED
  BY <1>1, <1>2, <1>3, <1>4 DEF Ids, k

\* The three sorts of secrets in use, each with at most as many members as
\* there are places to keep one.
CachedIds == {secrets[n][p].rs : n \in Node, p \in Node}
ConnIds == {conn[s].id : s \in Slot}
HeldIds == {end[s][r].rs : s \in Slot, r \in Role}

LEMMA CachedIdsFew ==
    IsFiniteSet(CachedIds) /\ Cardinality(CachedIds) <= Cardinality(Node) * Cardinality(Node)
<1> DEFINE f == [q \in Node \X Node |-> secrets[q[1]][q[2]].rs]
<1>1. f \in Surjection(Node \X Node, CachedIds)
  <2>1. f \in [Node \X Node -> CachedIds]
    BY DEF CachedIds
  <2>2. \A i \in CachedIds : \E q \in Node \X Node : f[q] = i
    <3> TAKE i \in CachedIds
    <3>1. PICK n \in Node, p \in Node : i = secrets[n][p].rs
      BY DEF CachedIds
    <3>2. <<n, p>> \in Node \X Node /\ f[<<n, p>>] = i
      BY <3>1
    <3> QED
      BY <3>2
  <2> QED
    BY <2>1, <2>2 DEF Surjection
<1> HIDE DEF f
<1>2. /\ IsFiniteSet(Node \X Node)
      /\ Cardinality(Node \X Node) = Cardinality(Node) * Cardinality(Node)
  BY SessionAssumption, FS_Product
<1> QED
  BY <1>1, <1>2, FS_Surjection

LEMMA ConnIdsFew ==
    IsFiniteSet(ConnIds) /\ Cardinality(ConnIds) <= Cardinality(Slot)
<1> DEFINE f == [s \in Slot |-> conn[s].id]
<1>1. f \in Surjection(Slot, ConnIds)
  BY DEF ConnIds, Surjection
<1> HIDE DEF f
<1> QED
  BY <1>1, SessionAssumption, FS_Surjection

LEMMA HeldIdsFew ==
    IsFiniteSet(HeldIds) /\ Cardinality(HeldIds) <= Cardinality(Slot) * 2
<1> DEFINE f == [q \in Slot \X Role |-> end[q[1]][q[2]].rs]
<1>1. f \in Surjection(Slot \X Role, HeldIds)
  <2>1. f \in [Slot \X Role -> HeldIds]
    BY DEF HeldIds
  <2>2. \A i \in HeldIds : \E q \in Slot \X Role : f[q] = i
    <3> TAKE i \in HeldIds
    <3>1. PICK s \in Slot, r \in Role : i = end[s][r].rs
      BY DEF HeldIds
    <3>2. <<s, r>> \in Slot \X Role /\ f[<<s, r>>] = i
      BY <3>1
    <3> QED
      BY <3>2
  <2> QED
    BY <2>1, <2>2 DEF Surjection
<1> HIDE DEF f
<1>2. IsFiniteSet(Role) /\ Cardinality(Role) = 2
  <2>1. IsFiniteSet({"client"}) /\ Cardinality({"client"}) = 1
    BY FS_Singleton
  <2>2. Role = {"client"} \cup {"server"} /\ "server" \notin {"client"}
    BY DEF Role
  <2>3. IsFiniteSet(Role) /\ Cardinality(Role) = 1 + 1
    BY <2>1, <2>2, FS_AddElement
  <2> QED
    BY <2>3
<1>3. /\ IsFiniteSet(Slot \X Role)
      /\ Cardinality(Slot \X Role) = Cardinality(Slot) * 2
  BY <1>2, SessionAssumption, FS_Product
<1> QED
  BY <1>1, <1>3, FS_Surjection

\* A session without a secret leaves the place of one identity free.
LEMMA FreshId ==
    ASSUME NEW s \in Slot, conn[s].id = 0
    PROVE  Ids \ UsedIds # {}
<1>1. UsedIds = CachedIds \cup ConnIds \cup HeldIds
  BY DEF UsedIds, CachedIds, ConnIds, HeldIds
<1>2. 0 \in UsedIds
  BY <1>1 DEF ConnIds
<1> DEFINE k == Cardinality(Node) * Cardinality(Node)
           m == Cardinality(Slot)
<1>3. k \in Nat /\ m \in Nat /\ IsFiniteSet(Ids) /\ Cardinality(Ids) = k + 3 * m
      /\ 0 \notin Ids
  BY IdsFinite
<1>4. /\ IsFiniteSet(CachedIds) /\ Cardinality(CachedIds) <= k
      /\ IsFiniteSet(ConnIds) /\ Cardinality(ConnIds) <= m
      /\ IsFiniteSet(HeldIds) /\ Cardinality(HeldIds) <= m * 2
  BY CachedIdsFew, ConnIdsFew, HeldIdsFew
<1> HIDE DEF k, m
<1>5. /\ Cardinality(CachedIds) \in Nat /\ Cardinality(ConnIds) \in Nat
      /\ Cardinality(HeldIds) \in Nat
  BY <1>4, FS_CardinalityType
<1>6. /\ IsFiniteSet(CachedIds \cup ConnIds)
      /\ Cardinality(CachedIds \cup ConnIds) \in Nat
      /\ Cardinality(CachedIds \cup ConnIds) <= k + m
  <2>1. /\ IsFiniteSet(CachedIds \cup ConnIds)
        /\ Cardinality(CachedIds \cup ConnIds) = Cardinality(CachedIds)
                + Cardinality(ConnIds) - Cardinality(CachedIds \cap ConnIds)
    BY <1>4, FS_Union
  <2>2. Cardinality(CachedIds \cap ConnIds) \in Nat
    BY <1>4, FS_Intersection, FS_CardinalityType
  <2> QED
    BY <1>3, <1>4, <1>5, <2>1, <2>2, FS_CardinalityType
<1>7. IsFiniteSet(UsedIds) /\ Cardinality(UsedIds) \in Nat
      /\ Cardinality(UsedIds) <= k + 3 * m
  <2>1. /\ IsFiniteSet(UsedIds)
        /\ Cardinality(UsedIds) = Cardinality(CachedIds \cup ConnIds)
                + Cardinality(HeldIds) - Cardinality((CachedIds \cup ConnIds) \cap HeldIds)
    BY <1>1, <1>4, <1>6, FS_Union
  <2>2. Cardinality((CachedIds \cup ConnIds) \cap HeldIds) \in Nat
    BY <1>6, FS_Intersection, FS_CardinalityType
  <2>3. Cardinality(UsedIds) \in Nat
    BY <2>1, FS_CardinalityType
  <2> QED
    BY <1>3, <1>4, <1>5, <1>6, <2>1, <2>2, <2>3
<1>8. IsFiniteSet(UsedIds \ {0}) /\ Cardinality(UsedIds \ {0}) = Cardinality(UsedIds) - 1
  BY <1>2, <1>7, FS_RemoveElement
<1>9. ASSUME Ids \ UsedIds = {} PROVE FALSE
  <2>1. Ids \in SUBSET (UsedIds \ {0})
    BY <1>3, <1>9
  <2>2. Cardinality(Ids) <= Cardinality(UsedIds \ {0})
    BY <1>8, <2>1, FS_Subset
  <2> QED
    BY <1>3, <1>7, <1>8, <2>2
<1> QED
  BY <1>9

------------------------------------------------------------------------------
(* One slot's step. *)

LEMMA Blank ==
    /\ Off \in End /\ Gone \in End /\ NoConn \in Conn /\ NoEntry \in Entry
    /\ Off.pc = "off" /\ Gone.pc = "failed"
    /\ NoConn.id = 0 /\ NoConn.ack = "none"
BY SessionAssumption DEF Off, Gone, NoConn, NoEntry, End, Conn, Entry, InProgress, Role

LEMMA HoldingIs ==
    ASSUME NEW x \in Entry, NEW pc \in InProgress
    PROVE  /\ Holding(x, pc) \in End
           /\ Holding(x, pc).pc = pc /\ Holding(x, pc).rs = x.rs
           /\ Holding(x, pc).manifest = x.manifest /\ Holding(x, pc).made = x.made
BY Blank DEF Holding, End, Entry

LEMMA EnterGateIs ==
    ASSUME TypeOK, NEW n \in Node
    PROVE  /\ EnterGate(n) \in End
           /\ EnterGate(n).pc = "gate" /\ EnterGate(n).advertised = advert[n]
<1>1. advert[n] \in 0..MaxVersion /\ "gate" \in InProgress
  BY DEF TypeOK, InProgress
<1>2. Off \in End
  BY Blank
<1> QED
  BY <1>1, <1>2 DEF EnterGate, End, Off

\* What a step may change of a session's connection without touching its ends.
SameLink(t) ==
    /\ conn'[t].id = conn[t].id /\ conn'[t].mode = conn[t].mode
    /\ conn'[t].ack = conn[t].ack
    /\ conn'[t].client = conn[t].client /\ conn'[t].server = conn[t].server

LEMMA PairedSame ==
    ASSUME NEW t \in Slot, Paired(t), SameLink(t), end'[t] = end[t]
    PROVE  Paired(t)'
<1>1. Agreeing(t)'
  BY DEF Paired, Agreeing, Pc, SameLink
<1>2. Gated(t)'
  BY DEF Paired, Gated, Pc, SameLink
<1>3. Resumed(t)'
  BY DEF Paired, Resumed, Pc, Proves, SameLink
<1> QED
  BY <1>1, <1>2, <1>3 DEF Paired

\* Slots share nothing but the daemons' maps: a step in slot s leaves the
\* others as they should be.
LEMMA SlotStep ==
    ASSUME IInv, NEW s \in Slot, TypeOK',
           \A t \in Slot \ {s} : SameLink(t) /\ end'[t] = end[t],
           Paired(s)'
    PROVE  IInv'
<1>1. ASSUME NEW t \in Slot PROVE Paired(t)'
  <2>1. CASE t = s
    BY <2>1
  <2>2. CASE t # s
    BY <2>2, PairedSame DEF IInv
  <2> QED
    BY <2>1, <2>2
<1> QED
  BY <1>1 DEF IInv

\* The same for a step that moves one end, and the connection it is on.
LEMMA EndStep ==
    ASSUME IInv, NEW s \in Slot, NEW r \in Role, NEW e \in End, NEW k \in Conn,
           secrets' \in [Node -> [Node -> Entry]],
           UNCHANGED <<manifests, over, advert, events>>,
           conn' = [conn EXCEPT ![s] = k],
           end' = [end EXCEPT ![s][r] = e],
           conn'[s] = k /\ end'[s][r] = e /\ end'[s][Other(r)] = end[s][Other(r)] => Paired(s)'
    PROVE  IInv'
<1>1. end \in [Slot -> [Role -> End]] /\ conn \in [Slot -> Conn]
  BY DEF IInv, TypeOK
<1>2. end' \in [Slot -> [Role -> End]] /\ conn' \in [Slot -> Conn]
  BY <1>1
<1>3. TypeOK'
  BY <1>2 DEF IInv, TypeOK
<1>4. \A t \in Slot \ {s} : SameLink(t) /\ end'[t] = end[t]
  BY <1>1 DEF SameLink
<1>5. Other(r) \in Role /\ Other(r) # r
  BY DEF Other, Role
<1>6. conn'[s] = k /\ end'[s][r] = e /\ end'[s][Other(r)] = end[s][Other(r)]
  BY <1>1, <1>5
<1> QED
  BY <1>3, <1>4, <1>6, SlotStep

LEMMA ProposeStep ==
    ASSUME IInv, NEW s \in Slot, NEW c \in Node, NEW p \in Node, Propose(s, c, p)
    PROVE  IInv'
<1> DEFINE k == [NoConn EXCEPT !.client = c, !.server = p,
                               !.mode = IF Live(c, p) THEN "R" ELSE "F"]
           x == IF Live(c, p) THEN Holding(secrets[c][p], "ack") ELSE EnterGate(c)
           y == [end[s]["server"] EXCEPT !.pc = "mode"]
<1>1. /\ conn' = [conn EXCEPT ![s] = k]
      /\ end' = [end EXCEPT ![s]["client"] = x, ![s]["server"].pc = "mode"]
      /\ UNCHANGED <<secrets, manifests, over, advert>>
  BY DEF Propose
<1>2. /\ conn \in [Slot -> Conn] /\ end \in [Slot -> [Role -> End]]
      /\ secrets \in [Node -> [Node -> Entry]]
  BY DEF IInv, TypeOK
<1>3. k \in Conn /\ k.ack = "none" /\ k.id = 0
      /\ k.mode = IF Live(c, p) THEN "R" ELSE "F"
  BY Blank DEF Conn
<1>4. x \in End /\ x.pc = IF Live(c, p) THEN "ack" ELSE "gate"
  <2>1. secrets[c][p] \in Entry /\ "ack" \in InProgress
    BY <1>2 DEF InProgress
  <2> QED
    BY <2>1, HoldingIs, EnterGateIs DEF IInv
<1>5. y \in End /\ y.pc = "mode"
  <2>1. end[s]["server"] \in End
    BY <1>2 DEF Role
  <2> QED
    BY <2>1 DEF End, InProgress
<1>6. /\ end' \in [Slot -> [Role -> End]]
      /\ end'[s]["client"] = x /\ end'[s]["server"] = y
      /\ \A t \in Slot \ {s} : end'[t] = end[t]
  <2> HIDE DEF x
  <2>1. end' = [end EXCEPT ![s] = [end[s] EXCEPT !["client"] = x, !["server"] = y]]
    BY <1>1, <1>2 DEF Role
  <2> HIDE DEF y
  <2> QED
    BY <1>2, <1>4, <1>5, <2>1 DEF Role
<1> HIDE DEF k, x, y
<1>7. conn' \in [Slot -> Conn] /\ conn'[s] = k /\ \A t \in Slot \ {s} : conn'[t] = conn[t]
  BY <1>1, <1>2, <1>3
<1>8. Paired(s)'
  <2>1. Agreeing(s)'
    BY <1>3, <1>4, <1>5, <1>6, <1>7 DEF Agreeing, Pc
  <2>2. Gated(s)'
    BY <1>3, <1>4, <1>5, <1>6, <1>7 DEF Gated, Pc
  <2>3. Resumed(s)'
    BY <1>5, <1>6 DEF Resumed, Pc, Role
  <2> QED
    BY <2>1, <2>2, <2>3 DEF Paired
<1>9. events' \in 0..MaxEvents
  BY SessionAssumption DEF Propose, Happens, IInv, TypeOK
<1>10. TypeOK'
  BY <1>1, <1>6, <1>7, <1>9 DEF IInv, TypeOK
<1> QED
  BY <1>6, <1>7, <1>8, <1>10, SlotStep DEF SameLink

LEMMA ReadModeStep ==
    ASSUME IInv, NEW s \in Slot, ReadMode(s)
    PROVE  IInv'
<1> DEFINE c == conn[s].client
           p == conn[s].server
           resume == conn[s].mode = "R" /\ Live(p, c)
           k == [conn[s] EXCEPT !.ack = IF conn[s].mode = "F" THEN conn[s].ack
                                        ELSE IF resume THEN "R" ELSE "F",
                                !.mode = "none"]
           y == IF resume THEN Holding(secrets[p][c], "resume") ELSE EnterGate(p)
<1>1. /\ conn \in [Slot -> Conn] /\ end \in [Slot -> [Role -> End]]
      /\ secrets \in [Node -> [Node -> Entry]]
      /\ conn[s] \in Conn /\ c \in Node /\ p \in Node
  BY DEF IInv, TypeOK, Conn
<1>2. /\ conn' = [conn EXCEPT ![s] = k]
      /\ end' = [end EXCEPT ![s]["server"] = y]
      /\ UNCHANGED <<secrets, manifests, over, advert, events>>
      /\ Pc(s, "server") = "mode"
  BY <1>1 DEF ReadMode
<1>3. /\ k \in Conn /\ k.id = conn[s].id
      /\ conn[s].mode = "F" => k.ack = conn[s].ack
      /\ conn[s].mode # "F" => k.ack = IF resume THEN "R" ELSE "F"
  BY <1>1 DEF Conn
<1>4. y \in End /\ y.pc = IF resume THEN "resume" ELSE "gate"
  <2>1. secrets[p][c] \in Entry /\ "resume" \in InProgress
    BY <1>1 DEF InProgress
  <2> HIDE DEF c, p
  <2> QED
    BY <1>1, <2>1, HoldingIs, EnterGateIs DEF IInv
<1>5. resume => conn[s].mode = "R"
  OBVIOUS
<1> HIDE DEF y, k, resume, c, p
<1>6. Paired(s)
  BY DEF IInv
<1>7. ASSUME conn'[s] = k, end'[s]["server"] = y, end'[s]["client"] = end[s]["client"]
      PROVE  Paired(s)'
  <2>1. /\ end[s]["client"].pc \in {"ack", "gate", "failed"} /\ conn[s].ack = "none"
        /\ conn[s].mode \in {"R", "F"} /\ conn[s].id = 0
        /\ conn[s].mode = "R" => end[s]["client"].pc # "gate"
        /\ conn[s].mode = "F" => end[s]["client"].pc # "ack"
    BY <1>1, <1>2, <1>6 DEF Paired, Agreeing, Gated, Pc, Conn
  <2>2. Agreeing(s)'
    BY <1>3, <1>4, <1>5, <1>7, <2>1 DEF Agreeing, Pc
  <2>3. Gated(s)' /\ Resumed(s)'
    BY <1>3, <1>4, <1>7, <2>1 DEF Gated, Resumed, Pc, Role
  <2> QED
    BY <2>2, <2>3 DEF Paired
<1>8. "server" \in Role /\ Other("server") = "client"
  BY DEF Role, Other
<1> QED
  BY <1>1, <1>2, <1>3, <1>4, <1>7, <1>8, EndStep

LEMMA ReadAckStep ==
    ASSUME IInv, NEW s \in Slot, ReadAck(s)
    PROVE  IInv'
<1> DEFINE e == IF conn[s].ack = "R" THEN [end[s]["client"] EXCEPT !.pc = "resume"]
                                     ELSE EnterGate(conn[s].client)
           k == [conn[s] EXCEPT !.ack = "none"]
<1>1. /\ end \in [Slot -> [Role -> End]] /\ end[s]["client"] \in End
      /\ conn[s].client \in Node /\ Paired(s) /\ conn[s] \in Conn
      /\ conn \in [Slot -> Conn] /\ secrets \in [Node -> [Node -> Entry]]
  BY DEF IInv, TypeOK, Conn, Role
<1>2. /\ end' = [end EXCEPT ![s]["client"] = e] /\ conn' = [conn EXCEPT ![s] = k]
      /\ UNCHANGED <<secrets, manifests, over, advert, events>>
      /\ Pc(s, "client") = "ack" /\ conn[s].ack # "none"
  BY <1>1 DEF ReadAck, Role
<1>3. k \in Conn /\ k.id = conn[s].id /\ k.ack = "none" /\ k.mode = conn[s].mode
  BY <1>1 DEF Conn
<1>4. e \in End /\ e.pc = IF conn[s].ack = "R" THEN "resume" ELSE "gate"
  BY <1>1, EnterGateIs DEF End, InProgress, IInv
<1>5. conn[s].ack = "R" => e.rs = end[s]["client"].rs
  BY <1>1 DEF End
<1> HIDE DEF e, k
<1>6. ASSUME conn'[s] = k, end'[s]["client"] = e, end'[s]["server"] = end[s]["server"]
      PROVE  Paired(s)'
  <2>1. /\ conn[s].ack \in {"R", "F"} /\ conn[s].id = 0
        /\ conn[s].ack = "R" => end[s]["server"].pc \in {"resume", "failed"}
        /\ conn[s].ack = "F" => end[s]["server"].pc \in {"gate", "failed"}
    BY <1>1, <1>2 DEF Paired, Agreeing, Gated, Pc, Conn
  <2>2. Agreeing(s)'
    BY <1>3, <1>4, <1>6, <2>1 DEF Agreeing, Pc
  <2>3. Gated(s)' /\ Resumed(s)'
    BY <1>3, <1>4, <1>6, <2>1 DEF Gated, Resumed, Pc, Role
  <2> QED
    BY <2>2, <2>3 DEF Paired
<1>7. "client" \in Role /\ Other("client") = "server"
  BY DEF Role, Other
<1> QED
  BY <1>1, <1>2, <1>3, <1>4, <1>6, <1>7, EndStep


LEMMA RunGateStep ==
    ASSUME IInv, NEW s \in Slot, NEW r \in Role, RunGate(s, r)
    PROVE  IInv'
<1> DEFINE peer == end[s][Other(r)]
           id == IF conn[s].id # 0 THEN conn[s].id ELSE CHOOSE i \in Ids \ UsedIds : TRUE
           k == [conn[s] EXCEPT !.id = id]
           e == [end[s][r] EXCEPT !.pc = IF r = "client" THEN "store" ELSE "up",
                                  !.rs = conn'[s].id, !.manifest = peer.advertised,
                                  !.made = r]
           x == [rs |-> conn'[s].id, manifest |-> peer.advertised, made |-> r]
<1>1. /\ end \in [Slot -> [Role -> End]] /\ conn[s] \in Conn /\ conn \in [Slot -> Conn]
      /\ Other(r) \in Role /\ end[s][r] \in End /\ peer \in End
      /\ secrets \in [Node -> [Node -> Entry]] /\ Paired(s)
  BY DEF IInv, TypeOK, Role, Other
<1>2. /\ end' = [end EXCEPT ![s][r] = e] /\ conn' = [conn EXCEPT ![s] = k]
      /\ UNCHANGED <<manifests, over, advert, events>>
      /\ Pc(s, r) = "gate" /\ peer.pc \in {"gate", "store", "up"}
      /\ secrets' = [secrets EXCEPT ![Me(s, r)][Me(s, Other(r))] = x]
  BY <1>1 DEF RunGate, Remember, Derive
<1>3. id \in Ids /\ id # 0
  <2>1. CASE conn[s].id # 0
    BY <1>1, <2>1 DEF Conn
  <2>2. CASE conn[s].id = 0
    BY <2>2, FreshId, IdsFinite
  <2> QED
    BY <2>1, <2>2
<1>4. conn[s].id # 0 => id = conn[s].id
  OBVIOUS
<1> HIDE DEF id
<1>5. /\ k \in Conn /\ k.id = id /\ k.ack = conn[s].ack /\ k.mode = conn[s].mode
      /\ conn'[s] = k
  BY <1>1, <1>2, <1>3 DEF Conn
<1> HIDE DEF k
<1>6. /\ e \in End /\ e.pc = (IF r = "client" THEN "store" ELSE "up") /\ e.rs = id
  BY <1>1, <1>3, <1>5 DEF End, InProgress
<1>7. secrets' \in [Node -> [Node -> Entry]]
  <2>1. x \in Entry
    BY <1>1, <1>3, <1>5 DEF Entry, End
  <2>2. Me(s, r) \in Node /\ Me(s, Other(r)) \in Node
    BY <1>1 DEF Me, Conn
  <2> HIDE DEF x
  <2> QED
    BY <1>1, <1>2, <2>1, <2>2
<1> HIDE DEF e, x
<1>8. ASSUME end'[s][r] = e, end'[s][Other(r)] = peer
      PROVE  Paired(s)'
  <2>1. CASE r = "client"
    <3>1. /\ end'[s]["client"] = e /\ end'[s]["server"] = end[s]["server"]
          /\ end[s]["client"].pc = "gate" /\ end[s]["server"].pc \in {"gate", "up"}
      BY <1>1, <1>2, <1>8, <2>1 DEF Other, Pc, Paired, Agreeing
    <3>2. end[s]["server"].pc = "up" => end[s]["server"].rs = id
      BY <1>1, <1>4, <3>1 DEF Paired, Gated, Pc, Role
    <3>3. Agreeing(s)'
      BY <1>5, <1>6, <2>1, <3>1 DEF Agreeing, Pc
    <3>4. Gated(s)'
      BY <1>3, <1>5, <1>6, <2>1, <3>1, <3>2 DEF Gated, Pc, Role
    <3> QED
      BY <1>3, <1>5, <3>3, <3>4 DEF Paired, Resumed
  <2>2. CASE r = "server"
    <3>1. /\ end'[s]["server"] = e /\ end'[s]["client"] = end[s]["client"]
          /\ end[s]["server"].pc = "gate"
          /\ end[s]["client"].pc \in {"gate", "store", "up"}
      BY <1>1, <1>2, <1>8, <2>2 DEF Other, Pc
    <3>2. end[s]["client"].pc \in {"store", "up"} => end[s]["client"].rs = id
      BY <1>1, <1>4, <3>1 DEF Paired, Gated, Pc, Role
    <3>3. Agreeing(s)'
      BY <1>5, <1>6, <2>2, <3>1 DEF Agreeing, Pc
    <3>4. Gated(s)'
      BY <1>3, <1>5, <1>6, <2>2, <3>1, <3>2 DEF Gated, Pc, Role
    <3> QED
      BY <1>3, <1>5, <3>3, <3>4 DEF Paired, Resumed
  <2> QED
    BY <2>1, <2>2 DEF Role
<1> QED
  BY <1>2, <1>5, <1>6, <1>7, <1>8, EndStep

LEMMA OvertakenIs ==
    ASSUME TypeOK, NEW s \in Slot, NEW v \in 0..MaxVersion, NEW t \in Slot
    PROVE  /\ Overtaken(s, v) \in [Slot -> Conn]
           /\ Overtaken(s, v)[t].id = conn[t].id
           /\ Overtaken(s, v)[t].mode = conn[t].mode
           /\ Overtaken(s, v)[t].ack = conn[t].ack
           /\ Overtaken(s, v)[t].client = conn[t].client
           /\ Overtaken(s, v)[t].server = conn[t].server
           /\ Overtaken(s, v)[t].passed >= conn[t].passed
           /\ /\ conn[t].client = conn[s].client /\ conn[t].server = conn[s].server
              /\ BringsOlder(t, v)
              => Overtaken(s, v)[t].passed >= v
<1> DEFINE met(u) == /\ conn[u].client = conn[s].client /\ conn[u].server = conn[s].server
                     /\ BringsOlder(u, v)
           o(u) == [conn[u] EXCEPT !.passed = Later(conn[u].passed, v)]
           k(u) == IF met(u) THEN o(u) ELSE conn[u]
<1>1. Overtaken(s, v) = [u \in Slot |-> k(u)]
  BY DEF Overtaken
<1> HIDE DEF met
<1>2. ASSUME NEW u \in Slot
      PROVE  /\ k(u) \in Conn /\ k(u).id = conn[u].id /\ k(u).mode = conn[u].mode
             /\ k(u).ack = conn[u].ack /\ k(u).client = conn[u].client
             /\ k(u).server = conn[u].server /\ k(u).passed >= conn[u].passed
             /\ met(u) => k(u).passed >= v
  <2>1. /\ conn[u] \in Conn /\ conn[u].passed \in 0..MaxVersion /\ MaxVersion \in Nat
    BY SessionAssumption DEF TypeOK, Conn
  <2>2. /\ Later(conn[u].passed, v) \in 0..MaxVersion
        /\ Later(conn[u].passed, v) >= conn[u].passed /\ Later(conn[u].passed, v) >= v
    BY <2>1 DEF Later
  <2> HIDE DEF k
  <2>3. CASE met(u)
    <3>1. k(u) = o(u)
      BY <2>3 DEF k
    <3> HIDE DEF o
    <3>2. /\ o(u) \in Conn /\ o(u).id = conn[u].id /\ o(u).mode = conn[u].mode
          /\ o(u).ack = conn[u].ack /\ o(u).client = conn[u].client
          /\ o(u).server = conn[u].server /\ o(u).passed = Later(conn[u].passed, v)
      BY <2>1, <2>2 DEF o, Conn
    <3> QED
      BY <2>2, <3>1, <3>2
  <2>4. CASE ~met(u)
    <3>1. k(u) = conn[u]
      BY <2>4 DEF k
    <3> QED
      BY <2>1, <2>4, <3>1
  <2> QED
    BY <2>3, <2>4
<1> HIDE DEF k
<1>3. Overtaken(s, v)[t] = k(t)
  BY <1>1
<1>4. Overtaken(s, v) \in [Slot -> Conn]
  BY <1>1, <1>2
<1> QED
  BY <1>2, <1>3, <1>4 DEF met

LEMMA StoreStep ==
    ASSUME IInv, NEW s \in Slot, Store(s)
    PROVE  IInv'
<1> DEFINE e == [end[s]["client"] EXCEPT !.pc = "up"]
           v == end[s]["client"].manifest
<1>1. /\ end \in [Slot -> [Role -> End]] /\ conn[s] \in Conn /\ TypeOK
      /\ end[s]["client"] \in End /\ Paired(s) /\ manifests \in [Node -> [Node -> 0..MaxVersion]]
      /\ over \in [Node -> [Node -> 0..MaxVersion]]
      /\ conn[s].client \in Node /\ conn[s].server \in Node /\ conn[s].passed \in 0..MaxVersion
  BY DEF IInv, TypeOK, Role, Conn
<1>2. /\ end' = [end EXCEPT ![s]["client"] = e] /\ conn' = Overtaken(s, v)
      /\ UNCHANGED <<secrets, advert, events>>
      /\ Pc(s, "client") = "store"
      /\ manifests' = [manifests EXCEPT ![conn[s].client][conn[s].server] = Parsed(v)]
      /\ over' = [over EXCEPT ![conn[s].client][conn[s].server] = conn[s].passed]
  BY <1>1 DEF Store, Role
<1>3. e \in End /\ e.pc = "up" /\ e.rs = end[s]["client"].rs
  BY <1>1 DEF End
<1>4. v \in 0..MaxVersion /\ Parsed(v) \in 0..MaxVersion
  BY <1>1, SessionAssumption DEF End, Parsed
<1> HIDE DEF e, v
<1>5. conn' \in [Slot -> Conn] /\ \A t \in Slot : SameLink(t)
  BY <1>1, <1>2, <1>4, OvertakenIs DEF SameLink
<1>6. /\ end' \in [Slot -> [Role -> End]]
      /\ end'[s]["client"] = e /\ end'[s]["server"] = end[s]["server"]
      /\ \A t \in Slot \ {s} : end'[t] = end[t]
  BY <1>1, <1>2, <1>3 DEF Role
<1>7. manifests' \in [Node -> [Node -> 0..MaxVersion]] /\ over' \in [Node -> [Node -> 0..MaxVersion]]
  BY <1>1, <1>2, <1>4
<1>8. TypeOK'
  BY <1>1, <1>2, <1>5, <1>6, <1>7 DEF TypeOK
<1>9. Paired(s)'
  <2>1. end[s]["client"].pc = "store" /\ conn[s].id # 0
    BY <1>1, <1>2 DEF Paired, Gated, Pc
  <2>2. Agreeing(s)'
    BY <1>1, <1>3, <1>5, <1>6, <2>1 DEF Paired, Agreeing, Pc, SameLink
  <2>3. Gated(s)' /\ Resumed(s)'
    BY <1>1, <1>3, <1>5, <1>6, <2>1 DEF Paired, Gated, Resumed, Pc, Role, SameLink
  <2> QED
    BY <2>2, <2>3 DEF Paired
<1> QED
  BY <1>5, <1>6, <1>8, <1>9, SlotStep

\* An end that gives up leaves the other as it is.
LEMMA GoneStep ==
    ASSUME IInv, NEW s \in Slot, NEW r \in Role,
           end' = [end EXCEPT ![s][r] = Gone],
           UNCHANGED <<secrets, manifests, over, advert, conn, events>>
    PROVE  IInv'
<1>1. end \in [Slot -> [Role -> End]] /\ Paired(s) /\ conn \in [Slot -> Conn]
      /\ secrets \in [Node -> [Node -> Entry]]
  BY DEF IInv, TypeOK
<1>2. \A q \in Role : end'[s][q] = IF q = r THEN Gone ELSE end[s][q]
  BY <1>1, Blank
<1>3. Paired(s)'
  <2>1. "client" \in Role /\ "server" \in Role
    BY DEF Role
  <2> QED
    BY <1>1, <1>2, <2>1, Blank DEF Paired, Agreeing, Gated, Resumed, Pc, Proves
<1>4. conn' = [conn EXCEPT ![s] = conn[s]] /\ conn[s] \in Conn
  BY <1>1
<1> QED
  BY <1>1, <1>3, <1>4, Blank, EndStep

LEMMA ResumeStep ==
    ASSUME IInv, NEW s \in Slot, NEW r \in Role, Resume(s, r)
    PROVE  IInv'
<1>1. /\ end \in [Slot -> [Role -> End]] /\ Paired(s) /\ end[s][r] \in End
      /\ "client" \in Role /\ "server" \in Role /\ conn \in [Slot -> Conn]
      /\ secrets \in [Node -> [Node -> Entry]]
  BY DEF IInv, TypeOK, Role
<1>2. CASE Proves(s)
  <2> DEFINE e == [end[s][r] EXCEPT !.pc = "up"]
  <2>1. /\ end' = [end EXCEPT ![s][r] = e]
        /\ UNCHANGED <<secrets, manifests, over, advert, conn, events>>
        /\ Pc(s, r) = "resume" /\ Pc(s, Other(r)) \in {"resume", "up"}
    BY <1>1, <1>2 DEF Resume
  <2>2. e \in End /\ e.pc = "up" /\ e.rs = end[s][r].rs
    BY <1>1 DEF End
  <2> HIDE DEF e
  <2>3. \A q \in Role : end'[s][q] = IF q = r THEN e ELSE end[s][q]
    BY <1>1, <2>1, <2>2
  <2>4. conn[s].id = 0
    BY <1>1, <2>1 DEF Paired, Gated, Role
  <2>5. Agreeing(s)'
    BY <1>1, <2>1, <2>2, <2>3 DEF Paired, Agreeing, Pc, Role, Other
  <2>6. Gated(s)'
    BY <1>1, <2>1, <2>2, <2>3, <2>4 DEF Paired, Gated, Pc, Role, Other
  <2>7. Resumed(s)'
    BY <1>1, <1>2, <2>2, <2>3 DEF Resumed, Proves
  <2>8. Paired(s)'
    BY <2>5, <2>6, <2>7 DEF Paired
  <2>9. conn' = [conn EXCEPT ![s] = conn[s]] /\ conn[s] \in Conn
    BY <1>1, <2>1
  <2> QED
    BY <1>1, <2>1, <2>2, <2>8, <2>9, EndStep
<1>3. CASE ~Proves(s)
  BY <1>3, GoneStep DEF Resume
<1> QED
  BY <1>2, <1>3

LEMMA RetireStep ==
    ASSUME IInv, NEW s \in Slot, Retire(s)
    PROVE  IInv'
<1> DEFINE off == [r \in Role |-> Off]
<1>1. /\ end \in [Slot -> [Role -> End]] /\ conn \in [Slot -> Conn]
      /\ end' = [end EXCEPT ![s] = off] /\ conn' = [conn EXCEPT ![s] = NoConn]
      /\ UNCHANGED <<secrets, manifests, over, advert, events>>
  BY DEF Retire, IInv, TypeOK
<1>2. off \in [Role -> End] /\ \A r \in Role : off[r].pc = "off"
  BY Blank
<1> HIDE DEF off
<1>3. /\ end' \in [Slot -> [Role -> End]] /\ conn' \in [Slot -> Conn]
      /\ end'[s] = off
      /\ \A t \in Slot \ {s} : conn'[t] = conn[t] /\ end'[t] = end[t]
  BY <1>1, <1>2, Blank
<1>4. Paired(s)'
  BY <1>2, <1>3 DEF Paired, Agreeing, Gated, Resumed, Pc, Role
<1>5. TypeOK'
  BY <1>1, <1>3 DEF IInv, TypeOK
<1> QED
  BY <1>3, <1>4, <1>5, SlotStep DEF SameLink

------------------------------------------------------------------------------
(* The environment's steps. *)

LEMMA HappensIs ==
    ASSUME IInv, Happens
    PROVE  events' \in 0..MaxEvents
BY SessionAssumption DEF Happens, IInv, TypeOK

LEMMA CutStep ==
    ASSUME IInv, NEW s \in Slot, Cut(s)
    PROVE  IInv'
<1> DEFINE k == [conn[s] EXCEPT !.cut = TRUE]
<1>1. /\ conn \in [Slot -> Conn] /\ conn[s] \in Conn
      /\ conn' = [conn EXCEPT ![s] = k] /\ events' \in 0..MaxEvents
      /\ UNCHANGED <<secrets, manifests, over, advert, end>>
      /\ Paired(s)
  BY HappensIs DEF Cut, IInv, TypeOK
<1>2. /\ k \in Conn /\ k.id = conn[s].id /\ k.client = conn[s].client
      /\ k.server = conn[s].server /\ k.mode = conn[s].mode /\ k.ack = conn[s].ack
  BY <1>1 DEF Conn
<1> HIDE DEF k
<1>3. conn' \in [Slot -> Conn] /\ \A t \in Slot : SameLink(t)
  BY <1>1, <1>2 DEF SameLink
<1>4. TypeOK'
  BY <1>1, <1>3 DEF IInv, TypeOK
<1>5. \A t \in Slot : end'[t] = end[t]
  BY <1>1
<1>6. Paired(s)'
  BY <1>1, <1>3, <1>5, PairedSame
<1> QED
  BY <1>3, <1>4, <1>5, <1>6, SlotStep

\* A step that changes no session keeps the invariant if it keeps the types.
LEMMA MapsStep ==
    ASSUME IInv, TypeOK', UNCHANGED <<conn, end>>
    PROVE  IInv'
<1>1. \A t \in Slot : SameLink(t) /\ end'[t] = end[t]
  BY DEF SameLink
<1> QED
  BY <1>1, PairedSame DEF IInv

LEMMA PublishStep ==
    ASSUME IInv, NEW n \in Node, Publish(n)
    PROVE  IInv'
<1>1. /\ advert \in [Node -> 0..MaxVersion]
      /\ advert[n] + 1 \in 1..MaxVersion /\ advert' = [advert EXCEPT ![n] = advert[n] + 1]
      /\ UNCHANGED <<secrets, manifests, over, conn, end>> /\ events' \in 0..MaxEvents
  BY SessionAssumption, HappensIs DEF Publish, IInv, TypeOK
<1>2. advert[n] + 1 \in 0..MaxVersion
  BY <1>1
<1>3. TypeOK'
  BY <1>1, <1>2 DEF IInv, TypeOK
<1> QED
  BY <1>1, <1>3, MapsStep

LEMMA ExpireStep ==
    ASSUME IInv, NEW n \in Node, NEW p \in Node, Expire(n, p)
    PROVE  IInv'
<1>1. TypeOK'
  BY Blank DEF Expire, IInv, TypeOK
<1> QED
  BY <1>1, MapsStep DEF Expire

\* What a restart leaves: the connections and ends of the others, and the ends
\* that were off.
LEMMA RestartIs ==
    ASSUME IInv, NEW n \in Node, Restart(n)
    PROVE  /\ conn' \in [Slot -> Conn]
           /\ \A s \in Slot : SameLink(s) /\ conn'[s].passed = conn[s].passed
           /\ end' \in [Slot -> [Role -> End]]
           /\ \A s \in Slot, r \in Role :
                \/ end'[s][r] = end[s][r] /\ (Me(s, r) = n => Pc(s, r) = "off")
                \/ end'[s][r] = Gone
           /\ \A p \in Node : advert'[p] >= advert[p] /\ advert'[p] \in 0..MaxVersion
           /\ advert' \in [Node -> 0..MaxVersion]
<1>1. /\ end' = [s \in Slot |-> [r \in Role |->
            IF Me(s, r) = n /\ Pc(s, r) # "off" THEN Gone ELSE end[s][r]]]
      /\ \E v \in {advert[n]} \cup (IF n \in Tools THEN {advert[n] + 1} ELSE {}) :
            v <= MaxVersion /\ advert' = [advert EXCEPT ![n] = v]
  BY DEF Restart
<1>2. /\ end \in [Slot -> [Role -> End]] /\ conn \in [Slot -> Conn]
      /\ advert \in [Node -> 0..MaxVersion] /\ MaxVersion \in Nat
  BY SessionAssumption DEF IInv, TypeOK
<1>3. /\ conn' \in [Slot -> Conn]
      /\ \A s \in Slot : SameLink(s) /\ conn'[s].passed = conn[s].passed
  <2> DEFINE broken(s) == conn[s].cut \/ (\E r \in Role : Me(s, r) = n /\ Pc(s, r) # "off")
             k(s) == [conn[s] EXCEPT !.cut = broken(s)]
  <2>1. conn' = [s \in Slot |-> k(s)]
    BY DEF Restart
  <2>2. \A s \in Slot : broken(s) \in BOOLEAN
    BY <1>2 DEF Conn
  <2> HIDE DEF broken
  <2>3. \A s \in Slot :
            /\ k(s) \in Conn /\ k(s).id = conn[s].id /\ k(s).ack = conn[s].ack
            /\ k(s).mode = conn[s].mode /\ k(s).client = conn[s].client
            /\ k(s).server = conn[s].server /\ k(s).passed = conn[s].passed
    BY <1>2, <2>2 DEF Conn
  <2> HIDE DEF k
  <2> QED
    BY <2>1, <2>3 DEF SameLink
<1>4. end' \in [Slot -> [Role -> End]]
  BY <1>1, <1>2, Blank
<1>5. \A s \in Slot, r \in Role :
            \/ end'[s][r] = end[s][r] /\ (Me(s, r) = n => Pc(s, r) = "off")
            \/ end'[s][r] = Gone
  BY <1>1
<1>6. PICK v \in {advert[n], advert[n] + 1} :
            v <= MaxVersion /\ advert' = [advert EXCEPT ![n] = v]
  BY <1>1
<1>7. advert[n] \in 0..MaxVersion
  BY <1>2
<1>8. v \in 0..MaxVersion /\ v >= advert[n]
  BY <1>2, <1>6, <1>7
<1>9. \A p \in Node : advert[p] >= advert[p]
  BY <1>2
<1>10. \A p \in Node : advert'[p] >= advert[p]
  BY <1>2, <1>6, <1>8, <1>9
<1>11. advert' \in [Node -> 0..MaxVersion]
  BY <1>2, <1>6, <1>8
<1> QED
  BY <1>3, <1>4, <1>5, <1>10, <1>11

\* A restarted daemon's ends are gone with its maps.
LEMMA RestartStep ==
    ASSUME IInv, NEW n \in Node, Restart(n)
    PROVE  IInv'
<1>1. /\ events' \in 0..MaxEvents
      /\ secrets' = [m \in Node |-> [p \in Node |->
            IF n \in {m, p} THEN NoEntry ELSE secrets[m][p]]]
      /\ manifests' = [manifests EXCEPT ![n] = [p \in Node |-> 0]]
      /\ over' = [over EXCEPT ![n] = [p \in Node |-> 0]]
  BY HappensIs DEF Restart
<1>2. /\ secrets \in [Node -> [Node -> Entry]]
      /\ manifests \in [Node -> [Node -> 0..MaxVersion]]
      /\ over \in [Node -> [Node -> 0..MaxVersion]] /\ MaxVersion \in Nat
  BY SessionAssumption DEF IInv, TypeOK
<1>3. secrets' \in [Node -> [Node -> Entry]]
  BY <1>1, <1>2, Blank
<1>4. manifests' \in [Node -> [Node -> 0..MaxVersion]] /\ over' \in [Node -> [Node -> 0..MaxVersion]]
  <2>1. [p \in Node |-> 0] \in [Node -> 0..MaxVersion]
    BY <1>2
  <2> QED
    BY <1>1, <1>2, <2>1
<1>5. TypeOK'
  BY <1>1, <1>3, <1>4, RestartIs DEF IInv, TypeOK
<1>6. ASSUME NEW s \in Slot PROVE Paired(s)'
  <2>1. "client" \in Role /\ "server" \in Role /\ Paired(s) /\ SameLink(s)
    BY RestartIs DEF Role, IInv
  <2> DEFINE same(r) == end'[s][r] = end[s][r]
             gone(r) == end'[s][r].pc = "failed"
  <2>2. /\ same("client") \/ gone("client")
        /\ same("server") \/ gone("server")
    BY <2>1, RestartIs, Blank
  <2>3. Agreeing(s)'
    BY <2>1, <2>2 DEF Paired, Agreeing, Pc, SameLink
  <2>4. Gated(s)'
    BY <2>1, <2>2 DEF Paired, Gated, Pc, Role, SameLink
  <2>5. Resumed(s)'
    <3>1. ASSUME gone("client") \/ gone("server") PROVE Resumed(s)'
      BY <2>1, <2>2, <3>1 DEF Paired, Resumed, Pc
    <3>2. CASE same("client") /\ same("server")
      BY <2>1, <3>2 DEF Paired, Resumed, Pc, Proves, Role, SameLink
    <3> QED
      BY <2>2, <3>1, <3>2
  <2> QED
    BY <2>3, <2>4, <2>5 DEF Paired
<1> QED
  BY <1>5, <1>6 DEF IInv

------------------------------------------------------------------------------
(* The invariant, and what it implies. *)

LEMMA InitInv == Init => IInv
<1> SUFFICES ASSUME Init PROVE IInv
  OBVIOUS
<1>1. MaxVersion \in Nat \ {0} /\ MaxEvents \in Nat
  BY SessionAssumption
<1>2. advert \in [Node -> 0..MaxVersion]
  BY <1>1 DEF Init
<1>3. TypeOK
  BY <1>1, <1>2, Blank DEF Init, TypeOK
<1>4. \A s \in Slot, r \in Role : end[s][r] = Off /\ conn[s].id = 0
  BY Blank DEF Init
<1> QED
  BY <1>3, <1>4, Blank DEF IInv, Paired, Agreeing, Gated, Resumed, Pc, Role

LEMMA StepInv ==
    ASSUME IInv, [Next]_vars
    PROVE  IInv'
<1>1. ASSUME NEW s \in Slot, SetUp(s) PROVE IInv'
  <2>1. CASE \E r \in Role : RunGate(s, r) \/ Resume(s, r) \/ Fail(s, r)
    BY <2>1, RunGateStep, ResumeStep, GoneStep DEF Fail
  <2> QED
    BY <1>1, <2>1, ReadModeStep, ReadAckStep, StoreStep, RetireStep DEF SetUp
<1>2. ASSUME NEW s \in Slot, NEW p \in Pairs \cup Seldom, Propose(s, p[1], p[2]) PROVE IInv'
  <2>1. p[1] \in Node /\ p[2] \in Node
    BY SessionAssumption
  <2> QED
    BY <1>2, <2>1, ProposeStep
<1>3. CASE UNCHANGED vars
  BY <1>3, MapsStep DEF vars, IInv, TypeOK
<1> QED
  BY <1>1, <1>2, <1>3, CutStep, RestartStep, PublishStep, ExpireStep DEF Next

LEMMA Invariant == Spec => []IInv
<1>1. IInv /\ [Next]_vars => IInv'
  BY StepInv
<1> QED
  BY <1>1, InitInv, PTL DEF Spec

\* The types of tunnel set-up, for any number of daemons, sessions and events;
\* among them that a new session never runs out of unused secrets.
THEOREM TypeCorrect == Spec => []TypeOK
<1>1. IInv => TypeOK
  BY DEF IInv
<1> QED
  BY <1>1, Invariant, PTL

\* Two ends that accept rest on the same gate, however set-ups in both
\* directions overlap, secrets expire or are overwritten, connections break and
\* daemons restart.
THEOREM SameGateHolds == Spec => []SameGate
<1>1. ASSUME IInv, NEW s \in Slot, \A r \in Role : Pc(s, r) = "up"
      PROVE  end[s]["client"].rs = end[s]["server"].rs
  <2>1. "client" \in Role /\ "server" \in Role /\ Paired(s)
    BY <1>1 DEF Role, IInv
  <2>2. CASE conn[s].id = 0
    BY <1>1, <2>1, <2>2 DEF Paired, Resumed, Proves
  <2>3. CASE conn[s].id # 0
    BY <1>1, <2>1, <2>3 DEF Paired, Gated
  <2> QED
    BY <2>2, <2>3
<1>2. IInv => SameGate
  BY <1>1 DEF SameGate
<1> QED
  BY <1>2, Invariant, PTL

------------------------------------------------------------------------------
(* Which manifest a client enforces.                                       *)
(*                                                                         *)
(* A daemon n holds what p sent in a gate n ran as client, with the secret *)
(* i that gate made, in its cache or at the client's end of a session.  A  *)
(* gate that is past its put is pending until its manifest is stored; what *)
(* comes of the others is in the enforcer's map, or under a manifest that  *)
(* overlapped with it.  For that to last, a session that brings an older   *)
(* manifest must have been overtaken by the newer one.                     *)

Holds(n, p, i, v) ==
    \/ /\ secrets[n][p].rs = i /\ i # 0
       /\ secrets[n][p].manifest = v /\ secrets[n][p].made = "client"
    \/ \E s \in Slot :
            /\ conn[s].client = n /\ conn[s].server = p
            /\ Pc(s, "client") \in {"ack", "resume", "up"}
            /\ end[s]["client"].rs = i /\ end[s]["client"].manifest = v
            /\ end[s]["client"].made = "client"

Stores(t, i) == Pc(t, "client") = "store" /\ end[t]["client"].rs = i
Pending(i) == \E t \in Slot : Stores(t, i)

\* The session t brings the manifest w to the client's map.
Brings(t, w) ==
    \/ Pc(t, "client") = "store" /\ w = end[t]["client"].manifest
    \/ /\ Pc(t, "client") \in {"ack", "gate"} /\ Pc(t, "server") \in {"gate", "up"}
       /\ w = end[t]["server"].advertised

Settled(n, p, v) ==
    \/ \E w \in v..advert[p] : manifests[n][p] = Parsed(w)
    \/ over[n][p] >= v

\* A session that brings w is no danger to a client that holds v.
Behind(t, v) ==
    \A w \in 0..MaxVersion : Brings(t, w) => v <= w \/ v <= conn[t].passed

\* The secret of a session whose client is at its gate is nobody's yet, and
\* that of one that is about to store goes with what it is about to store.
Owned(t, n, p, i, v) ==
    conn[t].id = i /\ i # 0 =>
        /\ Pc(t, "client") # "gate"
        /\ Pc(t, "client") = "store" =>
                conn[t].client = n /\ conn[t].server = p /\ v = end[t]["client"].manifest

HoldInv(n, p, i, v) ==
    /\ v <= advert[p]
    /\ Pending(i) \/ Settled(n, p, v)
    /\ \A t \in Slot : conn[t].client = n /\ conn[t].server = p => Pending(i) \/ Behind(t, v)
    /\ \A t \in Slot : Owned(t, n, p, i, v)

Secret == {0} \cup Ids
Version == 0..MaxVersion

ManifestInv ==
    /\ \A n, p \in Node, i \in Secret, v \in Version :
            Holds(n, p, i, v) => HoldInv(n, p, i, v)
    /\ \A t \in Slot, w \in Version : Brings(t, w) => w <= advert[conn[t].server]
    /\ \A t, u \in Slot : conn[t].id = conn[u].id /\ conn[t].id # 0 => t = u

LEMMA HeldIsUsed ==
    ASSUME IInv, NEW n \in Node, NEW p \in Node, NEW i \in Secret, NEW v \in Version,
           Holds(n, p, i, v)
    PROVE  i \in UsedIds
BY DEF Holds, UsedIds, Role

\* What is known of an advertised version.
LEMMA Versions ==
    ASSUME IInv, NEW n \in Node, NEW p \in Node, NEW t \in Slot
    PROVE  /\ advert[p] \in Version /\ over[n][p] \in Version /\ Version \subseteq Nat
           /\ conn[t].passed \in Version /\ conn[t].id \in Secret
           /\ conn[t].client \in Node /\ conn[t].server \in Node
           /\ \A r \in Role : /\ end[t][r] \in End /\ end[t][r].rs \in Secret
                              /\ end[t][r].manifest \in Version
                              /\ end[t][r].advertised \in Version
           /\ secrets[n][p] \in Entry /\ secrets[n][p].rs \in Secret
           /\ secrets[n][p].manifest \in Version
           /\ 0 \in Secret /\ 0 \in Version
<1>1. MaxVersion \in Nat
  BY SessionAssumption
<1>2. conn[t] \in Conn /\ secrets[n][p] \in Entry /\ \A r \in Role : end[t][r] \in End
  BY DEF IInv, TypeOK
<1>3. advert[p] \in Version /\ over[n][p] \in Version
  BY DEF IInv, TypeOK, Version
<1> QED
  BY <1>1, <1>2, <1>3 DEF Version, Secret, Conn, Entry, End

LEMMA VersionsPrime ==
    ASSUME IInv', NEW n \in Node, NEW p \in Node, NEW t \in Slot
    PROVE  /\ advert'[p] \in Version /\ over'[n][p] \in Version /\ Version \subseteq Nat
           /\ conn'[t].passed \in Version /\ conn'[t].id \in Secret
           /\ conn'[t].client \in Node /\ conn'[t].server \in Node
           /\ \A r \in Role : /\ end'[t][r] \in End /\ end'[t][r].rs \in Secret
                              /\ end'[t][r].manifest \in Version
                              /\ end'[t][r].advertised \in Version
<1>1. MaxVersion \in Nat
  BY SessionAssumption
<1>2. conn'[t] \in Conn /\ \A r \in Role : end'[t][r] \in End
  BY DEF IInv, TypeOK
<1>3. advert'[p] \in Version /\ over'[n][p] \in Version
  BY DEF IInv, TypeOK, Version
<1> QED
  BY <1>1, <1>2, <1>3 DEF Version, Secret, Conn, Entry, End

\* The part of a step that concerns the sessions' secrets: each keeps its own,
\* loses it, or gets one that nobody has.
IdStep ==
    /\ \A t \in Slot :
            \/ conn'[t].id = conn[t].id
            \/ conn'[t].id = 0
            \/ /\ conn'[t].id \notin UsedIds
               /\ \A u \in Slot \ {t} : conn'[u].id = conn[u].id
    /\ \A t \in Slot :
            Pc(t, "client")' \in {"gate", "store"} /\ conn'[t].id # 0 =>
                \/ conn'[t].id \notin UsedIds
                \/ conn'[t].id = conn[t].id /\ Pc(t, "client") = "gate"
                \/ /\ conn'[t].id = conn[t].id
                   /\ conn'[t].client = conn[t].client /\ conn'[t].server = conn[t].server
                   /\ Pc(t, "client")' = Pc(t, "client")
                   /\ end'[t]["client"].manifest = end[t]["client"].manifest

LEMMA IdsKept ==
    ASSUME IInv, IInv', ManifestInv, IdStep
    PROVE  \A t, u \in Slot : conn'[t].id = conn'[u].id /\ conn'[t].id # 0 => t = u
<1> SUFFICES ASSUME NEW t \in Slot, NEW u \in Slot, conn'[t].id = conn'[u].id,
                    conn'[t].id # 0, t # u
             PROVE  FALSE
  OBVIOUS
<1>1. conn[t].id \in UsedIds /\ conn[u].id \in UsedIds
  BY DEF UsedIds
<1>2. conn[t].id = conn[u].id /\ conn[t].id # 0 => t = u
  BY DEF ManifestInv
<1> QED
  BY <1>1, <1>2 DEF IdStep

\* A step that gives no client anything to hold that it did not hold before,
\* takes nothing out of the map, and lets new gates bring only what is
\* advertised now.
LEMMA HoldStep ==
    ASSUME IInv, IInv', ManifestInv, IdStep,
           \A p \in Node : advert'[p] >= advert[p],
           \A t \in Slot, w \in Version : Brings(t, w)' =>
                \/ /\ Brings(t, w) /\ conn'[t].passed >= conn[t].passed
                   /\ conn'[t].client = conn[t].client /\ conn'[t].server = conn[t].server
                \/ w = advert[conn'[t].server],
           NEW n \in Node, NEW p \in Node, NEW i \in Secret, NEW v \in Version,
           Holds(n, p, i, v),
           Pending(i) => Pending(i)',
           manifests'[n][p] = manifests[n][p], over'[n][p] = over[n][p]
    PROVE  HoldInv(n, p, i, v)'
<1>1. HoldInv(n, p, i, v)
  BY DEF ManifestInv
<1>2. /\ advert[p] \in Nat /\ advert'[p] \in Nat /\ v \in Nat /\ Version \subseteq Nat
      /\ advert'[p] >= advert[p]
  <2>1. advert[p] \in Version /\ advert'[p] \in Version
    BY DEF IInv, TypeOK, Version
  <2>2. Version \subseteq Nat
    BY SessionAssumption DEF Version
  <2> QED
    BY <2>1, <2>2
<1>3. v <= advert'[p]
  <2>1. v <= advert[p]
    BY <1>1 DEF HoldInv
  <2> QED
    BY <1>2, <2>1
<1>4. Settled(n, p, v) => Settled(n, p, v)'
  <2>1. \A w \in v..advert[p] : w \in v..advert'[p]
    BY <1>2
  <2> QED
    BY <2>1 DEF Settled
<1>5. ASSUME NEW t \in Slot, conn'[t].client = n, conn'[t].server = p, ~Pending(i)'
      PROVE  Behind(t, v)'
  <2> SUFFICES ASSUME NEW w \in Version, Brings(t, w)'
               PROVE  v <= w \/ v <= conn'[t].passed
    BY DEF Behind, Version
  <2>1. CASE w = advert[conn'[t].server]
    BY <1>1, <1>5, <2>1 DEF HoldInv
  <2>2. CASE /\ Brings(t, w) /\ conn'[t].passed >= conn[t].passed
             /\ conn'[t].client = conn[t].client /\ conn'[t].server = conn[t].server
    <3>1. Behind(t, v)
      BY <1>1, <1>5, <2>2 DEF HoldInv
    <3>2. v <= w \/ v <= conn[t].passed
      BY <2>2, <3>1 DEF Behind, Version
    <3>3. conn[t].passed \in Nat /\ conn'[t].passed \in Nat
      BY Versions, VersionsPrime
    <3> QED
      BY <1>2, <2>2, <3>2, <3>3
  <2> QED
    BY <2>1, <2>2
<1>6. ASSUME NEW t \in Slot PROVE Owned(t, n, p, i, v)'
  <2>1. i \in UsedIds /\ Owned(t, n, p, i, v)
    BY <1>1, HeldIsUsed DEF HoldInv
  <2> QED
    BY <2>1 DEF Owned, IdStep
<1> QED
  BY <1>1, <1>3, <1>4, <1>5, <1>6 DEF HoldInv

LEMMA ManifestStep ==
    ASSUME IInv, IInv', ManifestInv, IdStep,
           \A p \in Node : advert'[p] >= advert[p],
           \A t \in Slot, w \in Version : Brings(t, w)' =>
                \/ /\ Brings(t, w) /\ conn'[t].passed >= conn[t].passed
                   /\ conn'[t].client = conn[t].client /\ conn'[t].server = conn[t].server
                \/ w = advert[conn'[t].server],
           \A n, p \in Node, i \in Secret, v \in Version : Holds(n, p, i, v)' =>
                \/ HoldInv(n, p, i, v)'
                \/ /\ Holds(n, p, i, v) /\ (Pending(i) => Pending(i)')
                   /\ manifests'[n][p] = manifests[n][p] /\ over'[n][p] = over[n][p]
    PROVE  ManifestInv'
<1>1. ASSUME NEW n \in Node, NEW p \in Node, NEW i \in Secret, NEW v \in Version,
             Holds(n, p, i, v)'
      PROVE  HoldInv(n, p, i, v)'
  <2>1. CASE /\ Holds(n, p, i, v) /\ (Pending(i) => Pending(i)')
             /\ manifests'[n][p] = manifests[n][p] /\ over'[n][p] = over[n][p]
    BY <2>1, HoldStep
  <2> QED
    BY <1>1, <2>1
<1>2. ASSUME NEW t \in Slot, NEW w \in Version, Brings(t, w)'
      PROVE  w <= advert'[conn'[t].server]
  <2> DEFINE p == conn'[t].server
  <2>1. /\ p \in Node /\ advert[p] \in Nat /\ advert'[p] \in Nat /\ advert'[p] >= advert[p]
        /\ w \in Nat
    <3>1. p \in Node /\ w \in Nat
      BY SessionAssumption DEF IInv, TypeOK, Conn, Version
    <3>2. advert[p] \in Version /\ advert'[p] \in Version /\ Version \subseteq Nat
      BY <3>1, Versions, VersionsPrime
    <3> QED
      BY <3>1, <3>2
  <2> HIDE DEF p
  <2>2. w <= advert[p]
    <3>1. CASE w = advert[conn'[t].server]
      BY <2>1, <3>1 DEF p
    <3>2. CASE Brings(t, w) /\ conn'[t].server = conn[t].server
      BY <3>2 DEF p, ManifestInv
    <3> QED
      BY <1>2, <3>1, <3>2
  <2>3. w <= advert'[p]
    BY <2>1, <2>2
  <2> QED
    BY <2>3 DEF p
<1>3. \A t, u \in Slot : conn'[t].id = conn'[u].id /\ conn'[t].id # 0 => t = u
  BY IdsKept
<1>4. /\ (\A n, p \in Node, i \in Secret, v \in Version :
                Holds(n, p, i, v) => HoldInv(n, p, i, v))'
      /\ (\A t \in Slot, w \in Version : Brings(t, w) => w <= advert[conn[t].server])'
      /\ (\A t, u \in Slot : conn[t].id = conn[u].id /\ conn[t].id # 0 => t = u)'
  BY <1>1, <1>2, <1>3
<1> QED
  BY <1>4 DEF ManifestInv

------------------------------------------------------------------------------
(* Each step. *)

\* A step at one slot that leaves the maps alone.  Its client may take over an
\* entry of its cache, or keep what it holds; its session brings what it
\* brought, or what is advertised now.
LEMMA SlotKeeps ==
    ASSUME IInv, IInv', ManifestInv, NEW s \in Slot,
           UNCHANGED <<secrets, manifests, over, advert>>,
           \A t \in Slot \ {s} : conn'[t] = conn[t] /\ end'[t] = end[t],
           Pc(s, "client") # "store", Pc(s, "client")' # "store",
           conn'[s].id = conn[s].id \/ conn'[s].id = 0,
           Pc(s, "client")' = "gate" /\ conn'[s].id # 0 =>
                /\ Pc(s, "client") = "gate" /\ conn'[s].id = conn[s].id
                /\ conn'[s].client = conn[s].client /\ conn'[s].server = conn[s].server
                /\ end'[s]["client"].manifest = end[s]["client"].manifest,
           \A w \in Version : Brings(s, w)' =>
                \/ /\ Brings(s, w) /\ conn'[s].passed = conn[s].passed
                   /\ conn'[s].client = conn[s].client /\ conn'[s].server = conn[s].server
                \/ w = advert[conn'[s].server],
           /\ Pc(s, "client")' \in {"ack", "resume", "up"}
           /\ end'[s]["client"].made = "client"
           => Holds(conn'[s].client, conn'[s].server,
                    end'[s]["client"].rs, end'[s]["client"].manifest)
    PROVE  ManifestInv'
<1>1. IdStep
  <2>1. \A t \in Slot : conn'[t].id = conn[t].id \/ conn'[t].id = 0
    OBVIOUS
  <2>2. ASSUME NEW t \in Slot, Pc(t, "client")' \in {"gate", "store"}, conn'[t].id # 0
        PROVE  /\ conn'[t].id = conn[t].id
               /\ conn'[t].client = conn[t].client /\ conn'[t].server = conn[t].server
               /\ Pc(t, "client")' = Pc(t, "client")
               /\ end'[t]["client"].manifest = end[t]["client"].manifest
    <3>1. CASE t = s
      BY <2>2, <3>1
    <3>2. CASE t # s
      BY <2>2, <3>2 DEF Pc
    <3> QED
      BY <3>1, <3>2
  <2> QED
    BY <2>1, <2>2 DEF IdStep
<1>2. \A p \in Node : advert'[p] >= advert[p]
  <2>1. \A p \in Node : advert[p] \in Nat
    BY SessionAssumption DEF IInv, TypeOK
  <2> QED
    BY <2>1
<1>3. ASSUME NEW t \in Slot, NEW w \in Version, Brings(t, w)'
      PROVE  \/ /\ Brings(t, w) /\ conn'[t].passed >= conn[t].passed
                /\ conn'[t].client = conn[t].client /\ conn'[t].server = conn[t].server
             \/ w = advert[conn'[t].server]
  <2>1. conn[t].passed >= conn[t].passed
    <3>1. conn[t].passed \in Nat
      BY SessionAssumption DEF IInv, TypeOK, Conn
    <3> QED
      BY <3>1
  <2>2. CASE t = s
    BY <1>3, <2>1, <2>2
  <2>3. CASE t # s
    <3>1. conn'[t] = conn[t] /\ end'[t] = end[t]
      BY <2>3
    <3>2. Brings(t, w)
      BY <1>3, <3>1 DEF Brings, Pc
    <3> QED
      BY <2>1, <3>1, <3>2
  <2> QED
    BY <2>2, <2>3
<1>4. ASSUME NEW n \in Node, NEW p \in Node, NEW i \in Secret, NEW v \in Version,
             Holds(n, p, i, v)'
      PROVE  Holds(n, p, i, v)
  <2>1. CASE /\ secrets'[n][p].rs = i /\ i # 0
             /\ secrets'[n][p].manifest = v /\ secrets'[n][p].made = "client"
    BY <2>1 DEF Holds
  <2>2. ASSUME NEW t \in Slot,
               /\ conn'[t].client = n /\ conn'[t].server = p
               /\ Pc(t, "client")' \in {"ack", "resume", "up"}
               /\ end'[t]["client"].rs = i /\ end'[t]["client"].manifest = v
               /\ end'[t]["client"].made = "client"
        PROVE  Holds(n, p, i, v)
    <3>1. CASE t = s
      BY <2>2, <3>1
    <3>2. CASE t # s
      BY <2>2, <3>2 DEF Holds, Pc
    <3> QED
      BY <3>1, <3>2
  <2> QED
    BY <1>4, <2>1, <2>2 DEF Holds
<1>5. ASSUME NEW i \in Secret, Pending(i)
      PROVE  Pending(i)'
  <2>1. PICK t \in Slot : Stores(t, i)
    BY <1>5 DEF Pending
  <2>2. t # s
    BY <2>1 DEF Stores
  <2>3. Stores(t, i)'
    BY <2>1, <2>2 DEF Stores, Pc
  <2> QED
    BY <2>3 DEF Pending
<1>6. \A n, p \in Node : manifests'[n][p] = manifests[n][p] /\ over'[n][p] = over[n][p]
  OBVIOUS
<1> QED
  BY <1>1, <1>2, <1>3, <1>4, <1>5, <1>6, ManifestStep

LEMMA ProposeKeeps ==
    ASSUME IInv, IInv', ManifestInv, NEW s \in Slot, NEW c \in Node, NEW p \in Node,
           Propose(s, c, p)
    PROVE  ManifestInv'
<1> DEFINE k == [NoConn EXCEPT !.client = c, !.server = p,
                               !.mode = IF Live(c, p) THEN "R" ELSE "F"]
           x == IF Live(c, p) THEN Holding(secrets[c][p], "ack") ELSE EnterGate(c)
<1>1. /\ conn' = [conn EXCEPT ![s] = k]
      /\ end' = [end EXCEPT ![s]["client"] = x, ![s]["server"].pc = "mode"]
      /\ UNCHANGED <<secrets, manifests, over, advert>>
      /\ \A r \in Role : Pc(s, r) = "off"
  BY DEF Propose
<1>2. /\ conn \in [Slot -> Conn] /\ end \in [Slot -> [Role -> End]]
      /\ secrets \in [Node -> [Node -> Entry]]
  BY DEF IInv, TypeOK
<1>3. k.id = 0 /\ k.client = c /\ k.server = p
  BY Blank DEF Conn
<1>4. /\ Live(c, p) => /\ x.pc = "ack" /\ x.rs = secrets[c][p].rs
                       /\ x.manifest = secrets[c][p].manifest /\ x.made = secrets[c][p].made
      /\ ~Live(c, p) => x.pc = "gate"
  <2>1. secrets[c][p] \in Entry /\ "ack" \in InProgress
    BY <1>2 DEF InProgress
  <2> QED
    BY <2>1, HoldingIs, EnterGateIs DEF IInv
<1> HIDE DEF k, x
<1>5. /\ end'[s]["client"] = x /\ end'[s]["server"].pc = "mode"
      /\ \A t \in Slot \ {s} : end'[t] = end[t]
  <2>1. end[s]["server"] \in End /\ end[s] \in [Role -> End]
    BY <1>2 DEF Role
  <2>2. [end[s]["server"] EXCEPT !.pc = "mode"].pc = "mode"
    BY <2>1 DEF End
  <2> QED
    BY <1>1, <1>2, <2>1, <2>2 DEF Role
<1>6. conn'[s] = k /\ \A t \in Slot \ {s} : conn'[t] = conn[t]
  BY <1>1, <1>2
<1>7. ~Brings(s, 0)' /\ \A w \in Version : ~Brings(s, w)'
  BY <1>4, <1>5 DEF Brings, Pc
<1>8. Live(c, p) /\ x.made = "client" => Holds(c, p, x.rs, x.manifest)
  BY <1>4 DEF Holds, Live
<1>9. Pc(s, "client") = "off"
  BY <1>1 DEF Role
<1>10. Pc(s, "client")' = x.pc
  BY <1>5 DEF Pc
<1> QED
  BY <1>1, <1>3, <1>4, <1>5, <1>6, <1>7, <1>8, <1>9, <1>10, SlotKeeps

LEMMA ReadModeKeeps ==
    ASSUME IInv, IInv', ManifestInv, NEW s \in Slot, ReadMode(s)
    PROVE  ManifestInv'
<1> DEFINE c == conn[s].client
           p == conn[s].server
           resume == conn[s].mode = "R" /\ Live(p, c)
           k == [conn[s] EXCEPT !.ack = IF conn[s].mode = "F" THEN conn[s].ack
                                        ELSE IF resume THEN "R" ELSE "F",
                                !.mode = "none"]
           y == IF resume THEN Holding(secrets[p][c], "resume") ELSE EnterGate(p)
<1>1. /\ conn \in [Slot -> Conn] /\ end \in [Slot -> [Role -> End]]
      /\ secrets \in [Node -> [Node -> Entry]] /\ end[s]["client"] \in End
      /\ conn[s] \in Conn /\ c \in Node /\ p \in Node /\ Paired(s)
  BY DEF IInv, TypeOK, Conn, Role
<1>2. /\ conn' = [conn EXCEPT ![s] = k]
      /\ end' = [end EXCEPT ![s]["server"] = y]
      /\ UNCHANGED <<secrets, manifests, over, advert>>
      /\ Pc(s, "server") = "mode"
  BY <1>1 DEF ReadMode
<1>3. /\ k.id = conn[s].id /\ k.client = c /\ k.server = p /\ k.passed = conn[s].passed
  BY <1>1 DEF Conn
<1>4. y.pc = "resume" \/ (y.pc = "gate" /\ y.advertised = advert[p])
  <2>1. secrets[p][c] \in Entry /\ "resume" \in InProgress
    BY <1>1 DEF InProgress
  <2> HIDE DEF c, p
  <2> QED
    BY <1>1, <2>1, HoldingIs, EnterGateIs DEF IInv
<1>5. conn[s].id = 0 /\ Pc(s, "client") # "store"
  BY <1>1, <1>2 DEF Paired, Gated, Agreeing
<1> HIDE DEF y, k, resume
<1>6. /\ conn'[s] = k /\ \A t \in Slot \ {s} : conn'[t] = conn[t] /\ end'[t] = end[t]
      /\ end'[s]["client"] = end[s]["client"] /\ end'[s]["server"] = y
  BY <1>1, <1>2 DEF Role
<1>7. Pc(s, "client")' = Pc(s, "client")
  BY <1>6 DEF Pc
<1>8. \A w \in Version : Brings(s, w)' => w = advert[p]
  BY <1>4, <1>5, <1>6 DEF Brings, Pc
<1>9. /\ Pc(s, "client") \in {"ack", "resume", "up"} /\ end[s]["client"].made = "client"
      => Holds(c, p, end[s]["client"].rs, end[s]["client"].manifest)
  BY DEF Holds
<1> QED
  BY <1>2, <1>3, <1>5, <1>6, <1>7, <1>8, <1>9, SlotKeeps

LEMMA ReadAckKeeps ==
    ASSUME IInv, IInv', ManifestInv, NEW s \in Slot, ReadAck(s)
    PROVE  ManifestInv'
<1> DEFINE c == conn[s].client
           p == conn[s].server
           e == IF conn[s].ack = "R" THEN [end[s]["client"] EXCEPT !.pc = "resume"]
                                     ELSE EnterGate(c)
           k == [conn[s] EXCEPT !.ack = "none"]
<1>1. /\ end \in [Slot -> [Role -> End]] /\ end[s]["client"] \in End
      /\ c \in Node /\ p \in Node /\ Paired(s) /\ conn[s] \in Conn
      /\ conn \in [Slot -> Conn]
  BY DEF IInv, TypeOK, Conn, Role
<1>2. /\ end' = [end EXCEPT ![s]["client"] = e] /\ conn' = [conn EXCEPT ![s] = k]
      /\ UNCHANGED <<secrets, manifests, over, advert>>
      /\ Pc(s, "client") = "ack"
  BY <1>1 DEF ReadAck, Role
<1>3. k.id = conn[s].id /\ k.client = c /\ k.server = p /\ k.passed = conn[s].passed
  BY <1>1 DEF Conn
<1>4. \/ /\ e.pc = "resume" /\ e.rs = end[s]["client"].rs
         /\ e.manifest = end[s]["client"].manifest /\ e.made = end[s]["client"].made
      \/ e.pc = "gate"
  BY <1>1, EnterGateIs DEF End, IInv
<1>5. conn[s].id = 0
  BY <1>1, <1>2 DEF Paired, Gated
<1> HIDE DEF e, k
<1>6. /\ conn'[s] = k /\ \A t \in Slot \ {s} : conn'[t] = conn[t] /\ end'[t] = end[t]
      /\ end'[s]["client"] = e /\ end'[s]["server"] = end[s]["server"]
  BY <1>1, <1>2 DEF Role
<1>7. Pc(s, "client")' = e.pc
  BY <1>6 DEF Pc
<1>8. \A w \in Version : Brings(s, w)' => Brings(s, w)
  BY <1>2, <1>4, <1>6 DEF Brings, Pc
<1>9. end[s]["client"].made = "client"
      => Holds(c, p, end[s]["client"].rs, end[s]["client"].manifest)
  BY <1>2 DEF Holds
<1> QED
  BY <1>2, <1>3, <1>4, <1>5, <1>6, <1>7, <1>8, <1>9, SlotKeeps

\* An end that gives up, or that resumes.
LEMMA EndKeeps ==
    ASSUME IInv, IInv', ManifestInv, NEW s \in Slot, NEW r \in Role, NEW e \in End,
           UNCHANGED <<secrets, manifests, over, advert, conn>>,
           end' = [end EXCEPT ![s][r] = e], Pc(s, "client") # "store",
           \/ e.pc = "failed"
           \/ /\ e.pc = "up" /\ Pc(s, r) = "resume" /\ e.rs = end[s][r].rs
              /\ e.manifest = end[s][r].manifest /\ e.made = end[s][r].made
    PROVE  ManifestInv'
<1>1. /\ end \in [Slot -> [Role -> End]] /\ Paired(s) /\ Role = {"client", "server"}
  BY DEF IInv, TypeOK, Role
<1>2. /\ \A t \in Slot \ {s} : conn'[t] = conn[t] /\ end'[t] = end[t]
      /\ end'[s][r] = e /\ \A q \in Role \ {r} : end'[s][q] = end[s][q]
  BY <1>1
<1>3. Pc(s, "client")' # "store" /\ (Pc(s, "client")' = "gate" => end'[s]["client"] = end[s]["client"])
  BY <1>1, <1>2 DEF Pc
<1>4. ASSUME NEW w \in Version, Brings(s, w)' PROVE Brings(s, w)
  <2>1. CASE r = "client"
    BY <1>1, <1>2, <1>4, <2>1 DEF Brings, Pc
  <2>2. CASE r = "server"
    <3>1. Pc(s, "client") \in {"ack", "gate"} => Pc(s, "server") # "resume" \/ Pc(s, "client") = "ack"
      BY <1>1 DEF Paired, Agreeing
    <3>2. end'[s]["client"] = end[s]["client"] /\ end'[s]["server"] = e
      BY <1>1, <1>2, <2>2
    <3>3. e.pc = "up" /\ Pc(s, "server") = "resume" /\ Pc(s, "client") = "ack"
      BY <1>4, <2>2, <3>1, <3>2 DEF Brings, Pc
    <3>4. Paired(s)' /\ Pc(s, "client")' = "ack" /\ Pc(s, "server")' = "up"
      BY <3>2, <3>3 DEF IInv, Pc
    <3> QED
      BY <3>4 DEF Paired, Agreeing
  <2> QED
    BY <1>1, <2>1, <2>2
<1>5. ASSUME Pc(s, "client")' \in {"ack", "resume", "up"}, end'[s]["client"].made = "client"
      PROVE  Holds(conn'[s].client, conn'[s].server,
                   end'[s]["client"].rs, end'[s]["client"].manifest)
  <2>1. /\ Pc(s, "client") \in {"ack", "resume", "up"} /\ end[s]["client"].made = "client"
        /\ end'[s]["client"].rs = end[s]["client"].rs
        /\ end'[s]["client"].manifest = end[s]["client"].manifest
    BY <1>1, <1>2, <1>5 DEF Pc
  <2> QED
    BY <2>1 DEF Holds
<1>6. Pc(s, "client")' = "gate" => Pc(s, "client") = "gate"
  BY <1>3 DEF Pc
<1> QED
  BY <1>2, <1>3, <1>4, <1>5, <1>6, SlotKeeps

LEMMA ResumeKeeps ==
    ASSUME IInv, IInv', ManifestInv, NEW s \in Slot, NEW r \in Role, Resume(s, r)
    PROVE  ManifestInv'
<1>1. /\ end \in [Slot -> [Role -> End]] /\ Paired(s) /\ end[s][r] \in End
      /\ UNCHANGED <<secrets, manifests, over, advert, conn>>
      /\ Pc(s, r) = "resume" /\ Pc(s, Other(r)) \in {"resume", "up"}
  BY DEF IInv, TypeOK, Resume
<1>2. Pc(s, "client") # "store"
  BY <1>1 DEF Role, Other
<1>3. CASE Proves(s)
  <2> DEFINE e == [end[s][r] EXCEPT !.pc = "up"]
  <2>1. end' = [end EXCEPT ![s][r] = e]
    BY <1>1, <1>3 DEF Resume
  <2>2. /\ e \in End /\ e.pc = "up" /\ e.rs = end[s][r].rs
        /\ e.manifest = end[s][r].manifest /\ e.made = end[s][r].made
    BY <1>1 DEF End
  <2> HIDE DEF e
  <2> QED
    BY <1>1, <1>2, <2>1, <2>2, EndKeeps
<1>4. CASE ~Proves(s)
  BY <1>1, <1>2, <1>4, Blank, EndKeeps DEF Resume
<1> QED
  BY <1>3, <1>4

LEMMA FailKeeps ==
    ASSUME IInv, IInv', ManifestInv, NEW s \in Slot, NEW r \in Role, Fail(s, r)
    PROVE  ManifestInv'
<1>1. CASE Pc(s, "client") # "store"
  BY <1>1, Blank, EndKeeps DEF Fail
<1>2. CASE Pc(s, "client") = "store"
  <2>1. r = "server" /\ end' = [end EXCEPT ![s]["server"] = Gone]
        /\ UNCHANGED <<secrets, manifests, over, advert, conn>>
        /\ end \in [Slot -> [Role -> End]]
    BY <1>2 DEF Fail, Role, IInv, TypeOK
  <2>2. \A t \in Slot : end'[t]["client"] = end[t]["client"]
    BY <2>1 DEF Role
  <2>3. \A t \in Slot \ {s} : end'[t] = end[t]
    BY <2>1
  <2>4. IdStep
    BY <2>1, <2>2 DEF IdStep, Pc
  <2>5. \A p \in Node : advert'[p] >= advert[p]
    <3>1. \A p \in Node : advert[p] \in Nat
      BY SessionAssumption DEF IInv, TypeOK
    <3> QED
      BY <2>1, <3>1
  <2>6. ASSUME NEW t \in Slot, NEW w \in Version, Brings(t, w)'
        PROVE  Brings(t, w) /\ conn'[t].passed >= conn[t].passed
    <3>1. conn[t].passed \in Nat
      BY SessionAssumption DEF IInv, TypeOK, Conn
    <3>2. CASE t = s
      BY <1>2, <2>1, <2>2, <2>6, <3>1, <3>2 DEF Brings, Pc
    <3>3. CASE t # s
      BY <2>1, <2>3, <2>6, <3>1, <3>3 DEF Brings, Pc
    <3> QED
      BY <3>2, <3>3
  <2>7. ASSUME NEW n \in Node, NEW p \in Node, NEW i \in Secret, NEW v \in Version
        PROVE  (Holds(n, p, i, v)' => Holds(n, p, i, v)) /\ (Pending(i) => Pending(i)')
    BY <2>1, <2>2 DEF Holds, Pending, Stores, Pc
  <2> QED
    BY <2>1, <2>4, <2>5, <2>6, <2>7, ManifestStep
<1> QED
  BY <1>1, <1>2

LEMMA RetireKeeps ==
    ASSUME IInv, IInv', ManifestInv, NEW s \in Slot, Retire(s)
    PROVE  ManifestInv'
<1>1. /\ end \in [Slot -> [Role -> End]] /\ conn \in [Slot -> Conn]
      /\ end' = [end EXCEPT ![s] = [r \in Role |-> Off]]
      /\ conn' = [conn EXCEPT ![s] = NoConn]
      /\ UNCHANGED <<secrets, manifests, over, advert>>
      /\ Pc(s, "client") \in {"up", "failed"}
  BY DEF Retire, IInv, TypeOK, Role
<1>2. /\ \A t \in Slot \ {s} : conn'[t] = conn[t] /\ end'[t] = end[t]
      /\ conn'[s].id = 0 /\ Pc(s, "client")' = "off"
  BY <1>1, Blank DEF Pc, Role
<1>3. \A w \in Version : ~Brings(s, w)'
  BY <1>2 DEF Brings
<1> QED
  BY <1>1, <1>2, <1>3, SlotKeeps

\* A step that moves no end: it may break a connection, forget an entry or
\* advertise another manifest.
LEMMA QuietKeeps ==
    ASSUME IInv, IInv', ManifestInv,
           UNCHANGED <<manifests, over, end>>,
           \A t \in Slot : SameLink(t) /\ conn'[t].passed = conn[t].passed,
           \A n, p \in Node : secrets'[n][p] = secrets[n][p] \/ secrets'[n][p].rs = 0,
           \A p \in Node : advert'[p] >= advert[p]
    PROVE  ManifestInv'
<1>1. IdStep
  BY DEF IdStep, Pc, SameLink
<1>2. ASSUME NEW t \in Slot, NEW w \in Version, Brings(t, w)'
      PROVE  /\ Brings(t, w) /\ conn'[t].passed >= conn[t].passed
             /\ conn'[t].client = conn[t].client /\ conn'[t].server = conn[t].server
  <2>1. conn[t].passed \in Nat
    BY SessionAssumption DEF IInv, TypeOK, Conn
  <2>2. Brings(t, w)
    BY <1>2 DEF Brings, Pc
  <2> QED
    BY <2>1, <2>2 DEF SameLink
<1>3. ASSUME NEW n \in Node, NEW p \in Node, NEW i \in Secret, NEW v \in Version
      PROVE  (Holds(n, p, i, v)' => Holds(n, p, i, v)) /\ (Pending(i) => Pending(i)')
  BY DEF Holds, Pending, Stores, Pc, SameLink
<1>4. \A n, p \in Node : manifests'[n][p] = manifests[n][p] /\ over'[n][p] = over[n][p]
  OBVIOUS
<1> QED
  BY <1>1, <1>2, <1>3, <1>4, ManifestStep

LEMMA CutKeeps ==
    ASSUME IInv, IInv', ManifestInv, NEW s \in Slot, Cut(s)
    PROVE  ManifestInv'
<1>1. /\ conn \in [Slot -> Conn] /\ UNCHANGED <<secrets, manifests, over, advert, end>>
      /\ conn' = [conn EXCEPT ![s] = [conn[s] EXCEPT !.cut = TRUE]]
  BY DEF Cut, IInv, TypeOK
<1>2. \A t \in Slot : SameLink(t) /\ conn'[t].passed = conn[t].passed
  BY <1>1 DEF SameLink, Conn
<1>3. \A p \in Node : advert'[p] >= advert[p]
  <2>1. \A p \in Node : advert[p] \in Nat
    BY SessionAssumption DEF IInv, TypeOK
  <2> QED
    BY <1>1, <2>1
<1> QED
  BY <1>1, <1>2, <1>3, QuietKeeps

LEMMA PublishKeeps ==
    ASSUME IInv, IInv', ManifestInv, NEW n \in Node, Publish(n)
    PROVE  ManifestInv'
<1>1. /\ UNCHANGED <<secrets, manifests, over, conn, end>>
      /\ advert' = [advert EXCEPT ![n] = advert[n] + 1]
  BY DEF Publish, IInv, TypeOK
<1>2. \A p \in Node : advert'[p] >= advert[p]
  <2>1. \A p \in Node : advert[p] \in Nat
    BY SessionAssumption DEF IInv, TypeOK
  <2>2. advert \in [Node -> 0..MaxVersion]
    BY DEF IInv, TypeOK
  <2> QED
    BY <1>1, <2>1, <2>2
<1> QED
  BY <1>1, <1>2, QuietKeeps DEF SameLink

LEMMA ExpireKeeps ==
    ASSUME IInv, IInv', ManifestInv, NEW n \in Node, NEW p \in Node, Expire(n, p)
    PROVE  ManifestInv'
<1>1. /\ UNCHANGED <<manifests, over, advert, conn, end>>
      /\ secrets' = [secrets EXCEPT ![n][p] = NoEntry]
      /\ secrets \in [Node -> [Node -> Entry]]
  BY DEF Expire, IInv, TypeOK
<1>2. \A m, q \in Node : secrets'[m][q] = secrets[m][q] \/ secrets'[m][q].rs = 0
  BY <1>1 DEF NoEntry
<1>3. \A q \in Node : advert'[q] >= advert[q]
  <2>1. \A q \in Node : advert[q] \in Nat
    BY SessionAssumption DEF IInv, TypeOK
  <2> QED
    BY <1>1, <2>1
<1> QED
  BY <1>1, <1>2, <1>3, QuietKeeps DEF SameLink

LEMMA RunGateKeeps ==
    ASSUME IInv, IInv', ManifestInv, NEW s \in Slot, NEW r \in Role, RunGate(s, r)
    PROVE  ManifestInv'
<1> DEFINE c == conn[s].client
           p == conn[s].server
           adv == end[s][Other(r)].advertised
           id == conn'[s].id
           e == [end[s][r] EXCEPT !.pc = IF r = "client" THEN "store" ELSE "up",
                                  !.rs = id, !.manifest = adv, !.made = r]
           x == [rs |-> id, manifest |-> adv, made |-> r]
           i0 == IF conn[s].id # 0 THEN conn[s].id ELSE CHOOSE i \in Ids \ UsedIds : TRUE
<1>1. /\ end \in [Slot -> [Role -> End]] /\ conn[s] \in Conn /\ conn \in [Slot -> Conn]
      /\ Other(r) \in Role /\ end[s][r] \in End /\ end[s][Other(r)] \in End
      /\ secrets \in [Node -> [Node -> Entry]] /\ Paired(s) /\ c \in Node /\ p \in Node
      /\ Role = {"client", "server"} /\ adv \in Version
  BY DEF IInv, TypeOK, Role, Other, Conn, End, Version
<1>2. /\ end' = [end EXCEPT ![s][r] = e]
      /\ conn' = [conn EXCEPT ![s] = [conn[s] EXCEPT !.id = i0]]
      /\ UNCHANGED <<manifests, over, advert>>
      /\ Pc(s, r) = "gate" /\ Pc(s, Other(r)) \in {"gate", "store", "up"}
      /\ secrets' = [secrets EXCEPT ![Me(s, r)][Me(s, Other(r))] = x]
  BY <1>1 DEF RunGate, Remember, Derive, Pc
<1>3. i0 # 0 /\ (i0 = conn[s].id \/ i0 \notin UsedIds)
  BY FreshId, IdsFinite
<1> HIDE DEF i0
<1>4. /\ id = i0 /\ conn'[s].client = c /\ conn'[s].server = p
      /\ conn'[s].passed = conn[s].passed
      /\ \A t \in Slot \ {s} : conn'[t] = conn[t]
  BY <1>1, <1>2 DEF Conn
<1> HIDE DEF id
<1>5. /\ e.pc = (IF r = "client" THEN "store" ELSE "up") /\ e.rs = id
      /\ e.manifest = adv /\ e.made = r /\ e.advertised = end[s][r].advertised
  BY <1>1 DEF End
<1> HIDE DEF e
<1>6. /\ end'[s][r] = e /\ end'[s][Other(r)] = end[s][Other(r)]
      /\ \A t \in Slot \ {s} : end'[t] = end[t]
  <2>1. Other(r) # r
    BY <1>1 DEF Other
  <2> QED
    BY <1>1, <1>2, <2>1
<1>7. \A q \in Node : advert'[q] >= advert[q]
  <2>1. \A q \in Node : advert[q] \in Nat
    BY SessionAssumption DEF IInv, TypeOK
  <2> QED
    BY <1>2, <2>1
<1>8. \A t \in Slot : conn[t].passed \in Nat /\ conn'[t].passed >= conn[t].passed
  <2>1. \A t \in Slot : conn[t].passed \in Nat
    BY SessionAssumption DEF IInv, TypeOK, Conn
  <2> QED
    BY <1>4, <2>1
<1>9. \A t \in Slot : conn'[t].client = conn[t].client /\ conn'[t].server = conn[t].server
  BY <1>4
<1>10. IdStep
  <2>1. \A t \in Slot :
            \/ conn'[t].id = conn[t].id
            \/ conn'[t].id \notin UsedIds /\ \A u \in Slot \ {t} : conn'[u].id = conn[u].id
    BY <1>3, <1>4 DEF id
  <2>2. ASSUME NEW t \in Slot, Pc(t, "client")' \in {"gate", "store"}, conn'[t].id # 0
        PROVE  \/ conn'[t].id \notin UsedIds
               \/ conn'[t].id = conn[t].id /\ Pc(t, "client") = "gate"
               \/ /\ conn'[t].id = conn[t].id
                  /\ Pc(t, "client")' = Pc(t, "client")
                  /\ end'[t]["client"].manifest = end[t]["client"].manifest
    <3>1. CASE t # s
      BY <1>4, <1>6, <3>1 DEF Pc
    <3>2. CASE t = s /\ r = "client"
      BY <1>2, <1>3, <1>4, <3>2 DEF id
    <3>3. CASE t = s /\ r = "server"
      BY <1>3, <1>4, <1>6, <3>3 DEF id, Pc, Other
    <3> QED
      BY <1>1, <3>1, <3>2, <3>3
  <2> QED
    BY <1>9, <2>1, <2>2 DEF IdStep
<1>11. ASSUME NEW t \in Slot, NEW w \in Version, Brings(t, w)' PROVE Brings(t, w)
  <2>1. CASE t # s
    BY <1>6, <1>11, <2>1 DEF Brings, Pc
  <2>2. CASE t = s /\ r = "client"
    <3>1. Pc(s, "client")' = "store" /\ end'[s]["client"].manifest = end[s]["server"].advertised
      BY <1>5, <1>6, <2>2 DEF Pc, Other
    <3>2. Pc(s, "client") = "gate" /\ Pc(s, "server") \in {"gate", "up"}
      BY <1>1, <1>2, <2>2 DEF Other, Paired, Agreeing
    <3> QED
      BY <1>11, <2>2, <3>1, <3>2 DEF Brings
  <2>3. CASE t = s /\ r = "server"
    BY <1>2, <1>5, <1>6, <1>11, <2>3 DEF Brings, Pc, Other
  <2> QED
    BY <1>1, <2>1, <2>2, <2>3
<1>12. ASSUME NEW n \in Node, NEW q \in Node
       PROVE  \/ secrets'[n][q] = secrets[n][q]
              \/ secrets'[n][q] = x /\ (r = "client" => n = c /\ q = p)
  <2>1. Me(s, r) \in Node /\ Me(s, Other(r)) \in Node
    BY <1>1 DEF Me
  <2>2. r = "client" => Me(s, r) = c /\ Me(s, Other(r)) = p
    BY DEF Me, Other
  <2> HIDE DEF x, c, p
  <2> QED
    BY <1>1, <1>2, <2>1, <2>2
<1>13. ASSUME NEW i \in Secret, Pending(i) PROVE Pending(i)'
  <2>1. PICK t \in Slot : Stores(t, i)
    BY <1>13 DEF Pending
  <2>2. end'[t]["client"] = end[t]["client"]
    <3>1. CASE t # s
      BY <1>6, <3>1
    <3>2. CASE t = s
      <4>1. r # "client"
        BY <1>2, <2>1, <3>2 DEF Stores
      <4>2. Other(r) = "client"
        BY <1>1, <4>1 DEF Other
      <4> QED
        BY <1>6, <3>2, <4>2
    <3> QED
      BY <3>1, <3>2
  <2> QED
    BY <2>1, <2>2 DEF Pending, Stores, Pc
<1>14. ASSUME NEW n \in Node, NEW q \in Node, NEW i \in Secret, NEW v \in Version,
              Holds(n, q, i, v)'
       PROVE  Holds(n, q, i, v) \/ (r = "client" /\ n = c /\ q = p /\ i = id /\ v = adv)
  <2>1. CASE /\ secrets'[n][q].rs = i /\ i # 0
             /\ secrets'[n][q].manifest = v /\ secrets'[n][q].made = "client"
    BY <1>1, <1>12, <2>1 DEF Holds
  <2>2. ASSUME NEW t \in Slot,
               /\ conn'[t].client = n /\ conn'[t].server = q
               /\ Pc(t, "client")' \in {"ack", "resume", "up"}
               /\ end'[t]["client"].rs = i /\ end'[t]["client"].manifest = v
               /\ end'[t]["client"].made = "client"
        PROVE  Holds(n, q, i, v)
    <3>1. end'[t]["client"] = end[t]["client"]
      <4>1. CASE t # s
        BY <1>6, <4>1
      <4>2. CASE t = s /\ r = "client"
        BY <1>5, <1>6, <2>2, <4>2 DEF Pc
      <4>3. CASE t = s /\ r = "server"
        BY <1>6, <4>3 DEF Other
      <4> QED
        BY <1>1, <4>1, <4>2, <4>3
    <3> QED
      BY <1>9, <2>2, <3>1 DEF Holds, Pc
  <2> QED
    BY <1>14, <2>1, <2>2 DEF Holds
<1>15. ASSUME NEW n \in Node, NEW q \in Node, NEW i \in Secret, NEW v \in Version,
              r = "client", n = c, q = p, i = id, v = adv
       PROVE  HoldInv(n, q, i, v)'
  <2>1. /\ Pc(s, "client")' = "store" /\ end'[s]["client"].rs = i
        /\ end'[s]["client"].manifest = v
    BY <1>5, <1>6, <1>15 DEF Pc
  <2>2. Pending(i)'
    BY <2>1 DEF Pending, Stores
  <2>3. Brings(s, v)
    BY <1>1, <1>2, <1>15 DEF Brings, Other, Paired, Agreeing
  <2>4. v <= advert'[q]
    BY <1>1, <1>2, <1>15, <2>3 DEF ManifestInv
  <2>5. ASSUME NEW t \in Slot PROVE Owned(t, n, q, i, v)'
    <3>1. conn'[t].id = i /\ i # 0 => t = s
      BY <1>10, <1>15, IdsKept DEF id
    <3> QED
      BY <1>4, <1>15, <2>1, <3>1 DEF Owned
  <2> QED
    BY <2>2, <2>4, <2>5 DEF HoldInv
<1>16. \A n, q \in Node : manifests'[n][q] = manifests[n][q] /\ over'[n][q] = over[n][q]
  BY <1>2
<1> HIDE DEF c, p, adv, x
<1>17. \A n, q \in Node, i \in Secret, v \in Version : Holds(n, q, i, v)' =>
                \/ HoldInv(n, q, i, v)'
                \/ /\ Holds(n, q, i, v) /\ (Pending(i) => Pending(i)')
                   /\ manifests'[n][q] = manifests[n][q] /\ over'[n][q] = over[n][q]
  BY <1>13, <1>14, <1>15, <1>16
<1> QED
  BY <1>7, <1>8, <1>9, <1>10, <1>11, <1>17, ManifestStep

LEMMA StoreKeeps ==
    ASSUME IInv, IInv', ManifestInv, NEW s \in Slot, Store(s)
    PROVE  ManifestInv'
<1> DEFINE c == conn[s].client
           p == conn[s].server
           w0 == end[s]["client"].manifest
           e == [end[s]["client"] EXCEPT !.pc = "up"]
<1>1. /\ end \in [Slot -> [Role -> End]] /\ conn[s] \in Conn /\ TypeOK
      /\ end[s]["client"] \in End /\ Paired(s) /\ c \in Node /\ p \in Node
      /\ manifests \in [Node -> [Node -> 0..MaxVersion]]
      /\ over \in [Node -> [Node -> 0..MaxVersion]] /\ w0 \in Version
  BY DEF IInv, TypeOK, Role, Conn, End, Version
<1>2. /\ end' = [end EXCEPT ![s]["client"] = e] /\ conn' = Overtaken(s, w0)
      /\ UNCHANGED <<secrets, advert>> /\ Pc(s, "client") = "store"
      /\ manifests' = [manifests EXCEPT ![c][p] = Parsed(w0)]
      /\ over' = [over EXCEPT ![c][p] = conn[s].passed]
  BY <1>1 DEF Store, Role
<1>3. e.pc = "up" /\ e.rs = end[s]["client"].rs /\ e.manifest = w0
      /\ e.made = end[s]["client"].made
  BY <1>1 DEF End
<1>4. conn[s].id # 0 /\ end[s]["client"].rs = conn[s].id
  BY <1>1, <1>2 DEF Paired, Gated, Role
<1> HIDE DEF e
<1>5. /\ end'[s]["client"] = e /\ end'[s]["server"] = end[s]["server"]
      /\ \A t \in Slot \ {s} : end'[t] = end[t]
  BY <1>1, <1>2 DEF Role
<1>6. \A t \in Slot :
        /\ conn'[t].id = conn[t].id /\ conn'[t].passed >= conn[t].passed
        /\ conn'[t].client = conn[t].client /\ conn'[t].server = conn[t].server
        /\ conn[t].client = c /\ conn[t].server = p /\ BringsOlder(t, w0)
           => conn'[t].passed >= w0
  BY <1>1, <1>2, OvertakenIs DEF Version
<1>7. /\ manifests'[c][p] = Parsed(w0) /\ over'[c][p] = conn[s].passed
      /\ \A n, q \in Node : ~(n = c /\ q = p) =>
            manifests'[n][q] = manifests[n][q] /\ over'[n][q] = over[n][q]
  <2> HIDE DEF c, p, w0
  <2> QED
    BY <1>1, <1>2
<1>8. IdStep
  BY <1>3, <1>5, <1>6 DEF IdStep, Pc
<1>9. ASSUME NEW t \in Slot, NEW w \in Version, Brings(t, w)' PROVE t # s /\ Brings(t, w)
  BY <1>3, <1>5, <1>9 DEF Brings, Pc
<1>10. /\ Brings(s, w0) /\ w0 <= advert[p] /\ Version \subseteq Nat
       /\ \A q \in Node : advert[q] \in Nat
       /\ \A q \in Node : advert'[q] >= advert[q]
       /\ \A t \in Slot : conn[t].passed \in Nat /\ conn'[t].passed \in Nat
  <2>1. Brings(s, w0)
    BY <1>2 DEF Brings
  <2>2. Version \subseteq Nat
    BY SessionAssumption DEF Version
  <2>3. \A q \in Node : advert[q] \in Nat
    BY <1>1, <2>2 DEF TypeOK, Version
  <2>4. \A q \in Node : advert'[q] >= advert[q]
    BY <1>2, <2>3
  <2>5. \A t \in Slot : conn[t].passed \in Nat /\ conn'[t].passed \in Nat
    BY SessionAssumption DEF IInv, TypeOK, Conn
  <2>6. w0 <= advert[p]
    BY <1>1, <2>1 DEF ManifestInv
  <2> QED
    BY <2>1, <2>2, <2>3, <2>4, <2>5, <2>6
<1>11. ASSUME NEW i \in Secret, Pending(i), i # conn[s].id PROVE Pending(i)'
  <2>1. PICK t \in Slot : Stores(t, i)
    BY <1>11 DEF Pending
  <2>2. t # s
    BY <1>4, <1>11, <2>1 DEF Stores
  <2>3. Stores(t, i)'
    BY <1>5, <2>1, <2>2 DEF Stores, Pc
  <2> QED
    BY <2>3 DEF Pending
<1>12. ASSUME NEW n \in Node, NEW q \in Node, NEW i \in Secret, NEW v \in Version,
              Holds(n, q, i, v)'
       PROVE  Holds(n, q, i, v) \/ (n = c /\ q = p /\ i = conn[s].id /\ v = w0)
  <2>1. CASE /\ secrets'[n][q].rs = i /\ i # 0
             /\ secrets'[n][q].manifest = v /\ secrets'[n][q].made = "client"
    BY <1>2, <2>1 DEF Holds
  <2>2. ASSUME NEW t \in Slot,
               /\ conn'[t].client = n /\ conn'[t].server = q
               /\ Pc(t, "client")' \in {"ack", "resume", "up"}
               /\ end'[t]["client"].rs = i /\ end'[t]["client"].manifest = v
               /\ end'[t]["client"].made = "client"
        PROVE  Holds(n, q, i, v) \/ (n = c /\ q = p /\ i = conn[s].id /\ v = w0)
    <3>1. CASE t = s
      BY <1>3, <1>4, <1>5, <1>6, <2>2, <3>1
    <3>2. CASE t # s
      BY <1>5, <1>6, <2>2, <3>2 DEF Holds, Pc
    <3> QED
      BY <3>1, <3>2
  <2> QED
    BY <1>12, <2>1, <2>2 DEF Holds
\* The gate that stores now: what it made is settled by it.
<1>13. ASSUME NEW n \in Node, NEW q \in Node, NEW i \in Secret, NEW v \in Version,
              n = c, q = p, i = conn[s].id, v = w0
       PROVE  HoldInv(n, q, i, v)'
  <2>1. v <= advert'[q]
    BY <1>2, <1>10, <1>13
  <2>2. Settled(n, q, v)'
    <3>1. w0 \in Nat /\ advert'[q] \in Nat
      BY <1>1, <1>2, <1>10
    <3>2. v \in v..advert'[q] /\ manifests'[n][q] = Parsed(v)
      BY <1>7, <1>13, <2>1, <3>1
    <3> QED
      BY <3>2 DEF Settled, Parsed
  <2>3. ASSUME NEW t \in Slot, conn'[t].client = n, conn'[t].server = q
        PROVE  Behind(t, v)'
    <3> SUFFICES ASSUME NEW w \in Version, Brings(t, w)'
                 PROVE  v <= w \/ v <= conn'[t].passed
      BY DEF Behind, Version
    <3>1. Brings(t, w) /\ w \in Nat /\ w0 \in Nat
      BY <1>1, <1>9, <1>10
    <3>2. CASE w < w0
      <4>1. BringsOlder(t, w0)
        BY <3>1, <3>2 DEF Brings, BringsOlder
      <4>2. conn'[t].passed >= w0
        BY <1>6, <1>13, <2>3, <4>1
      <4> QED
        BY <1>10, <1>13, <3>1, <4>2
    <3>3. CASE ~(w < w0)
      BY <1>13, <3>1, <3>3
    <3> QED
      BY <3>2, <3>3
  <2>4. ASSUME NEW t \in Slot PROVE Owned(t, n, q, i, v)'
    <3>1. conn'[t].id = i => t = s
      BY <1>4, <1>6, <1>13 DEF ManifestInv
    <3>2. Pc(s, "client")' = "up"
      BY <1>3, <1>5 DEF Pc
    <3> QED
      BY <3>1, <3>2 DEF Owned
  <2> QED
    BY <2>1, <2>2, <2>3, <2>4 DEF HoldInv
\* Another gate's, which may have been stored before: this session was either
\* overtaken by it, or brings one that is no older.
<1>14. ASSUME NEW n \in Node, NEW q \in Node, NEW i \in Secret, NEW v \in Version,
              Holds(n, q, i, v), i # conn[s].id
       PROVE  HoldInv(n, q, i, v)'
  <2>1. HoldInv(n, q, i, v) /\ v \in Nat
    BY <1>10, <1>14 DEF ManifestInv
  <2>2. v <= advert'[q]
    BY <1>2, <2>1 DEF HoldInv
  <2>3. ASSUME ~Pending(i) PROVE Settled(n, q, v)'
    <3>1. CASE n = c /\ q = p
      <4>1. Behind(s, v)
        BY <2>1, <2>3, <3>1 DEF HoldInv
      <4>2. v <= w0 \/ v <= conn[s].passed
        BY <1>1, <1>10, <4>1 DEF Behind, Version
      <4>3. CASE v <= conn[s].passed
        BY <1>7, <1>10, <2>1, <3>1, <4>3 DEF Settled
      <4>4. CASE v <= w0
        <5>1. w0 \in Nat /\ advert[p] \in Nat /\ w0 <= advert[p] /\ advert'[q] = advert[p]
          BY <1>1, <1>2, <1>10, <3>1
        <5>2. w0 \in v..advert'[q]
          BY <2>1, <4>4, <5>1
        <5>3. manifests'[n][q] = Parsed(w0)
          BY <1>7, <3>1
        <5> HIDE DEF w0
        <5> QED
          BY <5>2, <5>3 DEF Settled, Parsed
      <4> QED
        BY <4>2, <4>3, <4>4
    <3>2. CASE ~(n = c /\ q = p)
      <4>1. Settled(n, q, v)
        BY <2>1, <2>3 DEF HoldInv
      <4>2. manifests'[n][q] = manifests[n][q] /\ over'[n][q] = over[n][q] /\ advert' = advert
        BY <1>2, <1>7, <3>2
      <4> QED
        BY <4>1, <4>2 DEF Settled, Parsed
    <3> QED
      BY <3>1, <3>2
  <2>4. ASSUME NEW t \in Slot, conn'[t].client = n, conn'[t].server = q, ~Pending(i)
        PROVE  Behind(t, v)'
    <3> SUFFICES ASSUME NEW w \in Version, Brings(t, w)'
                 PROVE  v <= w \/ v <= conn'[t].passed
      BY DEF Behind, Version
    <3>1. Behind(t, v)
      BY <1>6, <2>1, <2>4 DEF HoldInv
    <3>2. v <= w \/ v <= conn[t].passed
      BY <1>9, <3>1 DEF Behind, Version
    <3>3. conn[t].passed \in Nat /\ conn'[t].passed \in Nat /\ conn'[t].passed >= conn[t].passed
      BY <1>6, <1>10
    <3> QED
      BY <2>1, <3>2, <3>3
  <2>5. ASSUME NEW t \in Slot PROVE Owned(t, n, q, i, v)'
    <3>1. Owned(t, n, q, i, v)
      BY <2>1 DEF HoldInv
    <3>2. CASE t = s
      BY <1>3, <1>5, <3>2 DEF Owned, Pc
    <3>3. CASE t # s
      BY <1>5, <1>6, <3>1, <3>3 DEF Owned, Pc
    <3> QED
      BY <3>2, <3>3
  <2>6. Pending(i) => Pending(i)'
    BY <1>11, <1>14
  <2> QED
    BY <2>2, <2>3, <2>4, <2>5, <2>6 DEF HoldInv
<1>15. ASSUME NEW n \in Node, NEW q \in Node, NEW i \in Secret, NEW v \in Version,
              Holds(n, q, i, v)'
       PROVE  HoldInv(n, q, i, v)'
  <2>1. CASE n = c /\ q = p /\ i = conn[s].id /\ v = w0
    BY <1>13, <2>1
  <2>2. CASE Holds(n, q, i, v)
    <3>1. CASE i # conn[s].id
      BY <1>14, <2>2, <3>1
    <3>2. CASE i = conn[s].id
      <4>1. Owned(s, n, q, i, v)
        BY <2>2 DEF ManifestInv, HoldInv
      <4>2. n = c /\ q = p /\ v = w0
        BY <1>2, <1>4, <3>2, <4>1 DEF Owned
      <4> QED
        BY <1>13, <3>2, <4>2
    <3> QED
      BY <3>1, <3>2
  <2> QED
    BY <1>12, <1>15, <2>1, <2>2
<1> QED
  BY <1>6, <1>8, <1>9, <1>10, <1>15, ManifestStep

\* The restarted daemon holds nothing; the others keep what they hold, and the
\* gates that are about to store it are theirs.
LEMMA RestartKeeps ==
    ASSUME IInv, IInv', ManifestInv, NEW n \in Node, Restart(n)
    PROVE  ManifestInv'
<1>1. /\ secrets' = [m \in Node |-> [p \in Node |->
            IF n \in {m, p} THEN NoEntry ELSE secrets[m][p]]]
      /\ manifests' = [manifests EXCEPT ![n] = [p \in Node |-> 0]]
      /\ over' = [over EXCEPT ![n] = [p \in Node |-> 0]]
      /\ end' = [s \in Slot |-> [r \in Role |->
            IF Me(s, r) = n /\ Pc(s, r) # "off" THEN Gone ELSE end[s][r]]]
      /\ manifests \in [Node -> [Node -> 0..MaxVersion]]
      /\ over \in [Node -> [Node -> 0..MaxVersion]]
      /\ "client" \in Role /\ "server" \in Role
  BY DEF Restart, IInv, TypeOK, Role
<1>2. \A t \in Slot :
        /\ SameLink(t) /\ conn'[t].passed = conn[t].passed
        /\ \/ end'[t]["client"] = end[t]["client"] /\ (conn[t].client = n => Pc(t, "client") = "off")
           \/ end'[t]["client"].pc = "failed"
        /\ end'[t]["server"] = end[t]["server"] \/ end'[t]["server"].pc = "failed"
        /\ conn[t].client # n => end'[t]["client"] = end[t]["client"]
  <2>1. \A t \in Slot : conn[t].client # n => end'[t]["client"] = end[t]["client"]
    BY <1>1 DEF Me
  <2> QED
    BY <1>1, <2>1, RestartIs, Blank DEF Me
<1>3. \A q \in Node : advert'[q] >= advert[q]
  BY RestartIs
<1>4. IdStep
  BY <1>2 DEF IdStep, Pc, SameLink
<1>5. ASSUME NEW t \in Slot, NEW w \in Version, Brings(t, w)'
      PROVE  /\ Brings(t, w) /\ conn'[t].passed >= conn[t].passed
             /\ conn'[t].client = conn[t].client /\ conn'[t].server = conn[t].server
  <2>1. conn[t].passed \in Nat
    BY SessionAssumption DEF IInv, TypeOK, Conn
  <2>2. Brings(t, w)
    BY <1>2, <1>5 DEF Brings, Pc
  <2> QED
    BY <1>2, <2>1, <2>2 DEF SameLink
<1>6. ASSUME NEW m \in Node, NEW p \in Node, NEW i \in Secret, NEW v \in Version,
             Holds(m, p, i, v)'
      PROVE  m # n /\ Holds(m, p, i, v)
  <2>1. CASE /\ secrets'[m][p].rs = i /\ i # 0
             /\ secrets'[m][p].manifest = v /\ secrets'[m][p].made = "client"
    <3>1. n \notin {m, p} /\ secrets'[m][p] = secrets[m][p]
      BY <1>1, <2>1, Blank DEF NoEntry
    <3> QED
      BY <2>1, <3>1 DEF Holds
  <2>2. ASSUME NEW t \in Slot,
               /\ conn'[t].client = m /\ conn'[t].server = p
               /\ Pc(t, "client")' \in {"ack", "resume", "up"}
               /\ end'[t]["client"].rs = i /\ end'[t]["client"].manifest = v
               /\ end'[t]["client"].made = "client"
        PROVE  m # n /\ Holds(m, p, i, v)
    <3>1. /\ conn[t].client = m /\ conn[t].server = p /\ end'[t]["client"] = end[t]["client"]
          /\ m # n
      BY <1>2, <2>2 DEF SameLink, Pc
    <3> QED
      BY <2>2, <3>1 DEF Holds, Pc
  <2> QED
    BY <1>6, <2>1, <2>2 DEF Holds
<1>7. ASSUME NEW m \in Node, NEW p \in Node, NEW i \in Secret, NEW v \in Version,
             Holds(m, p, i, v)'
      PROVE  /\ Holds(m, p, i, v) /\ (Pending(i) => Pending(i)')
             /\ manifests'[m][p] = manifests[m][p] /\ over'[m][p] = over[m][p]
  <2>1. m # n /\ Holds(m, p, i, v)
    BY <1>6, <1>7
  <2>2. ASSUME Pending(i) PROVE Pending(i)'
    <3>1. PICK t \in Slot : Stores(t, i)
      BY <2>2 DEF Pending
    <3>2. Owned(t, m, p, i, v)
      BY <2>1 DEF ManifestInv, HoldInv
    <3>3. conn[t].id = i /\ i # 0
      BY <1>1, <3>1 DEF Stores, IInv, Paired, Gated
    <3>4. conn[t].client # n
      BY <2>1, <3>1, <3>2, <3>3 DEF Owned, Stores
    <3>5. Stores(t, i)'
      BY <1>2, <3>1, <3>4 DEF Stores, Pc
    <3> QED
      BY <3>5 DEF Pending
  <2> QED
    BY <1>1, <2>1, <2>2
<1> QED
  BY <1>3, <1>4, <1>5, <1>7, ManifestStep

LEMMA InitManifests == Init => ManifestInv
<1> SUFFICES ASSUME Init PROVE ManifestInv
  OBVIOUS
<1>1. \A s \in Slot : Pc(s, "client") = "off" /\ conn[s].id = 0
  BY Blank DEF Init, Pc, Role
<1>2. \A n, p \in Node : secrets[n][p].rs = 0
  BY DEF Init, NoEntry
<1> QED
  BY <1>1, <1>2 DEF ManifestInv, Holds, Brings

LEMMA KeepsManifests ==
    ASSUME IInv, IInv', ManifestInv, [Next]_vars
    PROVE  ManifestInv'
<1>1. ASSUME NEW s \in Slot, SetUp(s) PROVE ManifestInv'
  <2>1. CASE \E r \in Role : RunGate(s, r) \/ Resume(s, r) \/ Fail(s, r)
    BY <2>1, RunGateKeeps, ResumeKeeps, FailKeeps
  <2> QED
    BY <1>1, <2>1, ReadModeKeeps, ReadAckKeeps, StoreKeeps, RetireKeeps DEF SetUp
<1>2. ASSUME NEW s \in Slot, NEW p \in Pairs \cup Seldom, Propose(s, p[1], p[2])
      PROVE  ManifestInv'
  <2>1. p[1] \in Node /\ p[2] \in Node
    BY SessionAssumption
  <2> QED
    BY <1>2, <2>1, ProposeKeeps
<1>3. CASE UNCHANGED vars
  <2>1. \A p \in Node : advert'[p] >= advert[p]
    <3>1. \A p \in Node : advert[p] \in Nat
      BY SessionAssumption DEF IInv, TypeOK
    <3> QED
      BY <1>3, <3>1 DEF vars
  <2> QED
    BY <1>3, <2>1, QuietKeeps DEF vars, SameLink
<1> QED
  BY <1>1, <1>2, <1>3, CutKeeps, RestartKeeps, PublishKeeps, ExpireKeeps DEF Next

LEMMA ManifestInvariant == Spec => [](IInv /\ ManifestInv)
<1>1. IInv /\ ManifestInv /\ [Next]_vars => IInv' /\ ManifestInv'
  BY StepInv, KeepsManifests
<1> QED
  BY <1>1, InitInv, InitManifests, PTL DEF Spec

\* The manifest a client enforces for a tunnel is the one attested in the gate
\* behind it or a later one, save in the three named cases: for any number of
\* daemons in both roles, overlapping set-ups, broken connections, restarts,
\* new manifests, manifests that do not parse and pulls that failed.
THEOREM EnforcesAttestedHolds == Spec => []EnforcesAttested
<1>1. ASSUME IInv, ManifestInv, NEW s \in Slot, Pc(s, "client") = "up",
             end[s]["client"].made # "server",
             ~(\E t \in Slot : Pc(t, "client") = "store"
                               /\ end[t]["client"].rs = end[s]["client"].rs)
      PROVE  Settled(conn[s].client, conn[s].server, end[s]["client"].manifest)
  <2> DEFINE c == conn[s].client
             p == conn[s].server
             i == end[s]["client"].rs
             v == end[s]["client"].manifest
  <2>1. /\ c \in Node /\ p \in Node /\ i \in Secret /\ v \in Version
        /\ end[s]["client"].made = "client"
    BY <1>1 DEF IInv, TypeOK, Conn, End, Secret, Version, Role
  <2>2. Holds(c, p, i, v)
    BY <1>1, <2>1 DEF Holds
  <2>3. ~Pending(i)
    BY <1>1 DEF Pending, Stores
  <2> HIDE DEF c, p, i, v
  <2>4. Settled(c, p, v)
    BY <1>1, <2>1, <2>2, <2>3 DEF ManifestInv, HoldInv
  <2> QED
    BY <2>4 DEF c, p, v
<1>2. IInv /\ ManifestInv => EnforcesAttested
  BY <1>1 DEF EnforcesAttested, Settled, Pc
<1> QED
  BY <1>2, ManifestInvariant, PTL

==============================================================================

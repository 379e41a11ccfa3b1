--------------------------- MODULE TunnelPoolProofs ---------------------------
(***************************************************************************)
(* Proofs about TunnelPool, for any number of requests and refills, any    *)
(* depth of the pool and any re-attestation interval: its types, how old   *)
(* the gate behind a tunnel can be when the tunnel is handed out, and that *)
(* a cooldown holds off all but one dial of each goroutine.                *)
(***************************************************************************)
EXTENDS TunnelPool, FiniteSetTheorems, WellFoundedInduction, TLAPS

\* A goroutine's tunnel: fresh until a secret that was live is resumed, then as
\* old as that secret and the set-up so far.
Aged(g) ==
    /\ pc[g] \in Establishing => held[g].idle = 0
    /\ pc[g] \in {"dial", "gate"} => held[g].attested = 0
    /\ pc[g] = "resume" => held[g].attested < TTL + lasted[g]
    /\ pc[g] = "got" => held[g].attested < 2 * TTL + Setup

\* A warm tunnel was set up when it was pooled, unless it is stale.
Kept(t) == t.idle <= TTL => t.attested < TTL + Setup + t.idle

IInv ==
    /\ TypeOK
    /\ \A g \in Goroutines : Aged(g)
    /\ \A i \in DOMAIN warm : Kept(warm[i])

LEMMA Parameters ==
    /\ MaxRefills \in Nat \ {0} /\ Size \in Nat \ {0} /\ TTL \in Nat \ {0}
    /\ Setup \in Nat \ {0} /\ Cooldown \in Nat \ {0} /\ MaxFlaps \in Nat
    /\ Oldest = 2 * TTL + Setup /\ Oldest \in Nat
    /\ Callers \subseteq Goroutines /\ Refills \subseteq Goroutines
BY PoolAssumption DEF Oldest, Goroutines

LEMMA News == New \in Tunnel /\ New.attested = 0 /\ New.idle = 0
BY Parameters DEF New, Tunnel

LEMMA Counting ==
    ASSUME NEW most \in Nat, NEW n \in 0..most
    PROVE  Older(n, most) \in 0..most /\ Older(n, most) <= n + 1
BY DEF Older

\* A tick makes a warm tunnel older and keeps what is known of it.
Later(t) == [t EXCEPT !.attested = Older(@, Oldest), !.idle = Older(@, TTL + 1)]

LEMMA Ages ==
    ASSUME NEW t \in Tunnel
    PROVE  Later(t) \in Tunnel /\ (Kept(t) => Kept(Later(t)))
<1> DEFINE u == Later(t)
<1>1. /\ t.attested \in 0..Oldest /\ t.idle \in 0..(TTL + 1) /\ t.alive \in BOOLEAN
      /\ t = [attested |-> t.attested, idle |-> t.idle, alive |-> t.alive]
      /\ DOMAIN t = {"attested", "idle", "alive"}
  BY DEF Tunnel
<1> DEFINE a == Older(t.attested, Oldest)
           b == Older(t.idle, TTL + 1)
<1>2. u.attested = Older(t.attested, Oldest) /\ u.idle = Older(t.idle, TTL + 1)
  BY <1>1 DEF Later
<1>3. u \in Tunnel
  <2>1. u = [attested |-> Older(t.attested, Oldest), idle |-> Older(t.idle, TTL + 1),
             alive |-> t.alive]
    <3>1. u = [t EXCEPT !.attested = a, !.idle = b]
      BY DEF Later
    <3> HIDE DEF u, a, b
    <3>2. u = [attested |-> a, idle |-> b, alive |-> t.alive]
      BY <1>1, <3>1
    <3> QED
      BY <3>2 DEF a, b
  <2>2. Older(t.attested, Oldest) \in 0..Oldest /\ Older(t.idle, TTL + 1) \in 0..(TTL + 1)
    BY <1>1, Parameters DEF Older
  <2> QED
    BY <1>1, <2>1, <2>2 DEF Tunnel
<1>4. Kept(t) => Kept(u)
  BY <1>1, <1>2, Parameters DEF Kept, Older
<1> QED
  BY <1>3, <1>4

\* A step that leaves the goroutine's tunnel alone, or makes it forget it.
LEMMA AgedStays ==
    ASSUME NEW g \in Goroutines, Aged(g), held'[g] = held[g], lasted'[g] = lasted[g],
           pc'[g] = pc[g] \/ pc'[g] \in {"idle", "get", "begin", "check"}
    PROVE  Aged(g)'
BY DEF Aged, Establishing

LEMMA Forgotten ==
    ASSUME NEW g \in Goroutines, pc'[g] \in {"idle", "get", "begin", "check"}
    PROVE  Aged(g)'
BY DEF Aged, Establishing

\* go p.refill() lets the caller go on and wakes a goroutine that was idle.
LEMMA Spawned ==
    ASSUME TypeOK, NEW c \in Callers, NEW next \in {"idle", "get", "begin", "got"},
           Spawn(c, next)
    PROVE  /\ pc' \in [Goroutines -> Establishing \cup {"idle", "get", "begin", "got", "check"}]
           /\ pc'[c] = next
           /\ \A g \in Goroutines \ {c} : pc'[g] \in {pc[g], "check"}
<1> DEFINE r == CHOOSE r \in FreeRefills : \A x \in FreeRefills : r <= x
<1>1. pc' = [pc EXCEPT ![r] = "check", ![c] = next]
  BY DEF Spawn
<1>2. pc \in [Goroutines -> Establishing \cup {"idle", "get", "begin", "got", "check"}]
  BY DEF TypeOK
<1> HIDE DEF r
<1> QED
  BY <1>1, <1>2, Parameters

------------------------------------------------------------------------------
(* Establishing a tunnel. *)

LEMMA EstablishStep ==
    ASSUME IInv, NEW g \in Goroutines, Establish(g)
    PROVE  IInv'
<1>1. /\ pc \in [Goroutines -> Establishing \cup {"idle", "get", "begin", "got", "check"}]
      /\ held \in [Goroutines -> Tunnel] /\ held[g] \in Tunnel
      /\ redials \in [Goroutines -> 0..2] /\ lasted \in [Goroutines -> 0..Setup]
      /\ up \in BOOLEAN /\ secret \in 0..TTL /\ TypeOK /\ lasted[g] \in 0..Setup
  BY DEF IInv, TypeOK
<1>2. UNCHANGED <<up, warm, quit, secret, tries, flaps>>
  BY DEF Establish, Begin, Attest, EstablishFails, pool
<1>3. ASSUME held' \in [Goroutines -> Tunnel],
             pc' \in [Goroutines -> Establishing \cup {"idle", "get", "begin", "got", "check"}],
             redials' \in [Goroutines -> 0..2], lasted' \in [Goroutines -> 0..Setup],
             cool' \in 0..Cooldown, Aged(g)',
             \A h \in Goroutines \ {g} : /\ pc'[h] = pc[h] /\ held'[h] = held[h]
                                         /\ lasted'[h] = lasted[h]
      PROVE  IInv'
  <2>1. TypeOK'
    BY <1>2, <1>3 DEF IInv, TypeOK
  <2>2. \A h \in Goroutines : Aged(h)'
    BY <1>3, AgedStays DEF IInv
  <2> QED
    BY <1>2, <2>1, <2>2 DEF IInv
<1>4. CASE Begin(g)
  <2> DEFINE t == [New EXCEPT !.alive = up]
  <2>1. /\ pc' = [pc EXCEPT ![g] = "dial"] /\ held' = [held EXCEPT ![g] = t]
        /\ redials' = [redials EXCEPT ![g] = IF Cooling THEN Older(redials[g], 2) ELSE 0]
        /\ UNCHANGED <<lasted, cool>>
    BY <1>1, <1>4 DEF Begin
  <2>2. t \in Tunnel /\ t.attested = 0 /\ t.idle = 0
    BY <1>1, Parameters DEF New, Tunnel
  <2> HIDE DEF t
  <2>3. redials' \in [Goroutines -> 0..2]
    <3>1. (IF Cooling THEN Older(redials[g], 2) ELSE 0) \in 0..2
      BY <1>1 DEF Older
    <3> QED
      BY <1>1, <2>1, <3>1
  <2>4. Aged(g)'
    BY <1>1, <2>1, <2>2 DEF Aged
  <2>5. pc' \in [Goroutines -> Establishing \cup {"idle", "get", "begin", "got", "check"}]
    BY <1>1, <2>1 DEF Establishing
  <2> QED
    BY <1>1, <1>3, <2>1, <2>2, <2>3, <2>4, <2>5 DEF TypeOK
<1>5. CASE Attest(g)
  <2>1. pc[g] = "dial" /\ held[g].idle = 0 /\ held[g].attested = 0
    BY <1>5 DEF Attest, IInv, Aged, Establishing
  <2>2. CASE secret < TTL /\ pc' = [pc EXCEPT ![g] = "resume"]
             /\ held' = [held EXCEPT ![g].attested = secret]
    <3> DEFINE t == [held[g] EXCEPT !.attested = secret]
    <3>1. held' = [held EXCEPT ![g] = t]
      BY <1>1, <2>2
    <3>2. t \in Tunnel /\ t.attested = secret /\ t.idle = 0
      <4>1. secret \in 0..Oldest
        BY <1>1, Parameters
      <4>2. held[g] = [attested |-> held[g].attested, idle |-> held[g].idle,
                       alive |-> held[g].alive] /\ held[g].idle \in 0..(TTL + 1)
            /\ held[g].alive \in BOOLEAN
        BY <1>1 DEF Tunnel
      <4> QED
        BY <2>1, <4>1, <4>2 DEF Tunnel
    <3> HIDE DEF t
    <3>3. UNCHANGED <<lasted, cool, redials>>
      BY <1>5 DEF Attest
    <3>4. Aged(g)'
      <4>1. secret < TTL + lasted[g]
        BY <1>1, <2>2, Parameters
      <4> QED
        BY <1>1, <2>2, <3>1, <3>2, <3>3, <4>1 DEF Aged
    <3>5. pc' \in [Goroutines -> Establishing \cup {"idle", "get", "begin", "got", "check"}]
      BY <1>1, <2>2 DEF Establishing
    <3> QED
      BY <1>1, <1>3, <2>2, <3>1, <3>2, <3>3, <3>4, <3>5 DEF TypeOK
  <2>3. CASE pc' = [pc EXCEPT ![g] = "gate"] /\ UNCHANGED held
    <3>1. UNCHANGED <<lasted, cool, redials>>
      BY <1>5 DEF Attest
    <3>2. Aged(g)'
      BY <1>1, <2>1, <2>3 DEF Aged
    <3>3. pc' \in [Goroutines -> Establishing \cup {"idle", "get", "begin", "got", "check"}]
      BY <1>1, <2>3 DEF Establishing
    <3> QED
      BY <1>1, <1>3, <2>3, <3>1, <3>2, <3>3 DEF TypeOK
  <2> QED
    BY <1>5, <2>2, <2>3 DEF Attest
<1>6. CASE EstablishFails(g)
  <2>1. /\ pc' = [pc EXCEPT ![g] = "idle"] /\ cool' = Cooldown
        /\ held' = [held EXCEPT ![g] = New] /\ lasted' = [lasted EXCEPT ![g] = 0]
        /\ UNCHANGED redials
    BY <1>6 DEF EstablishFails
  <2>2. Aged(g)'
    BY <1>1, <2>1, Forgotten
  <2>3. cool' \in 0..Cooldown /\ lasted' \in [Goroutines -> 0..Setup]
    BY <1>1, <2>1, Parameters
  <2>4. held' \in [Goroutines -> Tunnel]
    BY <1>1, <2>1, News
  <2> QED
    BY <1>1, <1>3, <2>1, <2>2, <2>3, <2>4
<1> QED
  BY <1>4, <1>5, <1>6 DEF Establish

\* A tunnel that was set up, with its secret or by a gate, rests on a gate that
\* lies back less than one interval and the set-up.
LEMMA Finished ==
    ASSUME IInv, NEW g \in Goroutines, Finish(g)
    PROVE  /\ held[g] \in Tunnel /\ held[g].idle = 0
           /\ held[g].attested < TTL + Setup
           /\ secret' \in 0..TTL /\ lasted' \in [Goroutines -> 0..Setup]
           /\ \A h \in Goroutines \ {g} : lasted'[h] = lasted[h]
<1>1. /\ lasted \in [Goroutines -> 0..Setup] /\ secret \in 0..TTL /\ held[g] \in Tunnel
      /\ lasted[g] \in 0..Setup /\ pc[g] \in {"resume", "gate"} /\ Aged(g)
  BY DEF IInv, TypeOK, Finish
<1>2. held[g].attested \in Nat
  BY <1>1, Parameters DEF Tunnel
<1>3. held[g].idle = 0 /\ (held[g].attested = 0 \/ held[g].attested < TTL + lasted[g])
  BY <1>1 DEF Aged, Establishing
<1>4. held[g].attested < TTL + Setup
  BY <1>1, <1>2, <1>3, Parameters
<1>5. secret' \in 0..TTL
  BY <1>1, Parameters DEF Finish
<1>6. /\ lasted' \in [Goroutines -> 0..Setup]
      /\ \A h \in Goroutines \ {g} : lasted'[h] = lasted[h]
  BY <1>1, Parameters DEF Finish
<1> QED
  BY <1>1, <1>3, <1>4, <1>5, <1>6

------------------------------------------------------------------------------
(* Requests and refills. *)

LEMMA GetStep ==
    ASSUME IInv, NEW c \in Callers, Ask(c) \/ Get(c)
    PROVE  IInv'
<1>1. /\ pc \in [Goroutines -> Establishing \cup {"idle", "get", "begin", "got", "check"}]
      /\ held \in [Goroutines -> Tunnel] /\ lasted \in [Goroutines -> 0..Setup]
      /\ warm \in Seq(Tunnel) /\ Len(warm) <= Size /\ tries \in [Callers -> 0..Size]
      /\ TypeOK /\ c \in Goroutines
  BY Parameters DEF IInv, TypeOK
<1>2. UNCHANGED <<up, quit, cool, redials, flaps>>
  BY DEF Ask, Get, Take, Drop, Miss, Established, Release, pool
<1>3. ASSUME held' \in [Goroutines -> Tunnel],
             pc' \in [Goroutines -> Establishing \cup {"idle", "get", "begin", "got", "check"}],
             tries' \in [Callers -> 0..Size], lasted' \in [Goroutines -> 0..Setup],
             secret' \in 0..TTL, warm' = warm \/ (warm # <<>> /\ warm' = Tail(warm)), Aged(c)',
             \A g \in Goroutines \ {c} : /\ pc'[g] \in {pc[g], "check"} /\ held'[g] = held[g]
                                         /\ lasted'[g] = lasted[g]
      PROVE  IInv'
  <2>1. /\ warm' \in Seq(Tunnel) /\ Len(warm') <= Size
        /\ \A i \in DOMAIN warm' : \E j \in DOMAIN warm : warm'[i] = warm[j]
    <3>1. CASE warm' = warm
      BY <1>1, <3>1
    <3>2. CASE warm # <<>> /\ warm' = Tail(warm)
      <4>1. /\ Tail(warm) \in Seq(Tunnel) /\ Len(Tail(warm)) = Len(warm) - 1
            /\ Len(warm) \in Nat
            /\ \A i \in DOMAIN Tail(warm) : i + 1 \in DOMAIN warm /\ Tail(warm)[i] = warm[i + 1]
        BY <1>1, <3>2
      <4> QED
        BY <1>1, <3>2, <4>1, Parameters
    <3> QED
      BY <1>3, <3>1, <3>2
  <2>2. TypeOK'
    BY <1>1, <1>2, <1>3, <2>1 DEF TypeOK
  <2>3. \A g \in Goroutines : Aged(g)'
    BY <1>3, AgedStays DEF IInv
  <2>4. \A i \in DOMAIN warm' : Kept(warm'[i])
    BY <2>1 DEF IInv
  <2> QED
    BY <2>2, <2>3, <2>4 DEF IInv
<1>4. CASE Ask(c)
  <2>1. pc' = [pc EXCEPT ![c] = "get"] /\ UNCHANGED <<warm, secret, tries, held, lasted>>
    BY <1>4 DEF Ask, pool
  <2>2. Aged(c)'
    BY <1>1, <2>1, Forgotten
  <2> QED
    BY <1>1, <1>3, <2>1, <2>2 DEF TypeOK
<1>5. CASE Take(c)
  <2>1. /\ warm # <<>> /\ ~Stale(Head(warm)) /\ warm' = Tail(warm)
        /\ held' = [held EXCEPT ![c] = Head(warm)] /\ Spawn(c, "got")
        /\ tries' = [tries EXCEPT ![c] = 0] /\ UNCHANGED <<secret, lasted>>
    BY <1>5 DEF Take
  <2>2. Head(warm) \in Tunnel /\ Kept(Head(warm))
    <3>1. 1 \in DOMAIN warm /\ Head(warm) = warm[1] /\ Head(warm) \in Tunnel
      BY <1>1, <2>1
    <3> QED
      BY <3>1 DEF IInv
  <2> DEFINE t == Head(warm)
  <2>3. t.attested < 2 * TTL + Setup
    <3> HIDE DEF t
    <3>1. t.attested \in Nat /\ t.idle \in Nat
      BY <2>2, Parameters DEF Tunnel, t
    <3>2. t.idle <= TTL /\ t.attested < TTL + Setup + t.idle
      BY <2>1, <2>2, <3>1, Parameters DEF Stale, Kept, t
    <3> QED
      BY <3>1, <3>2, Parameters
  <2> HIDE DEF t
  <2>4. held'[c] = t /\ held' \in [Goroutines -> Tunnel]
        /\ \A g \in Goroutines \ {c} : held'[g] = held[g]
    BY <1>1, <2>1, <2>2 DEF t
  <2>5. /\ pc' \in [Goroutines -> Establishing \cup {"idle", "get", "begin", "got", "check"}]
        /\ pc'[c] = "got" /\ \A g \in Goroutines \ {c} : pc'[g] \in {pc[g], "check"}
    BY <1>1, <2>1, Spawned
  <2>6. Aged(c)'
    BY <2>3, <2>4, <2>5 DEF Aged, Establishing
  <2>7. tries' \in [Callers -> 0..Size]
    BY <1>1, <2>1, Parameters
  <2> QED
    BY <1>1, <1>3, <2>1, <2>4, <2>5, <2>6, <2>7 DEF TypeOK
<1>6. CASE Drop(c) \/ Miss(c)
  <2>1. PICK next \in {"idle", "get", "begin"} : Spawn(c, next)
    BY <1>6 DEF Drop, Miss
  <2>2. /\ pc' \in [Goroutines -> Establishing \cup {"idle", "get", "begin", "got", "check"}]
        /\ pc'[c] = next /\ \A g \in Goroutines \ {c} : pc'[g] \in {pc[g], "check"}
    BY <1>1, <2>1, Spawned
  <2>3. /\ warm' = warm \/ (warm # <<>> /\ warm' = Tail(warm))
        /\ UNCHANGED <<secret, held, lasted>>
    BY <1>6 DEF Drop, Miss, pool
  <2>4. tries' \in [Callers -> 0..Size]
    BY <1>1, <1>6, Parameters DEF Drop, Miss
  <2>5. Aged(c)'
    BY <1>1, <2>2, Forgotten
  <2> QED
    BY <1>1, <1>3, <2>2, <2>3, <2>4, <2>5 DEF TypeOK
<1>7. CASE Established(c)
  <2>1. Finish(c) /\ pc' = [pc EXCEPT ![c] = "got"] /\ UNCHANGED <<warm, tries, held>>
    BY <1>7 DEF Established, pool
  <2>2. /\ held[c] \in Tunnel /\ held[c].attested < TTL + Setup
        /\ secret' \in 0..TTL /\ lasted' \in [Goroutines -> 0..Setup]
        /\ \A g \in Goroutines \ {c} : lasted'[g] = lasted[g]
    BY <1>1, <2>1, Finished
  <2>3. held[c].attested < 2 * TTL + Setup
    <3>1. held[c].attested \in Nat
      BY <2>2, Parameters DEF Tunnel
    <3> QED
      BY <2>2, <3>1, Parameters
  <2>4. pc'[c] = "got" /\ \A g \in Goroutines \ {c} : pc'[g] = pc[g]
    BY <1>1, <2>1
  <2>5. Aged(c)'
    BY <2>1, <2>3, <2>4 DEF Aged, Establishing
  <2> QED
    BY <1>1, <1>3, <2>1, <2>2, <2>4, <2>5
<1>8. CASE Release(c)
  <2>1. /\ pc' = [pc EXCEPT ![c] = "idle"] /\ held' = [held EXCEPT ![c] = New]
        /\ UNCHANGED <<warm, secret, tries, lasted>>
    BY <1>8 DEF Release, pool
  <2>2. Aged(c)'
    BY <1>1, <2>1, Forgotten
  <2>3. held' \in [Goroutines -> Tunnel]
    BY <1>1, <2>1, News
  <2> QED
    BY <1>1, <1>3, <2>1, <2>2, <2>3 DEF TypeOK
<1> QED
  BY <1>4, <1>5, <1>6, <1>7, <1>8 DEF Get

LEMMA RefillStep ==
    ASSUME IInv, NEW r \in Refills, Refill(r)
    PROVE  IInv'
<1>1. /\ pc \in [Goroutines -> Establishing \cup {"idle", "get", "begin", "got", "check"}]
      /\ held \in [Goroutines -> Tunnel] /\ warm \in Seq(Tunnel) /\ Len(warm) <= Size
      /\ TypeOK /\ r \in Goroutines
  BY Parameters DEF IInv, TypeOK
<1>2. CASE Check(r)
  <2>1. /\ pc' = [pc EXCEPT ![r] = IF quit \/ Cooling THEN "idle" ELSE "begin"]
        /\ UNCHANGED <<up, warm, quit, cool, secret, tries, held, lasted, redials, flaps>>
    BY <1>2 DEF Check, pool
  <2>2. /\ pc'[r] \in {"idle", "begin"} /\ \A g \in Goroutines \ {r} : pc'[g] = pc[g]
        /\ pc' \in [Goroutines -> Establishing \cup {"idle", "get", "begin", "got", "check"}]
    BY <1>1, <2>1
  <2>3. TypeOK'
    BY <1>1, <2>1, <2>2 DEF TypeOK
  <2>4. \A g \in Goroutines : Aged(g)'
    BY <2>1, <2>2, AgedStays DEF IInv
  <2> QED
    BY <2>1, <2>3, <2>4 DEF IInv
<1>3. CASE Warmed(r)
  <2>1. /\ Finish(r) /\ pc' = [pc EXCEPT ![r] = "idle"] /\ held' = [held EXCEPT ![r] = New]
        /\ \/ Len(warm) < Size /\ warm' = Append(warm, held[r])
           \/ warm' = warm
        /\ UNCHANGED <<up, quit, cool, tries, redials, flaps>>
    BY <1>3 DEF Warmed, Pools
  <2>2. /\ held[r] \in Tunnel /\ held[r].idle = 0 /\ held[r].attested < TTL + Setup
        /\ secret' \in 0..TTL /\ lasted' \in [Goroutines -> 0..Setup]
        /\ \A g \in Goroutines \ {r} : lasted'[g] = lasted[g]
    BY <1>1, <2>1, Finished
  <2>3. Kept(held[r])
    BY <2>2, Parameters DEF Kept
  <2>4. /\ warm' \in Seq(Tunnel) /\ Len(warm') <= Size
        /\ \A i \in DOMAIN warm' : Kept(warm'[i])
    <3>1. CASE Len(warm) < Size /\ warm' = Append(warm, held[r])
      <4> DEFINE t == held[r]
                 w == Append(warm, t)
      <4>1. t \in Tunnel /\ Kept(t)
        BY <2>2, <2>3
      <4> HIDE DEF t
      <4>2. /\ w \in Seq(Tunnel) /\ Len(w) = Len(warm) + 1 /\ Len(warm) \in Nat
            /\ \A i \in DOMAIN w : (i \in DOMAIN warm /\ w[i] = warm[i]) \/ w[i] = t
        BY <1>1, <4>1
      <4>3. warm' = w
        BY <3>1 DEF t
      <4> HIDE DEF w
      <4> QED
        BY <3>1, <4>1, <4>2, <4>3, Parameters DEF IInv
    <3>2. CASE warm' = warm
      BY <1>1, <3>2 DEF IInv
    <3> QED
      BY <2>1, <3>1, <3>2
  <2>5. /\ pc'[r] = "idle" /\ \A g \in Goroutines \ {r} : pc'[g] = pc[g] /\ held'[g] = held[g]
        /\ pc' \in [Goroutines -> Establishing \cup {"idle", "get", "begin", "got", "check"}]
        /\ held' \in [Goroutines -> Tunnel]
    BY <1>1, <2>1, News
  <2>6. TypeOK'
    BY <1>1, <2>1, <2>2, <2>4, <2>5 DEF TypeOK
  <2>7. \A g \in Goroutines : Aged(g)'
    BY <2>2, <2>5, AgedStays, Forgotten DEF IInv
  <2> QED
    BY <2>4, <2>6, <2>7 DEF IInv
<1> QED
  BY <1>2, <1>3 DEF Refill

------------------------------------------------------------------------------
(* Time, the peer and the end of the pool. *)

LEMMA TickStep ==
    ASSUME IInv, Tick
    PROVE  IInv'
<1>1. /\ TypeOK /\ warm \in Seq(Tunnel) /\ held \in [Goroutines -> Tunnel]
      /\ lasted \in [Goroutines -> 0..Setup] /\ cool \in 0..Cooldown /\ secret \in 0..TTL
      /\ redials \in [Goroutines -> 0..2]
  BY DEF IInv, TypeOK
<1>2. /\ warm' = [i \in DOMAIN warm |-> Later(warm[i])]
      /\ UNCHANGED <<up, pc, tries, quit, flaps>>
  BY DEF Tick, Later
<1>3. \A i \in DOMAIN warm : Later(warm[i]) \in Tunnel /\ Kept(Later(warm[i]))
  BY <1>1, Ages DEF IInv
<1>4. /\ warm' \in Seq(Tunnel) /\ Len(warm') = Len(warm)
      /\ \A i \in DOMAIN warm' : Kept(warm'[i])
  <2>1. DOMAIN warm = 1..Len(warm) /\ Len(warm) \in Nat
    BY <1>1
  <2> QED
    BY <1>2, <1>3, <2>1
<1>5. ASSUME NEW g \in Goroutines
      PROVE  held'[g] \in Tunnel /\ lasted'[g] \in 0..Setup /\ Aged(g)'
  <2> DEFINE t == held[g]
             n == IF pc[g] = "resume" THEN Older(t.attested, Oldest) ELSE t.attested
  <2>1. /\ t \in Tunnel /\ t.attested \in 0..Oldest /\ t.idle \in 0..(TTL + 1)
        /\ t.alive \in BOOLEAN /\ lasted[g] \in 0..Setup /\ Aged(g)
        /\ t = [attested |-> t.attested, idle |-> t.idle, alive |-> t.alive]
    BY <1>1 DEF Tunnel, IInv
  <2>2. held'[g] = [t EXCEPT !.attested = n]
    BY DEF Tick
  <2>3. n \in 0..Oldest /\ (pc[g] # "resume" => n = t.attested) /\ n <= t.attested + 1
    BY <2>1, Parameters DEF Older
  <2> HIDE DEF n
  <2>4. held'[g] = [attested |-> n, idle |-> t.idle, alive |-> t.alive]
    BY <2>1, <2>2
  <2>5. held'[g] \in Tunnel
    BY <2>1, <2>3, <2>4 DEF Tunnel
  <2>6. /\ lasted'[g] \in 0..Setup
        /\ pc[g] \in Establishing => lasted'[g] = lasted[g] + 1
    <3>1. /\ lasted'[g] = IF pc[g] \in Establishing THEN lasted[g] + 1 ELSE 0
          /\ pc[g] \in Establishing => lasted[g] < Setup
      BY DEF Tick
    <3> QED
      BY <2>1, <3>1, Parameters
  <2>7. pc[g] = "resume" => n < TTL + lasted'[g]
    BY <2>1, <2>3, <2>6, Parameters DEF Aged, Establishing
  <2>8. Aged(g)'
    BY <1>2, <2>1, <2>3, <2>4, <2>7 DEF Aged, Establishing
  <2> QED
    BY <2>5, <2>6, <2>8
<1>6. held' \in [Goroutines -> Tunnel] /\ lasted' \in [Goroutines -> 0..Setup]
  <2>1. /\ held' = [g \in Goroutines |-> held'[g]]
        /\ lasted' = [g \in Goroutines |-> lasted'[g]]
    BY DEF Tick
  <2> QED
    BY <1>5, <2>1
<1>7. cool' \in 0..Cooldown /\ secret' \in 0..TTL /\ redials' \in [Goroutines -> 0..2]
  <2>1. cool' \in 0..Cooldown
    <3>1. cool' = IF cool > 0 THEN cool - 1 ELSE 0
      BY DEF Tick, Cooling
    <3> QED
      BY <1>1, <3>1, Parameters
  <2>2. secret' \in 0..TTL
    <3>1. secret' = Older(secret, TTL)
      BY DEF Tick
    <3> QED
      BY <1>1, <3>1, Parameters DEF Older
  <2>3. redials' \in [Goroutines -> 0..2]
    <3>1. redials' = redials \/ redials' = [g \in Goroutines |-> 0]
      BY DEF Tick
    <3> QED
      BY <1>1, <3>1
  <2> QED
    BY <2>1, <2>2, <2>3
<1>8. TypeOK'
  BY <1>1, <1>2, <1>4, <1>6, <1>7 DEF TypeOK
<1> QED
  BY <1>4, <1>5, <1>8 DEF IInv

LEMMA PeerStep ==
    ASSUME IInv, Down \/ Up \/ Close \/ UNCHANGED vars
    PROVE  IInv'
<1>1. /\ TypeOK /\ warm \in Seq(Tunnel) /\ held \in [Goroutines -> Tunnel]
  BY DEF IInv, TypeOK
<1>2. CASE Up \/ UNCHANGED vars
  <2>1. /\ UNCHANGED <<warm, cool, secret, pc, tries, held, lasted, redials, quit, flaps>>
        /\ up' \in BOOLEAN
    BY <1>1, <1>2 DEF Up, pool, vars, TypeOK
  <2>2. TypeOK'
    BY <1>1, <2>1 DEF TypeOK
  <2> QED
    BY <2>1, <2>2, AgedStays DEF IInv
<1>3. CASE Close
  <2>1. /\ UNCHANGED <<up, cool, secret, pc, tries, held, lasted, redials, flaps>>
        /\ quit' = TRUE /\ warm' = <<>>
    BY <1>3 DEF Close
  <2>2. warm' \in Seq(Tunnel) /\ Len(warm') <= Size /\ DOMAIN warm' = {}
    BY <2>1, Parameters
  <2>3. TypeOK'
    BY <1>1, <2>1, <2>2 DEF TypeOK
  <2> QED
    BY <2>1, <2>2, <2>3, AgedStays DEF IInv
<1>4. CASE Down
  <2> DEFINE dead(t) == [t EXCEPT !.alive = FALSE]
  <2>1. /\ warm' = [i \in DOMAIN warm |-> dead(warm[i])]
        /\ up' = FALSE /\ flaps' \in 0..MaxFlaps /\ secret' = TTL
        /\ UNCHANGED <<cool, pc, tries, lasted, redials, quit>>
    BY <1>1, <1>4, Parameters DEF Down, TypeOK
  <2>2. ASSUME NEW t \in Tunnel, Kept(t) PROVE dead(t) \in Tunnel /\ Kept(dead(t))
    BY <2>2 DEF Tunnel, Kept
  <2>3. \A i \in DOMAIN warm : dead(warm[i]) \in Tunnel /\ Kept(dead(warm[i]))
    BY <1>1, <2>2 DEF IInv
  <2> HIDE DEF dead
  <2>4. /\ warm' \in Seq(Tunnel) /\ Len(warm') = Len(warm)
        /\ \A i \in DOMAIN warm' : Kept(warm'[i])
    <3>1. DOMAIN warm = 1..Len(warm) /\ Len(warm) \in Nat
      BY <1>1
    <3> QED
      BY <2>1, <2>3, <3>1
  <2>5. ASSUME NEW g \in Goroutines PROVE held'[g] \in Tunnel /\ Aged(g)'
    <3> DEFINE t == held[g]
               b == pc[g] \notin Establishing \cup {"got"}
    <3>1. held'[g] = [t EXCEPT !.alive = b] /\ b \in BOOLEAN
      BY <1>4 DEF Down
    <3> HIDE DEF b
    <3>2. t \in Tunnel /\ t.attested = t.attested /\ Aged(g)
      BY <1>1 DEF IInv
    <3>3. /\ held'[g] \in Tunnel
          /\ held'[g].attested = t.attested /\ held'[g].idle = t.idle
      BY <3>1, <3>2 DEF Tunnel
    <3> QED
      BY <2>1, <3>2, <3>3 DEF Aged, Establishing
  <2>6. held' \in [Goroutines -> Tunnel]
    <3>1. held' = [g \in Goroutines |-> held'[g]]
      BY <1>4 DEF Down
    <3> QED
      BY <2>5, <3>1
  <2>7. TypeOK'
    <3>1. Len(warm') <= Size /\ up' \in BOOLEAN /\ secret' \in 0..TTL
      <4>1. Len(warm) <= Size
        BY <1>1 DEF TypeOK
      <4>2. Len(warm') <= Size
        BY <2>4, <4>1
      <4>3. secret' \in 0..TTL
        BY <2>1, Parameters
      <4>4. up' \in BOOLEAN
        BY <2>1
      <4> QED
        BY <4>2, <4>3, <4>4
    <3> QED
      BY <1>1, <2>1, <2>4, <2>6, <3>1 DEF TypeOK
  <2> QED
    BY <2>4, <2>5, <2>7 DEF IInv
<1> QED
  BY <1>2, <1>3, <1>4

LEMMA InitInv == Init => IInv
<1> SUFFICES ASSUME Init PROVE IInv
  OBVIOUS
<1>1. /\ warm = <<>> /\ DOMAIN warm = {}
      /\ \A g \in Goroutines : pc[g] \in {"check", "idle"}
  BY DEF Init
<1>2. TypeOK
  <2>1. /\ up \in BOOLEAN /\ quit \in BOOLEAN
        /\ warm \in Seq(Tunnel) /\ Len(warm) <= Size
        /\ cool \in 0..Cooldown /\ secret \in 0..TTL /\ flaps \in 0..MaxFlaps
    <3>1. /\ up \in BOOLEAN /\ quit = FALSE /\ warm = <<>>
          /\ cool = 0 /\ secret = TTL /\ flaps = 0
      BY DEF Init
    <3>2. <<>> \in Seq(Tunnel) /\ Len(<<>>) = 0
      OBVIOUS
    <3>3. warm \in Seq(Tunnel) /\ Len(warm) <= Size
      BY <3>1, <3>2, Parameters
    <3>4. cool \in 0..Cooldown /\ secret \in 0..TTL /\ flaps \in 0..MaxFlaps
      BY <3>1, Parameters
    <3> QED
      BY <3>1, <3>3, <3>4
  <2>2. pc \in [Goroutines -> Establishing \cup {"idle", "get", "begin", "got", "check"}]
    BY DEF Init
  <2>3. tries \in [Callers -> 0..Size] /\ redials \in [Goroutines -> 0..2]
    BY Parameters DEF Init
  <2>4. held \in [Goroutines -> Tunnel] /\ lasted \in [Goroutines -> 0..Setup]
    BY Parameters, News DEF Init
  <2> QED
    BY <2>1, <2>2, <2>3, <2>4 DEF TypeOK
<1>3. \A g \in Goroutines : Aged(g)
  BY <1>1 DEF Aged, Establishing
<1> QED
  BY <1>1, <1>2, <1>3 DEF IInv

LEMMA Invariant == Spec => []IInv
<1>1. ASSUME IInv, [Next]_vars PROVE IInv'
  BY <1>1, EstablishStep, GetStep, RefillStep, TickStep, PeerStep DEF Next
<1> QED
  BY <1>1, InitInv, PTL DEF Spec

------------------------------------------------------------------------------
(* The theorems. *)

\* Every variable holds a value of its type: refills that race never overfill
\* the channel of warm tunnels, whatever the pool's depth (refill's select).
THEOREM TypeCorrect == Spec => []TypeOK
<1>1. IInv => TypeOK
  BY DEF IInv
<1> QED
  BY <1>1, Invariant, PTL

\* A tunnel that get hands out rests on a gate that lies back less than two
\* re-attestation intervals and one set-up: the secret that was resumed had not
\* expired (resumeCache), and the tunnel had not outlived maxIdle (pool.go get).
THEOREM AttestationBoundedHolds == Spec => []AttestationBounded
<1>1. IInv => AttestationBounded
  BY Parameters DEF IInv, Aged, AttestationBounded, Handed
<1> QED
  BY <1>1, Invariant, PTL


------------------------------------------------------------------------------
(* No dial storm.  A goroutine that was on its way to a dial when the       *)
(* cooldown began may dial and fail once, and start the cooldown again; any *)
(* other must find Size + 1 stale tunnels in a row, more than the pool held *)
(* when it came, so one of them has to go stale within the cooldown.  A     *)
(* cooldown that no number of failures makes longer than an interval rules  *)
(* that out.                                                                *)

\* Cooldowns, one after another for each goroutine, fit in a re-attestation
\* interval (establishCooldown is 2 s, intervals are minutes).
Brief == IsFiniteSet(Callers) /\ Cooldown * Cardinality(Goroutines) <= TTL

\* How long the cooldown lasts at most when only the goroutines L may start it again.
Window(L) == cool + Cooldown * Cardinality(L)

\* The warm tunnels that are stale or may go stale before that.
Aging(L) == {i \in DOMAIN warm : warm[i].idle + Window(L) > TTL}

\* Only the goroutines L may dial before the cooldown ends, each once.
Contained(L) ==
    /\ Window(L) <= TTL
    /\ \A g \in L : pc[g] \notin Establishing => redials[g] = 0
    /\ \A g \in Goroutines \ L :
        /\ pc[g] \notin {"begin"} \cup Establishing
        /\ pc[g] = "get" => tries[g] + Cardinality(Aging(L)) <= Size

StormInv ==
    /\ \A g \in Goroutines : redials[g] <= IF Cooling THEN 1 ELSE 0
    /\ \A c \in Callers : pc[c] # "get" => tries[c] = 0
    /\ \A r \in Refills : pc[r] # "get"
    /\ Cooling => \E L \in SUBSET Goroutines : Contained(L)

LEMMA Finitely ==
    ASSUME Brief
    PROVE  /\ IsFiniteSet(Goroutines) /\ Cardinality(Goroutines) \in Nat
           /\ \A L \in SUBSET Goroutines : \A M \in SUBSET L :
                /\ IsFiniteSet(L) /\ Cardinality(L) \in Nat
                /\ Cardinality(M) \in Nat /\ Cardinality(M) <= Cardinality(L)
<1>1. IsFiniteSet(Refills)
  BY Parameters, FS_Interval DEF Refills
<1>2. IsFiniteSet(Goroutines)
  BY <1>1, FS_Union DEF Brief, Goroutines
<1>3. ASSUME NEW L \in SUBSET Goroutines, NEW M \in SUBSET L
      PROVE  /\ IsFiniteSet(L) /\ Cardinality(L) \in Nat
             /\ Cardinality(M) \in Nat /\ Cardinality(M) <= Cardinality(L)
  <2>1. IsFiniteSet(L)
    BY <1>2, FS_Subset
  <2>2. IsFiniteSet(M) /\ Cardinality(M) <= Cardinality(L)
    BY <2>1, FS_Subset
  <2> QED
    BY <2>1, <2>2, FS_CardinalityType
<1> QED
  BY <1>2, <1>3, FS_CardinalityType

LEMMA Times ==
    ASSUME NEW c \in Nat, NEW m \in Nat, NEW n \in Nat, m <= n
    PROVE  c * m \in Nat /\ c * m <= c * n /\ c * (m + 1) = c * m + c
OBVIOUS

\* A smaller set of goroutines makes for a shorter window, by one cooldown for
\* each of them.
LEMMA Windows ==
    ASSUME Brief, TypeOK, NEW L \in SUBSET Goroutines, NEW M \in SUBSET L
    PROVE  /\ Window(L) \in Nat /\ Window(M) \in Nat /\ Window(M) <= Window(L)
           /\ \A g \in L : M = L \ {g} => Window(M) + Cooldown = Window(L)
<1>1. /\ cool \in Nat /\ Cooldown \in Nat
      /\ IsFiniteSet(L) /\ Cardinality(L) \in Nat /\ Cardinality(M) \in Nat
      /\ Cardinality(M) <= Cardinality(L)
  BY Finitely, Parameters DEF TypeOK
<1>2. Window(L) \in Nat /\ Window(M) \in Nat /\ Window(M) <= Window(L)
  BY <1>1, Times DEF Window
<1>3. ASSUME NEW g \in L, M = L \ {g} PROVE Window(M) + Cooldown = Window(L)
  <2>1. Cardinality(L) = Cardinality(M) + 1
    BY <1>1, <1>3, FS_RemoveElement
  <2>2. Cooldown * Cardinality(L) = Cooldown * Cardinality(M) + Cooldown
    BY <1>1, <2>1, Times
  <2>3. Cooldown * Cardinality(L) \in Nat /\ Cooldown * Cardinality(M) \in Nat
    BY <1>1, Times
  <2> QED
    BY <1>1, <2>2, <2>3 DEF Window
<1> QED
  BY <1>2, <1>3

LEMMA FewPlaces ==
    ASSUME NEW w \in Seq(Tunnel), Len(w) <= Size, NEW A \in SUBSET DOMAIN w
    PROVE  IsFiniteSet(A) /\ Cardinality(A) \in Nat /\ Cardinality(A) <= Size
<1>1. DOMAIN w = 1..Len(w) /\ Len(w) \in Nat
  OBVIOUS
<1>2. IsFiniteSet(DOMAIN w) /\ Cardinality(DOMAIN w) = Len(w)
  <2>1. ASSUME NEW n \in Nat PROVE IsFiniteSet(1..n) /\ Cardinality(1..n) = n
    BY FS_Interval
  <2> QED
    BY <1>1, <2>1
<1>3. IsFiniteSet(A) /\ Cardinality(A) <= Len(w)
  BY <1>2, FS_Subset
<1>4. Cardinality(A) \in Nat
  BY <1>3, FS_CardinalityType
<1> QED
  BY <1>1, <1>3, <1>4, Parameters

LEMMA FewAging ==
    ASSUME TypeOK, NEW L
    PROVE  /\ IsFiniteSet(Aging(L)) /\ Cardinality(Aging(L)) \in Nat
           /\ Cardinality(Aging(L)) <= Size
BY FewPlaces DEF Aging, TypeOK

LEMMA FewAgingNext ==
    ASSUME TypeOK', NEW L
    PROVE  Cardinality(Aging(L)') \in Nat /\ Cardinality(Aging(L)') <= Size
<1>1. Aging(L)' \subseteq DOMAIN warm' /\ warm' \in Seq(Tunnel) /\ Len(warm') <= Size
  BY DEF Aging, TypeOK
<1> QED
  BY <1>1, FewPlaces

\* No tunnel begins to age while the pool only loses tunnels or gets new ones
\* (no idle time), and the window gets no longer.
LEMMA AgingLess ==
    ASSUME TypeOK, NEW L, NEW M, Aging(M)' \subseteq Aging(L)
    PROVE  Cardinality(Aging(M)') <= Cardinality(Aging(L))
<1>1. IsFiniteSet(Aging(L)) /\ Aging(M)' \in SUBSET Aging(L)
  BY FewAging
<1> QED
  BY <1>1, FS_Subset

\* The oldest warm tunnel is taken out: one less is aging, if that one was.
LEMMA AgingTail ==
    ASSUME Brief, TypeOK, NEW L \in SUBSET Goroutines, UNCHANGED cool,
           warm # <<>>, warm' = Tail(warm)
    PROVE  /\ Cardinality(Aging(L)') <= Cardinality(Aging(L))
           /\ Stale(Head(warm)) => Cardinality(Aging(L)') + 1 <= Cardinality(Aging(L))
<1> DEFINE A == Aging(L)
           B == Aging(L)'
           f == [i \in B |-> i + 1]
<1>1. /\ warm \in Seq(Tunnel) /\ Len(warm) \in Nat /\ DOMAIN warm = 1..Len(warm)
      /\ Window(L)' = Window(L)
  BY DEF TypeOK, Window
<1>2. /\ DOMAIN warm' = 1..(Len(warm) - 1) /\ Len(warm) >= 1
      /\ \A i \in DOMAIN warm' : i + 1 \in DOMAIN warm /\ warm'[i] = warm[i + 1]
  BY <1>1
<1>3. \A i \in B : i \in Nat \ {0} /\ i + 1 \in A
  BY <1>1, <1>2 DEF Aging
<1>4. /\ IsFiniteSet(A) /\ Cardinality(A) \in Nat
      /\ IsFiniteSet(A \ {1})
      /\ Cardinality(A \ {1}) = IF 1 \in A THEN Cardinality(A) - 1 ELSE Cardinality(A)
  BY FewAging, FS_RemoveElement
<1>5. Stale(Head(warm)) => 1 \in A
  <2>1. /\ warm[1] \in Tunnel /\ Head(warm) = warm[1] /\ 1 \in DOMAIN warm
        /\ Window(L) \in Nat
    BY <1>1, <1>2, Windows
  <2>2. warm[1].idle \in Nat
    BY <2>1, Parameters DEF Tunnel
  <2> QED
    BY <2>1, <2>2, Parameters DEF Stale, Aging
<1> HIDE DEF A, B
<1>6. f \in Injection(B, A \ {1})
  <2>1. f \in [B -> A \ {1}]
    BY <1>3
  <2>2. ASSUME NEW i \in B, NEW j \in B, f[i] = f[j] PROVE i = j
    BY <1>3, <2>2
  <2> QED
    BY <2>1, <2>2 DEF Injection, IsInjective
<1>7. IsFiniteSet(B) /\ Cardinality(B) <= Cardinality(A \ {1})
  BY <1>4, <1>6, FS_Injection
<1>8. Cardinality(B) \in Nat
  BY <1>7, FS_CardinalityType
<1> QED
  BY <1>4, <1>5, <1>7, <1>8 DEF A, B

\* Every set of numbers that is not empty has a least one.
LEMMA LeastExists ==
    ASSUME NEW T, T \subseteq Nat, T # {}
    PROVE  \E x \in T : \A y \in T : x <= y
<1> DEFINE below == {1..x : x \in T}
<1>1. IsWellFoundedOn(StrictSubsetOrdering(Nat), FiniteSubsetsOf(Nat))
  BY FS_StrictSubsetOrderingWellFounded
<1>2. below \subseteq FiniteSubsetsOf(Nat)
  <2> SUFFICES ASSUME NEW x \in T PROVE 1..x \in FiniteSubsetsOf(Nat)
    OBVIOUS
  <2>1. IsFiniteSet(1..x)
    BY FS_Interval
  <2>2. 1..x \subseteq Nat
    OBVIOUS
  <2> QED
    BY <2>1, <2>2 DEF FiniteSubsetsOf
<1>3. below # {}
  OBVIOUS
<1> HIDE DEF below
<1>4. PICK m \in below : \A n \in below : <<n, m>> \notin StrictSubsetOrdering(Nat)
  BY <1>1, <1>2, <1>3, WFMin, Zenon
<1> USE DEF below
<1>5. PICK x \in T : m = 1..x
  OBVIOUS
<1>6. ASSUME NEW y \in T, y < x PROVE FALSE
  <2>1. <<1..y, m>> \notin StrictSubsetOrdering(Nat)
    BY <1>4
  <2>2. 1..y \subseteq m /\ x \in m /\ x \notin 1..y
    BY <1>5, <1>6
  <2>3. 1..y \in SUBSET Nat /\ m \in SUBSET Nat
    BY <1>5
  <2> QED
    BY <2>1, <2>2, <2>3 DEF StrictSubsetOrdering
<1> QED
  BY <1>6

\* go p.refill() wakes a goroutine that was idle, and disturbs no other.
LEMMA SpawnWakes ==
    ASSUME TypeOK, NEW c \in Callers, NEW next, Spawn(c, next)
    PROVE  /\ pc'[c] = next
           /\ \A g \in Goroutines \ {c} :
                pc'[g] = pc[g] \/ (pc[g] = "idle" /\ pc'[g] = "check")
<1> DEFINE r == CHOOSE r \in FreeRefills : \A x \in FreeRefills : r <= x
<1>1. FreeRefills \subseteq Nat /\ FreeRefills # {}
  BY Parameters DEF Spawn, FreeRefills, Refills
<1>2. \E x \in FreeRefills : \A y \in FreeRefills : x <= y
  BY <1>1, LeastExists
<1>3. r \in FreeRefills
  BY <1>2
<1>4. pc' = [pc EXCEPT ![r] = "check", ![c] = next]
  BY DEF Spawn
<1> HIDE DEF r
<1>5. pc[r] = "idle" /\ r \in Goroutines
  BY <1>3, Parameters DEF FreeRefills
<1> QED
  BY <1>4, <1>5, Parameters DEF TypeOK

\* A step of goroutine g, which may wake another but leaves the cooldown alone.
LEMMA StormKept ==
    ASSUME Brief, TypeOK, TypeOK', StormInv, NEW g \in Goroutines,
           UNCHANGED <<cool, redials>>,
           \A h \in Goroutines \ {g} :
                pc'[h] = pc[h] \/ (pc[h] = "idle" /\ pc'[h] = "check"),
           \A c \in Callers \ {g} : tries'[c] = tries[c],
           g \in Callers /\ pc'[g] # "get" => tries'[g] = 0,
           g \in Refills => pc'[g] # "get",
           \A L \in SUBSET Goroutines : Cooling /\ Contained(L) =>
                \E M \in SUBSET L :
                    /\ Cardinality(Aging(M)') <= Cardinality(Aging(L))
                    /\ L \ M \subseteq {g}
                    /\ g \in M /\ pc'[g] \notin Establishing => redials[g] = 0
                    /\ g \notin M => /\ pc'[g] \notin {"begin"} \cup Establishing
                                     /\ pc'[g] = "get" =>
                                            tries'[g] + Cardinality(Aging(M)') <= Size
    PROVE  StormInv'
<1>1. \A h \in Goroutines : redials'[h] <= IF Cooling' THEN 1 ELSE 0
  BY DEF StormInv, Cooling
<1>2. \A c \in Callers : pc'[c] # "get" => tries'[c] = 0
  <2> SUFFICES ASSUME NEW c \in Callers, pc'[c] # "get", c # g PROVE tries'[c] = 0
    OBVIOUS
  <2>1. pc[c] # "get" /\ tries'[c] = tries[c]
    BY Parameters
  <2> QED
    BY <2>1 DEF StormInv
<1>3. \A r \in Refills : pc'[r] # "get"
  BY Parameters DEF StormInv
<1>4. ASSUME Cooling' PROVE \E L \in SUBSET Goroutines : Contained(L)'
  <2>1. Cooling
    BY <1>4 DEF Cooling
  <2>2. PICK L \in SUBSET Goroutines : Contained(L)
    BY <2>1 DEF StormInv
  <2>3. PICK M \in SUBSET L :
            /\ Cardinality(Aging(M)') <= Cardinality(Aging(L))
            /\ L \ M \subseteq {g}
            /\ g \in M /\ pc'[g] \notin Establishing => redials[g] = 0
            /\ g \notin M => /\ pc'[g] \notin {"begin"} \cup Establishing
                             /\ pc'[g] = "get" =>
                                    tries'[g] + Cardinality(Aging(M)') <= Size
    BY <2>1, <2>2
  <2>4. Window(M)' <= TTL
    <3>1. Window(M)' = Window(M)
      BY DEF Window
    <3>2. Window(M) <= Window(L) /\ Window(L) <= TTL /\ Window(L) \in Nat /\ Window(M) \in Nat
      BY <2>2, Windows DEF Contained
    <3> QED
      BY <3>1, <3>2, Parameters
  <2>5. ASSUME NEW h \in M PROVE pc'[h] \notin Establishing => redials'[h] = 0
    <3>1. CASE h = g
      BY <2>3, <2>5, <3>1
    <3>2. CASE h # g
      <4>1. pc[h] \notin Establishing => redials[h] = 0
        BY <2>2 DEF Contained
      <4> QED
        BY <3>2, <4>1 DEF Establishing
    <3> QED
      BY <3>1, <3>2
  <2>6. ASSUME NEW h \in Goroutines \ M
        PROVE  /\ pc'[h] \notin {"begin"} \cup Establishing
               /\ pc'[h] = "get" => tries'[h] + Cardinality(Aging(M)') <= Size
    <3>1. CASE h = g
      BY <2>3, <3>1
    <3>2. CASE h # g
      <4>1. h \in Goroutines \ L
        BY <2>3, <3>2
      <4>2. /\ pc[h] \notin {"begin"} \cup Establishing
            /\ pc[h] = "get" => tries[h] + Cardinality(Aging(L)) <= Size
        BY <2>2, <4>1 DEF Contained
      <4>3. pc'[h] = pc[h] \/ pc'[h] = "check"
        BY <3>2
      <4>4. ASSUME pc'[h] = "get" PROVE tries'[h] + Cardinality(Aging(M)') <= Size
        <5>1. h \in Callers /\ pc[h] = "get"
          BY <4>3, <4>4 DEF StormInv, Goroutines
        <5>2. tries'[h] = tries[h] /\ tries[h] \in 0..Size
          BY <3>2, <5>1 DEF TypeOK
        <5>3. /\ Cardinality(Aging(L)) \in Nat /\ Cardinality(Aging(M)') \in Nat
              /\ Cardinality(Aging(M)') <= Cardinality(Aging(L))
          <6>1. Cardinality(Aging(L)) \in Nat
            BY FewAging
          <6>2. Cardinality(Aging(M)') \in Nat
            BY FewAgingNext
          <6> QED
            BY <2>3, <6>1, <6>2
        <5>4. tries[h] + Cardinality(Aging(L)) <= Size
          BY <4>2, <5>1
        <5> QED
          BY <5>2, <5>3, <5>4, Parameters
      <4> QED
        BY <4>2, <4>3, <4>4 DEF Establishing
    <3> QED
      BY <3>1, <3>2
  <2>7. Contained(M)'
    BY <2>4, <2>5, <2>6 DEF Contained
  <2> QED
    BY <2>3, <2>7
<1> QED
  BY <1>1, <1>2, <1>3, <1>4 DEF StormInv

\* Tunnels that stay where they are, or are new, do not begin to age.
LEMMA NoneAges ==
    ASSUME Brief, TypeOK, NEW L \in SUBSET Goroutines, NEW M \in SUBSET L, Contained(L),
           UNCHANGED cool, \A i \in DOMAIN warm' :
                \/ i \in DOMAIN warm /\ warm'[i].idle = warm[i].idle
                \/ warm'[i].idle = 0
    PROVE  Cardinality(Aging(M)') <= Cardinality(Aging(L))
<1>1. /\ Window(M) \in Nat /\ Window(L) \in Nat /\ Window(M) <= Window(L)
      /\ Window(M)' = Window(M) /\ Window(L) <= TTL
  BY Windows DEF Window, Contained
<1>2. \A i \in DOMAIN warm : warm[i].idle \in Nat
  <2>1. ASSUME NEW i \in DOMAIN warm PROVE warm[i] \in Tunnel
    BY DEF TypeOK
  <2> QED
    BY <2>1, Parameters DEF Tunnel
<1>3. ASSUME NEW i \in Aging(M)' PROVE i \in Aging(L)
  <2>1. i \in DOMAIN warm' /\ warm'[i].idle + Window(M) > TTL
    BY <1>1, <1>3 DEF Aging
  <2>2. warm'[i].idle # 0
    BY <1>1, <2>1, Parameters
  <2>3. i \in DOMAIN warm /\ warm[i].idle + Window(M) > TTL
    BY <2>1, <2>2
  <2>4. warm[i].idle + Window(L) > TTL
    BY <1>1, <1>2, <2>3, Parameters
  <2> QED
    BY <2>3, <2>4 DEF Aging
<1> QED
  BY <1>3, AgingLess

LEMMA StormGet ==
    ASSUME Brief, TypeOK, TypeOK', StormInv, NEW c \in Callers, Ask(c) \/ Get(c)
    PROVE  StormInv'
<1>1. /\ c \in Goroutines /\ c \notin Refills /\ pc \in [Goroutines -> Establishing
                \cup {"idle", "get", "begin", "got", "check"}]
      /\ tries \in [Callers -> 0..Size]
  BY Parameters, PoolAssumption DEF TypeOK
<1>2. UNCHANGED <<cool, redials>>
  BY DEF Ask, Get, Take, Drop, Miss, Established, Release, pool
<1>3. \A h \in Callers \ {c} : tries'[h] = tries[h]
  BY <1>1 DEF Ask, Get, Take, Drop, Miss, Established, Release
<1>4. \A h \in Goroutines \ {c} : pc'[h] = pc[h] \/ (pc[h] = "idle" /\ pc'[h] = "check")
  <2>1. ASSUME Take(c) \/ Drop(c) \/ Miss(c) PROVE \E next : Spawn(c, next)
    BY <2>1 DEF Take, Drop, Miss
  <2>2. CASE Take(c) \/ Drop(c) \/ Miss(c)
    BY <2>1, <2>2, SpawnWakes
  <2>3. CASE Ask(c) \/ Established(c) \/ Release(c)
    BY <1>1, <2>3 DEF Ask, Established, Release
  <2> QED
    BY <2>2, <2>3 DEF Get
<1>5. CASE Ask(c)
  <2>1. /\ pc[c] = "idle" /\ pc'[c] = "get" /\ tries'[c] = 0 /\ UNCHANGED warm
    BY <1>1, <1>5 DEF Ask, pool, StormInv
  <2>2. ASSUME NEW L \in SUBSET Goroutines, Contained(L)
        PROVE  /\ Cardinality(Aging(L)') <= Cardinality(Aging(L))
               /\ Cardinality(Aging(L)') \in Nat /\ Cardinality(Aging(L)') <= Size
               /\ c \in L => redials[c] = 0
    <3>1. c \in L => redials[c] = 0
      BY <2>1, <2>2 DEF Contained, Establishing
    <3>2. Cardinality(Aging(L)') \in Nat /\ Cardinality(Aging(L)') <= Size
      BY FewAgingNext
    <3> QED
      BY <1>2, <2>1, <2>2, <3>1, <3>2, NoneAges
  <2>3. ASSUME NEW L \in SUBSET Goroutines
        PROVE  Cardinality(Aging(L)') \in Nat /\ Cardinality(Aging(L)') <= Size
                 => tries'[c] + Cardinality(Aging(L)') <= Size
    BY <2>1, Parameters
  <2> QED
    BY <1>1, <1>2, <1>3, <1>4, <2>1, <2>2, <2>3, StormKept DEF Establishing
<1>6. CASE Miss(c) \/ Release(c)
  <2>1. /\ pc[c] \in {"get", "got"} /\ UNCHANGED warm /\ tries'[c] = 0 /\ pc'[c] # "get"
        /\ Cooling => pc'[c] = "idle"
    <3>1. CASE Miss(c)
      <4>1. pc'[c] = IF Cooling THEN "idle" ELSE "begin"
        BY <3>1, SpawnWakes DEF Miss
      <4> QED
        BY <1>1, <3>1, <4>1 DEF Miss, pool
    <3>2. CASE Release(c)
      BY <1>1, <3>2 DEF Release, pool, StormInv
    <3> QED
      BY <1>6, <3>1, <3>2
  <2>2. ASSUME NEW L \in SUBSET Goroutines, Contained(L)
        PROVE  /\ Cardinality(Aging(L)') <= Cardinality(Aging(L))
               /\ c \in L => redials[c] = 0
    BY <1>2, <2>1, <2>2, NoneAges DEF Contained, Establishing
  <2> QED
    BY <1>1, <1>2, <1>3, <1>4, <2>1, <2>2, StormKept DEF Establishing
<1>7. CASE Established(c)
  <2>1. /\ pc'[c] = "got" /\ tries'[c] = 0 /\ UNCHANGED warm
    <3>1. pc[c] # "get"
      BY <1>7 DEF Established, Finish
    <3> QED
      BY <1>1, <1>7, <3>1 DEF Established, pool, StormInv
  <2>2. ASSUME NEW L \in SUBSET Goroutines, Contained(L)
        PROVE  Cardinality(Aging(L \ {c})') <= Cardinality(Aging(L))
    BY <1>2, <2>1, <2>2, NoneAges
  <2>3. ASSUME NEW L \in SUBSET Goroutines, Contained(L)
        PROVE  \E M \in SUBSET L :
                  /\ Cardinality(Aging(M)') <= Cardinality(Aging(L))
                  /\ L \ M \subseteq {c} /\ c \notin M
    <3>1. Cardinality(Aging(L \ {c})') <= Cardinality(Aging(L))
      BY <2>2, <2>3
    <3> WITNESS L \ {c} \in SUBSET L
    <3> QED
      BY <3>1
  <2> QED
    BY <1>1, <1>2, <1>3, <1>4, <2>1, <2>3, StormKept DEF Establishing
<1>8. CASE Take(c) \/ Drop(c)
  <2>1. /\ pc[c] = "get" /\ warm # <<>> /\ warm' = Tail(warm)
        /\ tries'[c] \in Nat /\ tries[c] \in 0..Size
    <3>1. tries[c] \in 0..Size /\ tries'[c] \in 0..Size
      BY <1>1 DEF TypeOK
    <3>2. pc[c] = "get" /\ warm # <<>> /\ warm' = Tail(warm)
      BY <1>8 DEF Take, Drop
    <3> QED
      BY <3>1, <3>2, Parameters
  <2>2. \/ pc'[c] = "got" /\ tries'[c] = 0
        \/ /\ Stale(Head(warm))
           /\ \/ tries[c] < Size /\ pc'[c] = "get" /\ tries'[c] = tries[c] + 1
              \/ tries[c] = Size /\ pc'[c] = "begin" /\ tries'[c] = 0
    <3>1. CASE Take(c)
      <4>1. pc'[c] = "got"
        BY <3>1, SpawnWakes DEF Take
      <4> QED
        BY <1>1, <3>1, <4>1 DEF Take
    <3>2. CASE Drop(c)
      <4>1. pc'[c] = IF tries[c] < Size THEN "get" ELSE "begin"
        BY <3>2, SpawnWakes DEF Drop
      <4>2. /\ tries'[c] = IF tries[c] < Size THEN tries[c] + 1 ELSE 0
            /\ Stale(Head(warm))
        BY <1>1, <3>2 DEF Drop
      <4> QED
        BY <2>1, <4>1, <4>2, Parameters
    <3> QED
      BY <1>8, <3>1, <3>2
  <2>3. ASSUME NEW L \in SUBSET Goroutines, Contained(L)
        PROVE  /\ Cardinality(Aging(L)') <= Cardinality(Aging(L))
               /\ c \in L => redials[c] = 0
               /\ c \notin L => /\ pc'[c] \in {"got", "get"}
                                /\ pc'[c] = "get" =>
                                        tries'[c] + Cardinality(Aging(L)') <= Size
    <3>1. /\ Cardinality(Aging(L)') <= Cardinality(Aging(L))
          /\ Stale(Head(warm)) => Cardinality(Aging(L)') + 1 <= Cardinality(Aging(L))
          /\ Cardinality(Aging(L)') \in Nat /\ Cardinality(Aging(L)) \in Nat
      BY <1>2, <2>1, AgingTail, FewAging, FewAgingNext
    <3>2. c \in L => redials[c] = 0
      BY <2>1, <2>3 DEF Contained, Establishing
    <3>3. c \notin L => tries[c] + Cardinality(Aging(L)) <= Size
      BY <1>1, <2>1, <2>3 DEF Contained
    <3>4. c \notin L /\ Stale(Head(warm)) => /\ tries[c] < Size
                                             /\ tries[c] + 1 + Cardinality(Aging(L)') <= Size
      BY <2>1, <3>1, <3>3, Parameters
    <3>5. CASE pc'[c] = "got"
      BY <3>1, <3>2, <3>5
    <3>6. CASE Stale(Head(warm)) /\ tries[c] < Size /\ pc'[c] = "get"
               /\ tries'[c] = tries[c] + 1
      BY <3>1, <3>2, <3>4, <3>6
    <3>7. CASE Stale(Head(warm)) /\ tries[c] = Size /\ pc'[c] = "begin"
      <4>1. c \in L
        BY <3>4, <3>7, Parameters
      <4> QED
        BY <3>1, <3>2, <4>1
    <3> QED
      BY <2>2, <3>5, <3>6, <3>7
  <2> QED
    BY <1>1, <1>2, <1>3, <1>4, <2>2, <2>3, StormKept DEF Establishing
<1> QED
  BY <1>5, <1>6, <1>7, <1>8 DEF Get

LEMMA StormRefill ==
    ASSUME Brief, IInv, TypeOK', StormInv, NEW r \in Refills, Refill(r)
    PROVE  StormInv'
<1> TypeOK
  BY DEF IInv
<1>1. /\ r \in Goroutines /\ r \notin Callers /\ pc \in [Goroutines -> Establishing
                \cup {"idle", "get", "begin", "got", "check"}]
  BY Parameters, PoolAssumption DEF TypeOK
<1>2. UNCHANGED <<cool, redials, tries>>
  BY DEF Refill, Check, Warmed
<1>3. \A h \in Goroutines \ {r} : pc'[h] = pc[h]
  BY <1>1 DEF Refill, Check, Warmed
<1>4. CASE Check(r)
  <2>1. /\ pc[r] = "check" /\ pc'[r] \in {"idle", "begin"} /\ UNCHANGED warm
        /\ Cooling => pc'[r] = "idle"
    BY <1>1, <1>4 DEF Check, pool
  <2>2. ASSUME NEW L \in SUBSET Goroutines, Contained(L)
        PROVE  /\ Cardinality(Aging(L)') <= Cardinality(Aging(L))
               /\ r \in L => redials[r] = 0
    BY <1>2, <2>1, <2>2, NoneAges DEF Contained, Establishing
  <2> QED
    BY <1>1, <1>2, <1>3, <2>1, <2>2, StormKept DEF Establishing
<1>5. CASE Warmed(r)
  <2>1. /\ pc'[r] = "idle"
        /\ \A i \in DOMAIN warm' : \/ i \in DOMAIN warm /\ warm'[i].idle = warm[i].idle
                                   \/ warm'[i] = held[r]
    <3>1. pc'[r] = "idle" /\ (warm' = warm \/ warm' = Append(warm, held[r]))
      BY <1>1, <1>5 DEF Warmed, Pools
    <3>2. ASSUME warm' = Append(warm, held[r]), NEW i \in DOMAIN warm'
          PROVE  (i \in DOMAIN warm /\ warm'[i] = warm[i]) \/ warm'[i] = held[r]
      <4>1. warm \in Seq(Tunnel) /\ held[r] \in Tunnel
        BY <1>1 DEF TypeOK
      <4> QED
        BY <3>2, <4>1
    <3> QED
      BY <3>1, <3>2
  <2>2. held[r].idle = 0
    BY <1>1, <1>5 DEF IInv, Aged, Warmed, Finish, Establishing
  <2>3. ASSUME NEW L \in SUBSET Goroutines, Contained(L)
        PROVE  \E M \in SUBSET L :
                  /\ Cardinality(Aging(M)') <= Cardinality(Aging(L))
                  /\ L \ M \subseteq {r} /\ r \notin M
    <3>1. Cardinality(Aging(L \ {r})') <= Cardinality(Aging(L))
      BY <1>2, <2>1, <2>2, <2>3, NoneAges
    <3> WITNESS L \ {r} \in SUBSET L
    <3> QED
      BY <3>1
  <2> QED
    BY <1>1, <1>2, <1>3, <2>1, <2>3, StormKept DEF Establishing
<1> QED
  BY <1>4, <1>5 DEF Refill

\* The peer, the pool's end: no goroutine moves and no tunnel ages.
LEMMA StormPeer ==
    ASSUME Brief, TypeOK, TypeOK', StormInv, Down \/ Up \/ Close \/ UNCHANGED vars
    PROVE  StormInv'
<1>1. UNCHANGED <<cool, redials, tries, pc>>
  BY DEF Down, Up, Close, vars
<1>2. \A i \in DOMAIN warm' : i \in DOMAIN warm /\ warm'[i].idle = warm[i].idle
  <2>1. CASE Down
    <3>1. \A i \in DOMAIN warm : warm[i] \in Tunnel
      BY DEF TypeOK
    <3>2. /\ DOMAIN warm' = DOMAIN warm
          /\ \A i \in DOMAIN warm : warm'[i] = [warm[i] EXCEPT !.alive = FALSE]
      BY <2>1 DEF Down
    <3> QED
      BY <3>1, <3>2 DEF Tunnel
  <2>2. CASE Close
    BY <2>2 DEF Close
  <2>3. CASE Up \/ UNCHANGED vars
    BY <2>3 DEF Up, pool, vars
  <2> QED
    BY <2>1, <2>2, <2>3
<1>3. ASSUME NEW L \in SUBSET Goroutines, Contained(L)
      PROVE  Cardinality(Aging(L)') <= Cardinality(Aging(L))
  BY <1>1, <1>2, <1>3, NoneAges
<1>4. PICK g \in Goroutines : g \in Refills
  BY Parameters DEF Refills
<1>5. ASSUME NEW L \in SUBSET Goroutines, Contained(L)
      PROVE  \E M \in SUBSET L :
                /\ Cardinality(Aging(M)') <= Cardinality(Aging(L))
                /\ L \ M \subseteq {g}
                /\ g \in M /\ pc'[g] \notin Establishing => redials[g] = 0
                /\ g \notin M => /\ pc'[g] \notin {"begin"} \cup Establishing
                                 /\ pc'[g] = "get" =>
                                        tries'[g] + Cardinality(Aging(M)') <= Size
  <2>1. Cardinality(Aging(L)') <= Cardinality(Aging(L)) /\ pc'[g] # "get"
    BY <1>1, <1>3, <1>4, <1>5 DEF StormInv
  <2> WITNESS L \in SUBSET L
  <2> QED
    BY <1>1, <1>5, <2>1 DEF Contained
<1>6. g \notin Callers
  BY <1>4, PoolAssumption
<1> QED
  BY <1>1, <1>4, <1>5, <1>6, StormKept DEF StormInv

\* A dial during the cooldown uses up what the goroutine may do; a failure
\* starts the cooldown again and takes the goroutine from those that may.
LEMMA StormEstablish ==
    ASSUME Brief, TypeOK, TypeOK', StormInv, NEW g \in Goroutines, Establish(g)
    PROVE  StormInv'
<1>1. /\ pc \in [Goroutines -> Establishing \cup {"idle", "get", "begin", "got", "check"}]
      /\ redials \in [Goroutines -> 0..2] /\ cool \in 0..Cooldown
      /\ UNCHANGED <<warm, tries>>
  BY DEF TypeOK, Establish, Begin, Attest, EstablishFails, pool
<1>2. \A h \in Goroutines \ {g} : pc'[h] = pc[h] /\ redials'[h] = redials[h]
  BY <1>1 DEF Establish, Begin, Attest, EstablishFails
<1>3. /\ pc[g] \in {"begin"} \cup Establishing /\ pc'[g] \in {"idle"} \cup Establishing
      /\ pc'[g] # "get" /\ pc[g] # "get"
  BY <1>1 DEF Establish, Begin, Attest, EstablishFails, Establishing
<1>4. /\ \A c \in Callers : pc'[c] # "get" => tries'[c] = 0
      /\ \A r \in Refills : pc'[r] # "get"
  BY <1>1, <1>2, <1>3, Parameters DEF StormInv
<1>5. CASE Begin(g) \/ Attest(g)
  <2>1. /\ cool' = cool /\ pc'[g] \in Establishing
        /\ redials'[g] = IF pc[g] = "begin" THEN (IF Cooling THEN Older(redials[g], 2) ELSE 0)
                         ELSE redials[g]
    BY <1>1, <1>5 DEF Begin, Attest, Establishing
  <2>2. ASSUME NEW L \in SUBSET Goroutines, Contained(L)
        PROVE  g \in L /\ (pc[g] = "begin" => redials[g] = 0)
    BY <1>3, <2>2 DEF Contained, Establishing
  <2>3. \A h \in Goroutines : redials'[h] <= IF Cooling' THEN 1 ELSE 0
    <3>1. Cooling /\ pc[g] = "begin" => redials[g] = 0
      BY <2>2 DEF StormInv
    <3>2. redials[g] <= (IF Cooling THEN 1 ELSE 0) /\ redials[g] \in Nat
      BY <1>1 DEF StormInv
    <3>3. redials'[g] <= IF Cooling THEN 1 ELSE 0
      BY <2>1, <3>1, <3>2 DEF Older
    <3> QED
      BY <1>2, <2>1, <3>3 DEF StormInv, Cooling
  <2>4. ASSUME NEW L \in SUBSET Goroutines, Contained(L) PROVE Contained(L)'
    <3>1. Window(L)' = Window(L) /\ Aging(L)' = Aging(L)
      BY <1>1, <2>1 DEF Window, Aging
    <3>2. \A h \in L : pc'[h] \notin Establishing => redials'[h] = 0
      BY <1>2, <2>1, <2>4 DEF Contained
    <3>3. \A h \in Goroutines \ L : h # g
      BY <2>2, <2>4
    <3> QED
      BY <1>1, <1>2, <2>4, <3>1, <3>2, <3>3 DEF Contained
  <2> QED
    BY <1>4, <2>1, <2>3, <2>4 DEF StormInv, Cooling
<1>6. CASE EstablishFails(g)
  <2>1. cool' = Cooldown /\ pc'[g] = "idle" /\ UNCHANGED redials /\ Cooling'
    BY <1>1, <1>6, Parameters DEF EstablishFails, Cooling
  <2>2. \A h \in Goroutines : redials'[h] <= IF Cooling' THEN 1 ELSE 0
    BY <1>1, <2>1 DEF StormInv
  <2>3. CASE ~Cooling
    <3> DEFINE M == Goroutines \ {g}
    <3>1. Window(M)' <= TTL
      <4>1. Cardinality(M) + 1 = Cardinality(Goroutines) /\ Cardinality(M) \in Nat
        BY Finitely, FS_RemoveElement
      <4>2. Cooldown * Cardinality(Goroutines) = Cooldown * Cardinality(M) + Cooldown
        BY <4>1, Times, Parameters
      <4>3. Cooldown * Cardinality(M) \in Nat
        BY <4>1, Times, Parameters
      <4>4. Window(M)' = Cooldown + Cooldown * Cardinality(M)
        BY <2>1 DEF Window
      <4> QED
        BY <4>2, <4>3, <4>4, Parameters DEF Brief
    <3>2. \A h \in M : redials'[h] = 0
      BY <1>1, <2>1, <2>3 DEF StormInv
    <3>3. \A h \in Goroutines \ M : pc'[h] = "idle"
      BY <2>1
    <3> HIDE DEF M
    <3>4. Contained(M)'
      BY <3>1, <3>2, <3>3 DEF Contained, Establishing
    <3>5. M \in SUBSET Goroutines
      BY DEF M
    <3> QED
      BY <1>4, <2>2, <3>4, <3>5 DEF StormInv
  <2>4. CASE Cooling
    <3>1. PICK L \in SUBSET Goroutines : Contained(L)
      BY <2>4 DEF StormInv
    <3> DEFINE M == L \ {g}
    <3>2. g \in L
      BY <1>3, <3>1 DEF Contained
    <3>3. /\ Window(L) \in Nat /\ Window(L) <= TTL /\ Window(M)' <= Window(L)
          /\ Window(M)' \in Nat
      <4>1. /\ Window(M) + Cooldown = Window(L) /\ Window(M) \in Nat /\ Window(L) \in Nat
            /\ Window(L) <= TTL
        BY <3>1, <3>2, Windows DEF Contained
      <4>2. Cooldown * Cardinality(M) \in Nat
        BY Finitely, Times, Parameters
      <4>3. /\ Window(M) = cool + Cooldown * Cardinality(M)
            /\ Window(M)' = Cooldown + Cooldown * Cardinality(M)
        BY <2>1 DEF Window
      <4> HIDE DEF M
      <4> QED
        BY <1>1, <4>1, <4>2, <4>3, Parameters
    <3>4. Cardinality(Aging(M)') <= Cardinality(Aging(L))
      <4>1. ASSUME NEW i \in Aging(M)' PROVE i \in Aging(L)
        <5>1. i \in DOMAIN warm /\ warm[i].idle + Window(M)' > TTL
          BY <1>1, <4>1 DEF Aging
        <5>2. warm[i].idle \in Nat
          <6>1. warm[i] \in Tunnel
            BY <5>1 DEF TypeOK
          <6> QED
            BY <6>1, Parameters DEF Tunnel
        <5> QED
          BY <3>3, <5>1, <5>2, Parameters DEF Aging
      <4> QED
        BY <4>1, AgingLess
    <3>5. \A h \in M : pc'[h] \notin Establishing => redials'[h] = 0
      BY <1>2, <2>1, <3>1 DEF Contained
    <3>6. ASSUME NEW h \in Goroutines \ M
          PROVE  /\ pc'[h] \notin {"begin"} \cup Establishing
                 /\ pc'[h] = "get" => tries'[h] + Cardinality(Aging(M)') <= Size
      <4>1. CASE h = g
        BY <2>1, <4>1 DEF Establishing
      <4>2. CASE h # g
        <5>1. /\ h \in Goroutines \ L /\ pc'[h] = pc[h] /\ tries' = tries
          BY <1>1, <1>2, <4>2
        <5>2. /\ pc[h] \notin {"begin"} \cup Establishing
              /\ pc[h] = "get" => tries[h] + Cardinality(Aging(L)) <= Size
          BY <3>1, <5>1 DEF Contained
        <5>3. ASSUME pc[h] = "get" PROVE tries[h] + Cardinality(Aging(M)') <= Size
          <6>1. h \in Callers
            BY <5>3 DEF StormInv, Goroutines
          <6>2. tries[h] \in Nat
            BY <6>1 DEF TypeOK
          <6>3. Cardinality(Aging(M)') \in Nat /\ Cardinality(Aging(L)) \in Nat
            BY FewAging, FewAgingNext
          <6> QED
            BY <3>4, <5>2, <5>3, <6>2, <6>3, Parameters
        <5> QED
          BY <5>1, <5>2, <5>3
      <4> QED
        BY <4>1, <4>2
    <3>7. Window(M)' <= TTL
      BY <3>3, Parameters
    <3> HIDE DEF M
    <3>8. Contained(M)'
      BY <3>5, <3>6, <3>7 DEF Contained
    <3>9. M \in SUBSET Goroutines
      BY DEF M
    <3> QED
      BY <1>4, <2>2, <3>8, <3>9 DEF StormInv
  <2> QED
    BY <2>3, <2>4
<1> QED
  BY <1>5, <1>6 DEF Establish

\* A tick takes from the cooldown what it adds to the idle time of a tunnel.
LEMMA StormTick ==
    ASSUME Brief, TypeOK, TypeOK', StormInv, Tick
    PROVE  StormInv'
<1>1. /\ cool \in 0..Cooldown /\ redials \in [Goroutines -> 0..2]
      /\ UNCHANGED <<pc, tries>>
      /\ cool' = IF cool > 0 THEN cool - 1 ELSE 0
      /\ redials' = IF cool > 1 THEN redials ELSE [g \in Goroutines |-> 0]
  BY DEF TypeOK, Tick, Cooling
<1>2. \A g \in Goroutines : redials'[g] <= IF Cooling' THEN 1 ELSE 0
  <2>1. CASE cool > 1
    BY <1>1, <2>1, Parameters DEF StormInv, Cooling
  <2>2. CASE cool <= 1
    BY <1>1, <2>2, Parameters DEF Cooling
  <2> QED
    BY <1>1, <2>1, <2>2, Parameters
<1>3. ASSUME Cooling', NEW L \in SUBSET Goroutines, Contained(L) PROVE Contained(L)'
  <2>1. cool > 1 /\ cool' = cool - 1 /\ redials' = redials
    BY <1>1, <1>3, Parameters DEF Cooling
  <2>2. Window(L)' = Window(L) - 1 /\ Window(L) \in Nat /\ Window(L) <= TTL
    <3>1. Cooldown * Cardinality(L) \in Nat
      BY Finitely, Times, Parameters
    <3>2. /\ Window(L) = cool + Cooldown * Cardinality(L)
          /\ Window(L)' = cool' + Cooldown * Cardinality(L)
      BY DEF Window
    <3> QED
      BY <1>1, <1>3, <2>1, <3>1, <3>2, Parameters DEF Contained
  <2>3. Cardinality(Aging(L)') <= Cardinality(Aging(L))
    <3>1. ASSUME NEW i \in Aging(L)' PROVE i \in Aging(L)
      <4>1. i \in DOMAIN warm /\ warm'[i].idle + Window(L)' > TTL
        BY <3>1 DEF Aging, Tick
      <4>2. warm[i] \in Tunnel
        BY <4>1 DEF TypeOK
      <4>3. warm[i].idle \in 0..(TTL + 1)
        BY <4>2 DEF Tunnel
      <4>4. warm'[i].idle = Older(warm[i].idle, TTL + 1)
        BY <4>1, <4>2 DEF Tick, Tunnel
      <4>5. warm'[i].idle <= warm[i].idle + 1 /\ warm'[i].idle \in Nat
        BY <4>3, <4>4, Parameters DEF Older
      <4>6. warm[i].idle + Window(L) > TTL
        BY <2>2, <4>1, <4>3, <4>5, Parameters
      <4> QED
        BY <4>1, <4>6 DEF Aging
    <3> QED
      BY <3>1, AgingLess
  <2>4. Window(L)' <= TTL
    BY <2>2, Parameters
  <2>5. ASSUME NEW g \in Goroutines \ L, pc[g] = "get"
        PROVE  tries[g] + Cardinality(Aging(L)') <= Size
    <3>1. g \in Callers
      BY <2>5 DEF StormInv, Goroutines
    <3>2. tries[g] \in Nat /\ tries[g] + Cardinality(Aging(L)) <= Size
      BY <1>3, <2>5, <3>1 DEF TypeOK, Contained
    <3>3. Cardinality(Aging(L)') \in Nat /\ Cardinality(Aging(L)) \in Nat
      BY FewAging, FewAgingNext
    <3> QED
      BY <2>3, <3>2, <3>3, Parameters
  <2> QED
    BY <1>1, <1>3, <2>1, <2>4, <2>5 DEF Contained
<1>4. Cooling' => Cooling
  BY <1>1, Parameters DEF Cooling
<1> QED
  BY <1>1, <1>2, <1>3, <1>4 DEF StormInv

LEMMA StormInvariant ==
    ASSUME Brief
    PROVE  Spec => []StormInv
<1>1. Init => StormInv
  BY Parameters, PoolAssumption DEF Init, StormInv, Cooling
<1>2. ASSUME IInv, IInv', StormInv, [Next]_vars PROVE StormInv'
  <2>1. TypeOK /\ TypeOK'
    BY <1>2 DEF IInv
  <2> QED
    BY <1>2, <2>1, StormEstablish, StormGet, StormRefill, StormTick, StormPeer DEF Next
<1> QED
  BY <1>1, <1>2, Invariant, PTL DEF Spec

\* A down peer causes no dial storm (pool.go establishCooldown): during one
\* cooldown a goroutine dials at most once, however many of them are there, if
\* the cooldown is brief against the re-attestation interval.
THEOREM NoDialStormHolds ==
    ASSUME Brief
    PROVE  Spec => []NoDialStorm
<1>1. IInv /\ StormInv => NoDialStorm
  <2> SUFFICES ASSUME TypeOK, StormInv, NEW g \in Goroutines PROVE redials[g] <= 1
    BY DEF IInv, NoDialStorm
  <2>1. redials[g] <= (IF Cooling THEN 1 ELSE 0) /\ redials[g] \in Nat
    BY DEF StormInv, TypeOK
  <2> QED
    BY <2>1
<1> QED
  BY <1>1, Invariant, StormInvariant, PTL

==============================================================================

------------------------------ MODULE TunnelPool ------------------------------
(***************************************************************************)
(* The warm pool of tunnels to one peer (cmd/grimlock/pool.go) and the     *)
(* client's side of what it pools: CreateDedicatedTunnel resumes from the  *)
(* cached secret or runs a full gate.  Requests (callers of get) and       *)
(* background refills race for the warm channel, the cooldown after a      *)
(* failed establish and the cached secret.                                 *)
(*                                                                         *)
(* Time is counted in ticks: a tunnel carries the age of the gate it rests *)
(* on and the time it has been warm.  A peer that goes down takes its      *)
(* tunnels and its secrets with it; the pool only learns by failing.  With *)
(* a peer that is up a set-up may fail too.                                *)
(***************************************************************************)
EXTENDS Naturals, Sequences

CONSTANTS
    Callers,        \* requests that may be in get at a time
    MaxRefills,     \* bound on refill goroutines that exist at a time
    Size,           \* depth of the pool
    TTL,            \* re-attestation interval: life of a secret, maxIdle
    Setup,          \* ticks an establish may take (dial and setup timeouts)
    Cooldown,       \* establishCooldown
    MaxFlaps,       \* bound on how often the peer goes down
    Closes          \* whether the pool may be closed

Refills == 1..MaxRefills

ASSUME PoolAssumption ==
    /\ Callers \cap Refills = {}
    /\ {MaxRefills, Size, TTL, Setup, Cooldown} \subseteq Nat \ {0}
    /\ MaxFlaps \in Nat
    /\ Closes \in BOOLEAN

Goroutines == Callers \cup Refills

\* An age is counted up to the first value no property tells from its successor.
Oldest == 2 * TTL + Setup
Tunnel == [attested : 0..Oldest,    \* ticks since the gate behind it
           idle : 0..(TTL + 1),     \* ticks since it was pooled
           alive : BOOLEAN]         \* the peer still holds its end

VARIABLES
    up,         \* the peer answers
    warm,       \* the channel of warm tunnels
    cool,       \* ticks until the cooldown ends, 0 when not cooling
    secret,     \* ticks since the cached secret was made, TTL when none is live
    pc,         \* pc[g]: where goroutine g is
    tries,      \* tries[c]: iterations of get's loop
    held,       \* held[g]: the tunnel g makes or was handed
    lasted,     \* lasted[g]: ticks g's establish has taken
    redials,    \* redials[g]: dials g began since the cooldown began, up to 2
    quit, flaps

pool == <<warm, quit>>
vars == <<up, warm, cool, secret, pc, tries, held, lasted, redials, quit, flaps>>

Establishing == {"dial", "resume", "gate"}

\* Every variable holds a value of its type.
TypeOK ==
    /\ up \in BOOLEAN /\ quit \in BOOLEAN
    /\ warm \in Seq(Tunnel) /\ Len(warm) <= Size
    /\ cool \in 0..Cooldown
    /\ secret \in 0..TTL
    /\ pc \in [Goroutines -> Establishing \cup {"idle", "get", "begin", "got", "check"}]
    /\ tries \in [Callers -> 0..Size]
    /\ held \in [Goroutines -> Tunnel]
    /\ lasted \in [Goroutines -> 0..Setup]
    /\ redials \in [Goroutines -> 0..2]
    /\ flaps \in 0..MaxFlaps

\* Counting up to a bound.
Older(n, most) == IF n < most THEN n + 1 ELSE n

New == [attested |-> 0, idle |-> 0, alive |-> TRUE]

\* newTunnelPool starts Size refills.
Init ==
    /\ up \in BOOLEAN
    /\ warm = <<>>
    /\ cool = 0
    /\ secret = TTL
    /\ pc = [g \in Goroutines |-> IF g \in 1..Size THEN "check" ELSE "idle"]
    /\ tries = [c \in Callers |-> 0]
    /\ held = [g \in Goroutines |-> New]
    /\ lasted = [g \in Goroutines |-> 0]
    /\ redials = [g \in Goroutines |-> 0]
    /\ quit = FALSE
    /\ flaps = 0

------------------------------------------------------------------------------
(* establish *)

Cooling == cool > 0

\* CreateDedicatedTunnel dials.
Begin(g) ==
    /\ pc[g] = "begin"
    /\ pc' = [pc EXCEPT ![g] = "dial"]
    /\ held' = [held EXCEPT ![g] = [New EXCEPT !.alive = up]]
    /\ redials' = [redials EXCEPT ![g] = IF Cooling THEN Older(@, 2) ELSE 0]
    /\ UNCHANGED <<up, pool, cool, secret, tries, lasted, flaps>>

\* clientAttest: resume from the cached secret if it is live; a full gate if
\* none is, or if the peer answers that it has none.
Attest(g) ==
    /\ pc[g] = "dial" /\ held[g].alive
    /\ \/ /\ secret < TTL
          /\ pc' = [pc EXCEPT ![g] = "resume"]
          /\ held' = [held EXCEPT ![g].attested = secret]
       \/ /\ pc' = [pc EXCEPT ![g] = "gate"]
          /\ UNCHANGED held
    /\ UNCHANGED <<up, pool, cool, secret, tries, lasted, redials, flaps>>

\* The set-up succeeds, and a full gate caches a new secret.
Finish(g) ==
    /\ pc[g] \in {"resume", "gate"} /\ held[g].alive
    /\ secret' = IF pc[g] = "gate" THEN 0 ELSE secret
    /\ lasted' = [lasted EXCEPT ![g] = 0]

\* A dial, gate or resume that fails starts the cooldown.  It must if the peer
\* went down, and may with a peer that is there: the peer sheds the set-up or
\* rejects the evidence, the resumption tags differ, the connection breaks or
\* the set-up's time is over.
EstablishFails(g) ==
    /\ pc[g] \in Establishing
    /\ pc' = [pc EXCEPT ![g] = "idle"]
    /\ cool' = Cooldown
    /\ held' = [held EXCEPT ![g] = New]
    /\ lasted' = [lasted EXCEPT ![g] = 0]
    /\ UNCHANGED <<up, pool, secret, tries, redials, flaps>>

------------------------------------------------------------------------------
(* get *)

FreeRefills == {r \in Refills : pc[r] = "idle"}

\* go p.refill(): the goroutine is one of the free ones, whichever.
Spawn(c, next) ==
    /\ FreeRefills # {}
    /\ LET r == CHOOSE r \in FreeRefills : \A x \in FreeRefills : r <= x
       IN  pc' = [pc EXCEPT ![r] = "check", ![c] = next]

Ask(c) ==
    /\ pc[c] = "idle"
    /\ pc' = [pc EXCEPT ![c] = "get"]
    /\ UNCHANGED <<up, pool, cool, secret, tries, held, lasted, redials, flaps>>

\* Mutant: the age of a warm tunnel is not looked at.
MutantStale(tunnel) == FALSE

Stale(tunnel) == tunnel.idle > TTL

\* A warm tunnel is there: it is replaced, and handed out unless it is stale.
Take(c) ==
    /\ pc[c] = "get" /\ warm # <<>> /\ ~Stale(Head(warm))
    /\ warm' = Tail(warm)
    /\ held' = [held EXCEPT ![c] = Head(warm)]
    /\ Spawn(c, "got")
    /\ tries' = [tries EXCEPT ![c] = 0]
    /\ UNCHANGED <<up, quit, cool, secret, lasted, redials, flaps>>

\* A stale one is closed.  After Size + 1 of them get establishes a tunnel
\* without asking for the cooldown.
Drop(c) ==
    /\ pc[c] = "get" /\ warm # <<>> /\ Stale(Head(warm))
    /\ warm' = Tail(warm)
    /\ Spawn(c, IF tries[c] < Size THEN "get" ELSE "begin")
    /\ tries' = [tries EXCEPT ![c] = IF @ < Size THEN @ + 1 ELSE 0]
    /\ UNCHANGED <<up, quit, cool, secret, held, lasted, redials, flaps>>

\* Mutant: failing fast starts the cooldown again.
MutantMiss(c) ==
    /\ pc[c] = "get" /\ warm = <<>>
    /\ Spawn(c, IF Cooling THEN "idle" ELSE "begin")
    /\ tries' = [tries EXCEPT ![c] = 0]
    /\ cool' = IF Cooling THEN Cooldown ELSE cool
    /\ UNCHANGED <<up, pool, secret, held, lasted, redials, flaps>>

\* None is there: fail fast during a cooldown, else establish one.
Miss(c) ==
    /\ pc[c] = "get" /\ warm = <<>>
    /\ Spawn(c, IF Cooling THEN "idle" ELSE "begin")
    /\ tries' = [tries EXCEPT ![c] = 0]
    /\ UNCHANGED <<up, pool, cool, secret, held, lasted, redials, flaps>>

Established(c) ==
    /\ Finish(c)
    /\ pc' = [pc EXCEPT ![c] = "got"]
    /\ UNCHANGED <<up, pool, cool, tries, held, redials, flaps>>

\* The request has ended and its tunnel is closed.
Release(c) ==
    /\ pc[c] = "got"
    /\ pc' = [pc EXCEPT ![c] = "idle"]
    /\ held' = [held EXCEPT ![c] = New]
    /\ UNCHANGED <<up, pool, cool, secret, tries, lasted, redials, flaps>>

------------------------------------------------------------------------------
(* refill *)

\* Mutant: the background refill does not look at the cooldown.
MutantCheck(r) ==
    /\ pc[r] = "check"
    /\ pc' = [pc EXCEPT ![r] = IF quit THEN "idle" ELSE "begin"]
    /\ UNCHANGED <<up, pool, cool, secret, tries, held, lasted, redials, flaps>>

Check(r) ==
    /\ pc[r] = "check"
    /\ pc' = [pc EXCEPT ![r] = IF quit \/ Cooling THEN "idle" ELSE "begin"]
    /\ UNCHANGED <<up, pool, cool, secret, tries, held, lasted, redials, flaps>>

\* Mutant: the push does not ask whether the channel has room.
MutantPools(r) == warm' = Append(warm, held[r])

\* The select: push if there is room, close the tunnel if the pool was closed,
\* either if both; close it when there is no room.
Pools(r) ==
    \/ Len(warm) < Size /\ warm' = Append(warm, held[r])
    \/ (Len(warm) = Size \/ quit) /\ UNCHANGED warm

Warmed(r) ==
    /\ Finish(r)
    /\ Pools(r)
    /\ pc' = [pc EXCEPT ![r] = "idle"]
    /\ held' = [held EXCEPT ![r] = New]
    /\ UNCHANGED <<up, quit, cool, tries, redials, flaps>>

\* Close: quit is closed, the channel drained.
Close ==
    /\ Closes /\ ~quit
    /\ quit' = TRUE
    /\ warm' = <<>>
    /\ UNCHANGED <<up, cool, secret, pc, tries, held, lasted, redials, flaps>>

------------------------------------------------------------------------------
(* Time and the peer. *)

\* Time passes, up to the end of an establish that has used its time.
Tick ==
    /\ \A g \in Goroutines : pc[g] \in Establishing => lasted[g] < Setup
    /\ warm' = [i \in DOMAIN warm |-> [warm[i] EXCEPT
            !.attested = Older(@, Oldest), !.idle = Older(@, TTL + 1)]]
    /\ held' = [g \in Goroutines |-> [held[g] EXCEPT
            !.attested = IF pc[g] = "resume" THEN Older(@, Oldest) ELSE @]]
    /\ lasted' = [g \in Goroutines |->
            IF pc[g] \in Establishing THEN lasted[g] + 1 ELSE 0]
    /\ cool' = IF Cooling THEN cool - 1 ELSE 0
    /\ redials' = IF cool > 1 THEN redials ELSE [g \in Goroutines |-> 0]
    /\ secret' = Older(secret, TTL)
    /\ UNCHANGED <<up, pc, tries, quit, flaps>>

\* The peer goes down: its tunnels are dead, its instance key is gone.
Down ==
    /\ up /\ flaps < MaxFlaps
    /\ up' = FALSE
    /\ flaps' = flaps + 1
    /\ warm' = [i \in DOMAIN warm |-> [warm[i] EXCEPT !.alive = FALSE]]
    /\ held' = [g \in Goroutines |-> [held[g] EXCEPT
            !.alive = pc[g] \notin Establishing \cup {"got"}]]
    /\ secret' = TTL
    /\ UNCHANGED <<cool, pc, tries, lasted, redials, quit>>

Up ==
    /\ ~up /\ up' = TRUE
    /\ UNCHANGED <<pool, cool, secret, pc, tries, held, lasted, redials, flaps>>

Establish(g) == Begin(g) \/ Attest(g) \/ EstablishFails(g)

Get(c) == Take(c) \/ Drop(c) \/ Miss(c) \/ Established(c) \/ Release(c)

Refill(r) == Check(r) \/ Warmed(r)

Next ==
    \/ \E g \in Goroutines : Establish(g)
    \/ \E c \in Callers : Ask(c) \/ Get(c)
    \/ \E r \in Refills : Refill(r)
    \/ Close \/ Tick \/ Down \/ Up

Spec == Init /\ [][Next]_vars

\* Goroutines run, requests keep coming and time passes; the peer owes nothing.
FairSpec ==
    /\ Spec
    /\ \A g \in Goroutines : WF_vars(Establish(g))
    /\ \A c \in Callers : WF_vars(Ask(c)) /\ WF_vars(Get(c))
    /\ \A r \in Refills : WF_vars(Refill(r))
    /\ WF_vars(Tick)

------------------------------------------------------------------------------
(* Properties. *)

Handed(c) == pc[c] = "got"

\* What a request may count on: the gate behind the tunnel it is handed lies
\* back less than two re-attestation intervals and one set-up (a secret just
\* short of its expiry, a resumption, a tunnel just short of going stale).
AttestationBounded ==
    \A c \in Callers : Handed(c) => held[c].attested < 2 * TTL + Setup

\* A down peer cannot cause a dial storm (establishCooldown): during one
\* cooldown a goroutine dials at most once, when it had passed the check of the
\* cooldown before another's failure began it.
NoDialStorm == \A g \in Goroutines : redials[g] <= 1

\* No set-up with a peer that is there fails.
Accepted == \A g \in Goroutines : held[g].alive => ~EstablishFails(g)

\* Self-healing: once the peer stays up and set-ups with it stop failing,
\* requests are handed live tunnels again, though the pool holds dead ones, a
\* cooldown is on and set-ups failed for both reasons before.  That they stop
\* failing is not the pool's to bring about: a peer whose cache diverged from
\* ours fails every resumption (session_diverges).
Recovers ==
    <>[]up /\ <>[][Accepted]_vars => []<>(\E c \in Callers : Handed(c) /\ held[c].alive)

==============================================================================

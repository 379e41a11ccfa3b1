---------------------------- MODULE AttestSession ----------------------------
(***************************************************************************)
(* Tunnel set-up between daemons (cmd/grimlock/tunnel.go): the set-up mode *)
(* byte and its answer, the full gate or the resumption handshake, the     *)
(* per-peer resumption secrets (resumeCache) and the manifests the         *)
(* enforcer reads (attestedManifests).  Sessions run side by side, in both *)
(* directions, and share the daemon's two maps.                            *)
(*                                                                         *)
(* The gate itself is AttestGate: here a gate that passes is one step per  *)
(* end, possible once both ends are in it.  Every appraisal accepts: what  *)
(* this module is about is what happens between sound peers.  A secret is  *)
(* the identity of the TLS session it was derived from, which the session  *)
(* is given when a gate first derives it.                                  *)
(***************************************************************************)
EXTENDS Naturals, FiniteSets

CONSTANTS
    Node,           \* the daemons
    Slot,           \* sessions that may be in progress or in use at a time
    Pairs,          \* the <<client, server>> pairs that keep connecting
    Seldom,         \* the pairs that connect now and then
    Expires,        \* whether secrets expire (re-attestation interval > 0)
    Tools,          \* the daemons that have a manifest to advertise
    MaxVersion,     \* bound on the manifests a daemon comes to advertise
    Usable,         \* those of them that parse; 0 is none: no pull succeeded
    MaxEvents       \* bound on broken connections, restarts, new manifests and
                    \* sessions of Seldom pairs, together

ASSUME SessionAssumption ==
    /\ IsFiniteSet(Node) /\ Node # {} /\ IsFiniteSet(Slot)
    /\ Pairs \cup Seldom \subseteq {p \in Node \X Node : p[1] # p[2]}
    /\ Expires \in BOOLEAN
    /\ Tools \subseteq Node
    /\ MaxVersion \in Nat \ {0} /\ Usable \subseteq 1..MaxVersion
    /\ MaxEvents \in Nat

\* Enough identities for every cached secret and every session's own, offered
\* and held one: 0 is no secret, no session and no manifest.
Ids == 1..(Cardinality(Node) * Cardinality(Node) + 3 * Cardinality(Slot))

VARIABLES
    secrets,    \* secrets[n][p]: n's resumeCache entry for p's instance key
    manifests,  \* manifests[n][p]: n's attestedManifests entry for p's address
    over,       \* over[n][p]: the newest manifest of p that had been stored when
                \* the entry was, by a set-up bringing an older one (history)
    advert,     \* advert[n]: which of its manifests n advertises, in their order
    conn,       \* conn[s]: the connection in slot s
    end,        \* end[s][r]: the set-up at one end of it
    events      \* how many of them there were

vars == <<secrets, manifests, over, advert, conn, end, events>>

Role == {"client", "server"}
Other(r) == IF r = "client" THEN "server" ELSE "client"

Entry == [rs : {0} \cup Ids,        \* the secret
          manifest : 0..MaxVersion, \* what the peer advertised in its gate
          made : Role]              \* the role we had in it (history)
NoEntry == [rs |-> 0, manifest |-> 0, made |-> "client"]

Conn == [id : {0} \cup Ids,         \* the secret its gate derives, once it has
         client : Node, server : Node,
         mode : {"none", "R", "F"}, \* the client's mode byte, until it is read
         ack : {"none", "R", "F"},  \* the server's answer to R, until it is read
         cut : BOOLEAN,             \* broken, or the set-up deadline passed
         passed : 0..MaxVersion]    \* the newest manifest another set-up of the
                                    \* two stored ahead of this one's (history)

InProgress == {"mode", "ack", "gate", "store", "resume"}
End == [pc : InProgress \cup {"off", "up", "failed"},
        rs : {0} \cup Ids,          \* the secret it resumes from, or made
        advertised : 0..MaxVersion, \* what this end sent in the gate
        manifest : 0..MaxVersion,   \* what the peer sent in the gate behind rs
        made : Role]                \* the role it had in that gate (history)

\* Every variable holds a value of its type.
TypeOK ==
    /\ secrets \in [Node -> [Node -> Entry]]
    /\ manifests \in [Node -> [Node -> 0..MaxVersion]]
    /\ over \in [Node -> [Node -> 0..MaxVersion]]
    /\ advert \in [Node -> 0..MaxVersion]
    /\ conn \in [Slot -> Conn]
    /\ end \in [Slot -> [Role -> End]]
    /\ events \in 0..MaxEvents

Off == [pc |-> "off", rs |-> 0, advertised |-> 0, manifest |-> 0,
        made |-> "client"]
NoConn == [id |-> 0, client |-> CHOOSE n \in Node : TRUE,
           server |-> CHOOSE n \in Node : TRUE,
           mode |-> "none", ack |-> "none", cut |-> FALSE, passed |-> 0]

Init ==
    /\ secrets = [n \in Node |-> [p \in Node |-> NoEntry]]
    /\ manifests = [n \in Node |-> [p \in Node |-> 0]]
    /\ over = [n \in Node |-> [p \in Node |-> 0]]
    /\ advert \in [Node -> 0..1] /\ \A n \in Node \ Tools : advert[n] = 0
    /\ conn = [s \in Slot |-> NoConn]
    /\ end = [s \in Slot |-> [r \in Role |-> Off]]
    /\ events = 0

Me(s, r) == IF r = "client" THEN conn[s].client ELSE conn[s].server
Pc(s, r) == end[s][r].pc

------------------------------------------------------------------------------
(* resumeCache *)

\* get returns an entry until it expires; from then on it deletes it, so an
\* expired entry is no entry.
Live(n, p) == secrets[n][p].rs # 0

\* The end remembers the entry it got: put by another session does not reach it.
Holding(entry, pc) ==
    [Off EXCEPT !.pc = pc, !.rs = entry.rs, !.manifest = entry.manifest,
                !.made = entry.made]

\* The end closed its connection and keeps nothing of the set-up.
Gone == [Off EXCEPT !.pc = "failed"]

\* Mutant: the advertised manifest is looked up one version ahead.
MutantEnterGate(n) == [Off EXCEPT !.pc = "gate", !.advertised = advert[n] + 1]

\* The end sends the manifest its daemon advertises now.
EnterGate(n) == [Off EXCEPT !.pc = "gate", !.advertised = advert[n]]

------------------------------------------------------------------------------
(* Set-up, step by step. *)

\* One of the events MaxEvents bounds.
Happens == events < MaxEvents /\ events' = events + 1

UsedIds ==
    {secrets[n][p].rs : n \in Node, p \in Node}
        \cup {conn[s].id : s \in Slot}
        \cup {end[s][r].rs : s \in Slot, r \in Role}

\* The dial, the TLS handshake (a new session) and the client's proposal:
\* resumption when a live secret is cached, else a full gate.
Propose(s, c, p) ==
    /\ \/ <<c, p>> \in Pairs /\ UNCHANGED events
       \/ <<c, p>> \in Seldom /\ Happens
    /\ \A r \in Role : Pc(s, r) = "off"
    /\ conn' = [conn EXCEPT ![s] =
            [NoConn EXCEPT !.client = c, !.server = p,
                           !.mode = IF Live(c, p) THEN "R" ELSE "F"]]
    /\ end' = [end EXCEPT
            ![s]["client"] = IF Live(c, p) THEN Holding(secrets[c][p], "ack")
                                           ELSE EnterGate(c),
            ![s]["server"].pc = "mode"]
    /\ UNCHANGED <<secrets, manifests, over, advert>>

\* serverAttest: accept the proposal if we hold a secret, else ask for a gate.
ReadMode(s) ==
    LET c == conn[s].client
        p == conn[s].server
        resume == conn[s].mode = "R" /\ Live(p, c)
    IN  /\ Pc(s, "server") = "mode"
        /\ conn' = [conn EXCEPT ![s].ack =
                IF conn[s].mode = "F" THEN @ ELSE IF resume THEN "R" ELSE "F",
                               ![s].mode = "none"]
        /\ end' = [end EXCEPT ![s]["server"] =
                IF resume THEN Holding(secrets[p][c], "resume")
                          ELSE EnterGate(p)]
        /\ UNCHANGED <<secrets, manifests, over, advert, events>>

\* clientAttest: no secret at the server is not an error, a full gate follows.
ReadAck(s) ==
    /\ Pc(s, "client") = "ack" /\ conn[s].ack # "none"
    /\ end' = [end EXCEPT ![s]["client"] =
            IF conn[s].ack = "R" THEN [@ EXCEPT !.pc = "resume"]
                                 ELSE EnterGate(conn[s].client)]
    /\ conn' = [conn EXCEPT ![s].ack = "none"]
    /\ UNCHANGED <<secrets, manifests, over, advert, events>>

\* The end whose gate is done first names the secret both of them derive.
Derive(s) ==
    conn' = [conn EXCEPT ![s].id =
                IF @ # 0 THEN @ ELSE CHOOSE i \in Ids \ UsedIds : TRUE]

Remember(s, r, manifest) ==
    secrets' = [secrets EXCEPT ![Me(s, r)][Me(s, Other(r))] =
                    [rs |-> conn'[s].id, manifest |-> manifest, made |-> r]]

\* Mutant: the client hands the tunnel out and does not store the manifest.
MutantRunGate(s, r) ==
    LET peer == end[s][Other(r)]
    IN  /\ Pc(s, r) = "gate"
        /\ peer.pc \in {"gate", "store", "up"}
        /\ Derive(s) /\ Remember(s, r, peer.advertised)
        /\ end' = [end EXCEPT ![s][r] = [@ EXCEPT
                !.pc = "up", !.rs = conn'[s].id,
                !.manifest = peer.advertised, !.made = r]]
        /\ UNCHANGED <<manifests, over, advert, events>>

\* runGate: gate.Run succeeds at r, which both ends being in the gate allows,
\* or r's peer being past it; its secret is cached.  The client goes on to
\* store the peer's manifest; serverAttest discards it.
RunGate(s, r) ==
    LET peer == end[s][Other(r)]
    IN  /\ Pc(s, r) = "gate"
        /\ peer.pc \in {"gate", "store", "up"}
        /\ Derive(s) /\ Remember(s, r, peer.advertised)
        /\ end' = [end EXCEPT ![s][r] = [@ EXCEPT
                !.pc = IF r = "client" THEN "store" ELSE "up", !.rs = conn'[s].id,
                !.manifest = peer.advertised, !.made = r]]
        /\ UNCHANGED <<manifests, over, advert, events>>

\* What storeManifest leaves of an advertised manifest: nil if it is empty or
\* does not parse.
Parsed(v) == IF v \in Usable THEN v ELSE 0

\* The later of two manifests.
Later(v, w) == IF v < w THEN w ELSE v

\* A set-up under way brings an older manifest than v to the client.
BringsOlder(t, v) ==
    \/ Pc(t, "client") = "store" /\ end[t]["client"].manifest < v
    \/ /\ Pc(t, "client") \in {"ack", "gate"} /\ Pc(t, "server") \in {"gate", "up"}
       /\ end[t]["server"].advertised < v

\* The others between the same daemons that do, once s has stored v.
Overtaken(s, v) ==
    [t \in Slot |-> IF /\ conn[t].client = conn[s].client
                       /\ conn[t].server = conn[s].server
                       /\ BringsOlder(t, v)
                    THEN [conn[t] EXCEPT !.passed = Later(@, v)] ELSE conn[t]]

\* storeManifest, which runs when the gate's secret is cached already.
Store(s) ==
    LET c == conn[s].client
        p == conn[s].server
    IN  /\ Pc(s, "client") = "store"
        /\ manifests' = [manifests EXCEPT ![c][p] = Parsed(end[s]["client"].manifest)]
        /\ over' = [over EXCEPT ![c][p] = conn[s].passed]
        /\ conn' = Overtaken(s, end[s]["client"].manifest)
        /\ end' = [end EXCEPT ![s]["client"].pc = "up"]
        /\ UNCHANGED <<secrets, advert, events>>

\* Mutant: any tag is accepted.
MutantProves(s) == end[s]["client"].rs # 0

\* gate.Resume compares tags: they agree when both ends used one secret.
Proves(s) == end[s]["client"].rs = end[s]["server"].rs

Resume(s, r) ==
    /\ Pc(s, r) = "resume"
    /\ Pc(s, Other(r)) \in {"resume", "up"}
    /\ end' = [end EXCEPT ![s][r] =
            IF Proves(s) THEN [@ EXCEPT !.pc = "up"] ELSE Gone]
    /\ UNCHANGED <<secrets, manifests, over, advert, conn, events>>

\* An end whose connection broke, or whose peer closed it, gives up.
Fail(s, r) ==
    /\ Pc(s, r) \in InProgress \ {"store"}
    /\ conn[s].cut \/ Pc(s, Other(r)) = "failed"
    /\ end' = [end EXCEPT ![s][r] = Gone]
    /\ UNCHANGED <<secrets, manifests, over, advert, conn, events>>

\* The tunnel was used up, or the failed set-up is over.
Retire(s) ==
    /\ \A r \in Role : Pc(s, r) \in {"up", "failed"}
    /\ conn' = [conn EXCEPT ![s] = NoConn]
    /\ end' = [end EXCEPT ![s] = [r \in Role |-> Off]]
    /\ UNCHANGED <<secrets, manifests, over, advert, events>>

------------------------------------------------------------------------------
(* The environment. *)

\* A connection breaks during set-up, or setupTimeout passes.
Cut(s) ==
    /\ Happens
    /\ ~conn[s].cut /\ \E r \in Role : Pc(s, r) \in InProgress
    /\ conn' = [conn EXCEPT ![s].cut = TRUE]
    /\ UNCHANGED <<secrets, manifests, over, advert, end>>

\* A daemon restarts: its maps are gone, its connections break, and its new
\* instance key makes every entry under the old one unreachable.  It pulls its
\* manifest anew, or fails to and starts without one.
Restart(n) ==
    /\ Happens
    /\ secrets' = [m \in Node |-> [p \in Node |->
            IF n \in {m, p} THEN NoEntry ELSE secrets[m][p]]]
    /\ manifests' = [manifests EXCEPT ![n] = [p \in Node |-> 0]]
    /\ over' = [over EXCEPT ![n] = [p \in Node |-> 0]]
    /\ \E v \in {advert[n]} \cup (IF n \in Tools THEN {advert[n] + 1} ELSE {}) :
            v <= MaxVersion /\ advert' = [advert EXCEPT ![n] = v]
    /\ conn' = [s \in Slot |-> [conn[s] EXCEPT
            !.cut = @ \/ (\E r \in Role : Me(s, r) = n /\ Pc(s, r) # "off")]]
    /\ end' = [s \in Slot |-> [r \in Role |->
            IF Me(s, r) = n /\ Pc(s, r) # "off" THEN Gone ELSE end[s][r]]]

\* Refresh pulls a new manifest from the tool server: only one that parses
\* replaces the one before.
Publish(n) ==
    /\ Happens
    /\ n \in Tools /\ advert[n] + 1 \in Usable
    /\ advert' = [advert EXCEPT ![n] = @ + 1]
    /\ UNCHANGED <<secrets, manifests, over, conn, end>>

\* Mutant: every use of an entry pushes its expiry back.
MutantExpire(n, p) ==
    /\ Expires /\ Live(n, p)
    /\ \A s \in Slot, r \in Role : Pc(s, r) = "off"
    /\ secrets' = [secrets EXCEPT ![n][p] = NoEntry]
    /\ UNCHANGED <<manifests, over, advert, conn, end, events>>

\* The interval passes: the entry's expiry lies in the past.
Expire(n, p) ==
    /\ Expires /\ Live(n, p)
    /\ secrets' = [secrets EXCEPT ![n][p] = NoEntry]
    /\ UNCHANGED <<manifests, over, advert, conn, end, events>>

SetUp(s) ==
    \/ ReadMode(s) \/ ReadAck(s) \/ Store(s) \/ Retire(s)
    \/ \E r \in Role : RunGate(s, r) \/ Resume(s, r) \/ Fail(s, r)

Next ==
    \/ \E s \in Slot : SetUp(s) \/ Cut(s) \/ \E p \in Pairs \cup Seldom : Propose(s, p[1], p[2])
    \/ \E n \in Node : Restart(n) \/ Publish(n) \/ \E p \in Node : Expire(n, p)

Spec == Init /\ [][Next]_vars

\* Goroutines run, requests keep asking every pair for tunnels, and an entry
\* that nothing overwrites expires in the end.
FairSpec ==
    /\ Spec
    /\ \A s \in Slot : WF_vars(SetUp(s))
    /\ \A s \in Slot : WF_vars(\E p \in Pairs : Propose(s, p[1], p[2]))
    /\ \A n, p \in Node : WF_vars(Expire(n, p))

------------------------------------------------------------------------------
(* Properties. *)

\* When both ends accept, they rest on the same gate between them: the epoch
\* the client binds into payments names the gate the server honours.
SameGate ==
    \A s \in Slot :
        (\A r \in Role : Pc(s, r) = "up") => end[s]["client"].rs = end[s]["server"].rs

\* The capability manifest a client's enforcer reads is the peer's of the gate
\* behind its tunnel or a later one ("captured on the full gate, reused across
\* resumed connections", tunnel.go:51-52), except in the three cases where the
\* code lets go of it: the secret was made in a gate this daemon ran as server,
\* which discards the manifest; the gate that made it is yet to store it, for
\* runGate caches the secret first; or two gates with the peer overlapped and
\* the one that stored last was begun before the newer manifest was stored.
EnforcesAttested ==
    \A s \in Slot :
        LET c == conn[s].client
            p == conn[s].server
            e == end[s]["client"]
        IN  e.pc = "up" =>
                \/ \E v \in e.manifest..advert[p] : manifests[c][p] = Parsed(v)
                \/ e.made = "server"
                \/ \E t \in Slot : Pc(t, "client") = "store" /\ end[t]["client"].rs = e.rs
                \/ over[c][p] >= e.manifest

\* Tunnels keep coming: however set-ups interleave and whatever broke before,
\* a client that keeps asking gets another tunnel (self-healing, by resumption
\* or by falling back to the full gate).
SelfHealing == []<>(\E s \in Slot : Pc(s, "client") = "up")

==============================================================================

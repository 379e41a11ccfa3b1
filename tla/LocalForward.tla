----------------------------- MODULE LocalForward -----------------------------
(***************************************************************************)
(* From the agent's redirected connection to its tunnel: the handler       *)
(* recovers the destination (OrigDest), classifies the channel (guard.go), *)
(* takes a tunnel, writes the destination header and moves the bytes       *)
(* (handleLocalConnection in cmd/grimlock/main.go).  The tunnel's client   *)
(* end is a socket that encrypts in the kernel or a TLS connection on top  *)
(* of it (crypto.go, CreateDedicatedTunnel); tunnels the pool drops are    *)
(* closed unused.                                                          *)
(*                                                                         *)
(* What the peer's daemon reads from a tunnel is its stream of records;    *)
(* the first is taken for the destination header (SetupServer goes on from *)
(* there).  Enforcers decide as they like (GuardedProxy has their rules).  *)
(***************************************************************************)
EXTENDS OrigDest, FiniteSets, Sequences

CONSTANTS
    Tunnel,         \* tunnels that may be set up
    NoTunnel,
    AgentPorts,     \* --agent-ports
    Port,           \* Port[d]: the port of destination d
    FlagSets,       \* the settings of --attest, which otherwise is CA mode, and of
                    \* --*-enforce, --guard, --fast, --egress-default
    MaxData         \* bound on what an agent sends, in records

ASSUME ForwardAssumption ==
    /\ NoTunnel \notin Tunnel
    /\ Port \in [Dest -> Nat]
    /\ \A d \in Intercepted : Port[d] \in AgentPorts
    /\ MaxData \in Nat
    \* Start-up refuses a --guard that names an enforcer which is not enabled.
    /\ \A f \in FlagSets : \A g \in f.guards : g.enforcer \in f.enabled

VARIABLES
    flags,          \* the daemon's settings, one of FlagSets
    sent,           \* sent[c]: the records the agent has sent
    eof,            \* eof[c]: the agent sees the end of the answer
    fwd,            \* fwd[c]: the handler after Resolve
    tun             \* tun[t]: a tunnel as its client end leaves it

forwardVars == <<flags, sent, eof, fwd, tun>>
vars == <<routeVars, forwardVars>>

Forward == [pc : {"resolve", "obtain", "fast", "guarded", "done", "denied", "failed"},
            tunnel : Tunnel \cup {NoTunnel},
            moved : 0..MaxData,             \* records read from the agent
            up : BOOLEAN, down : BOOLEAN,   \* the two relays, while they run
            stuck : BOOLEAN]    \* the answer's waits in a write to the agent

\* "kernel": both directions handed over; "half": TLS_TX was set, TLS_RX failed,
\* so that records of the TLS connection are encrypted once more; "user".
Layers == {"kernel", "user", "half"}
Enforcers == UNION {f.enabled : f \in FlagSets}
TLSRecord == [kind |-> "tls"]       \* a TLS record where plaintext is expected
Records == {TLSRecord} \cup [kind : {"header"}, dest : Dest]
                       \cup [kind : {"data"}, vetted : SUBSET Enforcers]
Tun == [layer : Layers \cup {"none"},
        client : {"none", "open", "shut", "closed"},
        stream : Seq(Records),
        peer : {"open", "ended"}]   \* whether the peer's daemon ended its direction

\* Every variable holds a value of its type.
TypeOK ==
    /\ RouteTypeOK
    /\ flags \in FlagSets
    /\ sent \in [Conn -> 0..MaxData]
    /\ eof \in [Conn -> BOOLEAN]
    /\ fwd \in [Conn -> Forward]
    /\ tun \in [Tunnel -> Tun]
    /\ \A c \in Conn : fwd[c].moved <= sent[c]

Init ==
    /\ RouteInit
    /\ flags \in FlagSets
    /\ sent = [c \in Conn |-> 0]
    /\ eof = [c \in Conn |-> FALSE]
    /\ fwd = [c \in Conn |-> [pc |-> "resolve", tunnel |-> NoTunnel, moved |-> 0,
                              up |-> FALSE, down |-> FALSE, stuck |-> FALSE]]
    /\ tun = [t \in Tunnel |-> [layer |-> "none", client |-> "none",
                                stream |-> <<>>, peer |-> "open"]]

------------------------------------------------------------------------------
(* The egress policy. *)

\* Mutant: any --guard ends the default scope of all enforcers.
MutantChain(port) ==
    {e \in flags.enabled :
        \/ [port |-> port, enforcer |-> e] \in flags.guards
        \/ port \in AgentPorts /\ flags.guards = {}}

\* buildEgressPolicy: a --guard scopes an enforcer to a port; one that no
\* --guard names guards all agent ports.
Chain(port) ==
    {e \in flags.enabled :
        \/ [port |-> port, enforcer |-> e] \in flags.guards
        \/ port \in AgentPorts /\ \A g \in flags.guards : g.enforcer # e}

\* classify
Classify(port) ==
    IF Chain(port) # {} THEN "guarded"
    ELSE IF port \in flags.fast \/ ~flags.denyUnlisted THEN "fast"
    ELSE "deny"

------------------------------------------------------------------------------
(* The client's end of a tunnel. *)

\* A write on dataConn: the socket's record, or the TLS connection's.
Written(u, record) ==
    [u EXCEPT !.stream = Append(@, IF u.layer = "half" THEN TLSRecord ELSE record)]

\* Mutant: closeWrite finds no CloseWrite to call.
MutantCloseWrite(u) == u

\* closeWrite(dataConn): the kernel's socket is shut down; a TLS connection
\* sends close_notify, which only a socket that encrypts again distorts.
CloseWrite(u) ==
    [IF u.layer = "half" THEN Written(u, TLSRecord) ELSE u EXCEPT !.client = "shut"]

\* closer.Close(): the TLS connection sends close_notify through its socket,
\* unless that can no longer write; then the socket is closed.
Closed(u) ==
    [IF u.layer = "user" \/ u.client # "open" THEN u
     ELSE [u EXCEPT !.stream = Append(@, TLSRecord)] EXCEPT !.client = "closed"]

\* enableKTLS: any of its steps may fail.  Attestation then fails on a tunnel
\* that encrypts twice.
Usable(layer) == flags.attest => layer # "half"

\* The pool sets a tunnel up and closes it unused: it went stale, the pool was
\* full, or the set-up failed after the peer was satisfied.  CA mode has no pool.
Drop(t) ==
    /\ flags.attest /\ tun[t].client = "none"
    /\ \E layer \in Layers :
        /\ Usable(layer)
        /\ tun' = [tun EXCEPT ![t] =
                Closed([@ EXCEPT !.layer = layer, !.client = "open"])]
    /\ UNCHANGED <<routeVars, flags, sent, eof, fwd>>

\* The peer's daemon closes, or half-closes, its end of the tunnel.
PeerEnds(t) ==
    /\ tun[t].client \in {"open", "shut"} /\ tun[t].peer = "open"
    /\ tun' = [tun EXCEPT ![t].peer = "ended"]
    /\ UNCHANGED <<routeVars, flags, sent, eof, fwd>>

------------------------------------------------------------------------------
(* The handler. *)

Moved(c) == UNCHANGED <<routeVars, flags, sent>>

\* The agent reads the end of the answer if it is still there.
End(c) == eof' = [eof EXCEPT ![c] = @ \/ sock[c] \in AgentThere]

Send(c) ==
    /\ sock[c] = "open" /\ sent[c] < MaxData
    /\ sent' = [sent EXCEPT ![c] = @ + 1]
    /\ UNCHANGED <<routeVars, flags, eof, fwd, tun>>

\* No peer to send to, or a port that is denied: refused before a tunnel is
\* paid for, and the agent's connection closed.
Admit(c) ==
    LET d == handler[c].route
    IN  /\ fwd[c].pc = "resolve" /\ handler[c].pc = "routed"
        /\ IF d = NoDest \/ (d # NoDest /\ Classify(Port[d]) = "deny")
           THEN fwd' = [fwd EXCEPT ![c].pc = "denied"] /\ End(c)
           ELSE fwd' = [fwd EXCEPT ![c].pc = "obtain"] /\ UNCHANGED eof
        /\ UNCHANGED tun /\ Moved(c)

\* A tunnel is obtained and the destination header written to it.
Obtain(c, t) ==
    LET d == handler[c].route
    IN  /\ fwd[c].pc = "obtain" /\ tun[t].client = "none"
        /\ \E layer \in Layers :
            /\ Usable(layer)
            /\ tun' = [tun EXCEPT ![t] =
                    Written([@ EXCEPT !.layer = layer, !.client = "open"],
                            [kind |-> "header", dest |-> d])]
        /\ fwd' = [fwd EXCEPT ![c] =
                [@ EXCEPT !.pc = Classify(Port[d]), !.tunnel = t,
                          !.up = TRUE, !.down = TRUE]]
        /\ UNCHANGED eof /\ Moved(c)

\* The tunnel breaks under the header: both connections are closed, and the peer
\* gets nothing from either.
HeaderFails(c, t) ==
    /\ fwd[c].pc = "obtain" /\ tun[t].client = "none"
    /\ \E layer \in Layers :
        /\ Usable(layer)
        /\ tun' = [tun EXCEPT ![t].layer = layer, ![t].client = "closed"]
    /\ fwd' = [fwd EXCEPT ![c].pc = "failed"]
    /\ End(c) /\ Moved(c)

\* No tunnel is obtained.
ObtainFails(c) ==
    /\ fwd[c].pc = "obtain"
    /\ fwd' = [fwd EXCEPT ![c].pc = "failed"]
    /\ End(c)
    /\ UNCHANGED tun /\ Moved(c)

\* Mutant: a read that returned nothing passes the buffer on once more.
MutantMoveUp(c) ==
    /\ fwd[c].up /\ sock[c] # "aborted"
    /\ fwd' = [fwd EXCEPT ![c].moved = @ + 1]
    /\ tun' = [tun EXCEPT ![fwd[c].tunnel] =
            Written(@, [kind |-> "data", vetted |-> Chain(Port[handler[c].route])])]
    /\ UNCHANGED eof /\ Moved(c)

\* A record is read from the agent, vetted on a guarded channel, and written to
\* the tunnel.
MoveUp(c) ==
    LET d == handler[c].route
        t == fwd[c].tunnel
        vetted == IF fwd[c].pc = "guarded" THEN Chain(Port[d]) ELSE {}
    IN  /\ fwd[c].up /\ fwd[c].moved < sent[c] /\ sock[c] # "aborted"
        /\ fwd' = [fwd EXCEPT ![c].moved = @ + 1]
        /\ tun' = [tun EXCEPT ![t] = Written(@, [kind |-> "data", vetted |-> vetted])]
        /\ UNCHANGED eof /\ Moved(c)

\* The agent has no more to send or is gone, or the tunnel breaks under a
\* write; on a guarded channel also when a request is refused.
UpEnds(c) ==
    LET t == fwd[c].tunnel
    IN  /\ fwd[c].up
        /\ \/ sock[c] = "aborted"
           \/ sock[c] # "open" /\ fwd[c].moved = sent[c]
           \/ fwd[c].moved < sent[c]
                /\ (fwd[c].pc = "guarded" \/ tun[t].peer = "ended")
        /\ fwd' = [fwd EXCEPT ![c].up = FALSE]
        /\ tun' = IF fwd[c].pc = "fast" THEN [tun EXCEPT ![t] = CloseWrite(@)] ELSE tun
        /\ UNCHANGED eof /\ Moved(c)

\* A write of answer bytes, which has no deadline, waits for an agent that does
\* not read.  The wait may begin before the peer ends its direction and go on
\* after that.
Stalls(c) ==
    /\ fwd[c].down /\ ~fwd[c].stuck
    /\ tun[fwd[c].tunnel].peer = "open" /\ sock[c] \in AgentThere
    /\ fwd' = [fwd EXCEPT ![c].stuck = TRUE]
    /\ UNCHANGED <<tun, eof>> /\ Moved(c)

AgentReads(c) ==
    /\ fwd[c].stuck /\ sock[c] \in AgentThere
    /\ fwd' = [fwd EXCEPT ![c].stuck = FALSE]
    /\ UNCHANGED <<tun, eof>> /\ Moved(c)

\* Mutant: the end of the answer is not passed on to the agent.
MutantDownEnds(c) ==
    /\ fwd[c].down
    /\ \/ tun[fwd[c].tunnel].peer = "ended" /\ ~fwd[c].stuck
       \/ sock[c] \notin AgentThere
    /\ fwd' = [fwd EXCEPT ![c].down = FALSE, ![c].stuck = FALSE]
    /\ UNCHANGED <<tun, eof>> /\ Moved(c)

\* The peer has ended its direction and its bytes are written, or the agent is
\* gone, which a write shows.
DownEnds(c) ==
    /\ fwd[c].down
    /\ \/ tun[fwd[c].tunnel].peer = "ended" /\ ~fwd[c].stuck
       \/ sock[c] \notin AgentThere
    /\ fwd' = [fwd EXCEPT ![c].down = FALSE, ![c].stuck = FALSE]
    /\ IF fwd[c].pc = "fast" THEN End(c) ELSE UNCHANGED eof
    /\ UNCHANGED tun /\ Moved(c)

\* A fast channel is over when both relays are, a guarded one with the first of
\* its two goroutines: its tunnel's connection is closed before the closer.
Finish(c) ==
    LET t == fwd[c].tunnel
    IN  /\ fwd[c].pc \in {"fast", "guarded"}
        /\ IF fwd[c].pc = "fast" THEN ~fwd[c].up /\ ~fwd[c].down
                                 ELSE ~fwd[c].up \/ ~fwd[c].down
        /\ fwd' = [fwd EXCEPT ![c] =
                [@ EXCEPT !.pc = "done", !.up = FALSE, !.down = FALSE, !.stuck = FALSE]]
        /\ tun' = [tun EXCEPT ![t] =
                IF fwd[c].pc = "guarded"
                THEN [CloseWrite(@) EXCEPT !.client = "closed"] ELSE Closed(@)]
        /\ End(c) /\ Moved(c)

HandlerRuns(c) ==
    \/ Resolve(c) /\ UNCHANGED forwardVars
    \/ Admit(c) \/ \E t \in Tunnel : Obtain(c, t) \/ HeaderFails(c, t)
    \/ ObtainFails(c)
    \/ MoveUp(c) \/ UpEnds(c) \/ Stalls(c) \/ DownEnds(c) \/ Finish(c)

Next ==
    \/ Agents /\ UNCHANGED forwardVars
    \/ \E c \in Conn : HandlerRuns(c) \/ Send(c) \/ AgentReads(c)
    \/ \E t \in Tunnel : Drop(t) \/ PeerEnds(t)

Spec == Init /\ [][Next]_vars

\* A relay that reads the end of the answer, and a handler whose relays are over,
\* go on.  Nothing else is owed: tunnels, peers and agents may keep a relay
\* waiting for ever.
FairSpec ==
    /\ Spec
    /\ \A c \in Conn :
        /\ WF_vars(DownEnds(c) /\ tun[fwd[c].tunnel].peer = "ended")
        /\ WF_vars(Finish(c))

------------------------------------------------------------------------------
(* Properties. *)

HasTunnel(c) == fwd[c].tunnel # NoTunnel
Stream(c) == tun[fwd[c].tunnel].stream

\* What the peer's daemon reads from a tunnel a request used is the header of
\* the route and then the agent's own bytes, nothing before, between or after
\* them, however channel, tunnel and layers are closed.  In CA mode nothing
\* stops a tunnel on which only one direction was handed to the kernel.
StreamIntact ==
    \A c \in Conn :
        HasTunnel(c) /\ (flags.attest \/ tun[fwd[c].tunnel].layer # "half") =>
            /\ Len(Stream(c)) = 1 + fwd[c].moved
            /\ Stream(c)[1] = [kind |-> "header", dest |-> handler[c].route]
            /\ \A i \in 2..Len(Stream(c)) : Stream(c)[i].kind = "data"

\* What an agent sends to a port it dialled passes every enforcer that is enabled,
\* unless the flags scope that enforcer to other ports alone; with
\* --egress-default deny, nothing goes to a port without a rule.  This takes the
\* handler to have found its own token: one that lost it to a rival, or found
\* none, is governed by the rules of the port it is sent to.  Nothing is said of a
\* port that --guard and --fast both name: main.go:122, guard.go:80 and
\* channel-classes.md:46,228 have it "never enforced", channel-classes.md:64 has it
\* guarded, and so has the code.
Governed ==
    \A c \in Conn :
        LET port == Port[dialled[c]]
        IN  HasTunnel(c) /\ handler[c].token /\ rivals[c] = {} /\ port \notin flags.fast =>
                /\ \A i \in 1..Len(Stream(c)) : Stream(c)[i].kind = "data" =>
                        \A e \in flags.enabled \ Stream(c)[i].vetted :
                            /\ \E g \in flags.guards : g.enforcer = e
                            /\ [port |-> port, enforcer |-> e] \notin flags.guards
                /\ flags.denyUnlisted =>
                        \E e \in flags.enabled :
                            (\E g \in flags.guards : g.enforcer = e)
                                => [port |-> port, enforcer |-> e] \in flags.guards

\* The end of the answer reaches an agent that is still there and reads what it
\* is sent, whatever the other direction does.
EndPassedOn ==
    \A c \in Conn :
        WF_vars(AgentReads(c)) =>
            (HasTunnel(c) /\ tun[fwd[c].tunnel].peer = "ended"
                ~> eof[c] \/ sock[c] \notin AgentThere)

\* "The receiver dials 127.0.0.1:port" of the header the client wrote: the first
\* thing a peer's daemon reads on a tunnel that was set up is a header.
DialsAsAsked ==
    flags.attest => \A t \in Tunnel :
        tun[t].stream # <<>> => tun[t].stream[1].kind = "header"

==============================================================================

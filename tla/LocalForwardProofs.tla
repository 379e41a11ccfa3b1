-------------------------- MODULE LocalForwardProofs --------------------------
(***************************************************************************)
(* Proofs about the local side, for every set of connections, ports,       *)
(* destinations and tunnels, all settings of the flags and any amount of   *)
(* data: its types, where connections are routed (the first part, about    *)
(* the steps of OrigDest, from whose invariant TokenLinear follows too),   *)
(* what the peer reads from a tunnel, and what has vetted it.              *)
(***************************************************************************)
EXTENDS LocalForward, TLAPS

------------------------------------------------------------------------------
(* The routing token: agents, kernel and resolving handlers. *)


\* A step of an agent, the kernel or a handler that is resolving.
RouteStep == Agents \/ \E c \in Conn : Resolve(c)

\* A connection that has its source port.
HasPort(c) == sock[c] \in Connected \cup {"connecting"}

\* A source port is one connection's at a time.
OnePort ==
    \A b, c \in Conn : b # c /\ sport[b] = sport[c] => ~HasPort(b) \/ ~HasPort(c)

\* A connection that is being made has its destination under its cookie.
Waiting ==
    \A c \in Conn :
        /\ sock[c] = "connecting" => cookie_dest[c] = dialled[c]
        /\ sock[c] # "idle" => dialled[c] \in Intercepted

\* A handler is there once its connection is established.
Begun == \A c \in Conn : handler[c].pc = "none" <=> sock[c] \in {"idle", "connecting"}

\* A handler whose route is still to be found.
Searching(c) == handler[c].pc \in {"queued", "look", "take"}

\* Handlers that search on one port at the same time are rivals, and rivals
\* have been established.
Rivals ==
    \A b, c \in Conn :
        /\ b # c /\ sport[b] = sport[c] /\ Searching(b) /\ Searching(c) => b \in rivals[c]
        /\ b \in rivals[c] => handler[b].pc # "none"

\* While the agent is there and its handler has found nothing, the token is
\* there to be found.
TokenThere ==
    \A c \in Conn :
        sock[c] \in AgentThere /\ handler[c].pc \in {"queued", "look"} =>
            port_dest[sport[c]] = dialled[c] \/ rivals[c] # {}

\* A handler found its own connection's token or a rival's.
FoundOwn ==
    \A c \in Conn :
        handler[c].pc = "take" =>
            \E b \in {c} \cup rivals[c] : handler[c].route = dialled[b]

RouteInv ==
    /\ RouteTypeOK
    /\ OnePort
    /\ Waiting
    /\ Begun
    /\ Rivals
    /\ TokenLinear
    /\ TokenThere
    /\ FoundOwn
    /\ RoutedAsDialled

\* Nothing is dialled, and no token exists, when the daemon starts.
LEMMA RouteInitInv == RouteInit => RouteInv
<1> SUFFICES ASSUME RouteInit PROVE RouteInv
  OBVIOUS
<1>1. RouteTypeOK
  BY OrigDestAssumption DEF RouteInit, RouteTypeOK, Sock, Handler
<1>2. OnePort /\ Waiting /\ Begun /\ Rivals
  BY DEF RouteInit, OnePort, HasPort, Waiting, Begun, Rivals, Searching, Connected
<1>3. TokenLinear /\ TokenThere /\ FoundOwn /\ RoutedAsDialled
  BY DEF RouteInit, TokenLinear, TokenThere, FoundOwn, RoutedAsDialled, AgentThere
<1> QED
  BY <1>1, <1>2, <1>3 DEF RouteInv

\* A new connection takes a free port; handlers that still search on it go on.
LEMMA ConnectStep ==
    ASSUME RouteInv, NEW c \in Conn, NEW d \in Intercepted, Connect(c, d)
    PROVE  RouteInv'
<1> USE DEF Connect, RouteInv
<1>0. d \in Dest
  BY OrigDestAssumption
<1>1. RouteTypeOK'
  BY <1>0 DEF RouteTypeOK, Sock
<1>2. OnePort'
  BY DEF OnePort, HasPort, RouteTypeOK, Connected, Sock
<1>3. Waiting'
  BY DEF Waiting, RouteTypeOK
<1>4. Begun' /\ Rivals'
  BY DEF Begun, Rivals, Searching, RouteTypeOK
<1>5. TokenLinear'
  BY DEF TokenLinear, RouteTypeOK, Connected
<1>6. handler[c].pc = "none" /\ \A b \in Conn : c \notin rivals[b]
  BY DEF Begun, Rivals
<1>7. \A b \in Conn : b # c => dialled'[b] = dialled[b] /\ sock'[b] = sock[b]
  BY DEF RouteTypeOK
<1>8. TokenThere'
  BY <1>6, <1>7 DEF TokenThere, RouteTypeOK, AgentThere
<1>9. \A e \in Conn : \A b \in {e} \cup rivals[e] :
            handler[e].pc # "none" => b # c /\ b \in Conn
  BY <1>6 DEF RouteTypeOK
<1>10. FoundOwn' /\ RoutedAsDialled'
  BY <1>6, <1>7, <1>9 DEF FoundOwn, RoutedAsDialled
<1> QED
  BY <1>1, <1>2, <1>3, <1>4, <1>5, <1>8, <1>10

\* The established connection's token replaces whatever its port had, and
\* those that still search on the port become its rivals.
LEMMA EstablishStep ==
    ASSUME RouteInv, NEW c \in Conn, Establish(c)
    PROVE  RouteInv'
<1> USE DEF Establish, RouteInv
<1>0. Late(c) \subseteq Conn
  BY DEF Late
<1>1. RouteTypeOK'
  <2>1. rivals' \in [Conn -> SUBSET Conn]
    BY <1>0 DEF Meet, RouteTypeOK
  <2> QED
    BY <2>1 DEF RouteTypeOK, Sock, Handler
<1>2. OnePort'
  BY DEF OnePort, HasPort, RouteTypeOK, Connected
<1>3. Waiting'
  BY DEF Waiting, RouteTypeOK
<1>4. Begun'
  BY DEF Begun, RouteTypeOK, Handler
<1>5. /\ port_dest'[sport[c]] = dialled[c] /\ handler'[c].pc = "queued"
      /\ handler[c].pc = "none"
      /\ \A b \in Conn \ {c} : handler'[b] = handler[b] /\ sock'[b] = sock[b]
  BY DEF Waiting, RouteTypeOK, Handler, Begun
<1>6. TokenLinear'
  BY <1>5 DEF TokenLinear, RouteTypeOK, Connected, Handler
<1>7. /\ rivals'[c] = rivals[c] \cup Late(c)
      /\ \A b \in Late(c) : rivals'[b] = rivals[b] \cup {c}
      /\ \A b \in Conn : rivals[b] \subseteq rivals'[b]
      /\ \A b \in Conn : rivals'[b] \subseteq rivals[b] \cup Late(c) \cup {c}
  BY <1>0 DEF Meet, RouteTypeOK, Late
<1>8. Rivals'
  <2> SUFFICES ASSUME NEW a \in Conn, NEW b \in Conn
               PROVE  /\ a # b /\ sport[a] = sport[b] /\ Searching(a)' /\ Searching(b)'
                            => a \in rivals'[b]
                      /\ a \in rivals'[b] => handler'[a].pc # "none"
    BY DEF Rivals
  <2>1. ASSUME a # b, sport[a] = sport[b], Searching(a)', Searching(b)'
        PROVE  a \in rivals'[b]
    <3>1. CASE a = c
      BY <1>5, <1>7, <2>1, <3>1 DEF Late, Searching
    <3>2. CASE b = c
      BY <1>5, <1>7, <2>1, <3>2 DEF Late, Searching
    <3>3. CASE a # c /\ b # c
      BY <1>5, <1>7, <2>1, <3>3 DEF Rivals, Searching
    <3> QED
      BY <3>1, <3>2, <3>3
  <2>2. ASSUME a \in rivals'[b] PROVE handler'[a].pc # "none"
    BY <1>5, <1>7, <2>2 DEF Rivals, Late
  <2> QED
    BY <2>1, <2>2
<1>9. \A b \in Conn : b # c /\ sport[b] = sport[c] => sock[b] \notin Connected
  BY DEF OnePort, HasPort
<1>10. TokenThere'
  BY <1>5, <1>7, <1>9 DEF TokenThere, RouteTypeOK, AgentThere, Connected
<1>11. FoundOwn' /\ RoutedAsDialled'
  BY <1>5, <1>7 DEF FoundOwn, RoutedAsDialled, AgentThere
<1> QED
  BY <1>1, <1>2, <1>3, <1>4, <1>6, <1>8, <1>10, <1>11

\* An agent that lets go of its socket leaves its token alone.
LEMMA LetGoStep ==
    ASSUME RouteInv, NEW c \in Conn, Shut(c) \/ CloseSocket(c)
    PROVE  RouteInv'
<1>1. PICK s \in {"shut", "closing"} :
        /\ sock[c] \in AgentThere
        /\ sock' = [sock EXCEPT ![c] = s]
        /\ s = "shut" => sock[c] = "open"
        /\ UNCHANGED <<dialled, sport, cookie_dest, port_dest, handler, rivals>>
  BY DEF Shut, CloseSocket, AgentThere
<1> USE <1>1 DEF RouteInv
<1>2. RouteTypeOK'
  BY DEF RouteTypeOK, Sock
<1>3. OnePort'
  BY DEF OnePort, HasPort, RouteTypeOK, AgentThere, Connected
<1>4. Waiting' /\ Begun' /\ Rivals'
  BY DEF Waiting, Begun, Rivals, Searching, RouteTypeOK, AgentThere
<1>5. TokenLinear'
  BY DEF TokenLinear, RouteTypeOK, Connected, AgentThere
<1>6. TokenThere' /\ FoundOwn' /\ RoutedAsDialled'
  BY DEF TokenThere, FoundOwn, RoutedAsDialled, RouteTypeOK, AgentThere
<1> QED
  BY <1>2, <1>3, <1>4, <1>5, <1>6

\* The kernel frees the token of a socket that ends; no other connection that
\* is there has its port.
LEMMA StateCloseStep ==
    ASSUME RouteInv, NEW c \in Conn, StateClose(c)
    PROVE  RouteInv'
<1> USE DEF StateClose, RouteInv
<1>1. RouteTypeOK'
  BY DEF RouteTypeOK, Sock
<1>2. OnePort'
  BY DEF OnePort, HasPort, RouteTypeOK, Connected
<1>3. Waiting' /\ Begun' /\ Rivals'
  BY DEF Waiting, Begun, Rivals, Searching, RouteTypeOK, Connected
<1>4. TokenLinear'
  BY DEF TokenLinear, RouteTypeOK
<1>5. \A b \in Conn : b # c /\ sport[b] = sport[c] => sock[b] \notin AgentThere
  BY DEF OnePort, HasPort, AgentThere, Connected
<1>6. TokenThere'
  BY <1>5 DEF TokenThere, RouteTypeOK, AgentThere
<1>7. FoundOwn' /\ RoutedAsDialled'
  BY DEF FoundOwn, RoutedAsDialled, RouteTypeOK, AgentThere
<1> QED
  BY <1>1, <1>2, <1>3, <1>4, <1>6, <1>7

\* A handler takes up its connection.
LEMMA AcceptStep ==
    ASSUME RouteInv, NEW c \in Conn, Accept(c)
    PROVE  RouteInv'
<1> USE DEF Accept, RouteInv, kernelVars
<1>1. RouteTypeOK'
  BY DEF RouteTypeOK, Handler
<1>2. OnePort' /\ Waiting' /\ Begun' /\ Rivals'
  BY DEF OnePort, HasPort, Waiting, Begun, Rivals, Searching, RouteTypeOK, Handler
<1>3. TokenLinear'
  BY DEF TokenLinear, RouteTypeOK, Handler
<1>4. TokenThere' /\ FoundOwn' /\ RoutedAsDialled'
  BY DEF TokenThere, FoundOwn, RoutedAsDialled, RouteTypeOK, Handler
<1> QED
  BY <1>1, <1>2, <1>3, <1>4

\* A token that a handler finds is its connection's or a rival's; a handler that finds none to the end has no agent any more, or a rival.
LEMMA LookupStep ==
    ASSUME RouteInv, NEW c \in Conn, Lookup(c)
    PROVE  RouteInv'
<1> DEFINE found == port_dest[sport[c]]
<1> USE DEF RouteInv
<1>1. handler[c].pc = "look" /\ UNCHANGED <<sock, dialled, sport, cookie_dest, port_dest, rivals>>
  BY DEF Lookup, kernelVars
<1>2. sock[c] \notin {"idle", "connecting"}
  BY <1>1 DEF Begun
<1>4. CASE found # NoDest
  <2>1. handler' = [handler EXCEPT ![c] = [@ EXCEPT !.pc = "take", !.route = found]]
    BY <1>4 DEF Lookup
  <2>2. \E b \in {c} \cup rivals[c] : found = dialled[b]
    <3>1. PICK b \in Conn : /\ sport[b] = sport[c] /\ sock[b] \in Connected
                            /\ found = dialled[b] /\ handler[b].pc # "routed"
      BY <1>4 DEF TokenLinear, RouteTypeOK
    <3>2. Searching(b) /\ Searching(c)
      BY <1>1, <3>1 DEF Begun, Searching, RouteTypeOK, Handler, Connected
    <3> QED
      BY <3>1, <3>2 DEF Rivals
  <2>3. RouteTypeOK'
    BY <1>1, <2>1 DEF RouteTypeOK, Handler
  <2>4. OnePort' /\ Waiting' /\ Begun' /\ Rivals'
    BY <1>1, <2>1 DEF OnePort, HasPort, Waiting, Begun, Rivals, Searching, RouteTypeOK, Handler
  <2>5. TokenLinear'
    BY <1>1, <2>1 DEF TokenLinear, RouteTypeOK, Handler
  <2>6. TokenThere' /\ FoundOwn' /\ RoutedAsDialled'
    BY <1>1, <2>1, <2>2
       DEF TokenThere, FoundOwn, RoutedAsDialled, RouteTypeOK, Handler
  <2> QED
    BY <2>3, <2>4, <2>5, <2>6
<1>5. CASE found = NoDest /\ handler[c].tries + 1 < Tries
  <2>1. handler' = [handler EXCEPT ![c] = [@ EXCEPT !.tries = handler[c].tries + 1]]
    BY <1>5 DEF Lookup
  <2> DEFINE h == [handler[c] EXCEPT !.tries = handler[c].tries + 1]
  <2>0. h \in Handler /\ handler' = [handler EXCEPT ![c] = h]
    <3>1. handler[c] \in Handler /\ handler \in [Conn -> Handler]
      BY DEF RouteTypeOK
    <3>2. handler[c].tries + 1 \in 0..Tries
      BY <1>5, <3>1, OrigDestAssumption DEF Handler
    <3>3. h \in Handler
      BY <3>1, <3>2 DEF Handler
    <3> QED
      BY <2>1, <3>1, <3>3
  <2> HIDE DEF h
  <2>2. RouteTypeOK'
    BY <1>1, <2>0 DEF RouteTypeOK
  <2>3. OnePort' /\ Waiting' /\ Begun' /\ Rivals'
    BY <1>1, <2>1 DEF OnePort, HasPort, Waiting, Begun, Rivals, Searching, RouteTypeOK, Handler
  <2>4. TokenLinear'
    BY <1>1, <2>1 DEF TokenLinear, RouteTypeOK, Handler
  <2>5. TokenThere' /\ FoundOwn' /\ RoutedAsDialled'
    BY <1>1, <2>1
       DEF TokenThere, FoundOwn, RoutedAsDialled, RouteTypeOK, Handler
  <2> QED
    BY <2>2, <2>3, <2>4, <2>5
<1>6. CASE found = NoDest /\ ~(handler[c].tries + 1 < Tries)
  <2>1. handler' = [handler EXCEPT ![c] =
            [@ EXCEPT !.pc = "routed", !.route = Fallback, !.token = FALSE]]
    BY <1>6 DEF Lookup, Routed
  <2>2. sock[c] \notin AgentThere \/ rivals[c] # {}
    BY <1>1, <1>2, <1>6, OrigDestAssumption DEF TokenThere, Waiting
  <2>3. RouteTypeOK'
    BY <1>1, <2>1, OrigDestAssumption DEF RouteTypeOK, Handler
  <2>4. OnePort' /\ Waiting' /\ Begun' /\ Rivals'
    BY <1>1, <2>1 DEF OnePort, HasPort, Waiting, Begun, Rivals, Searching, RouteTypeOK, Handler
  <2>5. TokenLinear'
    <3> SUFFICES ASSUME NEW p \in SrcPort, port_dest[p] # NoDest
                 PROVE  \E b \in Conn :
                            /\ sport[b] = p /\ sock[b] \in Connected
                            /\ port_dest[p] = dialled[b]
                            /\ handler'[b].pc # "routed"
      BY <1>1 DEF TokenLinear
    <3>1. PICK b \in Conn : /\ sport[b] = p /\ sock[b] \in Connected
                            /\ port_dest[p] = dialled[b]
                            /\ handler[b].pc # "routed"
      BY DEF TokenLinear
    <3>2. b # c
      BY <1>6, <3>1
    <3> QED
      BY <2>1, <3>1, <3>2
  <2>6. TokenThere' /\ FoundOwn'
    BY <1>1, <2>1 DEF TokenThere, FoundOwn, RouteTypeOK, Handler
  <2>7. RoutedAsDialled'
    BY <1>1, <2>1, <2>2 DEF RoutedAsDialled, RouteTypeOK, Handler
  <2> QED
    BY <2>3, <2>4, <2>5, <2>6, <2>7
<1> QED
  BY <1>4, <1>5, <1>6

\* The token is taken; whoever else still looks for it is a rival.
LEMMA ConsumeStep ==
    ASSUME RouteInv, NEW c \in Conn, Consume(c)
    PROVE  RouteInv'
<1> USE DEF RouteInv
<1>1. /\ handler[c].pc = "take"
      /\ handler' = [handler EXCEPT ![c] =
            [@ EXCEPT !.pc = "routed", !.route = handler[c].route, !.token = TRUE]]
      /\ port_dest' = [port_dest EXCEPT ![sport[c]] = NoDest]
      /\ UNCHANGED <<sock, dialled, sport, cookie_dest, rivals>>
  BY DEF Consume, Routed
<1>3. RouteTypeOK'
  BY <1>1 DEF RouteTypeOK, Handler
<1>4. OnePort' /\ Waiting' /\ Begun' /\ Rivals'
  BY <1>1 DEF OnePort, HasPort, Waiting, Begun, Rivals, Searching, RouteTypeOK, Handler
<1>5. TokenLinear'
  <2> SUFFICES ASSUME NEW p \in SrcPort, port_dest'[p] # NoDest
               PROVE  \E b \in Conn :
                          /\ sport[b] = p /\ sock[b] \in Connected
                          /\ port_dest'[p] = dialled[b]
                          /\ handler'[b].pc # "routed"
    BY <1>1 DEF TokenLinear
  <2>1. p # sport[c] /\ port_dest'[p] = port_dest[p]
    BY <1>1 DEF RouteTypeOK
  <2>2. PICK b \in Conn : /\ sport[b] = p /\ sock[b] \in Connected
                          /\ port_dest[p] = dialled[b]
                          /\ handler[b].pc # "routed"
    BY <2>1 DEF TokenLinear
  <2> QED
    BY <1>1, <2>1, <2>2
<1>6. \A e \in Conn : e # c /\ sport[e] = sport[c] /\ Searching(e) => c \in rivals[e]
  BY <1>1 DEF Rivals, Searching
<1>7. TokenThere'
  BY <1>1, <1>6 DEF TokenThere, RouteTypeOK, Handler, Searching
<1>8. FoundOwn' /\ RoutedAsDialled'
  BY <1>1 DEF FoundOwn, RoutedAsDialled, RouteTypeOK, Handler
<1> QED
  BY <1>3, <1>4, <1>5, <1>7, <1>8

\* Every step of an agent, the kernel or a resolving handler, and every step
\* of something else, preserves the invariant.
LEMMA RouteStepInv == RouteInv /\ [RouteStep]_routeVars => RouteInv'
<1> SUFFICES ASSUME RouteInv, [RouteStep]_routeVars PROVE RouteInv'
  OBVIOUS
<1>1. CASE Agents
  BY <1>1, ConnectStep, EstablishStep, LetGoStep, StateCloseStep DEF Agents
<1>2. CASE \E c \in Conn : Resolve(c)
  BY <1>2, AcceptStep, LookupStep, ConsumeStep DEF Resolve
<1>3. CASE UNCHANGED routeVars
  BY <1>3 DEF RouteInv, routeVars, kernelVars, RouteTypeOK, OnePort, HasPort, Waiting,
              Begun, Rivals, Searching, TokenLinear, TokenThere, FoundOwn,
              RoutedAsDialled
<1> QED
  BY <1>1, <1>2, <1>3 DEF RouteStep

------------------------------------------------------------------------------
(* What the handlers do with the routes. *)

\* The type of everything beyond the routes.
ForwardTypeOK ==
    /\ flags \in FlagSets
    /\ sent \in [Conn -> 0..MaxData]
    /\ eof \in [Conn -> BOOLEAN]
    /\ fwd \in [Conn -> Forward]
    /\ tun \in [Tunnel -> Tun]
    /\ \A c \in Conn : fwd[c].moved <= sent[c]

\* A connection that is to get a tunnel was routed to a port that is not denied.
Admitted(c) ==
    /\ handler[c].pc = "routed"
    /\ handler[c].route \in Dest
    /\ Classify(Port[handler[c].route]) # "deny"

\* A connection without a tunnel moves nothing.
Unserved(c) ==
    fwd[c].tunnel = NoTunnel =>
        /\ fwd[c].pc \in {"resolve", "obtain", "denied", "failed"}
        /\ fwd[c].pc = "obtain" => Admitted(c)
        /\ ~fwd[c].up /\ ~fwd[c].down /\ ~fwd[c].stuck /\ fwd[c].moved = 0

\* The tunnel of a connection can be written until its up direction has ended:
\* only then a fast channel's tunnel is shut, and a guarded one's is closed at once.
Served(c) ==
    HasTunnel(c) =>
        LET u == tun[fwd[c].tunnel]
        IN  /\ Admitted(c)
            /\ fwd[c].pc \in {Classify(Port[handler[c].route]), "done"}
            /\ fwd[c].pc = "done" => ~fwd[c].up /\ ~fwd[c].down /\ ~fwd[c].stuck
            /\ fwd[c].pc = "fast" => (fwd[c].up <=> u.client = "open")
            /\ u.client # "none" /\ u.layer \in Layers /\ Usable(u.layer)

Datum(d) == [kind |-> "data", vetted |-> Chain(Port[d])]

\* What a connection's tunnel carries: its route, then its bytes, all of them
\* vetted by the port's enforcers; or TLS records where it encrypts twice.
Carried(c) ==
    HasTunnel(c) =>
        LET u == tun[fwd[c].tunnel]
            d == handler[c].route
        IN  IF u.layer = "half"
            THEN \A i \in 1..Len(u.stream) : u.stream[i] = TLSRecord
            ELSE /\ Len(u.stream) = 1 + fwd[c].moved
                 /\ u.stream[1] = [kind |-> "header", dest |-> d]
                 /\ \A i \in 2..Len(u.stream) : u.stream[i] = Datum(d)

\* A tunnel is one connection's; one that is nobody's carries no header.
OwnTunnel ==
    \A b, c \in Conn : b # c /\ HasTunnel(b) => fwd[b].tunnel # fwd[c].tunnel

Unclaimed ==
    \A t \in Tunnel :
        /\ tun[t].client = "none" => tun[t].stream = <<>>
        /\ (\A c \in Conn : fwd[c].tunnel # t) =>
                tun[t].stream = <<>> \/ tun[t].stream[1] = TLSRecord

IInv ==
    /\ RouteInv
    /\ ForwardTypeOK
    /\ \A c \in Conn : Unserved(c) /\ Served(c) /\ Carried(c)
    /\ OwnTunnel
    /\ Unclaimed

------------------------------------------------------------------------------
(* What the operators on a tunnel's end do. *)

\* A write adds one record and changes nothing else.
LEMMA WrittenIs ==
    ASSUME NEW u \in Tun, NEW r \in Records
    PROVE  /\ Written(u, r) \in Tun
           /\ Written(u, r).layer = u.layer
           /\ Written(u, r).client = u.client
           /\ Written(u, r).stream =
                Append(u.stream, IF u.layer = "half" THEN TLSRecord ELSE r)
<1>1. TLSRecord \in Records
  BY DEF Records
<1> QED
  BY <1>1 DEF Written, Tun

\* Half-closing adds a record only on a tunnel that encrypts twice.
LEMMA CloseWriteIs ==
    ASSUME NEW u \in Tun
    PROVE  /\ CloseWrite(u) \in Tun
           /\ CloseWrite(u).layer = u.layer
           /\ CloseWrite(u).client = "shut"
           /\ CloseWrite(u).stream =
                IF u.layer = "half" THEN Append(u.stream, TLSRecord) ELSE u.stream
<1>1. TLSRecord \in Records
  BY DEF Records
<1> QED
  BY <1>1, WrittenIs DEF CloseWrite, Tun

\* Closing adds a record only if the socket encrypts and was not shut before.
LEMMA ClosedIs ==
    ASSUME NEW u \in Tun
    PROVE  /\ Closed(u) \in Tun
           /\ Closed(u).layer = u.layer
           /\ Closed(u).client = "closed"
           /\ Closed(u).stream =
                IF u.layer = "user" \/ u.client # "open" THEN u.stream
                ELSE Append(u.stream, TLSRecord)
<1>1. TLSRecord \in Records
  BY DEF Records
<1>2. CASE u.layer = "user" \/ u.client # "open"
  BY <1>2 DEF Closed, Tun
<1>3. CASE ~(u.layer = "user" \/ u.client # "open")
  <2> DEFINE t == Append(u.stream, TLSRecord)
  <2>1. u.stream \in Seq(Records) /\ t \in Seq(Records)
    BY <1>1 DEF Tun
  <2>2. Closed(u) = [[u EXCEPT !.stream = t] EXCEPT !.client = "closed"]
    BY <1>3 DEF Closed, Tun
  <2> HIDE DEF t
  <2>3. /\ Closed(u) \in Tun /\ Closed(u).layer = u.layer
        /\ Closed(u).client = "closed" /\ Closed(u).stream = t
    BY <2>1, <2>2 DEF Tun
  <2> QED
    BY <1>3, <2>3 DEF t
<1> QED
  BY <1>2, <1>3

\* The first record stays the first, and what is added comes last.
LEMMA AppendIs ==
    ASSUME NEW s \in Seq(Records), NEW r \in Records
    PROVE  /\ Append(s, r) \in Seq(Records)
           /\ Append(s, r) # <<>>
           /\ Len(Append(s, r)) = Len(s) + 1
           /\ Append(s, r)[Len(s) + 1] = r
           /\ \A i \in 1..Len(s) : Append(s, r)[i] = s[i]
OBVIOUS

LEMMA AllStay ==
    ASSUME NEW s \in Seq(Records), NEW r \in Records, \A i \in 1..Len(s) : s[i] = r
    PROVE  \A i \in 1..Len(Append(s, r)) : Append(s, r)[i] = r
<1> DEFINE u == Append(s, r)
<1>1. /\ Len(u) = Len(s) + 1 /\ u[Len(s) + 1] = r /\ Len(s) \in Nat
      /\ \A i \in 1..Len(s) : u[i] = s[i]
  BY AppendIs
<1> HIDE DEF u
<1>2. \A i \in 1..Len(u) : i = Len(s) + 1 \/ i \in 1..Len(s)
  BY <1>1
<1> QED
  BY <1>1, <1>2 DEF u

\* One more of the same record.
LEMMA Extended ==
    ASSUME NEW s \in Seq(Records), NEW h, NEW r \in Records, NEW k \in Nat,
           Len(s) = 1 + k, s[1] = h, \A i \in 2..Len(s) : s[i] = r
    PROVE  /\ Len(Append(s, r)) = 1 + (k + 1)
           /\ Append(s, r)[1] = h
           /\ \A i \in 2..Len(Append(s, r)) : Append(s, r)[i] = r
<1> DEFINE u == Append(s, r)
<1>1. /\ Len(u) = Len(s) + 1 /\ u[Len(s) + 1] = r
      /\ \A i \in 1..Len(s) : u[i] = s[i]
  BY AppendIs
<1> HIDE DEF u
<1>2. u[1] = h
  BY <1>1
<1>3. ASSUME NEW i \in 2..Len(u) PROVE u[i] = r
  <2>1. i = Len(s) + 1 \/ (i \in 2..Len(s) /\ i \in 1..Len(s))
    BY <1>1
  <2> QED
    BY <1>1, <2>1
<1> QED
  BY <1>1, <1>2, <1>3 DEF u

\* The policy depends on the flags alone.
LEMMA PolicyStays ==
    ASSUME UNCHANGED flags
    PROVE  \A p \in Nat : /\ Chain(p)' = Chain(p)
                          /\ Classify(p)' = Classify(p)
BY DEF Chain, Classify

\* A port's class says whether it has enforcers.
LEMMA ClassIs ==
    ASSUME NEW p \in Nat
    PROVE  /\ Classify(p) \in {"fast", "guarded", "deny"}
           /\ Classify(p) = "guarded" <=> Chain(p) # {}
           /\ flags.denyUnlisted /\ Classify(p) # "deny" =>
                p \in flags.fast \/ Chain(p) # {}
BY DEF Classify

\* What is written to a tunnel is a record.
LEMMA DatumIsRecord ==
    ASSUME ForwardTypeOK, NEW d \in Dest
    PROVE  /\ Datum(d) \in Records
           /\ [kind |-> "header", dest |-> d] \in Records
           /\ Port[d] \in Nat
<1>1. Chain(Port[d]) \subseteq Enforcers
  BY DEF Chain, Enforcers, ForwardTypeOK
<1> QED
  BY <1>1, ForwardAssumption DEF Datum, Records

------------------------------------------------------------------------------
(* The steps. *)

\* Admission depends on the handler's route and the flags.
LEMMA AdmittedStays ==
    ASSUME IInv, UNCHANGED flags, NEW c \in Conn, Admitted(c), handler'[c] = handler[c]
    PROVE  /\ Admitted(c)'
           /\ Classify(Port[handler[c].route])' = Classify(Port[handler[c].route])
           /\ Datum(handler[c].route)' = Datum(handler[c].route)
<1>1. Port[handler[c].route] \in Nat
  BY DatumIsRecord DEF IInv, Admitted
<1> QED
  BY <1>1, PolicyStays DEF Admitted, Datum

\* A connection that a step leaves alone, together with its tunnel, is as before.
LEMMA LeftAlone ==
    ASSUME IInv, UNCHANGED flags, NEW c \in Conn,
           Admitted(c) => handler'[c] = handler[c],
           fwd'[c] = fwd[c],
           HasTunnel(c) =>
                LET u == tun[fwd[c].tunnel]
                    v == tun'[fwd[c].tunnel]
                IN  v.layer = u.layer /\ v.client = u.client /\ v.stream = u.stream
    PROVE  Unserved(c)' /\ Served(c)' /\ Carried(c)'
<1>1. Unserved(c)'
  BY AdmittedStays DEF IInv, Unserved
<1>2. Served(c)'
  BY AdmittedStays DEF IInv, Served, HasTunnel, Usable
<1>3. Carried(c)'
  <2>1. CASE HasTunnel(c)
    <3>1. Admitted(c)
      BY <2>1 DEF IInv, Served
    <3>2. handler'[c] = handler[c] /\ Datum(handler[c].route)' = Datum(handler[c].route)
      BY <3>1, AdmittedStays
    <3> QED
      BY <2>1, <3>2 DEF IInv, Carried, HasTunnel
  <2>2. CASE ~HasTunnel(c)
    BY <2>2 DEF Carried, HasTunnel
  <2> QED
    BY <2>1, <2>2
<1> QED
  BY <1>1, <1>2, <1>3

\* A step of one handler preserves the invariant if it does so for its own
\* connection and for the tunnels as a whole.
LEMMA OneHandler ==
    ASSUME IInv, UNCHANGED <<routeVars, flags>>, NEW c \in Conn,
           \A b \in Conn \ {c} :
                /\ fwd'[b] = fwd[b]
                /\ HasTunnel(b) => tun'[fwd[b].tunnel] = tun[fwd[b].tunnel],
           ForwardTypeOK', Unserved(c)', Served(c)', Carried(c)', OwnTunnel', Unclaimed'
    PROVE  IInv'
<1>1. RouteInv'
  BY RouteStepInv DEF IInv
<1>2. ASSUME NEW b \in Conn \ {c} PROVE Unserved(b)' /\ Served(b)' /\ Carried(b)'
  BY <1>2, LeftAlone DEF routeVars
<1> QED
  BY <1>1, <1>2 DEF IInv

\* Nothing is forwarded when the daemon starts.
LEMMA InitInv == Init => IInv
<1> SUFFICES ASSUME Init PROVE IInv
  OBVIOUS
<1>1. RouteInv
  BY RouteInitInv DEF Init
<1>2. ForwardTypeOK
  BY ForwardAssumption DEF Init, ForwardTypeOK, Forward, Tun
<1>3. ASSUME NEW c \in Conn PROVE Unserved(c) /\ Served(c) /\ Carried(c)
  BY DEF Init, Unserved, Served, Carried, HasTunnel
<1>4. OwnTunnel /\ Unclaimed
  BY DEF Init, OwnTunnel, Unclaimed, HasTunnel
<1> QED
  BY <1>1, <1>2, <1>3, <1>4 DEF IInv

\* Agents, kernel and resolving handlers leave routed handlers alone.
LEMMA RouteStepKeeps ==
    ASSUME IInv, RouteStep, UNCHANGED forwardVars
    PROVE  IInv'
<1>1. RouteInv'
  BY RouteStepInv DEF IInv
<1>2. ASSUME NEW c \in Conn, handler[c].pc = "routed" PROVE handler'[c] = handler[c]
  <2>1. handler \in [Conn -> Handler] /\ Begun
    BY DEF IInv, RouteInv, RouteTypeOK
  <2>2. CASE Agents
    <3>1. \A b \in Conn : Establish(b) => handler[b].pc = "none"
      BY <2>1 DEF Begun, Establish
    <3> QED
      BY <1>2, <2>1, <2>2, <3>1
         DEF Agents, Connect, Establish, Shut, CloseSocket, StateClose
  <2>3. CASE \E b \in Conn : Resolve(b)
    BY <1>2, <2>1, <2>3 DEF Resolve, Accept, Lookup, Consume
  <2> QED
    BY <2>2, <2>3 DEF RouteStep
<1>3. ASSUME NEW c \in Conn PROVE Unserved(c)' /\ Served(c)' /\ Carried(c)'
  BY <1>2, LeftAlone DEF Admitted, forwardVars
<1>4. ForwardTypeOK' /\ OwnTunnel' /\ Unclaimed'
  BY DEF IInv, ForwardTypeOK, OwnTunnel, Unclaimed, HasTunnel, forwardVars
<1> QED
  BY <1>1, <1>3, <1>4 DEF IInv

\* What an agent sends waits for its handler.
LEMMA SendStep ==
    ASSUME IInv, NEW c \in Conn, Send(c)
    PROVE  IInv'
<1> USE DEF Send
<1>1. RouteInv'
  BY RouteStepInv DEF IInv
<1>2. ForwardTypeOK'
  BY ForwardAssumption DEF IInv, ForwardTypeOK, Forward
<1>3. ASSUME NEW b \in Conn PROVE Unserved(b)' /\ Served(b)' /\ Carried(b)'
  BY LeftAlone DEF routeVars
<1>4. OwnTunnel' /\ Unclaimed'
  BY DEF IInv, OwnTunnel, Unclaimed, HasTunnel
<1> QED
  BY <1>1, <1>2, <1>3, <1>4 DEF IInv

\* The peer's end of a tunnel changes nothing of the client's.
LEMMA PeerEndsStep ==
    ASSUME IInv, NEW t \in Tunnel, PeerEnds(t)
    PROVE  IInv'
<1>1. tun' = [tun EXCEPT ![t].peer = "ended"] /\ UNCHANGED <<routeVars, flags, sent, eof, fwd>>
  BY DEF PeerEnds
<1>2. tun \in [Tunnel -> Tun] /\ fwd \in [Conn -> Forward]
  BY DEF IInv, ForwardTypeOK
<1>3. \A v \in Tunnel : /\ tun'[v] \in Tun
                        /\ tun'[v].layer = tun[v].layer /\ tun'[v].client = tun[v].client
                        /\ tun'[v].stream = tun[v].stream
  BY <1>1, <1>2 DEF Tun
<1>4. RouteInv'
  BY <1>1, RouteStepInv DEF IInv
<1>5. ForwardTypeOK'
  BY <1>1, <1>3 DEF IInv, ForwardTypeOK
<1>6. ASSUME NEW b \in Conn PROVE Unserved(b)' /\ Served(b)' /\ Carried(b)'
  BY <1>1, <1>2, <1>3, LeftAlone DEF routeVars, HasTunnel, Forward
<1>7. OwnTunnel' /\ Unclaimed'
  BY <1>1, <1>3 DEF IInv, OwnTunnel, Unclaimed, HasTunnel
<1> QED
  BY <1>4, <1>5, <1>6, <1>7 DEF IInv

\* A tunnel the pool drops is nobody's, and carries nothing but a TLS record.
LEMMA DropStep ==
    ASSUME IInv, NEW t \in Tunnel, Drop(t)
    PROVE  IInv'
<1>1. PICK layer \in Layers :
        tun' = [tun EXCEPT ![t] = Closed([tun[t] EXCEPT !.layer = layer, !.client = "open"])]
  BY DEF Drop
<1>2. tun[t].client = "none" /\ UNCHANGED <<routeVars, flags, sent, eof, fwd>>
  BY DEF Drop
<1>3. tun \in [Tunnel -> Tun] /\ fwd \in [Conn -> Forward]
  BY DEF IInv, ForwardTypeOK
<1> DEFINE opened == [tun[t] EXCEPT !.layer = layer, !.client = "open"]
<1>4. opened \in Tun /\ opened.stream = <<>>
  BY <1>2, <1>3 DEF IInv, Unclaimed, Tun
<1>5. tun'[t] = Closed(opened) /\ \A v \in Tunnel \ {t} : tun'[v] = tun[v]
  BY <1>1, <1>3
<1>6. /\ tun'[t] \in Tun /\ tun'[t].client = "closed"
      /\ tun'[t].stream = <<>> \/ tun'[t].stream[1] = TLSRecord
  <2>1. TLSRecord \in Records /\ opened.stream \in Seq(Records)
    BY <1>4 DEF Records, Tun
  <2>2. Append(opened.stream, TLSRecord)[1] = TLSRecord
    BY <1>4, <2>1
  <2> HIDE DEF opened
  <2>3. /\ Closed(opened) \in Tun /\ Closed(opened).client = "closed"
        /\ Closed(opened).stream \in {opened.stream, Append(opened.stream, TLSRecord)}
    BY <1>4, ClosedIs
  <2> QED
    BY <1>4, <1>5, <2>2, <2>3
<1>7. \A b \in Conn : fwd[b].tunnel # t
  BY <1>2, ForwardAssumption DEF IInv, Served, HasTunnel
<1>8. RouteInv'
  BY <1>2, RouteStepInv DEF IInv
<1>9. ForwardTypeOK'
  BY <1>1, <1>2, <1>5, <1>6 DEF IInv, ForwardTypeOK
<1>10. ASSUME NEW b \in Conn PROVE Unserved(b)' /\ Served(b)' /\ Carried(b)'
  BY <1>2, <1>3, <1>5, <1>7, LeftAlone DEF routeVars, HasTunnel, Forward
<1>11. OwnTunnel' /\ Unclaimed'
  BY <1>2, <1>5, <1>6 DEF IInv, OwnTunnel, Unclaimed, HasTunnel
<1> QED
  BY <1>8, <1>9, <1>10, <1>11 DEF IInv

\* A connection is admitted, or refused and closed, before it gets a tunnel.
LEMMA AdmitStep ==
    ASSUME IInv, NEW c \in Conn, Admit(c) \/ ObtainFails(c)
    PROVE  IInv'
<1>1. /\ UNCHANGED <<routeVars, flags, sent, tun>>
      /\ fwd[c].pc \in {"resolve", "obtain"}
  BY DEF Admit, ObtainFails, Moved
<1>2. PICK pc \in {"obtain", "denied", "failed"} :
        /\ fwd' = [fwd EXCEPT ![c].pc = pc]
        /\ pc = "obtain" => Admitted(c)
  <2>1. CASE Admit(c)
    BY <2>1 DEF Admit, Admitted, IInv, RouteInv, RouteTypeOK, Handler
  <2>2. CASE ObtainFails(c)
    BY <2>2 DEF ObtainFails
  <2> QED
    BY <2>1, <2>2
<1>3. fwd \in [Conn -> Forward] /\ eof \in [Conn -> BOOLEAN]
  BY DEF IInv, ForwardTypeOK
<1>4. /\ fwd[c].tunnel = NoTunnel
      /\ fwd'[c] = [fwd[c] EXCEPT !.pc = pc] /\ fwd'[c] \in Forward
      /\ \A b \in Conn \ {c} : fwd'[b] = fwd[b]
  <2>1. fwd[c].tunnel = NoTunnel
    BY <1>1, <1>3, ClassIs, DatumIsRecord DEF IInv, Served, HasTunnel, Admitted
  <2> QED
    BY <1>2, <1>3, <2>1 DEF Forward
<1>5. ForwardTypeOK'
  <2>1. eof' \in [Conn -> BOOLEAN]
    BY <1>3 DEF Admit, ObtainFails, End
  <2> QED
    BY <1>1, <1>2, <1>3, <1>4, <2>1 DEF IInv, ForwardTypeOK, Forward
<1>6. Unserved(c)' /\ Served(c)' /\ Carried(c)'
  <2>1. Admitted(c) => Admitted(c)'
    BY <1>1, AdmittedStays DEF routeVars
  <2> QED
    BY <1>2, <1>3, <1>4, <2>1 DEF IInv, Unserved, Served, Carried, HasTunnel, Forward
<1>7. OwnTunnel' /\ Unclaimed'
  BY <1>1, <1>3, <1>4 DEF IInv, OwnTunnel, Unclaimed, HasTunnel, Forward
<1> QED
  BY <1>1, <1>4, <1>5, <1>6, <1>7, OneHandler

\* A tunnel that is nobody's becomes the connection's, with its header.
LEMMA ObtainStep ==
    ASSUME IInv, NEW c \in Conn, NEW t \in Tunnel, Obtain(c, t)
    PROVE  IInv'
<1> DEFINE d == handler[c].route
           header == [kind |-> "header", dest |-> d]
<1>1. /\ UNCHANGED <<routeVars, flags, sent, eof>>
      /\ fwd[c].pc = "obtain" /\ tun[t].client = "none"
      /\ fwd' = [fwd EXCEPT ![c] = [fwd[c] EXCEPT !.pc = Classify(Port[d]), !.tunnel = t,
                                                !.up = TRUE, !.down = TRUE]]
  BY DEF Obtain, Moved
<1>2. PICK layer \in Layers :
        /\ Usable(layer)
        /\ tun' = [tun EXCEPT ![t] =
                Written([tun[t] EXCEPT !.layer = layer, !.client = "open"], header)]
  BY DEF Obtain
<1> DEFINE opened == [tun[t] EXCEPT !.layer = layer, !.client = "open"]
<1>3. fwd \in [Conn -> Forward] /\ tun \in [Tunnel -> Tun] /\ fwd[c] \in Forward
  BY DEF IInv, ForwardTypeOK
<1>4. fwd[c].tunnel = NoTunnel /\ Admitted(c) /\ fwd[c].moved = 0
  <2>1. fwd[c].tunnel = NoTunnel
    BY <1>1, ClassIs, DatumIsRecord DEF IInv, Served, HasTunnel, Admitted
  <2> QED
    BY <1>1, <2>1 DEF IInv, Unserved
<1>5. d \in Dest /\ Classify(Port[d]) \in {"fast", "guarded"}
      /\ header \in Records /\ TLSRecord \in Records
  BY <1>4, ClassIs, DatumIsRecord DEF IInv, Admitted, Records
<1>6. /\ opened \in Tun /\ opened.stream = <<>>
      /\ opened.layer = layer /\ opened.client = "open"
  BY <1>1, <1>3 DEF IInv, Unclaimed, Tun
<1>7. /\ tun'[t] \in Tun
      /\ tun'[t].layer = layer /\ tun'[t].client = "open"
      /\ Len(tun'[t].stream) = 1
      /\ tun'[t].stream[1] = IF layer = "half" THEN TLSRecord ELSE header
      /\ \A v \in Tunnel \ {t} : tun'[v] = tun[v]
  <2>1. tun'[t] = Written(opened, header) /\ \A v \in Tunnel \ {t} : tun'[v] = tun[v]
    BY <1>2, <1>3
  <2> HIDE DEF opened, header
  <2>2. /\ Written(opened, header) \in Tun
        /\ Written(opened, header).layer = layer
        /\ Written(opened, header).client = "open"
        /\ Written(opened, header).stream =
                Append(opened.stream, IF layer = "half" THEN TLSRecord ELSE header)
    BY <1>5, <1>6, WrittenIs
  <2>3. \A r \in Records : Len(Append(<<>>, r)) = 1 /\ Append(<<>>, r)[1] = r
    OBVIOUS
  <2> QED
    BY <1>5, <1>6, <2>1, <2>2, <2>3
<1>8. \A b \in Conn : fwd[b].tunnel # t
  BY <1>1, ForwardAssumption DEF IInv, Served, HasTunnel
<1>9. /\ fwd'[c] \in Forward
      /\ fwd'[c].pc = Classify(Port[d]) /\ fwd'[c].tunnel = t
      /\ fwd'[c].up = TRUE /\ fwd'[c].down = TRUE /\ fwd'[c].moved = fwd[c].moved
      /\ \A b \in Conn \ {c} : fwd'[b] = fwd[b]
  BY <1>1, <1>3, <1>5 DEF Forward
<1>10. ForwardTypeOK'
  BY <1>1, <1>2, <1>3, <1>7, <1>9 DEF IInv, ForwardTypeOK
<1>11. /\ Admitted(c)' /\ handler'[c] = handler[c]
       /\ Classify(Port[d])' = Classify(Port[d])
  BY <1>1, <1>4, AdmittedStays DEF routeVars
<1>12. Unserved(c)' /\ Served(c)'
  <2>1. Usable(layer)'
    BY <1>1, <1>2 DEF Usable
  <2>2. Served(c)'
    BY <1>5, <1>7, <1>9, <1>11, <2>1 DEF Served
  <2> QED
    BY <1>9, <2>2, ForwardAssumption DEF Unserved
<1>13. Carried(c)'
  <2>1. tun'[t].stream \in Seq(Records)
    BY <1>7 DEF Tun
  <2> QED
    BY <1>4, <1>7, <1>9, <1>11, <2>1 DEF Carried, HasTunnel
<1>14. OwnTunnel'
  BY <1>8, <1>9, ForwardAssumption DEF IInv, OwnTunnel, HasTunnel
<1>15. Unclaimed'
  BY <1>4, <1>7, <1>9, ForwardAssumption DEF IInv, Unclaimed
<1>16. \A b \in Conn \ {c} : HasTunnel(b) => tun'[fwd[b].tunnel] = tun[fwd[b].tunnel]
  BY <1>3, <1>7, <1>8 DEF HasTunnel, Forward
<1> QED
  BY <1>1, <1>9, <1>10, <1>12, <1>13, <1>14, <1>15, <1>16, OneHandler

\* A tunnel that breaks under the header stays nobody's, and empty.
LEMMA HeaderFailsStep ==
    ASSUME IInv, NEW c \in Conn, NEW t \in Tunnel, HeaderFails(c, t)
    PROVE  IInv'
<1>1. /\ UNCHANGED <<routeVars, flags, sent>>
      /\ fwd[c].pc = "obtain" /\ tun[t].client = "none"
      /\ fwd' = [fwd EXCEPT ![c].pc = "failed"]
      /\ eof' = [eof EXCEPT ![c] = @ \/ sock[c] \in AgentThere]
  BY DEF HeaderFails, Moved, End
<1>2. PICK layer \in Layers :
        tun' = [tun EXCEPT ![t] = [tun[t] EXCEPT !.layer = layer, !.client = "closed"]]
  BY DEF HeaderFails
<1>3. /\ fwd \in [Conn -> Forward] /\ tun \in [Tunnel -> Tun]
      /\ eof \in [Conn -> BOOLEAN] /\ fwd[c] \in Forward
  BY DEF IInv, ForwardTypeOK
<1>4. fwd[c].tunnel = NoTunnel
  BY <1>1, ClassIs, DatumIsRecord DEF IInv, Served, HasTunnel, Admitted
<1>5. /\ tun'[t] \in Tun /\ tun'[t].client = "closed" /\ tun'[t].stream = <<>>
      /\ \A v \in Tunnel \ {t} : tun'[v] = tun[v]
  BY <1>1, <1>2, <1>3 DEF IInv, Unclaimed, Tun
<1>6. /\ fwd'[c] = [fwd[c] EXCEPT !.pc = "failed"] /\ fwd'[c] \in Forward
      /\ fwd'[c].tunnel = NoTunnel
      /\ \A b \in Conn \ {c} : fwd'[b] = fwd[b]
  BY <1>1, <1>3, <1>4 DEF Forward
<1>7. \A b \in Conn : fwd[b].tunnel # t /\ fwd'[b].tunnel # t
  <2>1. \A b \in Conn : fwd[b].tunnel # t
    BY <1>1, ForwardAssumption DEF IInv, Served, HasTunnel
  <2> QED
    BY <1>6, <2>1, ForwardAssumption
<1>8. ForwardTypeOK'
  <2>1. tun' \in [Tunnel -> Tun] /\ fwd' \in [Conn -> Forward] /\ eof' \in [Conn -> BOOLEAN]
    BY <1>1, <1>2, <1>3, <1>5, <1>6
  <2>2. fwd'[c].moved = fwd[c].moved
    BY <1>3, <1>6 DEF Forward
  <2> QED
    BY <1>1, <1>6, <2>1, <2>2 DEF IInv, ForwardTypeOK
<1>9. Unserved(c)' /\ Served(c)' /\ Carried(c)'
  BY <1>3, <1>4, <1>6 DEF IInv, Unserved, Served, Carried, HasTunnel, Forward
<1>10. OwnTunnel'
  BY <1>6, <1>7 DEF IInv, OwnTunnel, HasTunnel
<1>11. Unclaimed'
  BY <1>4, <1>5, <1>6, <1>7, ForwardAssumption DEF IInv, Unclaimed
<1>12. \A b \in Conn \ {c} : HasTunnel(b) => tun'[fwd[b].tunnel] = tun[fwd[b].tunnel]
  BY <1>3, <1>5, <1>7 DEF HasTunnel, Forward
<1> QED
  BY <1>1, <1>6, <1>8, <1>9, <1>10, <1>11, <1>12, OneHandler

\* What the steps of a connection with a tunnel have in common: they change
\* the connection's progress and its own tunnel.
LEMMA ServedStep ==
    ASSUME IInv, UNCHANGED <<routeVars, flags, sent>>, NEW c \in Conn, HasTunnel(c),
           NEW f \in Forward, NEW u \in Tun,
           fwd' = [fwd EXCEPT ![c] = f], tun' = [tun EXCEPT ![fwd[c].tunnel] = u],
           eof' \in [Conn -> BOOLEAN],
           f.tunnel = fwd[c].tunnel, f.moved <= sent[c], u.client # "none",
           Served(c)', Carried(c)'
    PROVE  IInv'
<1> DEFINE t == fwd[c].tunnel
<1>1. fwd \in [Conn -> Forward] /\ tun \in [Tunnel -> Tun] /\ t \in Tunnel
  BY DEF IInv, ForwardTypeOK, HasTunnel, Forward
<1>2. /\ fwd'[c] = f /\ \A b \in Conn \ {c} : fwd'[b] = fwd[b]
      /\ tun'[t] = u /\ \A v \in Tunnel \ {t} : tun'[v] = tun[v]
  BY <1>1
<1>3. ForwardTypeOK'
  BY <1>1, <1>2 DEF IInv, ForwardTypeOK
<1>4. Unserved(c)'
  BY <1>2 DEF Unserved, HasTunnel
<1>5. OwnTunnel'
  BY <1>2 DEF IInv, OwnTunnel, HasTunnel
<1>6. Unclaimed'
  BY <1>2 DEF IInv, Unclaimed
<1>7. \A b \in Conn \ {c} : HasTunnel(b) => tun'[fwd[b].tunnel] = tun[fwd[b].tunnel]
  BY <1>1, <1>2 DEF IInv, OwnTunnel, HasTunnel, Forward
<1> QED
  BY <1>2, <1>3, <1>4, <1>5, <1>6, <1>7, OneHandler

\* A handler that relays has a tunnel to an admitted port, and its class.
LEMMA Relaying ==
    ASSUME IInv, NEW c \in Conn,
           fwd[c].up \/ fwd[c].down \/ fwd[c].stuck \/ fwd[c].pc \in {"fast", "guarded"}
    PROVE  /\ HasTunnel(c) /\ fwd[c].tunnel \in Tunnel
           /\ fwd[c] \in Forward /\ tun[fwd[c].tunnel] \in Tun
           /\ Admitted(c) /\ handler[c].route \in Dest
           /\ fwd[c].pc = Classify(Port[handler[c].route])
           /\ fwd[c].pc \in {"fast", "guarded"}
<1>1. fwd \in [Conn -> Forward] /\ tun \in [Tunnel -> Tun]
  BY DEF IInv, ForwardTypeOK
<1>2. HasTunnel(c)
  BY DEF IInv, Unserved, HasTunnel
<1>3. Admitted(c) /\ fwd[c].pc = Classify(Port[handler[c].route])
  BY <1>2 DEF IInv, Served
<1>4. handler[c].route \in Dest /\ Classify(Port[handler[c].route]) # "deny"
  BY <1>3 DEF Admitted
<1>5. Port[handler[c].route] \in Nat
  BY <1>4, DatumIsRecord DEF IInv
<1> QED
  BY <1>1, <1>2, <1>3, <1>4, <1>5, ClassIs DEF HasTunnel, Forward

\* A record is moved into the tunnel, vetted by the port's enforcers.
LEMMA MoveUpStep ==
    ASSUME IInv, NEW c \in Conn, MoveUp(c)
    PROVE  IInv'
<1> DEFINE d == handler[c].route
           t == fwd[c].tunnel
           f == [fwd[c] EXCEPT !.moved = fwd[c].moved + 1]
           u == Written(tun[t], Datum(d))
<1>1. /\ UNCHANGED <<routeVars, flags, sent, eof>>
      /\ fwd[c].up /\ fwd[c].moved < sent[c]
      /\ fwd' = [fwd EXCEPT ![c] = f]
  BY DEF MoveUp, Moved
<1>2. /\ HasTunnel(c) /\ t \in Tunnel /\ fwd[c] \in Forward /\ tun[t] \in Tun
      /\ Admitted(c) /\ d \in Dest
      /\ fwd[c].pc = Classify(Port[d]) /\ fwd[c].pc \in {"fast", "guarded"}
  BY <1>1, Relaying
<1>3. tun' = [tun EXCEPT ![t] = u]
  <2>1. (IF fwd[c].pc = "guarded" THEN Chain(Port[d]) ELSE {}) = Chain(Port[d])
    BY <1>2, ClassIs, DatumIsRecord DEF IInv
  <2> QED
    BY <2>1 DEF MoveUp, Datum
<1>4. Datum(d) \in Records /\ TLSRecord \in Records
  BY <1>2, DatumIsRecord DEF IInv, Records
<1>5. /\ u \in Tun /\ u.layer = tun[t].layer /\ u.client = tun[t].client
      /\ u.stream = Append(tun[t].stream, IF u.layer = "half" THEN TLSRecord ELSE Datum(d))
  BY <1>2, <1>4, WrittenIs
<1>6. /\ f \in Forward /\ f.pc = fwd[c].pc /\ f.tunnel = t
      /\ f.up = fwd[c].up /\ f.down = fwd[c].down
      /\ f.moved = fwd[c].moved + 1 /\ f.moved <= sent[c]
  <2>1. sent[c] \in 0..MaxData /\ fwd[c].moved \in 0..MaxData
    BY <1>2 DEF IInv, ForwardTypeOK, Forward
  <2>2. fwd[c].moved + 1 \in 0..MaxData /\ fwd[c].moved + 1 <= sent[c]
    BY <1>1, <2>1, ForwardAssumption
  <2> QED
    BY <1>2, <2>2 DEF Forward
<1>7. /\ fwd \in [Conn -> Forward] /\ tun \in [Tunnel -> Tun]
      /\ eof \in [Conn -> BOOLEAN]
  BY DEF IInv, ForwardTypeOK
<1> HIDE DEF f, u
<1>8. fwd'[c] = f /\ tun'[t] = u
  BY <1>1, <1>2, <1>3, <1>7
<1>9. /\ Admitted(c)' /\ handler'[c] = handler[c]
      /\ Classify(Port[d])' = Classify(Port[d]) /\ Datum(d)' = Datum(d)
  BY <1>1, <1>2, AdmittedStays DEF routeVars
<1>10. Served(c)'
  <2>1. /\ flags'.attest => u.layer # "half"
        /\ u.layer \in Layers /\ u.client # "none"
        /\ fwd[c].pc = "fast" => (fwd[c].up <=> u.client = "open")
    BY <1>1, <1>2, <1>5 DEF IInv, Served, Usable
  <2>2. Classify(Port[handler[c].route])' = fwd'[c].pc
    BY <1>2, <1>6, <1>8, <1>9
  <2> QED
    BY <1>2, <1>6, <1>8, <1>9, <2>1, <2>2 DEF Served, Usable
<1>11. Carried(c)'
  <2>1. tun[t].stream \in Seq(Records)
    BY <1>2 DEF Tun
  <2>2. CASE u.layer = "half"
    <3>1. \A i \in 1..Len(tun[t].stream) : tun[t].stream[i] = TLSRecord
      BY <1>2, <1>5, <2>2 DEF IInv, Carried
    <3>2. TLSRecord \in Records /\ u.stream = Append(tun[t].stream, TLSRecord)
      BY <1>5, <2>2 DEF Records
    <3>3. \A i \in 1..Len(u.stream) : u.stream[i] = TLSRecord
      <4> DEFINE w == Append(tun[t].stream, TLSRecord)
      <4>1. \A i \in 1..Len(w) : w[i] = TLSRecord
        BY <2>1, <3>1, <3>2, AllStay
      <4> HIDE DEF w
      <4>2. u.stream = w
        BY <3>2 DEF w
      <4> QED
        BY <4>1, <4>2
    <3> QED
      BY <1>6, <1>8, <2>2, <3>3 DEF Carried
  <2>3. CASE u.layer # "half"
    <3>1. /\ Len(tun[t].stream) = 1 + fwd[c].moved
          /\ tun[t].stream[1] = [kind |-> "header", dest |-> d]
          /\ \A i \in 2..Len(tun[t].stream) : tun[t].stream[i] = Datum(d)
      BY <1>2, <1>5, <2>3 DEF IInv, Carried
    <3>2. fwd[c].moved \in Nat
      BY <1>2, ForwardAssumption DEF Forward
    <3>3. u.stream = Append(tun[t].stream, Datum(d))
      BY <1>5, <2>3
    <3>4. /\ Len(u.stream) = 1 + f.moved
          /\ u.stream[1] = [kind |-> "header", dest |-> d]
          /\ \A i \in 2..Len(u.stream) : u.stream[i] = Datum(d)
      <4> DEFINE s == tun[t].stream
                 x == Datum(d)
                 h == [kind |-> "header", dest |-> d]
                 k == fwd[c].moved
      <4>1. s \in Seq(Records) /\ x \in Records /\ u.stream = Append(s, x)
        BY <1>4, <2>1, <3>3
      <4>2. k \in Nat /\ f.moved = k + 1
        BY <1>6, <3>2
      <4>3. Len(s) = 1 + k /\ s[1] = h /\ \A i \in 2..Len(s) : s[i] = x
        BY <3>1
      <4> HIDE DEF s, x, h, k
      <4>4. /\ Len(Append(s, x)) = 1 + (k + 1) /\ Append(s, x)[1] = h
            /\ \A i \in 2..Len(Append(s, x)) : Append(s, x)[i] = x
        BY <4>1, <4>2, <4>3, Extended
      <4> QED
        BY <4>1, <4>2, <4>4 DEF x, h
    <3> QED
      BY <1>6, <1>8, <1>9, <2>3, <3>4 DEF Carried
  <2> QED
    BY <2>2, <2>3
<1> QED
  BY <1>1, <1>2, <1>3, <1>5, <1>6, <1>7, <1>8, <1>10, <1>11, ServedStep
     DEF IInv, Served

\* A step that adds nothing to the stream, or a TLS record where everything is
\* encrypted twice, and moves nothing.
LEMMA CarriedStays ==
    ASSUME IInv, UNCHANGED <<routeVars, flags>>, NEW c \in Conn, HasTunnel(c),
           fwd'[c].tunnel = fwd[c].tunnel, fwd'[c].moved = fwd[c].moved,
           LET s == tun[fwd[c].tunnel].stream
               u == tun'[fwd[c].tunnel]
           IN  /\ s \in Seq(Records)
               /\ u.layer = tun[fwd[c].tunnel].layer
               /\ \/ u.stream = s
                  \/ u.layer = "half" /\ u.stream = Append(s, TLSRecord)
    PROVE  Carried(c)'
<1> DEFINE s == tun[fwd[c].tunnel].stream
           u == tun'[fwd[c].tunnel]
           d == handler[c].route
<1>1. handler'[c] = handler[c] /\ Datum(d)' = Datum(d)
  BY AdmittedStays DEF IInv, Served, routeVars
<1>2. CASE u.layer = "half"
  <2>1. \A i \in 1..Len(s) : s[i] = TLSRecord
    BY <1>2 DEF IInv, Carried
  <2>2. \A i \in 1..Len(u.stream) : u.stream[i] = TLSRecord
    <3> DEFINE w == Append(s, TLSRecord)
    <3>1. TLSRecord \in Records
      BY DEF Records
    <3>2. \A i \in 1..Len(w) : w[i] = TLSRecord
      BY <2>1, <3>1, AllStay
    <3>3. u.stream = s \/ u.stream = w
      OBVIOUS
    <3> HIDE DEF w, s
    <3> QED
      BY <2>1, <3>2, <3>3
  <2> QED
    BY <1>2, <2>2 DEF Carried
<1>3. CASE u.layer # "half"
  BY <1>1, <1>3 DEF IInv, Carried
<1> QED
  BY <1>2, <1>3

\* The end of the agent's bytes shuts a fast channel's tunnel.
LEMMA UpEndsStep ==
    ASSUME IInv, NEW c \in Conn, UpEnds(c)
    PROVE  IInv'
<1> DEFINE t == fwd[c].tunnel
           f == [fwd[c] EXCEPT !.up = FALSE]
           u == IF fwd[c].pc = "fast" THEN CloseWrite(tun[t]) ELSE tun[t]
<1>1. /\ UNCHANGED <<routeVars, flags, sent, eof>>
      /\ fwd[c].up /\ fwd' = [fwd EXCEPT ![c] = f]
      /\ tun' = IF fwd[c].pc = "fast" THEN [tun EXCEPT ![t] = CloseWrite(tun[t])] ELSE tun
  BY DEF UpEnds, Moved
<1>2. /\ HasTunnel(c) /\ t \in Tunnel /\ fwd[c] \in Forward /\ tun[t] \in Tun
      /\ Admitted(c) /\ fwd[c].pc = Classify(Port[handler[c].route])
      /\ fwd[c].pc \in {"fast", "guarded"}
  BY <1>1, Relaying
<1>3. /\ fwd \in [Conn -> Forward] /\ tun \in [Tunnel -> Tun]
      /\ eof \in [Conn -> BOOLEAN]
  BY DEF IInv, ForwardTypeOK
<1>4. tun' = [tun EXCEPT ![t] = u]
  BY <1>1, <1>2, <1>3
<1>5. /\ u \in Tun /\ u.layer = tun[t].layer /\ u.client # "none"
      /\ fwd[c].pc = "fast" => u.client = "shut"
      /\ \/ u.stream = tun[t].stream
         \/ u.layer = "half" /\ u.stream = Append(tun[t].stream, TLSRecord)
  <2>1. tun[t].client # "none"
    BY <1>2 DEF IInv, Served
  <2>2. CASE fwd[c].pc = "fast"
    <3>1. u = CloseWrite(tun[t])
      BY <2>2
    <3> HIDE DEF u
    <3> QED
      BY <1>2, <3>1, CloseWriteIs
  <2>3. CASE fwd[c].pc # "fast"
    BY <1>2, <2>1, <2>3
  <2> QED
    BY <2>2, <2>3
<1>6. /\ f \in Forward /\ f.pc = fwd[c].pc /\ f.tunnel = t /\ f.up = FALSE
      /\ f.moved = fwd[c].moved /\ f.moved <= sent[c]
  BY <1>2 DEF IInv, ForwardTypeOK, Forward
<1> HIDE DEF f, u
<1>7. fwd'[c] = f /\ tun'[t] = u
  BY <1>1, <1>2, <1>3, <1>4
<1>8. Served(c)'
  <2>1. /\ Admitted(c)'
        /\ Classify(Port[handler[c].route])' = fwd'[c].pc
    BY <1>1, <1>2, <1>6, <1>7, AdmittedStays DEF routeVars
  <2>2. (flags'.attest => u.layer # "half") /\ u.layer \in Layers
    BY <1>1, <1>2, <1>5 DEF IInv, Served, Usable
  <2> QED
    BY <1>2, <1>5, <1>6, <1>7, <2>1, <2>2 DEF Served, Usable
<1>9. Carried(c)'
  <2>1. tun[t].stream \in Seq(Records)
    BY <1>2 DEF Tun
  <2> QED
    BY <1>1, <1>2, <1>5, <1>6, <1>7, <2>1, CarriedStays
<1> QED
  BY <1>1, <1>2, <1>3, <1>4, <1>5, <1>6, <1>8, <1>9, ServedStep

\* The relay of the answer leaves the tunnel alone.
LEMMA DownStep ==
    ASSUME IInv, NEW c \in Conn, DownEnds(c) \/ Stalls(c) \/ AgentReads(c)
    PROVE  IInv'
<1>0. PICK down \in BOOLEAN, stuck \in BOOLEAN :
        fwd' = [fwd EXCEPT ![c] = [fwd[c] EXCEPT !.down = down, !.stuck = stuck]]
  <2>0. fwd \in [Conn -> Forward] /\ fwd[c] \in Forward
    BY DEF IInv, ForwardTypeOK
  <2>1. CASE DownEnds(c)
    <3>1. fwd' = [fwd EXCEPT ![c] = [fwd[c] EXCEPT !.down = FALSE, !.stuck = FALSE]]
      BY <2>1 DEF DownEnds
    <3> QED
      BY <3>1
  <2>2. CASE Stalls(c) \/ AgentReads(c)
    <3>1. PICK stuck \in BOOLEAN : fwd' = [fwd EXCEPT ![c] = [fwd[c] EXCEPT !.stuck = stuck]]
      BY <2>2 DEF Stalls, AgentReads
    <3>2. [fwd[c] EXCEPT !.stuck = stuck] =
                [fwd[c] EXCEPT !.down = fwd[c].down, !.stuck = stuck]
      BY <2>0 DEF Forward
    <3>3. fwd[c].down \in BOOLEAN
      BY <2>0 DEF Forward
    <3> QED
      BY <3>1, <3>2, <3>3
  <2> QED
    BY <2>1, <2>2
<1> DEFINE t == fwd[c].tunnel
           f == [fwd[c] EXCEPT !.down = down, !.stuck = stuck]
<1>1. /\ UNCHANGED <<routeVars, flags, sent, tun>>
      /\ fwd[c].down \/ fwd[c].stuck
      /\ fwd' = [fwd EXCEPT ![c] = f]
  BY <1>0 DEF DownEnds, Stalls, AgentReads, Moved
<1>2. /\ HasTunnel(c) /\ t \in Tunnel /\ fwd[c] \in Forward /\ tun[t] \in Tun
      /\ Admitted(c) /\ fwd[c].pc = Classify(Port[handler[c].route])
      /\ fwd[c].pc \in {"fast", "guarded"}
  BY <1>1, Relaying
<1>3. fwd \in [Conn -> Forward] /\ tun \in [Tunnel -> Tun] /\ eof' \in [Conn -> BOOLEAN]
  BY DEF DownEnds, Stalls, AgentReads, End, IInv, ForwardTypeOK
<1>4. tun' = [tun EXCEPT ![t] = tun[t]]
  BY <1>1, <1>2, <1>3
<1>5. /\ f \in Forward /\ f.pc = fwd[c].pc /\ f.tunnel = t /\ f.up = fwd[c].up
      /\ f.moved = fwd[c].moved /\ f.moved <= sent[c]
  BY <1>2 DEF IInv, ForwardTypeOK, Forward
<1> HIDE DEF f
<1>6. fwd'[c] = f /\ tun'[t] = tun[t]
  BY <1>1, <1>3
<1>7. Served(c)'
  <2>1. /\ Admitted(c)'
        /\ Classify(Port[handler[c].route])' = fwd'[c].pc
    BY <1>1, <1>2, <1>5, <1>6, AdmittedStays DEF routeVars
  <2> QED
    BY <1>1, <1>2, <1>5, <1>6, <2>1 DEF IInv, Served, Usable
<1>8. Carried(c)'
  <2>1. tun[t].stream \in Seq(Records)
    BY <1>2 DEF Tun
  <2>2. /\ fwd'[c].tunnel = fwd[c].tunnel /\ fwd'[c].moved = fwd[c].moved
        /\ tun'[fwd[c].tunnel].layer = tun[fwd[c].tunnel].layer
        /\ tun'[fwd[c].tunnel].stream = tun[fwd[c].tunnel].stream
    BY <1>5, <1>6
  <2> HIDE DEF t
  <2> QED
    BY <1>1, <1>2, <2>1, <2>2, CarriedStays DEF t
<1>9. tun[t].client # "none"
  BY <1>2 DEF IInv, Served
<1> QED
  BY <1>1, <1>2, <1>3, <1>4, <1>5, <1>7, <1>8, <1>9, ServedStep

\* The tunnel of a channel that is over is closed: a fast one's was shut when
\* its up direction ended, a guarded one's socket is closed first.
LEMMA FinishStep ==
    ASSUME IInv, NEW c \in Conn, Finish(c)
    PROVE  IInv'
<1> DEFINE t == fwd[c].tunnel
           f == [fwd[c] EXCEPT !.pc = "done", !.up = FALSE, !.down = FALSE, !.stuck = FALSE]
           u == IF fwd[c].pc = "guarded" THEN [CloseWrite(tun[t]) EXCEPT !.client = "closed"]
                                         ELSE Closed(tun[t])
<1>1. /\ UNCHANGED <<routeVars, flags, sent>>
      /\ fwd[c].pc \in {"fast", "guarded"}
      /\ fwd[c].pc = "fast" => ~fwd[c].up
      /\ fwd' = [fwd EXCEPT ![c] = f] /\ tun' = [tun EXCEPT ![t] = u]
  BY DEF Finish, Moved
<1>2. /\ HasTunnel(c) /\ t \in Tunnel /\ fwd[c] \in Forward /\ tun[t] \in Tun
      /\ Admitted(c)
  BY <1>1, Relaying
<1>3. fwd \in [Conn -> Forward] /\ tun \in [Tunnel -> Tun] /\ eof' \in [Conn -> BOOLEAN]
  BY DEF Finish, End, IInv, ForwardTypeOK
<1>4. /\ u \in Tun /\ u.layer = tun[t].layer /\ u.client = "closed"
      /\ \/ u.stream = tun[t].stream
         \/ u.layer = "half" /\ u.stream = Append(tun[t].stream, TLSRecord)
  <2>1. CASE fwd[c].pc = "guarded"
    <3> DEFINE w == CloseWrite(tun[t])
    <3>1. /\ w \in Tun /\ w.layer = tun[t].layer
          /\ w.stream = IF tun[t].layer = "half" THEN Append(tun[t].stream, TLSRecord)
                                                ELSE tun[t].stream
      BY <1>2, CloseWriteIs
    <3>2. u = [w EXCEPT !.client = "closed"]
      BY <2>1
    <3> HIDE DEF u, w
    <3> QED
      BY <3>1, <3>2 DEF Tun
  <2>2. CASE fwd[c].pc = "fast"
    <3>1. tun[t].client # "open"
      BY <1>1, <1>2, <2>2 DEF IInv, Served
    <3>2. u = Closed(tun[t])
      BY <2>2
    <3> HIDE DEF u
    <3> QED
      BY <1>2, <3>1, <3>2, ClosedIs
  <2> QED
    BY <1>1, <2>1, <2>2
<1>5. /\ f \in Forward /\ f.pc = "done" /\ f.tunnel = t
      /\ f.up = FALSE /\ f.down = FALSE /\ f.stuck = FALSE
      /\ f.moved = fwd[c].moved /\ f.moved <= sent[c]
  BY <1>2 DEF IInv, ForwardTypeOK, Forward
<1> HIDE DEF f, u
<1>6. fwd'[c] = f /\ tun'[t] = u
  BY <1>1, <1>2, <1>3
<1>7. Served(c)'
  <2>1. Admitted(c)'
    BY <1>1, <1>2, AdmittedStays DEF routeVars
  <2>2. (flags'.attest => u.layer # "half") /\ u.layer \in Layers
    BY <1>1, <1>2, <1>4 DEF IInv, Served, Usable
  <2> QED
    BY <1>4, <1>5, <1>6, <2>1, <2>2 DEF Served, Usable
<1>8. Carried(c)'
  <2>1. tun[t].stream \in Seq(Records)
    BY <1>2 DEF Tun
  <2> QED
    BY <1>1, <1>2, <1>4, <1>5, <1>6, <2>1, CarriedStays
<1> QED
  BY <1>1, <1>2, <1>3, <1>4, <1>5, <1>7, <1>8, ServedStep

------------------------------------------------------------------------------
(* The theorems. *)

\* The invariant holds in every state of the local side.
LEMMA Invariant == Spec => []IInv
<1>1. IInv /\ [Next]_vars => IInv'
  <2> SUFFICES ASSUME IInv, [Next]_vars PROVE IInv'
    OBVIOUS
  <2>1. CASE Agents /\ UNCHANGED forwardVars
    BY <2>1, RouteStepKeeps DEF RouteStep
  <2>2. ASSUME NEW c \in Conn, HandlerRuns(c) \/ Send(c) \/ AgentReads(c)
        PROVE  IInv'
    <3>1. CASE Resolve(c) /\ UNCHANGED forwardVars
      BY <3>1, RouteStepKeeps DEF RouteStep
    <3>2. CASE Admit(c) \/ ObtainFails(c)
      BY <3>2, AdmitStep
    <3>3. CASE \E t \in Tunnel : Obtain(c, t)
      BY <3>3, ObtainStep
    <3>4. CASE MoveUp(c)
      BY <3>4, MoveUpStep
    <3>5. CASE UpEnds(c)
      BY <3>5, UpEndsStep
    <3>6. CASE Stalls(c) \/ AgentReads(c) \/ DownEnds(c)
      BY <3>6, DownStep
    <3>7. CASE Finish(c)
      BY <3>7, FinishStep
    <3>8. CASE Send(c)
      BY <3>8, SendStep
    <3>9. CASE \E t \in Tunnel : HeaderFails(c, t)
      BY <3>9, HeaderFailsStep
    <3> QED
      BY <2>2, <3>1, <3>2, <3>3, <3>4, <3>5, <3>6, <3>7, <3>8, <3>9 DEF HandlerRuns
  <2>3. ASSUME NEW t \in Tunnel, Drop(t) \/ PeerEnds(t) PROVE IInv'
    BY <2>3, DropStep, PeerEndsStep
  <2>4. CASE UNCHANGED vars
    <3>1. RouteInv'
      BY <2>4, RouteStepInv DEF IInv, vars
    <3>2. ASSUME NEW c \in Conn PROVE Unserved(c)' /\ Served(c)' /\ Carried(c)'
      BY <2>4, LeftAlone DEF vars, routeVars, forwardVars
    <3>3. ForwardTypeOK' /\ OwnTunnel' /\ Unclaimed'
      BY <2>4 DEF IInv, ForwardTypeOK, OwnTunnel, Unclaimed, HasTunnel, vars, forwardVars
    <3> QED
      BY <3>1, <3>2, <3>3 DEF IInv
  <2> QED
    BY <2>1, <2>2, <2>3, <2>4 DEF Next
<1> QED
  BY <1>1, InitInv, PTL DEF Spec

\* The local side's types, for any number of connections, tunnels and records:
\* no handler passes on more than its agent sent.
THEOREM TypeCorrect == Spec => []TypeOK
<1>1. IInv => TypeOK
  BY DEF IInv, RouteInv, ForwardTypeOK, TypeOK
<1> QED
  BY <1>1, Invariant, PTL

\* The routing token is linear, however agents, kernel and handlers interleave:
\* no connection finds the token of an earlier one on its port.
THEOREM TokenLinearHolds == Spec => []TokenLinear
<1>1. IInv => TokenLinear
  BY DEF IInv, RouteInv
<1> QED
  BY <1>1, Invariant, PTL

\* A connection is routed where its agent dialled, or where one dialled that was
\* given its source port before the handler took the token; and to the default
\* only if the agent let go of it or there was such a rival.
THEOREM RoutedAsDialledHolds == Spec => []RoutedAsDialled
<1>1. IInv => RoutedAsDialled
  BY DEF IInv, RouteInv
<1> QED
  BY <1>1, Invariant, PTL

\* The peer reads the header of the route and the agent's bytes, whatever layers
\* the tunnel has and in whatever order its directions end and are closed.
THEOREM StreamIntactHolds == Spec => []StreamIntact
<1>1. IInv => StreamIntact
  <2> SUFFICES ASSUME IInv, NEW c \in Conn, HasTunnel(c),
                      flags.attest \/ tun[fwd[c].tunnel].layer # "half"
               PROVE  /\ Len(Stream(c)) = 1 + fwd[c].moved
                      /\ Stream(c)[1] = [kind |-> "header", dest |-> handler[c].route]
                      /\ \A i \in 2..Len(Stream(c)) : Stream(c)[i].kind = "data"
    BY DEF StreamIntact
  <2>1. tun[fwd[c].tunnel].layer # "half"
    BY DEF IInv, Served, Usable
  <2>2. /\ Len(Stream(c)) = 1 + fwd[c].moved
        /\ Stream(c)[1] = [kind |-> "header", dest |-> handler[c].route]
        /\ \A i \in 2..Len(Stream(c)) : Stream(c)[i] = Datum(handler[c].route)
    BY <2>1 DEF IInv, Carried, Stream
  <2>3. Datum(handler[c].route).kind = "data"
    BY DEF Datum
  <2> QED
    BY <2>2, <2>3
<1> QED
  BY <1>1, Invariant, PTL

\* An enforcer that the flags do not scope to other ports vets what an agent sends
\* to the port it dialled, if its handler found its own token; and under
\* --egress-default deny a port without a rule gets nothing.
THEOREM GovernedHolds == Spec => []Governed
<1>1. IInv => Governed
  <2> SUFFICES ASSUME IInv, NEW c \in Conn, HasTunnel(c), handler[c].token,
                      rivals[c] = {}, Port[dialled[c]] \notin flags.fast
               PROVE  LET port == Port[dialled[c]]
                      IN  /\ \A i \in 1..Len(Stream(c)) : Stream(c)[i].kind = "data" =>
                                \A e \in flags.enabled \ Stream(c)[i].vetted :
                                    /\ \E g \in flags.guards : g.enforcer = e
                                    /\ [port |-> port, enforcer |-> e] \notin flags.guards
                          /\ flags.denyUnlisted =>
                                \E e \in flags.enabled :
                                    (\E g \in flags.guards : g.enforcer = e)
                                        => [port |-> port, enforcer |-> e] \in flags.guards
    BY DEF Governed
  <2> DEFINE d == handler[c].route
  <2>1. Admitted(c)
    BY DEF IInv, Served
  <2>2. d = dialled[c] /\ d \in Dest /\ Port[d] \in AgentPorts
    <3>1. \E b \in {c} \cup rivals[c] : d = dialled[b]
      BY <2>1 DEF IInv, RouteInv, RoutedAsDialled, Admitted
    <3>2. dialled[c] \in Intercepted
      BY <2>1 DEF IInv, RouteInv, Waiting, Begun, Admitted
    <3> QED
      BY <3>1, <3>2, ForwardAssumption, OrigDestAssumption
  <2>3. \A e \in flags.enabled \ Chain(Port[d]) :
            /\ \E g \in flags.guards : g.enforcer = e
            /\ [port |-> Port[d], enforcer |-> e] \notin flags.guards
    BY <2>2 DEF Chain
  <2>4. ASSUME NEW i \in 1..Len(Stream(c)), Stream(c)[i].kind = "data"
        PROVE  Stream(c)[i].vetted = Chain(Port[d])
    <3>1. tun[fwd[c].tunnel].layer # "half" => Stream(c)[i] = Datum(d)
      <4>1. ASSUME tun[fwd[c].tunnel].layer # "half"
            PROVE  /\ Stream(c)[1].kind = "header"
                   /\ \A j \in 2..Len(Stream(c)) : Stream(c)[j] = Datum(d)
        <5>1. /\ Stream(c)[1] = [kind |-> "header", dest |-> d]
              /\ \A j \in 2..Len(Stream(c)) : Stream(c)[j] = Datum(d)
          BY <4>1 DEF IInv, Carried, Stream
        <5> QED
          BY <5>1
      <4>2. i = 1 \/ i \in 2..Len(Stream(c))
        BY <2>4
      <4> QED
        BY <2>4, <4>1, <4>2
    <3>2. tun[fwd[c].tunnel].layer = "half" => Stream(c)[i] = TLSRecord
      BY DEF IInv, Carried, Stream
    <3> QED
      BY <2>4, <3>1, <3>2 DEF Datum, TLSRecord
  <2>5. flags.denyUnlisted => Chain(Port[d]) # {}
    <3>1. Port[d] \in Nat
      BY <2>2, DatumIsRecord DEF IInv
    <3> QED
      BY <2>1, <2>2, <3>1, ClassIs DEF Admitted
  <2>6. flags.denyUnlisted =>
            \E e \in flags.enabled :
                (\E g \in flags.guards : g.enforcer = e)
                    => [port |-> Port[d], enforcer |-> e] \in flags.guards
    BY <2>5 DEF Chain
  <2> QED
    BY <2>2, <2>3, <2>4, <2>6
<1> QED
  BY <1>1, Invariant, PTL

==============================================================================

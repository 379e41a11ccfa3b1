------------------------------- MODULE OrigDest -------------------------------
(***************************************************************************)
(* Recovery of the destination an agent dialled.  connect4 redirects the   *)
(* connection to the daemon and leaves the destination under the socket's  *)
(* cookie, sock_ops moves it under the source port and frees it when the   *)
(* agent's socket is closed (src/bpf/grimlock.bpf.c); the daemon's handler *)
(* takes it by the source port of the connection it accepted (Resolve in   *)
(* cmd/grimlock/origdest.go).  The entry is the connection's routing token.*)
(*                                                                         *)
(* The kernel runs the callback of the established connection before it    *)
(* sends the acknowledgement that lets the listener accept it.             *)
(***************************************************************************)
EXTENDS Naturals

CONSTANTS
    Conn,           \* the agents' connections, each a socket with its cookie
    SrcPort,        \* ephemeral ports
    Dest,           \* destinations
    Intercepted,    \* those whose connections are redirected
    NoDest,
    Fallback,       \* the default peer's port 8080, or NoDest without a peer
    Tries           \* look-ups before the handler gives up (10 in the code)

ASSUME OrigDestAssumption ==
    /\ NoDest \notin Dest /\ Intercepted \subseteq Dest
    /\ Fallback \in Dest \cup {NoDest}
    /\ Tries \in Nat \ {0}

VARIABLES
    sock,           \* sock[c]: the agent's socket
    dialled,        \* dialled[c]: the destination of its connect call
    sport,          \* sport[c]: its source port
    cookie_dest,    \* the map by socket cookie
    port_dest,      \* the map by source port
    handler,        \* handler[c]: the daemon's goroutine for c, in Resolve
    rivals          \* history: rivals[c], the connections that were given c's
                    \* source port, or had it, with their routes still to be found

kernelVars == <<sock, dialled, sport, cookie_dest, port_dest, rivals>>
routeVars == <<kernelVars, handler>>

\* "shut": the agent has no more to send; "closing": it closed the socket;
\* "freed": the kernel is done with it, "aborted": after a reset.
Sock == {"idle", "connecting", "open", "shut", "closing", "freed", "aborted"}
Connected == {"open", "shut", "closing"}
AgentThere == {"open", "shut"}

Handler == [pc : {"none", "queued", "look", "take", "routed"},
            tries : 0..Tries,
            route : Dest \cup {NoDest},
            token : BOOLEAN]        \* whether the route is a token's

RouteTypeOK ==
    /\ sock \in [Conn -> Sock]
    /\ dialled \in [Conn -> Dest \cup {NoDest}]
    /\ sport \in [Conn -> SrcPort]
    /\ cookie_dest \in [Conn -> Dest \cup {NoDest}]
    /\ port_dest \in [SrcPort -> Dest \cup {NoDest}]
    /\ handler \in [Conn -> Handler]
    /\ rivals \in [Conn -> SUBSET Conn]

RouteInit ==
    /\ sock = [c \in Conn |-> "idle"]
    /\ dialled = [c \in Conn |-> NoDest]
    /\ sport \in [Conn -> SrcPort]
    /\ cookie_dest = [c \in Conn |-> NoDest]
    /\ port_dest = [p \in SrcPort |-> NoDest]
    /\ handler = [c \in Conn |->
            [pc |-> "none", tries |-> 0, route |-> NoDest, token |-> FALSE]]
    /\ rivals = [c \in Conn |-> {}]

------------------------------------------------------------------------------
(* The agent and the kernel. *)

\* connect() to a known peer's agent port: connect4 redirects it.  A source port
\* is taken until the agent's socket is done with, which the daemon's handler of
\* that connection need not know.
Connect(c, d) ==
    /\ sock[c] = "idle"
    /\ \A b \in Conn \ {c} : sport[b] = sport[c] => sock[b] \in {"idle", "freed", "aborted"}
    /\ sock' = [sock EXCEPT ![c] = "connecting"]
    /\ dialled' = [dialled EXCEPT ![c] = d]
    /\ cookie_dest' = [cookie_dest EXCEPT ![c] = d]
    /\ UNCHANGED <<sport, port_dest, handler, rivals>>

\* The handlers on c's port whose routes are still to be found.
Late(c) ==
    {b \in Conn \ {c} : sport[b] = sport[c] /\ handler[b].pc \in {"queued", "look", "take"}}

Meet(c) ==
    rivals' = [b \in Conn |-> IF b = c THEN rivals[c] \cup Late(c)
                              ELSE IF b \in Late(c) THEN rivals[b] \cup {c} ELSE rivals[b]]

\* Mutant: the destination is never moved under the source port.
MutantEstablish(c) ==
    /\ sock[c] = "connecting"
    /\ sock' = [sock EXCEPT ![c] = "open"]
    /\ handler' = [handler EXCEPT ![c].pc = "queued"]
    /\ Meet(c)
    /\ UNCHANGED <<dialled, sport, cookie_dest, port_dest>>

\* ACTIVE_ESTABLISHED: the token moves under the source port; the connection
\* waits to be accepted.
Establish(c) ==
    /\ sock[c] = "connecting"
    /\ sock' = [sock EXCEPT ![c] = "open"]
    /\ port_dest' = [port_dest EXCEPT ![sport[c]] = cookie_dest[c]]
    /\ cookie_dest' = [cookie_dest EXCEPT ![c] = NoDest]
    /\ handler' = [handler EXCEPT ![c].pc = "queued"]
    /\ Meet(c)
    /\ UNCHANGED <<dialled, sport>>

Shut(c) ==
    /\ sock[c] = "open"
    /\ sock' = [sock EXCEPT ![c] = "shut"]
    /\ UNCHANGED <<dialled, sport, cookie_dest, port_dest, handler, rivals>>

CloseSocket(c) ==
    /\ sock[c] \in AgentThere
    /\ sock' = [sock EXCEPT ![c] = "closing"]
    /\ UNCHANGED <<dialled, sport, cookie_dest, port_dest, handler, rivals>>

\* STATE_CB with TCP_CLOSE, which the kernel reports as soon as it has no
\* process to deliver to, before the daemon closes its end; or a reset.
StateClose(c) ==
    /\ sock[c] \in Connected
    /\ sock' = [sock EXCEPT ![c] = IF @ = "closing" THEN "freed" ELSE "aborted"]
    /\ port_dest' = [port_dest EXCEPT ![sport[c]] = NoDest]
    /\ UNCHANGED <<dialled, sport, cookie_dest, handler, rivals>>

------------------------------------------------------------------------------
(* The handler: Accept, then Resolve. *)

Accept(c) ==
    /\ handler[c].pc = "queued"
    /\ handler' = [handler EXCEPT ![c].pc = "look"]
    /\ UNCHANGED kernelVars

Routed(h, d, token) == [h EXCEPT !.pc = "routed", !.route = d, !.token = token]

\* One look-up; after the last the handler takes the default.
Lookup(c) ==
    LET found == port_dest[sport[c]]
    IN  /\ handler[c].pc = "look"
        /\ handler' = [handler EXCEPT ![c] =
                IF found # NoDest THEN [@ EXCEPT !.pc = "take", !.route = found]
                ELSE IF @.tries + 1 < Tries THEN [@ EXCEPT !.tries = handler[c].tries + 1]
                ELSE Routed(@, Fallback, FALSE)]
        /\ UNCHANGED kernelVars

\* Mutant: the token is read and left.
MutantConsume(c) ==
    /\ handler[c].pc = "take"
    /\ handler' = [handler EXCEPT ![c] = Routed(@, @.route, TRUE)]
    /\ UNCHANGED kernelVars

\* The entry found is deleted, whatever it is by now.
Consume(c) ==
    /\ handler[c].pc = "take"
    /\ port_dest' = [port_dest EXCEPT ![sport[c]] = NoDest]
    /\ handler' = [handler EXCEPT ![c] = Routed(@, @.route, TRUE)]
    /\ UNCHANGED <<sock, dialled, sport, cookie_dest, rivals>>

Agents ==
    \E c \in Conn :
        \/ \E d \in Intercepted : Connect(c, d)
        \/ Establish(c) \/ Shut(c) \/ CloseSocket(c) \/ StateClose(c)

Resolve(c) == Accept(c) \/ Lookup(c) \/ Consume(c)

------------------------------------------------------------------------------
(* Properties. *)

\* "So we route to the correct peer" (main.go:500-501): a connection's token is
\* the one its agent dialled with, and the default is taken only when the agent
\* has let go of it.  The comment of Resolve has it that the source port "cannot
\* be reused (ABA) before we consume it" (origdest.go:27-31); it can, once the
\* agent's socket is reset or closed.  Then, and only then, a handler may be
\* sent where a rival on its port dialled, or, its token gone, to the default.
RoutedAsDialled ==
    \A c \in Conn : handler[c].pc = "routed" =>
        IF handler[c].token
        THEN \E b \in {c} \cup rivals[c] : handler[c].route = dialled[b]
        ELSE sock[c] \notin AgentThere \/ rivals[c] # {}

\* The routing token is linear: an entry is there only for the connection that
\* holds the port, as long as that is open and its handler has not taken it.
\* No later connection on the port can find an earlier one's.
TokenLinear ==
    \A p \in SrcPort : port_dest[p] # NoDest =>
        \E c \in Conn :
            /\ sport[c] = p /\ sock[c] \in Connected
            /\ port_dest[p] = dialled[c]
            /\ handler[c].pc # "routed"

==============================================================================

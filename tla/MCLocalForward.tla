---------------------------- MODULE MCLocalForward ----------------------------
(***************************************************************************)
(* Two connections of agents that use one source port, a tunnel they may   *)
(* get, and three destinations: intercepted ones on the ports 9000 and     *)
(* 9001, and the default peer's port 8080, which is no agent port.  The    *)
(* settings: with attestation, one enforcer scoped to 9000 and another     *)
(* left on all agent ports; without, one on 9000, which is also marked     *)
(* fast, as is 8080, and all else denied.                                  *)
(***************************************************************************)
EXTENDS LocalForward

CONSTANTS dflt, first, second

Ports == [d \in {dflt, first, second} |->
            IF d = dflt THEN 8080 ELSE IF d = first THEN 9000 ELSE 9001]
BothPorts == {9000, 9001}

Guard(port, e) == [port |-> port, enforcer |-> e]
Settings == {
    [attest |-> TRUE, enabled |-> {"mcp", "x402"}, guards |-> {Guard(9000, "mcp")},
     fast |-> {}, denyUnlisted |-> FALSE],
    [attest |-> FALSE, enabled |-> {"mcp"}, guards |-> {Guard(9000, "mcp")},
     fast |-> {8080, 9000}, denyUnlisted |-> TRUE]}

==============================================================================

--------------------------- MODULE MCGuardedProxy ---------------------------
(***************************************************************************)
(* GuardedProxy with one channel of every sort and up to two requests, and *)
(* with two channels that pay at the same time; payments of one or two     *)
(* units against a budget of two in each of two epochs.                    *)
(***************************************************************************)
EXTENDS GuardedProxy

CONSTANTS one, two, shop, base, other, good, bad

Req(pay, form, calls) == [pay |-> pay, form |-> form, calls |-> calls]
Pay(amount) == [to |-> shop, net |-> base, amount |-> amount, parses |-> TRUE]
Elsewhere == [Pay(1) EXCEPT !.net = other]
Garbled == [Pay(1) EXCEPT !.parses = FALSE]

MCRequests == {Req(None, "whole", {}), Req(Pay(1), "whole", {bad}),
               Req(Pay(2), "whole", {good}), Req(Malformed, "whole", {}),
               Req(Elsewhere, "opaque", {}), Req(Garbled, "whole", {}),
               Req(None, "oversize", {})}

MCChallenges == {Pay(1)}

Unused == [pipeline |-> <<>>, requests |-> {}, most |-> 0, sequential |-> TRUE]

OneChannel ==
    [pipeline : {<<"x402", "mcp">>, <<"mcp", "x402">>, <<"mcp">>},
     requests : {MCRequests}, most : {2}, sequential : BOOLEAN]

TwoPayers ==
    [pipeline : {<<"x402">>}, requests : {{Req(Pay(2), "whole", {good})}},
     most : {1}, sequential : {TRUE}]

MCScenarios ==
    {[ch \in {one, two} |-> IF ch = one THEN k ELSE Unused] : k \in OneChannel}
        \cup [{one, two} -> TwoPayers]

==============================================================================

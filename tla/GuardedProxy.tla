---------------------------- MODULE GuardedProxy ----------------------------
(***************************************************************************)
(* The guarded channel (cmd/grimlock/guard.go) with its two enforcers:     *)
(* mcp.go checks tool calls against the attested manifest and the grant,   *)
(* payment.go checks payments against the last 402 challenge and the spend *)
(* policy of internal/x402/policy.go, and keeps a receipt of each.         *)
(*                                                                         *)
(* Two goroutines serve a channel.  The pump takes the agent's requests    *)
(* through the pipeline to the tunnel; the responder brings the answers    *)
(* back, and notes challenges and settlements on the way.  They share the  *)
(* challenge, the receipts that wait for a settlement, and the agent's     *)
(* connection, to which the pump writes denials.  All channels share the   *)
(* spend budget.                                                           *)
(***************************************************************************)
EXTENDS Naturals, Sequences, FiniteSets, SequencesExt

CONSTANTS
    Channels,       \* guarded connections
    MaxRequests,    \* bound on the requests of any connection
    MaxEpochs,      \* bound on the spend epochs
    Scenarios,      \* what sorts of channel there are: functions to Kind
    Requests,       \* what agents send: a subset of Request
    Challenges,     \* what servers ask for: a subset of Payment
    Payees, Networks, Amounts, Tools,
    Manifest, Granted,              \* tools attested by the peer, tools granted
    AllowedPayTo, AllowedNetworks,  \* empty: anything is allowed
    MaxPerPayment,                  \* None: no cap
    MaxPerEpoch,                    \* a velocity limit is configured
    None, Malformed

\* The amount of a payment, or of a challenge, may not parse as a number.
Payment == [to : Payees, net : Networks, amount : Amounts, parses : BOOLEAN]

Request == [pay : Payment \cup {None, Malformed},       \* the X-PAYMENT header
            form : {"whole", "opaque", "oversize"},     \* the body
            calls : SUBSET Tools]                       \* tools it calls

\* The enforcers of a port in the order they were configured, each once.
Pipeline == {p \in Seq({"x402", "mcp"}) : \A i, j \in DOMAIN p : p[i] = p[j] => i = j}

Kind == [pipeline : Pipeline,
         requests : SUBSET Requests, most : 0..MaxRequests,     \* what its agent sends
         sequential : BOOLEAN]  \* the agent waits for each answer

ASSUME ProxyAssumption ==
    /\ MaxRequests \in Nat /\ MaxEpochs \in Nat \ {0}
    /\ Scenarios \subseteq [Channels -> Kind] /\ Requests \subseteq Request /\ Challenges \subseteq Payment
    /\ Manifest \subseteq Tools /\ Granted \subseteq Tools
    /\ Amounts \subseteq Nat
    /\ AllowedPayTo \subseteq Payees /\ AllowedNetworks \subseteq Networks
    /\ MaxPerPayment \in Nat \cup {None} /\ MaxPerEpoch \in Nat
    /\ None \notin Payment /\ Malformed \notin Payment \cup {None}

VARIABLES
    kind,       \* kind[ch]: what sort of channel ch is
    asked,      \* asked[ch]: requests the agent has sent
    inbox,      \* inbox[ch]: those the pump has not read
    got,        \* got[ch]: answers and denials the agent has read
    pump,       \* pump[ch]: where the pump is, with which request
    tunnel,     \* tunnel[ch]: requests forwarded and not yet answered
    answers,    \* answers[ch]: answers the responder has not read
    responder,  \* responder[ch]: where it is, with which answer
    challenge,  \* challenge[ch]: the most recent 402 challenge not used yet
    pending,    \* pending[ch]: receipts that await a settlement
    receipts,   \* receipts[ch]: receipts appended to the log
    ends,       \* ends[ch]: who still has its end open
    life,       \* life[ch]: running, closed or finished
    spent, lapsed,  \* spent in this epoch; whether its duration is over
    unsettled,  \* history: payments the server answered without a settlement
    offered,    \* history: the challenge the agent has read and not used
    epochs, paid    \* history: epochs begun, amounts forwarded in all

agents == <<asked, inbox, got>>
servers == <<tunnel, answers, unsettled>>
records == <<pending, receipts>>
challenges == <<challenge, offered>>
budget == <<spent, lapsed, epochs>>
vars == <<kind, agents, servers, records, challenges, budget, paid, pump,
          responder, ends, life>>

Numbers == 1..MaxRequests
Numbered == [n : Numbers, req : Requests]
Answer == [n : Numbers, settles : BOOLEAN, ask : Challenges \cup {None}]
Receipt == [n : Numbers, allowed : BOOLEAN, tx : 0..MaxRequests]

\* What a goroutine that is not busy has in its hands.
NoRequest == [at |-> "read", n |-> 0, i |-> 1, req |-> None, allow |-> FALSE]
NoAnswer == [at |-> "read", answer |-> None]
NoPump == [NoRequest EXCEPT !.at = "done"]
NoResponder == [NoAnswer EXCEPT !.at = "done"]

\* A channel whose agent sends nothing is one that was not opened.
Used(ch) == kind[ch].most > 0

\* Every variable holds a value of its type.
TypeOK ==
    /\ kind \in Scenarios
    /\ asked \in [Channels -> 0..MaxRequests] /\ got \in [Channels -> 0..MaxRequests]
    /\ \A ch \in Channels :
        /\ inbox[ch] \in Seq(Numbered) /\ tunnel[ch] \in Seq(Numbered)
        /\ answers[ch] \in Seq(Answer) /\ unsettled[ch] \subseteq Numbers
        /\ pump[ch].at \in {"read", "enforce", "record", "deny", "done"}
        /\ pump[ch].i \in 1..(Len(kind[ch].pipeline) + 1)
        /\ responder[ch].at \in {"read", "head", "body", "done"}
        /\ pending[ch] \in Seq(Receipt) /\ receipts[ch] \in Seq(Receipt)
    /\ challenge \in [Channels -> Challenges \cup {None}]
    /\ offered \in [Channels -> Challenges \cup {None}]
    /\ ends \in [Channels -> SUBSET {"agent", "server"}]
    /\ life \in [Channels -> {"running", "closed", "finished"}]
    /\ spent \in 0..MaxPerEpoch /\ lapsed \in BOOLEAN
    /\ epochs \in 0..MaxEpochs /\ paid \in Nat

Init ==
    /\ kind \in Scenarios
    /\ asked = [ch \in Channels |-> 0] /\ got = asked
    /\ inbox = [ch \in Channels |-> <<>>]
    /\ tunnel = inbox /\ answers = inbox /\ pending = inbox /\ receipts = inbox
    /\ unsettled = [ch \in Channels |-> {}]
    /\ pump = [ch \in Channels |-> IF Used(ch) THEN NoRequest ELSE NoPump]
    /\ responder = [ch \in Channels |-> IF Used(ch) THEN NoAnswer ELSE NoResponder]
    /\ challenge = [ch \in Channels |-> None] /\ offered = challenge
    /\ ends = [ch \in Channels |-> {"agent", "server"}]
    /\ life = [ch \in Channels |-> IF Used(ch) THEN "running" ELSE "finished"]
    /\ spent = 0 /\ lapsed = TRUE
    /\ epochs = 0 /\ paid = 0

Running(ch) == life[ch] = "running"
Enforcers(ch) == ToSet(kind[ch].pipeline)
Observes(ch) == "x402" \in Enforcers(ch)   \* its paymentConn handles the responses
IsPayment(req) == req.pay \in Payment
Push(f, ch, x) == [f EXCEPT ![ch] = Append(@, x)]
Pop(f, ch) == [f EXCEPT ![ch] = Tail(@)]
------------------------------------------------------------------------------
(* The pump. *)

At(ch, stage) == pump[ch].at = stage
Goes(ch, stage) == pump' = [pump EXCEPT ![ch].at = stage]
PumpEnds(ch) == pump' = [pump EXCEPT ![ch] = NoPump]

\* A request is read whole, if it is not too large; one that is buffered is
\* read also when the connection has been closed.
ReadRequest(ch) ==
    /\ At(ch, "read") /\ inbox[ch] # <<>>
    /\ LET r == Head(inbox[ch])
       IN  pump' = [pump EXCEPT ![ch] = [NoRequest EXCEPT !.n = r.n, !.req = r.req,
                    !.at = IF r.req.form = "oversize" THEN "deny" ELSE "enforce"]]
    /\ inbox' = Pop(inbox, ch)
    /\ UNCHANGED <<kind, asked, got, servers, records, challenges, budget, paid, responder, ends, life>>

\* EOF, a closed connection, or guardReadTimeout.
ReadFails(ch) ==
    /\ At(ch, "read") /\ (inbox[ch] = <<>> \/ ~Running(ch))
    /\ PumpEnds(ch)
    /\ UNCHANGED <<kind, agents, servers, records, challenges, budget, paid, responder, ends, life>>

\* The enforcer whose turn it is.
Turn(ch, enforcer) ==
    /\ At(ch, "enforce") /\ pump[ch].i <= Len(kind[ch].pipeline)
    /\ kind[ch].pipeline[pump[ch].i] = enforcer

NextEnforcer(ch) == pump' = [pump EXCEPT ![ch].i = @ + 1, ![ch].at = "enforce"]

\* mcpConn.authorize: the tool is in the attested manifest (Manifest.Tool) and
\* the grant covers what the manifest says of it (Policy.CheckTool).
Authorized(tool) == tool \in Manifest /\ tool \in Granted

\* mcpConn.enforce: a body that cannot be classified is refused, and one denied
\* call blocks the whole request.
ToolsPermitted(req) == req.form # "opaque" /\ \A tool \in req.calls : Authorized(tool)

\* Mutant: the verdict of an enforcer is overwritten by the next one's.
MutantCheckTools(ch) ==
    /\ Turn(ch, "mcp")
    /\ IF ToolsPermitted(pump[ch].req) \/ pump[ch].i < Len(kind[ch].pipeline)
       THEN NextEnforcer(ch) ELSE Goes(ch, "deny")
    /\ UNCHANGED <<kind, agents, servers, records, challenges, budget, paid, responder, ends, life>>

CheckTools(ch) ==
    /\ Turn(ch, "mcp")
    /\ IF ToolsPermitted(pump[ch].req) THEN NextEnforcer(ch) ELSE Goes(ch, "deny")
    /\ UNCHANGED <<kind, agents, servers, records, challenges, budget, paid, responder, ends, life>>

\* paymentConn.enforce: not a payment.
NoPaymentHeader(ch) ==
    /\ Turn(ch, "x402") /\ pump[ch].req.pay = None
    /\ NextEnforcer(ch)
    /\ UNCHANGED <<kind, agents, servers, records, challenges, budget, paid, responder, ends, life>>

Denied(ch) == [n |-> pump[ch].n, allowed |-> FALSE, tx |-> 0]
Allowed(ch) == [n |-> pump[ch].n, allowed |-> TRUE, tx |-> 0]

MalformedHeader(ch) ==
    /\ Turn(ch, "x402") /\ pump[ch].req.pay = Malformed
    /\ receipts' = Push(receipts, ch, Denied(ch))
    /\ Goes(ch, "deny")
    /\ UNCHANGED <<kind, agents, servers, pending, challenges, budget, paid, responder, ends, life>>

\* MatchesChallenge, when there is a challenge.
Matches(p, c) ==
    \/ c = None
    \/ /\ p.to = c.to /\ p.net = c.net
       /\ p.parses /\ (c.parses => p.amount <= c.amount)

\* Evaluate up to the budget: the amount, the network, the recipient, the cap.
InPolicy(p) ==
    /\ p.parses
    /\ AllowedNetworks # {} => p.net \in AllowedNetworks
    /\ AllowedPayTo # {} => p.to \in AllowedPayTo
    /\ MaxPerPayment # None => p.amount <= MaxPerPayment

\* Evaluate's end, under its lock: an epoch whose duration is over is rolled, and
\* the payment must fit into what is left.
Before == IF lapsed THEN 0 ELSE spent

\* Mutant: the payment itself is not counted.
MutantFits(p) == Before <= MaxPerEpoch

Fits(p) == Before + p.amount <= MaxPerEpoch

\* Mutant: the budget is checked, and the payment not added to it.
MutantSpend(p) ==
    /\ lapsed' = FALSE
    /\ epochs' = IF lapsed THEN epochs + 1 ELSE epochs
    /\ spent' = Before

Spend(p) ==
    /\ lapsed' = FALSE
    /\ epochs' = IF lapsed THEN epochs + 1 ELSE epochs
    /\ spent' = IF Fits(p) THEN Before + p.amount ELSE Before

EvaluatePayment(ch) ==
    /\ Turn(ch, "x402") /\ IsPayment(pump[ch].req)
    /\ LET p == pump[ch].req.pay
           proper == Matches(p, challenge[ch]) /\ InPolicy(p)
       IN  /\ IF proper THEN Spend(p) ELSE UNCHANGED budget
           /\ pump' = [pump EXCEPT ![ch].at = "record", ![ch].allow = proper /\ Fits(p)]
    /\ challenge' = [challenge EXCEPT ![ch] = None]
    /\ offered' = [offered EXCEPT ![ch] = None]
    /\ UNCHANGED <<kind, agents, servers, records, paid, responder, ends, life>>

\* record, after the quote: an allowed payment awaits its settlement.
RecordPayment(ch) ==
    /\ At(ch, "record")
    /\ \/ /\ pump[ch].allow
          /\ pending' = Push(pending, ch, Allowed(ch))
          /\ NextEnforcer(ch)
          /\ UNCHANGED receipts
       \/ /\ ~pump[ch].allow
          /\ receipts' = Push(receipts, ch, Denied(ch))
          /\ Goes(ch, "deny")
          /\ UNCHANGED pending
    /\ UNCHANGED <<kind, agents, servers, challenges, budget, paid, responder, ends, life>>

\* The error is written to the agent, and the pump ends.
Deny(ch) ==
    /\ At(ch, "deny") /\ Running(ch)
    /\ got' = [got EXCEPT ![ch] = @ + 1]
    /\ PumpEnds(ch)
    /\ UNCHANGED <<kind, asked, inbox, servers, records, challenges, budget, paid, responder, ends, life>>

Ready(ch) == At(ch, "enforce") /\ pump[ch].i > Len(kind[ch].pipeline)

Forward(ch) ==
    /\ Ready(ch) /\ Running(ch) /\ "server" \in ends[ch]
    /\ tunnel' = Push(tunnel, ch, [n |-> pump[ch].n, req |-> pump[ch].req])
    /\ paid' = IF Observes(ch) /\ IsPayment(pump[ch].req)
               THEN paid + pump[ch].req.pay.amount ELSE paid
    /\ pump' = [pump EXCEPT ![ch] = NoRequest]
    /\ UNCHANGED <<kind, agents, answers, unsettled, records, challenges, budget, responder, ends, life>>

\* A write to a connection that is closed, here or at its other end.
PumpWriteFails(ch) ==
    /\ \/ At(ch, "deny") /\ (~Running(ch) \/ "agent" \notin ends[ch])
       \/ Ready(ch) /\ (~Running(ch) \/ "server" \notin ends[ch])
    /\ PumpEnds(ch)
    /\ UNCHANGED <<kind, agents, servers, records, challenges, budget, paid, responder, ends, life>>

------------------------------------------------------------------------------
(* The responder. *)

ResponderEnds(ch) == responder' = [responder EXCEPT ![ch] = NoResponder]

\* Mutant: only settlements are looked for.
MutantNote(ch, a) == UNCHANGED challenge

Note(ch, a) ==
    challenge' = IF Observes(ch) /\ a.ask # None THEN [challenge EXCEPT ![ch] = a.ask]
                                                 ELSE challenge

\* Mutant: a settlement settles the latest payment.
MutantSettle(ch, a) ==
    /\ receipts' = Push(receipts, ch, [Last(pending[ch]) EXCEPT !.tx = a.n])
    /\ pending' = [pending EXCEPT ![ch] = Front(@)]

\* finalizePending: the oldest receipt that waits gets the settlement.
Settle(ch, a) ==
    /\ receipts' = Push(receipts, ch, [Head(pending[ch]) EXCEPT !.tx = a.n])
    /\ pending' = Pop(pending, ch)

\* handleResponses reads an answer, also a buffered one when the connection has
\* been closed, and looks for a challenge or a settlement.
ReadAnswer(ch) ==
    /\ responder[ch].at = "read" /\ answers[ch] # <<>>
    /\ LET a == Head(answers[ch])
       IN  /\ responder' = [responder EXCEPT ![ch] = [at |-> "head", answer |-> a]]
           /\ Note(ch, a)
           /\ IF Observes(ch) /\ a.settles /\ pending[ch] # <<>>
              THEN Settle(ch, a) ELSE UNCHANGED records
    /\ answers' = Pop(answers, ch)
    /\ UNCHANGED <<kind, agents, tunnel, unsettled, offered, budget, paid, pump, ends, life>>

\* An answer is passed on in more than one write.
WriteHead(ch) ==
    /\ responder[ch].at = "head" /\ Running(ch)
    /\ responder' = [responder EXCEPT ![ch].at = "body"]
    /\ UNCHANGED <<kind, agents, servers, records, challenges, budget, paid, pump, ends, life>>

WriteBody(ch) ==
    /\ responder[ch].at = "body" /\ Running(ch)
    /\ responder' = [responder EXCEPT ![ch] = NoAnswer]
    /\ got' = [got EXCEPT ![ch] = @ + 1]
    /\ offered' = IF responder[ch].answer.ask # None /\ Observes(ch)
                  THEN [offered EXCEPT ![ch] = responder[ch].answer.ask] ELSE offered
    /\ UNCHANGED <<kind, asked, inbox, servers, records, challenge, budget, paid, pump, ends, life>>

\* The tunnel's EOF, a connection that is closed, an agent that has gone, or an
\* answer that does not parse.
ResponderFails(ch) ==
    /\ \/ ~Running(ch) /\ responder[ch].at # "done"
       \/ responder[ch].at = "read" /\ answers[ch] = <<>> /\ "server" \notin ends[ch]
       \/ responder[ch].at = "read" /\ answers[ch] # <<>> /\ Observes(ch)
       \/ responder[ch].at \in {"head", "body"} /\ "agent" \notin ends[ch]
    /\ ResponderEnds(ch)
    /\ UNCHANGED <<kind, agents, servers, records, challenges, budget, paid, pump, ends, life>>

------------------------------------------------------------------------------
(* guardedProxy: the first of the two that ends closes both connections, and *)
(* when the other has ended the receipts still waiting are appended.         *)

PumpDone(ch) == At(ch, "done")
ResponderDone(ch) == responder[ch].at = "done"

\* Mutant: the connections are closed only when the responder has ended.
MutantSomeDone(ch) == ResponderDone(ch)

SomeDone(ch) == PumpDone(ch) \/ ResponderDone(ch)

CloseBoth(ch) ==
    /\ Running(ch) /\ SomeDone(ch)
    /\ life' = [life EXCEPT ![ch] = "closed"]
    /\ UNCHANGED <<kind, agents, servers, records, challenges, budget, paid, pump, responder, ends>>

\* Mutant: the receipts are flushed without waiting for the second to end.
MutantBothDone(ch) == PumpDone(ch) \/ ResponderDone(ch)

BothDone(ch) == PumpDone(ch) /\ ResponderDone(ch)

Finish(ch) ==
    /\ life[ch] = "closed" /\ BothDone(ch)
    /\ life' = [life EXCEPT ![ch] = "finished"]
    /\ receipts' = [receipts EXCEPT ![ch] = @ \o pending[ch]]
    /\ pending' = [pending EXCEPT ![ch] = <<>>]
    /\ UNCHANGED <<kind, agents, servers, challenges, budget, paid, pump, responder, ends>>

------------------------------------------------------------------------------
(* Agents, servers and time. *)

Send(ch) ==
    /\ "agent" \in ends[ch] /\ Running(ch) /\ asked[ch] < kind[ch].most
    /\ kind[ch].sequential => got[ch] = asked[ch]
    /\ asked' = [asked EXCEPT ![ch] = @ + 1]
    /\ \E r \in kind[ch].requests : inbox' = Push(inbox, ch, [n |-> asked[ch] + 1, req |-> r])
    /\ UNCHANGED <<kind, got, servers, records, challenges, budget, paid, pump, responder, ends, life>>

\* The server answers in order: a payment by its settlement, and a payment it
\* does not settle, like any request, by a (new) challenge or without a word of it.
Respond(ch) ==
    /\ tunnel[ch] # <<>> /\ Running(ch) /\ "server" \in ends[ch]
    /\ LET r == Head(tunnel[ch])
           answer(settles, ask) == [n |-> r.n, settles |-> settles, ask |-> ask]
       IN  \/ /\ IsPayment(r.req)
              /\ answers' = Push(answers, ch, answer(TRUE, None))
              /\ UNCHANGED unsettled
           \/ /\ \E ask \in Challenges \cup {None} :
                    answers' = Push(answers, ch, answer(FALSE, ask))
              /\ unsettled' = IF IsPayment(r.req) THEN [unsettled EXCEPT ![ch] = @ \cup {r.n}]
                                                  ELSE unsettled
    /\ tunnel' = Pop(tunnel, ch)
    /\ UNCHANGED <<kind, agents, records, challenges, budget, paid, pump, responder, ends, life>>

Leave(ch) ==
    /\ Running(ch)
    /\ \E x \in ends[ch] : ends' = [ends EXCEPT ![ch] = @ \ {x}]
    /\ UNCHANGED <<kind, agents, servers, records, challenges, budget, paid, pump, responder, life>>

EpochLapses ==
    /\ ~lapsed /\ epochs < MaxEpochs
    /\ lapsed' = TRUE
    /\ UNCHANGED <<kind, agents, servers, records, challenges, spent, epochs, paid, pump, responder, ends, life>>

\* What the goroutines do without waiting for anybody to take what they write.
Pump(ch) ==
    \/ ReadRequest(ch) \/ CheckTools(ch) \/ NoPaymentHeader(ch) \/ MalformedHeader(ch)
    \/ EvaluatePayment(ch) \/ RecordPayment(ch) \/ ReadFails(ch) \/ PumpWriteFails(ch)

Responder(ch) == ReadAnswer(ch) \/ ResponderFails(ch)

Proxy(ch) == CloseBoth(ch) \/ Finish(ch)

Write(ch) == Deny(ch) \/ Forward(ch) \/ WriteHead(ch) \/ WriteBody(ch)

Next ==
    \/ \E ch \in Channels : Pump(ch) \/ Responder(ch) \/ Proxy(ch) \/ Write(ch)
    \/ \E ch \in Channels : Send(ch) \/ Respond(ch) \/ Leave(ch)
    \/ EpochLapses

Spec == Init /\ [][Next]_vars

\* The goroutines run; writes may block for ever, and agents, servers and time
\* owe nothing.
FairSpec ==
    /\ Spec
    /\ \A ch \in Channels : WF_vars(Pump(ch)) /\ WF_vars(Responder(ch)) /\ WF_vars(Proxy(ch))

------------------------------------------------------------------------------
(* Properties. *)

\* "A request is forwarded only if EVERY enforcer permits it" (guard.go), in
\* whatever order they are configured.
OnlyPermitted ==
    \A ch \in Channels : \A r \in ToSet(tunnel[ch]) :
        /\ "mcp" \in Enforcers(ch) => ToolsPermitted(r.req)
        /\ Observes(ch) => r.req.pay # Malformed

\* A payment is decided once and has one receipt, which waits or is in the log;
\* a payment on the wire has one that allows it; and none still waits when the
\* channel has finished, whichever direction ended first.
ReceiptsOnce ==
    \A ch \in Channels :
        LET all == receipts[ch] \o pending[ch]
        IN  /\ \A i, j \in DOMAIN all : all[i].n = all[j].n => i = j
            /\ \A r \in ToSet(tunnel[ch]) : Observes(ch) /\ IsPayment(r.req) =>
                    \E i \in DOMAIN all : all[i].n = r.n /\ all[i].allowed
            /\ life[ch] = "finished" => pending[ch] = <<>>

\* The velocity limit holds outside the agent: what is forwarded over all
\* channels never exceeds the budgets of the epochs begun, also when requests
\* are evaluated in one epoch and forwarded in the next.
Velocity == paid <= MaxPerEpoch * epochs

\* "The challenge is recorded BEFORE the agent can retry" (handleResponses):
\* when an agent that waits for its answers has read a 402, the next payment is
\* judged by that very challenge.
ChallengeNoted ==
    \A ch \in Channels :
        kind[ch].sequential /\ responder[ch].at = "read" => challenge[ch] = offered[ch]

\* Whose settlement a receipt gets (finalizePending takes the oldest that waits,
\* whatever the answer settles), whatever the server settles, pipelined or not, in
\* whatever order the goroutines run: its own payment's exactly as long as the
\* server has left no payment up to that one without a settlement, from then on
\* a later one's; never an earlier one's, and never one another receipt has.
\* x402-attested-payments.md:64-67 has every settlement in its own receipt.
SettlesInOrder ==
    \A ch \in Channels :
        LET log == receipts[ch]
            settled == {i \in DOMAIN log : log[i].tx # 0}
        IN  /\ \A i \in settled :
                    /\ log[i].n <= log[i].tx
                    /\ log[i].tx = log[i].n <=> \A u \in unsettled[ch] : log[i].n < u
            /\ \A i, j \in settled : log[i].tx = log[j].tx => i = j

\* Once either direction has ended the channel is closed and its receipts are
\* flushed, though the other goroutine may be blocked on a silent peer.
ChannelEnds ==
    \A ch \in Channels : PumpDone(ch) \/ ResponderDone(ch) ~> life[ch] = "finished"

==============================================================================

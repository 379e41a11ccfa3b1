-------------------------- MODULE GuardedProxyProofs --------------------------
(***************************************************************************)
(* Proofs about GuardedProxy, for any number of guarded channels, requests *)
(* and spend epochs, every pipeline that names no enforcer twice and every *)
(* policy: its types, that only what every enforcer permits is forwarded,  *)
(* that a payment has one receipt, which settlement a receipt gets, that   *)
(* payments are judged by the challenge their agent has read, and that     *)
(* what is forwarded keeps the velocity limit.                             *)
(***************************************************************************)
EXTENDS GuardedProxy, FiniteSetTheorems, WellFoundedInduction, TLAPS

------------------------------------------------------------------------------
(* The numbers in queues of requests and of receipts. *)

Ns(s) == {s[i].n : i \in DOMAIN s}
AllowedNs(s) == {s[i].n : i \in {j \in DOMAIN s : s[j].allowed}}
Distinct(s) == \A i, j \in DOMAIN s : s[i].n = s[j].n => i = j
Ascending(s) == \A i, j \in DOMAIN s : i < j => s[i].n < s[j].n

LEMMA Appended ==
    ASSUME NEW S, NEW s \in Seq(S), NEW x \in S
    PROVE  /\ Append(s, x) \in Seq(S) /\ Len(Append(s, x)) = Len(s) + 1
           /\ ToSet(Append(s, x)) = ToSet(s) \cup {x}
           /\ Ns(Append(s, x)) = Ns(s) \cup {x.n}
           /\ AllowedNs(Append(s, x)) =
                    IF x.allowed THEN AllowedNs(s) \cup {x.n} ELSE AllowedNs(s)
           /\ Distinct(s) /\ x.n \notin Ns(s) => Distinct(Append(s, x))
           /\ (Ascending(s) /\ \A m \in Ns(s) : m < x.n) => Ascending(Append(s, x))
<1> DEFINE t == Append(s, x)
<1>1. /\ t \in Seq(S) /\ Len(t) = Len(s) + 1 /\ Len(s) \in Nat
      /\ DOMAIN s = 1..Len(s) /\ DOMAIN t = 1..(Len(s) + 1)
      /\ \A i \in 1..Len(s) : t[i] = s[i]
      /\ t[Len(s) + 1] = x
  OBVIOUS
<1>2. DOMAIN t = DOMAIN s \cup {Len(s) + 1} /\ Len(s) + 1 \notin DOMAIN s
  BY <1>1
<1> HIDE DEF t
<1>3. ToSet(t) = ToSet(s) \cup {x}
  BY <1>1, <1>2 DEF ToSet
<1>4. Ns(t) = Ns(s) \cup {x.n}
  BY <1>1, <1>2 DEF Ns
<1>5. AllowedNs(t) = IF x.allowed THEN AllowedNs(s) \cup {x.n} ELSE AllowedNs(s)
  BY <1>1, <1>2 DEF AllowedNs
<1>6. ASSUME Distinct(s), x.n \notin Ns(s) PROVE Distinct(t)
  BY <1>1, <1>2, <1>6 DEF Distinct, Ns
<1>7. ASSUME Ascending(s), \A m \in Ns(s) : m < x.n PROVE Ascending(t)
  BY <1>1, <1>2, <1>7 DEF Ascending, Ns
<1> QED
  BY <1>1, <1>3, <1>4, <1>5, <1>6, <1>7 DEF t

LEMMA Popped ==
    ASSUME NEW S, NEW s \in Seq(S), s # <<>>
    PROVE  /\ Tail(s) \in Seq(S) /\ Len(Tail(s)) = Len(s) - 1 /\ Len(s) > 0
           /\ Head(s) \in S /\ Head(s) \in ToSet(s)
           /\ ToSet(Tail(s)) \subseteq ToSet(s)
           /\ Ns(s) = {Head(s).n} \cup Ns(Tail(s))
           /\ AllowedNs(s) = IF Head(s).allowed THEN {Head(s).n} \cup AllowedNs(Tail(s))
                                                ELSE AllowedNs(Tail(s))
           /\ Distinct(s) => Distinct(Tail(s)) /\ Head(s).n \notin Ns(Tail(s))
           /\ Ascending(s) =>
                Ascending(Tail(s)) /\ \A m \in Ns(Tail(s)) : Head(s).n < m
<1> DEFINE t == Tail(s)
<1>1. /\ t \in Seq(S) /\ Len(s) \in Nat /\ Len(s) > 0 /\ Len(t) = Len(s) - 1
      /\ DOMAIN s = 1..Len(s) /\ DOMAIN t = 1..(Len(s) - 1)
      /\ \A i \in 1..(Len(s) - 1) : t[i] = s[i + 1]
      /\ Head(s) = s[1] /\ s[1] \in S
  OBVIOUS
<1> HIDE DEF t
<1>2. \A i \in DOMAIN s : i = 1 \/ (i - 1 \in DOMAIN t /\ s[i] = t[i - 1])
  BY <1>1
<1>3. \A i \in DOMAIN t : i + 1 \in DOMAIN s /\ s[i + 1] = t[i]
  BY <1>1
<1>4. ToSet(t) \subseteq ToSet(s) /\ Head(s) \in ToSet(s)
  BY <1>1, <1>3 DEF ToSet
<1> DEFINE h == Head(s)
<1>0. 1 \in DOMAIN s /\ h = s[1]
  BY <1>1
<1> HIDE DEF h
<1>5. Ns(s) = {h.n} \cup Ns(t)
  <2>1. ASSUME NEW m \in Ns(s) PROVE m = h.n \/ m \in Ns(t)
    <3>1. PICK i \in DOMAIN s : m = s[i].n
      BY DEF Ns
    <3> QED
      BY <1>2, <1>0, <3>1 DEF Ns
  <2>2. ASSUME NEW m \in Ns(t) PROVE m \in Ns(s)
    <3>1. PICK i \in DOMAIN t : m = t[i].n
      BY DEF Ns
    <3> QED
      BY <1>3, <3>1 DEF Ns
  <2>3. h.n \in Ns(s)
    BY <1>0 DEF Ns
  <2> QED
    BY <2>1, <2>2, <2>3
<1>6. AllowedNs(s) = IF h.allowed THEN {h.n} \cup AllowedNs(t) ELSE AllowedNs(t)
  <2>1. ASSUME NEW m \in AllowedNs(s) PROVE (h.allowed /\ m = h.n) \/ m \in AllowedNs(t)
    <3>1. PICK i \in DOMAIN s : m = s[i].n /\ s[i].allowed
      BY DEF AllowedNs
    <3> QED
      BY <1>2, <1>0, <3>1 DEF AllowedNs
  <2>2. ASSUME NEW m \in AllowedNs(t) PROVE m \in AllowedNs(s)
    <3>1. PICK i \in DOMAIN t : m = t[i].n /\ t[i].allowed
      BY DEF AllowedNs
    <3> QED
      BY <1>3, <3>1 DEF AllowedNs
  <2>3. h.allowed => h.n \in AllowedNs(s)
    BY <1>0 DEF AllowedNs
  <2> QED
    BY <2>1, <2>2, <2>3
<1>7. ASSUME Distinct(s) PROVE Distinct(t) /\ h.n \notin Ns(t)
  <2>1. Distinct(t)
    <3> SUFFICES ASSUME NEW i \in DOMAIN t, NEW j \in DOMAIN t, t[i].n = t[j].n
                 PROVE  i = j
      BY DEF Distinct
    <3>1. i + 1 = j + 1
      BY <1>3, <1>7 DEF Distinct
    <3> QED
      BY <1>1, <3>1
  <2>2. ASSUME NEW i \in DOMAIN t PROVE h.n # t[i].n
    <3>1. i + 1 # 1
      BY <1>1
    <3> QED
      BY <1>3, <1>7, <1>0, <3>1 DEF Distinct
  <2> QED
    BY <2>1, <2>2 DEF Ns
<1>8. ASSUME Ascending(s) PROVE Ascending(t) /\ \A m \in Ns(t) : h.n < m
  <2>1. Ascending(t)
    <3> SUFFICES ASSUME NEW i \in DOMAIN t, NEW j \in DOMAIN t, i < j
                 PROVE  t[i].n < t[j].n
      BY DEF Ascending
    <3>1. i + 1 < j + 1
      BY <1>1
    <3> QED
      BY <1>3, <1>8, <3>1 DEF Ascending
  <2>2. ASSUME NEW i \in DOMAIN t PROVE h.n < t[i].n
    <3>1. 1 < i + 1
      BY <1>1
    <3> QED
      BY <1>3, <1>8, <1>0, <3>1 DEF Ascending
  <2> QED
    BY <2>1, <2>2 DEF Ns
<1> QED
  BY <1>1, <1>4, <1>5, <1>6, <1>7, <1>8 DEF t, h

LEMMA Joined ==
    ASSUME NEW S, NEW s \in Seq(S), NEW t \in Seq(S)
    PROVE  /\ s \o t \in Seq(S)
           /\ Ns(s \o t) = Ns(s) \cup Ns(t)
           /\ AllowedNs(s \o t) = AllowedNs(s) \cup AllowedNs(t)
           /\ ToSet(s \o t) = ToSet(s) \cup ToSet(t)
           /\ Distinct(s) /\ Distinct(t) /\ Ns(s) \cap Ns(t) = {} => Distinct(s \o t)
<1> DEFINE u == s \o t
<1>1. /\ u \in Seq(S) /\ Len(s) \in Nat /\ Len(t) \in Nat
      /\ DOMAIN s = 1..Len(s) /\ DOMAIN t = 1..Len(t) /\ DOMAIN u = 1..(Len(s) + Len(t))
      /\ \A i \in 1..Len(s) : u[i] = s[i]
      /\ \A i \in 1..Len(t) : u[Len(s) + i] = t[i]
  OBVIOUS
<1> HIDE DEF u
<1>2. \A i \in DOMAIN u : \/ i \in DOMAIN s /\ u[i] = s[i]
                          \/ i - Len(s) \in DOMAIN t /\ u[i] = t[i - Len(s)]
  <2> TAKE i \in DOMAIN u
  <2>1. CASE i <= Len(s)
    BY <1>1, <2>1
  <2>2. CASE i > Len(s)
    <3>1. i - Len(s) \in 1..Len(t) /\ Len(s) + (i - Len(s)) = i
      BY <1>1, <2>2
    <3>2. u[Len(s) + (i - Len(s))] = t[i - Len(s)]
      BY <1>1, <3>1
    <3> QED
      BY <1>1, <3>1, <3>2
  <2> QED
    BY <1>1, <2>1, <2>2
<1>3. /\ \A i \in DOMAIN s : i \in DOMAIN u /\ u[i] = s[i]
      /\ \A i \in DOMAIN t : Len(s) + i \in DOMAIN u /\ u[Len(s) + i] = t[i]
  BY <1>1
<1>4. Ns(u) = Ns(s) \cup Ns(t)
  BY <1>2, <1>3 DEF Ns
<1>5. AllowedNs(u) = AllowedNs(s) \cup AllowedNs(t)
  BY <1>2, <1>3 DEF AllowedNs
<1>7. ToSet(u) = ToSet(s) \cup ToSet(t)
  BY <1>2, <1>3 DEF ToSet
<1>6. ASSUME Distinct(s), Distinct(t), Ns(s) \cap Ns(t) = {} PROVE Distinct(u)
  <2> SUFFICES ASSUME NEW i \in DOMAIN u, NEW j \in DOMAIN u, u[i].n = u[j].n
               PROVE  i = j
    BY DEF Distinct
  <2>1. CASE i \in DOMAIN s /\ u[i] = s[i] /\ j \in DOMAIN s /\ u[j] = s[j]
    BY <1>6, <2>1 DEF Distinct
  <2>2. CASE /\ i - Len(s) \in DOMAIN t /\ u[i] = t[i - Len(s)]
             /\ j - Len(s) \in DOMAIN t /\ u[j] = t[j - Len(s)]
    <3>1. i - Len(s) = j - Len(s)
      BY <1>6, <2>2 DEF Distinct
    <3> QED
      BY <1>1, <3>1
  <2>3. ASSUME NEW a \in DOMAIN s, NEW b \in DOMAIN t PROVE s[a].n # t[b].n
    BY <1>6 DEF Ns
  <2> QED
    BY <1>2, <2>1, <2>2, <2>3
<1> QED
  BY <1>1, <1>4, <1>5, <1>6, <1>7 DEF u

------------------------------------------------------------------------------
(* The inductive invariant. *)

PumpState == [at : {"read", "enforce", "record", "deny", "done"}, n : 0..MaxRequests,
              i : Nat \ {0}, req : Requests \cup {None}, allow : BOOLEAN]
ResponderState ==
    {s \in [at : {"read", "head", "body", "done"}, answer : Answer \cup {None}] :
        s.at \in {"head", "body"} => s.answer \in Answer}

\* What the daemon keeps of each channel.
ChannelTypeOK ==
    /\ kind \in Scenarios
    /\ asked \in [Channels -> Nat] /\ got \in [Channels -> Nat]
    /\ inbox \in [Channels -> Seq(Numbered)] /\ tunnel \in [Channels -> Seq(Numbered)]
    /\ answers \in [Channels -> Seq(Answer)] /\ unsettled \in [Channels -> SUBSET Numbers]
    /\ pump \in [Channels -> PumpState] /\ responder \in [Channels -> ResponderState]
    /\ pending \in [Channels -> Seq(Receipt)] /\ receipts \in [Channels -> Seq(Receipt)]
    /\ challenge \in [Channels -> Challenges \cup {None}]
    /\ offered \in [Channels -> Challenges \cup {None}]
    /\ ends \in [Channels -> SUBSET {"agent", "server"}]
    /\ life \in [Channels -> {"running", "closed", "finished"}]

\* What the channels share; an epoch that can begin was counted on.
BudgetTypeOK ==
    /\ spent \in 0..MaxPerEpoch /\ lapsed \in BOOLEAN /\ epochs \in 0..MaxEpochs
    /\ lapsed => epochs < MaxEpochs
    /\ paid \in Nat

\* The pump has a request in its hands, the responder an answer.
Busy(ch) == pump[ch].at \in {"enforce", "record", "deny"}
Answering(ch) == responder[ch].at \in {"head", "body"}

\* How many requests and answers are where.
InInbox(ch) == Len(inbox[ch])
InTunnel(ch) == Len(tunnel[ch])
InAnswers(ch) == Len(answers[ch])
InPump(ch) == IF Busy(ch) THEN 1 ELSE 0
InResponder(ch) == IF Answering(ch) THEN 1 ELSE 0

\* What an enforcer has established when it has let a request pass.
Passed(enforcer, req) ==
    /\ enforcer = "mcp" => ToolsPermitted(req)
    /\ enforcer = "x402" => req.pay # Malformed

\* The enforcers before the one whose turn it is have passed the request.
Pumping(ch) ==
    LET p == pump[ch]
        l == kind[ch].pipeline
    IN  /\ p.i <= Len(l) + 1
        /\ Busy(ch) => p.n \in Numbers /\ p.req \in Requests
        /\ p.at \in {"enforce", "record"} =>
                \A j \in DOMAIN l : j < p.i => Passed(l[j], p.req)
        /\ p.at = "record" => p.i \in DOMAIN l /\ l[p.i] = "x402" /\ IsPayment(p.req)

Permitted(ch) ==
    \A r \in ToSet(tunnel[ch]) : \A e \in Enforcers(ch) : Passed(e, r.req)

\* A request is in one place at a time and is answered at most once.
Load(ch) ==
    /\ asked[ch] <= kind[ch].most
    /\ got[ch] + InInbox(ch) + InPump(ch) + InTunnel(ch) + InAnswers(ch)
            + InResponder(ch) <= asked[ch]

\* Requests are read in the order of their numbers.
Queued(ch) ==
    /\ Ascending(inbox[ch])
    /\ \A m \in Ns(inbox[ch]) : m <= asked[ch] /\ (Busy(ch) => pump[ch].n < m)
    /\ Busy(ch) => pump[ch].n <= asked[ch]

\* The x402 enforcer has had its turn with the pump's request.
Decided(ch) ==
    \E j \in DOMAIN kind[ch].pipeline :
        j < pump[ch].i /\ kind[ch].pipeline[j] = "x402"

\* Receipts are about requests that were read, and about the pump's only once
\* the x402 enforcer has had its turn.
Once(ch) ==
    LET logged == Ns(receipts[ch])
        waiting == Ns(pending[ch])
    IN  /\ Distinct(receipts[ch]) /\ Distinct(pending[ch]) /\ logged \cap waiting = {}
        /\ \A m \in logged \cup waiting :
                /\ m <= asked[ch] /\ \A k \in Ns(inbox[ch]) : m < k
                /\ Busy(ch) => m <= pump[ch].n
        /\ (/\ pump[ch].at \in {"enforce", "record"}
            /\ pump[ch].n \in logged \cup waiting) => Decided(ch)

\* A payment that passed the x402 enforcer has its receipt.
Receipted(ch) ==
    LET allowed == AllowedNs(receipts[ch]) \cup AllowedNs(pending[ch])
    IN  /\ \A r \in ToSet(tunnel[ch]) :
                Observes(ch) /\ IsPayment(r.req) => r.n \in allowed
        /\ pump[ch].at = "enforce" /\ IsPayment(pump[ch].req) /\ Decided(ch)
                => pump[ch].n \in allowed

Over(ch) == life[ch] = "finished" => pump[ch].at = "done" /\ pending[ch] = <<>>

ChannelInv(ch) ==
    /\ Pumping(ch) /\ Permitted(ch) /\ Load(ch) /\ Queued(ch)
    /\ Once(ch) /\ Receipted(ch) /\ Over(ch)

IInv == ChannelTypeOK /\ BudgetTypeOK /\ \A ch \in Channels : ChannelInv(ch)

------------------------------------------------------------------------------
(* Channels share the budget only. *)

LEMMA KindType ==
    ASSUME ChannelTypeOK, NEW ch \in Channels
    PROVE  /\ kind[ch] \in Kind /\ kind[ch].pipeline \in Seq({"x402", "mcp"})
           /\ Len(kind[ch].pipeline) \in Nat
           /\ DOMAIN kind[ch].pipeline = 1..Len(kind[ch].pipeline)
           /\ kind[ch].most \in 0..MaxRequests
           /\ \A i, j \in DOMAIN kind[ch].pipeline :
                    kind[ch].pipeline[i] = kind[ch].pipeline[j] => i = j
<1>1. kind \in [Channels -> Kind]
  BY ProxyAssumption DEF ChannelTypeOK
<1>2. kind[ch] \in Kind
  BY <1>1
<1>3. kind[ch].pipeline \in Pipeline /\ kind[ch].most \in 0..MaxRequests
  BY <1>2 DEF Kind
<1> QED
  BY <1>2, <1>3 DEF Pipeline

\* A step leaves the channel alone.
Same(ch) ==
    /\ kind'[ch] = kind[ch]
    /\ asked'[ch] = asked[ch] /\ got'[ch] = got[ch] /\ inbox'[ch] = inbox[ch]
    /\ tunnel'[ch] = tunnel[ch] /\ answers'[ch] = answers[ch]
    /\ pump'[ch] = pump[ch] /\ responder'[ch] = responder[ch]
    /\ pending'[ch] = pending[ch] /\ receipts'[ch] = receipts[ch]
    /\ life'[ch] = life[ch]

LEMMA SameStays ==
    ASSUME NEW ch \in Channels, ChannelInv(ch), Same(ch)
    PROVE  ChannelInv(ch)'
<1>1. Pumping(ch)'
  BY DEF ChannelInv, Same, Pumping, Busy
<1>2. Permitted(ch)'
  BY DEF ChannelInv, Same, Permitted, Enforcers
<1>3. Load(ch)'
  BY DEF ChannelInv, Same, Load, InInbox, InTunnel, InAnswers, InPump, InResponder,
     Busy, Answering
<1>4. Queued(ch)'
  BY DEF ChannelInv, Same, Queued, Busy
<1>5. Decided(ch)' <=> Decided(ch)
  BY DEF Same, Decided
<1>6. Once(ch)'
  BY <1>5 DEF ChannelInv, Same, Once, Busy
<1>7. Receipted(ch)'
  BY <1>5 DEF ChannelInv, Same, Receipted, Observes, Enforcers
<1>8. Over(ch)'
  BY DEF ChannelInv, Same, Over
<1> QED
  BY <1>1, <1>2, <1>3, <1>4, <1>6, <1>7, <1>8 DEF ChannelInv

LEMMA ChannelStep ==
    ASSUME IInv, NEW ch \in Channels, ChannelTypeOK', BudgetTypeOK', ChannelInv(ch)',
           \A d \in Channels \ {ch} : Same(d)
    PROVE  IInv'
<1> SUFFICES ASSUME NEW d \in Channels PROVE ChannelInv(d)'
  BY DEF IInv
<1> QED
  BY SameStays DEF IInv

------------------------------------------------------------------------------
(* The pump. *)

LEMMA Bounds ==
    /\ MaxRequests \in Nat /\ MaxEpochs \in Nat \ {0} /\ MaxPerEpoch \in Nat
    /\ Amounts \subseteq Nat
    /\ Numbers \subseteq Nat \ {0} /\ Numbers \subseteq 0..MaxRequests
BY ProxyAssumption DEF Numbers

LEMMA QueueNumbers ==
    ASSUME NEW s \in Seq(Numbered)
    PROVE  Ns(s) \subseteq Nat \ {0}
<1>1. \A i \in DOMAIN s : s[i] \in Numbered
  OBVIOUS
<1>2. \A x \in Numbered : x.n \in Numbers
  BY DEF Numbered
<1> QED
  BY <1>1, <1>2, Bounds DEF Ns

LEMMA ReceiptNumbers ==
    ASSUME NEW s \in Seq(Receipt)
    PROVE  Ns(s) \subseteq Nat \ {0}
<1>1. \A i \in DOMAIN s : s[i] \in Receipt
  OBVIOUS
<1>2. \A x \in Receipt : x.n \in Numbers
  BY DEF Receipt
<1> QED
  BY <1>1, <1>2, Bounds DEF Ns

LEMMA Counts ==
    ASSUME IInv, NEW ch \in Channels
    PROVE  /\ InInbox(ch) \in Nat /\ InTunnel(ch) \in Nat /\ InAnswers(ch) \in Nat
           /\ InPump(ch) \in 0..1 /\ InResponder(ch) \in 0..1
           /\ asked[ch] \in Nat /\ got[ch] \in Nat /\ kind[ch].most \in 0..MaxRequests
           /\ Load(ch)
<1>1. /\ inbox[ch] \in Seq(Numbered) /\ tunnel[ch] \in Seq(Numbered)
      /\ answers[ch] \in Seq(Answer) /\ asked[ch] \in Nat /\ got[ch] \in Nat
      /\ Load(ch)
  BY DEF IInv, ChannelTypeOK, ChannelInv
<1>2. InInbox(ch) \in Nat
  BY <1>1 DEF InInbox
<1>3. InTunnel(ch) \in Nat
  BY <1>1 DEF InTunnel
<1>4. InAnswers(ch) \in Nat
  BY <1>1 DEF InAnswers
<1>5. kind[ch].most \in 0..MaxRequests
  BY KindType DEF IInv
<1> QED
  BY <1>1, <1>2, <1>3, <1>4, <1>5 DEF InPump, InResponder

LEMMA Hands ==
    /\ NoRequest \in PumpState /\ NoPump \in PumpState /\ NoRequest.at = "read"
    /\ NoPump.at = "done" /\ NoRequest.i = 1 /\ NoPump.i = 1
    /\ NoAnswer \in ResponderState /\ NoResponder \in ResponderState
    /\ NoAnswer.at = "read" /\ NoResponder.at = "done"
<1>1. 0 \in 0..MaxRequests
  BY Bounds
<1>2. NoRequest \in PumpState /\ NoRequest.at = "read" /\ NoRequest.i = 1
  BY <1>1 DEF NoRequest, PumpState
<1>3. NoPump \in PumpState /\ NoPump.at = "done" /\ NoPump.i = 1
  BY <1>2 DEF NoPump, PumpState
<1>4. NoAnswer \in ResponderState /\ NoAnswer.at = "read"
  BY DEF NoAnswer, ResponderState
<1>5. NoResponder \in ResponderState /\ NoResponder.at = "done"
  BY <1>4 DEF NoResponder, ResponderState
<1> QED
  BY <1>2, <1>3, <1>4, <1>5

\* A pump that ends drops what it had, or has told the agent that it was denied.
LEMMA PumpStops ==
    ASSUME IInv, NEW ch \in Channels, PumpEnds(ch),
           UNCHANGED <<kind, asked, inbox, servers, records, challenges, budget, paid,
                       responder, ends, life>>,
           \/ got' = got
           \/ Busy(ch) /\ got' = [got EXCEPT ![ch] = got[ch] + 1]
    PROVE  IInv'
<1>1. /\ pump' = [pump EXCEPT ![ch] = NoPump] /\ pump \in [Channels -> PumpState]
      /\ got \in [Channels -> Nat] /\ ChannelInv(ch)
  BY DEF PumpEnds, IInv, ChannelTypeOK
<1>2. ChannelTypeOK' /\ BudgetTypeOK'
  <2>1. got' \in [Channels -> Nat]
    BY <1>1
  <2>2. pump' \in [Channels -> PumpState]
    BY <1>1, Hands
  <2>3. ChannelTypeOK'
    BY <2>1, <2>2 DEF servers, records, challenges, IInv, ChannelTypeOK
  <2>4. BudgetTypeOK'
    BY DEF budget, IInv, BudgetTypeOK
  <2> QED
    BY <2>3, <2>4
<1>3. pump'[ch] = NoPump /\ ~Busy(ch)'
  BY <1>1, Hands DEF Busy
<1>4. \A d \in Channels \ {ch} : Same(d)
  BY <1>1 DEF servers, records, Same
<1>5. Pumping(ch)' /\ Permitted(ch)'
  <2>1. Len(kind[ch].pipeline) \in Nat
    BY KindType DEF IInv
  <2>2. Pumping(ch)'
    BY <1>3, <2>1, Hands DEF Pumping
  <2> QED
    BY <1>1, <2>2 DEF ChannelInv, Permitted, servers, Enforcers
<1>6. Load(ch)'
  <2>1. got'[ch] = got[ch] \/ (Busy(ch) /\ got'[ch] = got[ch] + 1)
    BY <1>1
  <2>2. /\ asked' = asked /\ InInbox(ch)' = InInbox(ch) /\ InTunnel(ch)' = InTunnel(ch)
        /\ InAnswers(ch)' = InAnswers(ch) /\ kind' = kind /\ InResponder(ch)' = InResponder(ch)
    BY DEF servers, InInbox, InTunnel, InAnswers, InResponder, Answering
  <2>3. InPump(ch)' = 0 /\ (Busy(ch) => InPump(ch) = 1)
    BY <1>3 DEF InPump
  <2> QED
    BY <2>1, <2>2, <2>3, Counts DEF Load
<1>7. Queued(ch)' /\ Once(ch)'
  BY <1>1, <1>3, Hands DEF ChannelInv, Queued, Once, records
<1>8. Receipted(ch)' /\ Over(ch)'
  BY <1>1, <1>3, Hands DEF ChannelInv, Receipted, Over, Observes, Enforcers, servers, records
<1> QED
  BY <1>2, <1>4, <1>5, <1>6, <1>7, <1>8, ChannelStep DEF ChannelInv

LEMMA ReadFailsStep ==
    ASSUME IInv, NEW ch \in Channels, ReadFails(ch) \/ PumpWriteFails(ch) \/ Deny(ch)
    PROVE  IInv'
<1>1. CASE ReadFails(ch) \/ PumpWriteFails(ch)
  BY <1>1, PumpStops DEF ReadFails, PumpWriteFails, agents
<1>2. CASE Deny(ch)
  <2>1. Busy(ch) /\ got' = [got EXCEPT ![ch] = got[ch] + 1]
    BY <1>2 DEF Deny, At, Busy, IInv, ChannelTypeOK
  <2> QED
    BY <1>2, <2>1, PumpStops DEF Deny
<1> QED
  BY <1>1, <1>2

\* The pump takes the next request: its number is above all that were decided.
LEMMA ReadRequestStep ==
    ASSUME IInv, NEW ch \in Channels, ReadRequest(ch)
    PROVE  IInv'
<1> DEFINE r == Head(inbox[ch])
           p == [NoRequest EXCEPT !.n = r.n, !.req = r.req,
                    !.at = IF r.req.form = "oversize" THEN "deny" ELSE "enforce"]
<1>1. /\ pump[ch].at = "read" /\ inbox[ch] # <<>>
      /\ pump' = [pump EXCEPT ![ch] = p] /\ inbox' = [inbox EXCEPT ![ch] = Tail(inbox[ch])]
      /\ UNCHANGED <<kind, asked, got, servers, records, challenges, budget, paid,
                     responder, ends, life>>
  BY DEF ReadRequest, At, Pop, IInv, ChannelTypeOK
<1>2. /\ pump \in [Channels -> PumpState] /\ inbox \in [Channels -> Seq(Numbered)]
      /\ inbox[ch] \in Seq(Numbered) /\ ChannelInv(ch) /\ asked[ch] \in Nat
  BY DEF IInv, ChannelTypeOK
<1>3. /\ Tail(inbox[ch]) \in Seq(Numbered) /\ r \in Numbered
      /\ Len(Tail(inbox[ch])) = Len(inbox[ch]) - 1
      /\ Ns(inbox[ch]) = {r.n} \cup Ns(Tail(inbox[ch]))
      /\ Ascending(inbox[ch]) => /\ Ascending(Tail(inbox[ch]))
                                 /\ \A m \in Ns(Tail(inbox[ch])) : r.n < m
  BY <1>1, <1>2, Popped
<1>4. /\ p \in PumpState /\ p.n = r.n /\ p.req = r.req /\ p.i = 1
      /\ p.at \in {"deny", "enforce"} /\ r.n \in Numbers /\ r.req \in Requests
  <2>1. r.n \in Numbers /\ r.req \in Requests
    BY <1>3 DEF Numbered
  <2>2. r.n \in 0..MaxRequests
    BY <2>1, Bounds
  <2> HIDE DEF r
  <2> QED
    BY <2>1, <2>2, Hands DEF PumpState
<1> HIDE DEF p, r
<1>5. /\ pump'[ch] = p /\ inbox'[ch] = Tail(inbox[ch])
      /\ Busy(ch)' /\ ~Busy(ch)
  BY <1>1, <1>2, <1>4 DEF Busy
<1>6. ChannelTypeOK' /\ BudgetTypeOK'
  BY <1>1, <1>2, <1>3, <1>4 DEF servers, records, challenges, budget,
     IInv, ChannelTypeOK, BudgetTypeOK
<1>7. \A d \in Channels \ {ch} : Same(d)
  BY <1>1, <1>2 DEF servers, records, Same
<1>8. Pumping(ch)' /\ Permitted(ch)'
  <2>1. Len(kind[ch].pipeline) \in Nat /\ DOMAIN kind[ch].pipeline = 1..Len(kind[ch].pipeline)
    BY KindType DEF IInv
  <2>2. Pumping(ch)'
    BY <1>1, <1>4, <1>5, <2>1 DEF Pumping
  <2> QED
    BY <1>1, <1>2, <2>2 DEF ChannelInv, Permitted, servers, Enforcers
<1>9. Load(ch)'
  <2>1. /\ asked' = asked /\ got' = got /\ InTunnel(ch)' = InTunnel(ch)
        /\ InAnswers(ch)' = InAnswers(ch) /\ kind' = kind /\ InResponder(ch)' = InResponder(ch)
    BY <1>1 DEF servers, InTunnel, InAnswers, InResponder, Answering
  <2>2. InPump(ch)' = 1 /\ InPump(ch) = 0
    BY <1>5 DEF InPump
  <2>3. InInbox(ch)' = InInbox(ch) - 1
    BY <1>3, <1>5 DEF InInbox
  <2> QED
    BY <2>1, <2>2, <2>3, Counts DEF Load
<1>10. Queued(ch)'
  BY <1>1, <1>2, <1>3, <1>4, <1>5 DEF ChannelInv, Queued
<1>11. Once(ch)'
  <2>1. \A m \in Ns(receipts[ch]) \cup Ns(pending[ch]) :
            /\ m <= asked[ch] /\ \A k \in Ns(inbox[ch]) : m < k
    BY <1>2 DEF ChannelInv, Once
  <2>2. \A m \in Ns(receipts[ch]) \cup Ns(pending[ch]) : m < r.n
    BY <1>3, <2>1
  <2>3. r.n \in Nat /\ \A m \in Ns(receipts[ch]) \cup Ns(pending[ch]) : m \in Nat
    <3>1. receipts[ch] \in Seq(Receipt) /\ pending[ch] \in Seq(Receipt)
      BY DEF IInv, ChannelTypeOK
    <3> QED
      BY <1>4, <3>1, ReceiptNumbers, Bounds
  <2>4. /\ asked'[ch] = asked[ch] /\ pump'[ch].n = r.n
        /\ receipts'[ch] = receipts[ch] /\ pending'[ch] = pending[ch]
        /\ \A k \in Ns(inbox'[ch]) : k \in Ns(inbox[ch])
    BY <1>1, <1>3, <1>4, <1>5 DEF records
  <2>5. \A m \in Ns(receipts[ch]) \cup Ns(pending[ch]) : m <= r.n /\ m # r.n
    BY <2>2, <2>3
  <2>6. /\ Distinct(receipts[ch]) /\ Distinct(pending[ch])
        /\ Ns(receipts[ch]) \cap Ns(pending[ch]) = {}
    BY <1>2 DEF ChannelInv, Once
  <2> QED
    BY <1>5, <2>1, <2>4, <2>5, <2>6 DEF Once
<1>12. Receipted(ch)' /\ Over(ch)'
  <2>1. ~Decided(ch)'
    <3>1. Len(kind[ch].pipeline) \in Nat /\ DOMAIN kind[ch].pipeline = 1..Len(kind[ch].pipeline)
      BY KindType DEF IInv
    <3> QED
      BY <1>1, <1>4, <1>5, <3>1 DEF Decided
  <2> QED
    BY <1>1, <1>2, <2>1 DEF ChannelInv, Receipted, Over, Observes, Enforcers, servers, records
<1> QED
  BY <1>6, <1>7, <1>8, <1>9, <1>10, <1>11, <1>12, ChannelStep DEF ChannelInv

------------------------------------------------------------------------------
(* The enforcers. *)

\* A step of an enforcer keeps the request in the pump's hands.
LEMMA VerdictStep ==
    ASSUME IInv, NEW ch \in Channels, NEW p \in PumpState, Busy(ch),
           pump' = [pump EXCEPT ![ch] = p],
           p.n = pump[ch].n, p.req = pump[ch].req, p.at \in {"enforce", "record", "deny"},
           UNCHANGED <<kind, agents, servers, responder, ends, life>>,
           receipts' \in [Channels -> Seq(Receipt)], pending' \in [Channels -> Seq(Receipt)],
           challenge' \in [Channels -> Challenges \cup {None}],
           offered' \in [Channels -> Challenges \cup {None}], BudgetTypeOK',
           \A d \in Channels \ {ch} : receipts'[d] = receipts[d] /\ pending'[d] = pending[d],
           Pumping(ch)', Once(ch)', Receipted(ch)'
    PROVE  IInv'
<1>1. pump \in [Channels -> PumpState] /\ ChannelInv(ch)
  BY DEF IInv, ChannelTypeOK
<1>2. pump'[ch] = p /\ Busy(ch)'
  BY <1>1 DEF Busy
<1>3. ChannelTypeOK'
  <2>1. pump' \in [Channels -> PumpState]
    BY <1>1
  <2> QED
    BY <2>1 DEF agents, servers, IInv, ChannelTypeOK
<1>4. \A d \in Channels \ {ch} : Same(d)
  BY <1>1 DEF agents, servers, Same
<1>5. Permitted(ch)'
  BY <1>1 DEF ChannelInv, Permitted, servers, Enforcers
<1>6. Load(ch)'
  <2>1. /\ asked' = asked /\ got' = got /\ InInbox(ch)' = InInbox(ch)
        /\ InTunnel(ch)' = InTunnel(ch) /\ InAnswers(ch)' = InAnswers(ch) /\ kind' = kind
        /\ InResponder(ch)' = InResponder(ch)
    BY DEF agents, servers, InInbox, InTunnel, InAnswers, InResponder, Answering
  <2>2. InPump(ch)' = InPump(ch)
    BY <1>2 DEF InPump
  <2> QED
    BY <2>1, <2>2, Counts DEF Load
<1>7. Queued(ch)'
  BY <1>1, <1>2 DEF ChannelInv, Queued, agents
<1>8. Over(ch)'
  BY <1>1 DEF ChannelInv, Over, Busy
<1> QED
  BY <1>3, <1>4, <1>5, <1>6, <1>7, <1>8, ChannelStep DEF ChannelInv

\* The pump's request has no receipt before the x402 enforcer's turn, which
\* comes once.
LEMMA Undecided ==
    ASSUME IInv, NEW ch \in Channels, pump[ch].at \in {"enforce", "record"},
           pump[ch].i \in DOMAIN kind[ch].pipeline,
           kind[ch].pipeline[pump[ch].i] = "x402"
    PROVE  /\ ~Decided(ch)
           /\ pump[ch].n \notin Ns(receipts[ch]) \cup Ns(pending[ch])
<1>1. ~Decided(ch)
  <2> SUFFICES ASSUME NEW j \in DOMAIN kind[ch].pipeline, j < pump[ch].i,
                      kind[ch].pipeline[j] = "x402"
               PROVE  FALSE
    BY DEF Decided
  <2>1. j = pump[ch].i
    BY KindType DEF IInv
  <2>2. j \in Nat
    BY KindType DEF IInv
  <2> QED
    BY <2>1, <2>2
<1> QED
  BY <1>1 DEF IInv, ChannelInv, Once

\* What holds of the pump of a channel whose enforcer has its turn.
LEMMA AtTurn ==
    ASSUME IInv, NEW ch \in Channels, NEW enforcer, Turn(ch, enforcer)
    PROVE  /\ pump[ch] \in PumpState /\ Busy(ch) /\ pump[ch].at = "enforce"
           /\ pump[ch].i \in DOMAIN kind[ch].pipeline
           /\ kind[ch].pipeline[pump[ch].i] = enforcer
           /\ pump[ch].n \in Numbers /\ pump[ch].req \in Requests
           /\ \A j \in DOMAIN kind[ch].pipeline :
                    j < pump[ch].i => Passed(kind[ch].pipeline[j], pump[ch].req)
           /\ ChannelInv(ch)
<1>1. /\ pump[ch] \in PumpState /\ ChannelInv(ch) /\ pump[ch].at = "enforce"
      /\ pump[ch].i <= Len(kind[ch].pipeline)
      /\ kind[ch].pipeline[pump[ch].i] = enforcer
  BY DEF Turn, At, IInv, ChannelTypeOK
<1>2. pump[ch].i \in Nat \ {0}
  BY <1>1 DEF PumpState
<1>3. pump[ch].i \in DOMAIN kind[ch].pipeline
  BY <1>1, <1>2, KindType DEF IInv
<1>4. Busy(ch)
  BY <1>1 DEF Busy
<1> QED
  BY <1>1, <1>3, <1>4 DEF ChannelInv, Pumping

\* The request goes to the next enforcer, or to the tunnel.
LEMMA Advances ==
    ASSUME IInv, NEW ch \in Channels, pump[ch].at \in {"enforce", "record"},
           pump[ch].i \in DOMAIN kind[ch].pipeline,
           Passed(kind[ch].pipeline[pump[ch].i], pump[ch].req),
           NextEnforcer(ch), kind' = kind
    PROVE  \E p \in PumpState :
                /\ pump' = [pump EXCEPT ![ch] = p]
                /\ p.n = pump[ch].n /\ p.req = pump[ch].req /\ p.at = "enforce"
                /\ p.i = pump[ch].i + 1 /\ p.allow = pump[ch].allow
                /\ pump'[ch] = p /\ Pumping(ch)'
                /\ Decided(ch)' <=>
                        Decided(ch) \/ kind[ch].pipeline[pump[ch].i] = "x402"
<1> DEFINE q == pump[ch]
           p == [q EXCEPT !.i = q.i + 1, !.at = "enforce"]
           l == kind[ch].pipeline
<1>1. /\ pump \in [Channels -> PumpState] /\ q \in PumpState /\ Pumping(ch)
      /\ q.i \in Nat \ {0}
  BY DEF IInv, ChannelTypeOK, ChannelInv, PumpState
<1>2. pump' = [pump EXCEPT ![ch] = p]
  BY <1>1 DEF NextEnforcer
<1>3. /\ p \in PumpState /\ p.n = q.n /\ p.req = q.req /\ p.at = "enforce" /\ p.i = q.i + 1
      /\ p.allow = q.allow
  <2>1. q.i + 1 \in Nat \ {0}
    BY <1>1
  <2> HIDE DEF q
  <2> QED
    BY <1>1, <2>1 DEF PumpState
<1> HIDE DEF p
<1>4. pump'[ch] = p
  BY <1>1, <1>2, <1>3
<1>5. Len(l) \in Nat /\ DOMAIN l = 1..Len(l)
  BY KindType DEF IInv
<1>6. \A j \in DOMAIN l : j < q.i + 1 <=> (j < q.i \/ j = q.i)
  BY <1>1, <1>5
<1>7. q.i + 1 <= Len(l) + 1
  BY <1>1, <1>5
<1>8. Pumping(ch)'
  <2>1. q.n \in Numbers /\ q.req \in Requests
    BY <1>1 DEF Pumping, Busy
  <2>2. \A j \in DOMAIN l : j < q.i => Passed(l[j], q.req)
    BY <1>1 DEF Pumping
  <2> QED
    BY <1>3, <1>4, <1>6, <1>7, <2>1, <2>2 DEF Pumping
<1>9. Decided(ch)' <=> Decided(ch) \/ l[q.i] = "x402"
  BY <1>3, <1>4, <1>6 DEF Decided
<1> QED
  BY <1>2, <1>3, <1>4, <1>8, <1>9

Turned(q, stage, b) == [q EXCEPT !.at = stage, !.allow = b]

HandsOver(ch, stage, b) ==
    \E p \in PumpState :
        /\ pump' = [pump EXCEPT ![ch] = p]
        /\ p.n = pump[ch].n /\ p.req = pump[ch].req /\ p.at = stage
        /\ p.i = pump[ch].i /\ p.allow = b
        /\ pump'[ch] = p /\ Pumping(ch)'
        /\ Decided(ch)' <=> Decided(ch)

\* A verdict that denies, or hands the payment to record.
LEMMA TurnsTo ==
    ASSUME IInv, NEW ch \in Channels, NEW stage \in {"deny", "record"}, NEW b \in BOOLEAN,
           Busy(ch), kind' = kind,
           stage = "record" => /\ pump[ch].at = "enforce" /\ IsPayment(pump[ch].req)
                               /\ pump[ch].i \in DOMAIN kind[ch].pipeline
                               /\ kind[ch].pipeline[pump[ch].i] = "x402",
           pump' = [pump EXCEPT ![ch] = Turned(pump[ch], stage, b)]
    PROVE  HandsOver(ch, stage, b)
<1> DEFINE q == pump[ch]
           p == Turned(q, stage, b)
<1>1. pump \in [Channels -> PumpState] /\ q \in PumpState /\ Pumping(ch)
  BY DEF IInv, ChannelTypeOK, ChannelInv
<1>2. pump' = [pump EXCEPT ![ch] = p]
  OBVIOUS
<1>3. /\ p \in PumpState /\ p.n = q.n /\ p.req = q.req /\ p.at = stage /\ p.i = q.i
      /\ p.allow = b
  <2> HIDE DEF q
  <2> QED
    BY <1>1 DEF PumpState, Turned
<1> HIDE DEF p
<1>4. pump'[ch] = p
  BY <1>1, <1>2, <1>3
<1>5. Pumping(ch)'
  BY <1>1, <1>3, <1>4 DEF Pumping, Busy
<1>6. Decided(ch)' <=> Decided(ch)
  BY <1>3, <1>4 DEF Decided
<1> QED
  BY <1>2, <1>3, <1>4, <1>5, <1>6 DEF HandsOver

\* Where the pump is, changed alone.
LEMMA SameAllow ==
    ASSUME NEW q \in PumpState, NEW stage
    PROVE  [q EXCEPT !.at = stage] = Turned(q, stage, q.allow)
<1> DEFINE r == [q EXCEPT !.at = stage]
<1>1. r.allow = q.allow /\ DOMAIN r = DOMAIN q /\ "allow" \in DOMAIN q
  BY DEF PumpState
<1>2. [r EXCEPT !.allow = r.allow] = r
  BY <1>1
<1> QED
  BY <1>1, <1>2 DEF Turned

\* A denial leaves the verdict's other parts as they are.
LEMMA Denies ==
    ASSUME IInv, NEW ch \in Channels, Busy(ch), Goes(ch, "deny"), kind' = kind
    PROVE  \E p \in PumpState :
                /\ pump' = [pump EXCEPT ![ch] = p]
                /\ p.n = pump[ch].n /\ p.req = pump[ch].req /\ p.at = "deny"
                /\ p.i = pump[ch].i /\ p.allow = pump[ch].allow
                /\ pump'[ch] = p /\ Pumping(ch)'
<1> DEFINE q == pump[ch]
           b == q.allow
<1>1. q \in PumpState /\ b \in BOOLEAN
  BY DEF IInv, ChannelTypeOK, PumpState
<1>2. [q EXCEPT !.at = "deny"] = Turned(q, "deny", b)
  BY <1>1, SameAllow
<1>3. pump' = [pump EXCEPT ![ch] = Turned(q, "deny", b)]
  BY <1>2 DEF Goes, IInv, ChannelTypeOK
<1>4. b = pump[ch].allow
  OBVIOUS
<1> HIDE DEF b
<1>5. HandsOver(ch, "deny", b)
  BY <1>1, <1>3, TurnsTo
<1> QED
  BY <1>4, <1>5 DEF HandsOver

LEMMA CheckToolsStep ==
    ASSUME IInv, NEW ch \in Channels, CheckTools(ch)
    PROVE  IInv'
<1>1. /\ Turn(ch, "mcp")
      /\ UNCHANGED <<kind, agents, servers, records, challenges, budget, paid,
                     responder, ends, life>>
  BY DEF CheckTools
<1>2. /\ Busy(ch) /\ pump[ch].at = "enforce" /\ ChannelInv(ch)
      /\ pump[ch].i \in DOMAIN kind[ch].pipeline
      /\ kind[ch].pipeline[pump[ch].i] = "mcp"
  BY <1>1, AtTurn
<1>3. \E p \in PumpState :
        /\ pump' = [pump EXCEPT ![ch] = p]
        /\ p.n = pump[ch].n /\ p.req = pump[ch].req /\ p.at \in {"enforce", "deny"}
        /\ pump'[ch] = p /\ Pumping(ch)'
        /\ p.at = "enforce" => (Decided(ch)' <=> Decided(ch))
  <2>1. CASE ToolsPermitted(pump[ch].req)
    <3>1. NextEnforcer(ch)
      BY <2>1 DEF CheckTools
    <3>2. Passed("mcp", pump[ch].req)
      BY <2>1 DEF Passed
    <3> QED
      BY <1>1, <1>2, <3>1, <3>2, Advances
  <2>2. CASE ~ToolsPermitted(pump[ch].req)
    <3>1. Goes(ch, "deny")
      BY <2>2 DEF CheckTools
    <3> QED
      BY <1>1, <1>2, <3>1, Denies
  <2> QED
    BY <2>1, <2>2
<1>4. PICK p \in PumpState :
        /\ pump' = [pump EXCEPT ![ch] = p]
        /\ p.n = pump[ch].n /\ p.req = pump[ch].req /\ p.at \in {"enforce", "deny"}
        /\ pump'[ch] = p /\ Pumping(ch)'
        /\ p.at = "enforce" => (Decided(ch)' <=> Decided(ch))
  BY <1>3
<1>5. /\ receipts' = receipts /\ pending' = pending /\ inbox' = inbox /\ asked' = asked
      /\ tunnel' = tunnel /\ kind' = kind
  BY <1>1 DEF records, agents, servers
<1>6. Once(ch)'
  BY <1>2, <1>4, <1>5 DEF ChannelInv, Once, Busy
<1>7. Receipted(ch)'
  BY <1>2, <1>4, <1>5 DEF ChannelInv, Receipted, Observes, Enforcers
<1>8. BudgetTypeOK'
  BY <1>1 DEF budget, IInv, BudgetTypeOK
<1> QED
  BY <1>1, <1>2, <1>4, <1>5, <1>6, <1>7, <1>8, VerdictStep
  DEF IInv, ChannelTypeOK, challenges

LEMMA NoPaymentStep ==
    ASSUME IInv, NEW ch \in Channels, NoPaymentHeader(ch)
    PROVE  IInv'
<1>1. /\ Turn(ch, "x402") /\ NextEnforcer(ch) /\ pump[ch].req.pay = None
      /\ UNCHANGED <<kind, agents, servers, records, challenges, budget, paid,
                     responder, ends, life>>
  BY DEF NoPaymentHeader
<1>2. /\ Busy(ch) /\ pump[ch].at = "enforce" /\ ChannelInv(ch)
      /\ pump[ch].i \in DOMAIN kind[ch].pipeline
      /\ kind[ch].pipeline[pump[ch].i] = "x402"
  BY <1>1, AtTurn
<1>3. Passed("x402", pump[ch].req) /\ ~IsPayment(pump[ch].req)
  BY <1>1, ProxyAssumption DEF Passed, IsPayment
<1>4. PICK p \in PumpState :
        /\ pump' = [pump EXCEPT ![ch] = p]
        /\ p.n = pump[ch].n /\ p.req = pump[ch].req /\ p.at = "enforce"
        /\ pump'[ch] = p /\ Pumping(ch)'
        /\ Decided(ch)'
  BY <1>1, <1>2, <1>3, Advances
<1>5. /\ receipts' = receipts /\ pending' = pending /\ inbox' = inbox /\ asked' = asked
      /\ tunnel' = tunnel /\ kind' = kind
  BY <1>1 DEF records, agents, servers
<1>6. Once(ch)'
  BY <1>2, <1>4, <1>5 DEF ChannelInv, Once, Busy
<1>7. Receipted(ch)'
  BY <1>2, <1>3, <1>4, <1>5 DEF ChannelInv, Receipted, Observes, Enforcers
<1>8. BudgetTypeOK'
  BY <1>1 DEF budget, IInv, BudgetTypeOK
<1> QED
  BY <1>1, <1>2, <1>4, <1>5, <1>6, <1>7, <1>8, VerdictStep
  DEF IInv, ChannelTypeOK, challenges

\* The channel's receipts are those it had and one of the pump's request.
Added(ch, allowed) ==
    /\ receipts' \in [Channels -> Seq(Receipt)] /\ pending' \in [Channels -> Seq(Receipt)]
    /\ \A d \in Channels \ {ch} : receipts'[d] = receipts[d] /\ pending'[d] = pending[d]
    /\ Ns(receipts'[ch]) \cup Ns(pending'[ch]) =
            Ns(receipts[ch]) \cup Ns(pending[ch]) \cup {pump[ch].n}
    /\ Ns(receipts'[ch]) \cap Ns(pending'[ch]) = {}
    /\ Distinct(receipts'[ch]) /\ Distinct(pending'[ch])
    /\ AllowedNs(receipts'[ch]) \cup AllowedNs(pending'[ch]) =
            AllowedNs(receipts[ch]) \cup AllowedNs(pending[ch]) \cup
                    (IF allowed THEN {pump[ch].n} ELSE {})

\* A receipt of the pump's request is added to the log or to those that wait,
\* when it has none yet.
LEMMA Adds ==
    ASSUME IInv, NEW ch \in Channels, pump[ch].n \in Numbers,
           pump[ch].n \notin Ns(receipts[ch]) \cup Ns(pending[ch]),
           NEW x \in Receipt, x.n = pump[ch].n,
           \/ receipts' = Push(receipts, ch, x) /\ pending' = pending
           \/ pending' = Push(pending, ch, x) /\ receipts' = receipts
    PROVE  Added(ch, x.allowed)
<1>1. /\ receipts \in [Channels -> Seq(Receipt)] /\ pending \in [Channels -> Seq(Receipt)]
      /\ receipts[ch] \in Seq(Receipt) /\ pending[ch] \in Seq(Receipt) /\ Once(ch)
  BY DEF IInv, ChannelTypeOK, ChannelInv
<1>2. CASE receipts' = Push(receipts, ch, x) /\ pending' = pending
  <2> DEFINE t == Append(receipts[ch], x)
  <2>1. /\ t \in Seq(Receipt) /\ Ns(t) = Ns(receipts[ch]) \cup {x.n} /\ Distinct(t)
        /\ AllowedNs(t) = IF x.allowed THEN AllowedNs(receipts[ch]) \cup {x.n}
                                       ELSE AllowedNs(receipts[ch])
    BY <1>1, Appended DEF Once
  <2>2. receipts' = [receipts EXCEPT ![ch] = t]
    BY <1>1, <1>2 DEF Push
  <2> HIDE DEF t
  <2>3. receipts'[ch] = t /\ \A d \in Channels \ {ch} : receipts'[d] = receipts[d]
    BY <1>1, <2>1, <2>2
  <2> QED
    BY <1>1, <1>2, <2>1, <2>2, <2>3 DEF Once, Added
<1>3. CASE pending' = Push(pending, ch, x) /\ receipts' = receipts
  <2> DEFINE t == Append(pending[ch], x)
  <2>1. /\ t \in Seq(Receipt) /\ Ns(t) = Ns(pending[ch]) \cup {x.n} /\ Distinct(t)
        /\ AllowedNs(t) = IF x.allowed THEN AllowedNs(pending[ch]) \cup {x.n}
                                       ELSE AllowedNs(pending[ch])
    BY <1>1, Appended DEF Once
  <2>2. pending' = [pending EXCEPT ![ch] = t]
    BY <1>1, <1>3 DEF Push
  <2> HIDE DEF t
  <2>3. pending'[ch] = t /\ \A d \in Channels \ {ch} : pending'[d] = pending[d]
    BY <1>1, <2>1, <2>2
  <2> QED
    BY <1>1, <1>3, <2>1, <2>2, <2>3 DEF Once, Added
<1> QED
  BY <1>2, <1>3

LEMMA AddsOnce ==
    ASSUME IInv, NEW ch \in Channels, Busy(ch), UNCHANGED <<kind, asked, inbox>>,
           NEW b \in BOOLEAN, Added(ch, b),
           pump'[ch].n = pump[ch].n, pump'[ch].at = "deny" \/ Decided(ch)'
    PROVE  Once(ch)'
<1>1. Once(ch) /\ Queued(ch) /\ pump[ch].n \in Nat
  BY Bounds DEF IInv, ChannelInv, Pumping
<1>2. /\ pump[ch].n <= asked[ch]
      /\ \A k \in Ns(inbox[ch]) : pump[ch].n < k
  BY <1>1 DEF Queued
<1>3. \A m \in Ns(receipts[ch]) \cup Ns(pending[ch]) \cup {pump[ch].n} :
            /\ m <= asked[ch] /\ \A k \in Ns(inbox[ch]) : m < k
            /\ m <= pump[ch].n
  BY <1>1, <1>2 DEF Once
<1> QED
  BY <1>3 DEF Once, Added

LEMMA MalformedStep ==
    ASSUME IInv, NEW ch \in Channels, MalformedHeader(ch)
    PROVE  IInv'
<1>1. /\ Turn(ch, "x402") /\ Goes(ch, "deny")
      /\ receipts' = Push(receipts, ch, Denied(ch))
      /\ UNCHANGED <<kind, agents, servers, pending, challenges, budget, paid,
                     responder, ends, life>>
  BY DEF MalformedHeader
<1>2. /\ Busy(ch) /\ pump[ch].at = "enforce" /\ ChannelInv(ch) /\ pump[ch].n \in Numbers
      /\ pump[ch].i \in DOMAIN kind[ch].pipeline
      /\ kind[ch].pipeline[pump[ch].i] = "x402"
  BY <1>1, AtTurn
<1>3. pump[ch].n \notin Ns(receipts[ch]) \cup Ns(pending[ch])
  BY <1>2, Undecided
<1>4. Denied(ch) \in Receipt /\ Denied(ch).n = pump[ch].n /\ Denied(ch).allowed = FALSE
  BY <1>2, Bounds DEF Denied, Receipt
<1>5. PICK p \in PumpState :
        /\ pump' = [pump EXCEPT ![ch] = p]
        /\ p.n = pump[ch].n /\ p.req = pump[ch].req /\ p.at = "deny"
        /\ pump'[ch] = p /\ Pumping(ch)'
  BY <1>1, <1>2, Denies
<1>6. Added(ch, FALSE)
  <2> DEFINE x == Denied(ch)
  <2>1. /\ x \in Receipt /\ x.n = pump[ch].n /\ x.allowed = FALSE
        /\ receipts' = Push(receipts, ch, x) /\ pending' = pending
    BY <1>1, <1>4
  <2> HIDE DEF x
  <2> QED
    BY <1>2, <1>3, <2>1, Adds
<1>7. Once(ch)'
  BY <1>1, <1>2, <1>5, <1>6, AddsOnce DEF agents
<1>8. Receipted(ch)'
  BY <1>1, <1>2, <1>5, <1>6 DEF ChannelInv, Receipted, Observes, Enforcers, servers, Added
<1>9. BudgetTypeOK'
  BY <1>1 DEF budget, IInv, BudgetTypeOK
<1> QED
  BY <1>1, <1>2, <1>5, <1>6, <1>7, <1>8, <1>9, VerdictStep
  DEF IInv, ChannelTypeOK, challenges, Added

\* The budget is never overdrawn, nor an epoch begun that was not to come.
LEMMA SpendType ==
    ASSUME BudgetTypeOK, NEW p \in Payment, Spend(p) \/ UNCHANGED budget, paid' \in Nat
    PROVE  BudgetTypeOK'
<1>1. p.amount \in Nat /\ MaxEpochs \in Nat /\ MaxPerEpoch \in Nat
  BY Bounds DEF Payment
<1>2. /\ spent \in 0..MaxPerEpoch /\ lapsed \in BOOLEAN /\ epochs \in 0..MaxEpochs
      /\ lapsed => epochs < MaxEpochs
  BY DEF BudgetTypeOK
<1>3. CASE Spend(p)
  <2>1. Before \in 0..MaxPerEpoch
    BY <1>1, <1>2 DEF Before
  <2>2. spent' \in 0..MaxPerEpoch
    <3>1. CASE Fits(p)
      BY <1>1, <1>3, <2>1, <3>1 DEF Spend, Fits
    <3>2. CASE ~Fits(p)
      BY <1>1, <1>3, <2>1, <3>2 DEF Spend
    <3> QED
      BY <3>1, <3>2
  <2>3. lapsed' = FALSE /\ epochs' \in 0..MaxEpochs
    BY <1>1, <1>2, <1>3 DEF Spend
  <2> QED
    BY <2>2, <2>3 DEF BudgetTypeOK
<1>4. CASE UNCHANGED budget
  BY <1>2, <1>4 DEF budget, BudgetTypeOK
<1> QED
  BY <1>3, <1>4

LEMMA EvaluateStep ==
    ASSUME IInv, NEW ch \in Channels, EvaluatePayment(ch)
    PROVE  IInv'
<1> DEFINE q == pump[ch]
           proper == Matches(q.req.pay, challenge[ch]) /\ InPolicy(q.req.pay)
           b == proper /\ Fits(q.req.pay)
<1>1. /\ Turn(ch, "x402") /\ IsPayment(q.req)
      /\ IF proper THEN Spend(q.req.pay) ELSE UNCHANGED budget
      /\ pump' = [pump EXCEPT ![ch].at = "record", ![ch].allow = b]
      /\ challenge' = [challenge EXCEPT ![ch] = None]
      /\ offered' = [offered EXCEPT ![ch] = None]
      /\ UNCHANGED <<kind, agents, servers, records, paid, responder, ends, life>>
  BY DEF EvaluatePayment
<1>2. /\ Busy(ch) /\ q.at = "enforce" /\ ChannelInv(ch)
      /\ q.i \in DOMAIN kind[ch].pipeline
      /\ kind[ch].pipeline[q.i] = "x402"
  BY <1>1, AtTurn
<1>3. q.n \notin Ns(receipts[ch]) \cup Ns(pending[ch]) /\ ~Decided(ch)
  BY <1>2, Undecided
<1>4. b \in BOOLEAN
  BY DEF Matches, InPolicy, Fits
<1>5. pump' = [pump EXCEPT ![ch] = Turned(q, "record", b)]
  <2>1. pump \in [Channels -> PumpState]
    BY DEF IInv, ChannelTypeOK
  <2> HIDE DEF b
  <2> QED
    BY <1>1, <2>1 DEF Turned
<1> HIDE DEF b
<1>6. PICK p \in PumpState :
        /\ pump' = [pump EXCEPT ![ch] = p]
        /\ p.n = q.n /\ p.req = q.req /\ p.at = "record"
        /\ pump'[ch] = p /\ Pumping(ch)'
  <2>1. HandsOver(ch, "record", b)
    BY <1>1, <1>2, <1>4, <1>5, TurnsTo
  <2> QED
    BY <2>1 DEF HandsOver
<1>7. /\ receipts' = receipts /\ pending' = pending /\ inbox' = inbox /\ asked' = asked
      /\ tunnel' = tunnel /\ kind' = kind
  BY <1>1 DEF records, agents, servers
<1>8. Once(ch)'
  BY <1>2, <1>3, <1>6, <1>7 DEF ChannelInv, Once, Busy
<1>9. Receipted(ch)'
  BY <1>2, <1>6, <1>7 DEF ChannelInv, Receipted, Observes, Enforcers
<1>10. BudgetTypeOK'
  <2>1. q.req.pay \in Payment /\ paid' \in Nat
    BY <1>1 DEF IsPayment, IInv, BudgetTypeOK
  <2>2. Spend(q.req.pay) \/ UNCHANGED budget
    BY <1>1
  <2> QED
    BY <2>1, <2>2, SpendType DEF IInv
<1>11. /\ challenge' \in [Channels -> Challenges \cup {None}]
       /\ offered' \in [Channels -> Challenges \cup {None}]
  BY <1>1 DEF IInv, ChannelTypeOK
<1> QED
  BY <1>1, <1>2, <1>6, <1>7, <1>8, <1>9, <1>10, <1>11, VerdictStep
  DEF IInv, ChannelTypeOK

LEMMA RecordStep ==
    ASSUME IInv, NEW ch \in Channels, RecordPayment(ch)
    PROVE  IInv'
<1>1. /\ pump[ch].at = "record"
      /\ UNCHANGED <<kind, agents, servers, challenges, budget, paid, responder, ends, life>>
  BY DEF RecordPayment, At
<1>2. /\ Busy(ch) /\ ChannelInv(ch) /\ pump[ch].n \in Numbers
      /\ pump[ch].i \in DOMAIN kind[ch].pipeline
      /\ kind[ch].pipeline[pump[ch].i] = "x402" /\ IsPayment(pump[ch].req)
  BY <1>1 DEF IInv, ChannelInv, Pumping, Busy
<1>3. pump[ch].n \notin Ns(receipts[ch]) \cup Ns(pending[ch])
  BY <1>1, <1>2, Undecided
<1>4. BudgetTypeOK'
  BY <1>1 DEF budget, IInv, BudgetTypeOK
<1>5. CASE pump[ch].allow
  <2>1. pending' = Push(pending, ch, Allowed(ch)) /\ NextEnforcer(ch) /\ receipts' = receipts
    BY <1>5 DEF RecordPayment
  <2>2. Passed("x402", pump[ch].req)
    BY <1>2, ProxyAssumption DEF Passed, IsPayment
  <2>3. PICK p \in PumpState :
          /\ pump' = [pump EXCEPT ![ch] = p]
          /\ p.n = pump[ch].n /\ p.req = pump[ch].req /\ p.at = "enforce"
          /\ pump'[ch] = p /\ Pumping(ch)' /\ Decided(ch)'
    BY <1>1, <1>2, <2>1, <2>2, Advances
  <2> DEFINE x == Allowed(ch)
  <2>4. x \in Receipt /\ x.n = pump[ch].n /\ x.allowed = TRUE
    BY <1>2, Bounds DEF Allowed, Receipt
  <2> HIDE DEF x
  <2>5. Added(ch, TRUE)
    <3>1. pending' = Push(pending, ch, x)
      BY <2>1 DEF x
    <3> QED
      BY <1>2, <1>3, <2>1, <2>4, <3>1, Adds
  <2>6. Once(ch)'
    BY <1>1, <1>2, <2>3, <2>5, AddsOnce DEF agents
  <2>7. Receipted(ch)'
    BY <1>1, <1>2, <2>3, <2>5 DEF ChannelInv, Receipted, Observes, Enforcers, servers, Added
  <2> QED
    BY <1>1, <1>2, <1>4, <2>3, <2>5, <2>6, <2>7, VerdictStep
    DEF IInv, ChannelTypeOK, challenges, Added
<1>6. CASE ~pump[ch].allow
  <2>1. receipts' = Push(receipts, ch, Denied(ch)) /\ Goes(ch, "deny") /\ pending' = pending
    BY <1>6 DEF RecordPayment
  <2>2. PICK p \in PumpState :
          /\ pump' = [pump EXCEPT ![ch] = p]
          /\ p.n = pump[ch].n /\ p.req = pump[ch].req /\ p.at = "deny"
          /\ pump'[ch] = p /\ Pumping(ch)'
    BY <1>1, <1>2, <2>1, Denies
  <2> DEFINE x == Denied(ch)
  <2>3. x \in Receipt /\ x.n = pump[ch].n /\ x.allowed = FALSE
    BY <1>2, Bounds DEF Denied, Receipt
  <2> HIDE DEF x
  <2>4. Added(ch, FALSE)
    <3>1. receipts' = Push(receipts, ch, x)
      BY <2>1 DEF x
    <3> QED
      BY <1>2, <1>3, <2>1, <2>3, <3>1, Adds
  <2>5. Once(ch)'
    BY <1>1, <1>2, <2>2, <2>4, AddsOnce DEF agents
  <2>6. Receipted(ch)'
    BY <1>1, <1>2, <2>2, <2>4 DEF ChannelInv, Receipted, Observes, Enforcers, servers, Added
  <2> QED
    BY <1>1, <1>2, <1>4, <2>2, <2>4, <2>5, <2>6, VerdictStep
    DEF IInv, ChannelTypeOK, challenges, Added
<1> QED
  BY <1>5, <1>6

LEMMA ForwardStep ==
    ASSUME IInv, NEW ch \in Channels, Forward(ch)
    PROVE  IInv'
<1> DEFINE q == pump[ch]
           l == kind[ch].pipeline
           x == [n |-> q.n, req |-> q.req]
<1>1. /\ q.at = "enforce" /\ q.i > Len(l)
      /\ tunnel' = [tunnel EXCEPT ![ch] = Append(tunnel[ch], x)]
      /\ paid' = IF Observes(ch) /\ IsPayment(q.req) THEN paid + q.req.pay.amount ELSE paid
      /\ pump' = [pump EXCEPT ![ch] = NoRequest]
      /\ UNCHANGED <<kind, agents, answers, unsettled, records, challenges, budget, responder, ends, life>>
  BY DEF Forward, Ready, At, Push, IInv, ChannelTypeOK
<1>2. /\ pump \in [Channels -> PumpState] /\ tunnel \in [Channels -> Seq(Numbered)]
      /\ tunnel[ch] \in Seq(Numbered) /\ ChannelInv(ch) /\ Busy(ch)
      /\ q.n \in Numbers /\ q.req \in Requests
  BY <1>1 DEF IInv, ChannelTypeOK, ChannelInv, Pumping, Busy
<1>3. x \in Numbered /\ x.n = q.n /\ x.req = q.req
  BY <1>2 DEF Numbered
<1>4. Len(l) \in Nat /\ DOMAIN l = 1..Len(l) /\ q.i \in Nat
  BY <1>2, KindType DEF IInv, PumpState
<1> DEFINE t == Append(tunnel[ch], x)
<1>5. t \in Seq(Numbered) /\ ToSet(t) = ToSet(tunnel[ch]) \cup {x} /\ Len(t) = Len(tunnel[ch]) + 1
  BY <1>2, <1>3, Appended
<1>6. tunnel' = [tunnel EXCEPT ![ch] = t]
  BY <1>1
<1> HIDE DEF x, t
<1>7. tunnel'[ch] = t /\ pump'[ch] = NoRequest /\ ~Busy(ch)'
  BY <1>1, <1>2, <1>6, Hands DEF Busy
<1>8. \A j \in DOMAIN l : j < q.i
  BY <1>1, <1>4
<1>9. ChannelTypeOK'
  <2>1. pump' \in [Channels -> PumpState]
    BY <1>1, <1>2, Hands
  <2>2. tunnel' \in [Channels -> Seq(Numbered)]
    BY <1>2, <1>5, <1>6
  <2> QED
    BY <1>1, <2>1, <2>2 DEF agents, records, challenges, IInv, ChannelTypeOK
<1>10. BudgetTypeOK'
  <2>1. IsPayment(q.req) => q.req.pay.amount \in Nat
    BY Bounds DEF IsPayment, Payment
  <2> QED
    BY <1>1, <2>1 DEF budget, IInv, BudgetTypeOK
<1>11. \A d \in Channels \ {ch} : Same(d)
  BY <1>1, <1>2, <1>6 DEF agents, records, Same
<1>12. Pumping(ch)'
  BY <1>1, <1>4, <1>7, Hands DEF Pumping
<1>13. Permitted(ch)'
  <2>1. ASSUME NEW e \in Enforcers(ch) PROVE Passed(e, x.req)
    <3>1. PICK j \in DOMAIN l : e = l[j]
      BY DEF Enforcers, ToSet
    <3> QED
      BY <1>1, <1>2, <1>3, <1>8, <3>1 DEF ChannelInv, Pumping
  <2>2. Enforcers(ch)' = Enforcers(ch)
    BY <1>1 DEF Enforcers
  <2> QED
    BY <1>2, <1>5, <1>7, <2>1, <2>2 DEF ChannelInv, Permitted
<1>14. Load(ch)'
  <2>1. /\ asked' = asked /\ got' = got /\ InInbox(ch)' = InInbox(ch)
        /\ InAnswers(ch)' = InAnswers(ch) /\ kind' = kind /\ InResponder(ch)' = InResponder(ch)
    BY <1>1 DEF agents, InInbox, InAnswers, InResponder, Answering
  <2>2. InPump(ch)' = 0 /\ InPump(ch) = 1
    BY <1>2, <1>7 DEF InPump
  <2>3. InTunnel(ch)' = InTunnel(ch) + 1
    BY <1>5, <1>7 DEF InTunnel
  <2> QED
    BY <2>1, <2>2, <2>3, Counts DEF Load
<1>15. Queued(ch)' /\ Once(ch)'
  BY <1>1, <1>2, <1>7, Hands DEF ChannelInv, Queued, Once, agents, records
<1>16. Receipted(ch)'
  <2>1. Observes(ch) /\ IsPayment(x.req) =>
            x.n \in AllowedNs(receipts[ch]) \cup AllowedNs(pending[ch])
    <3> SUFFICES ASSUME Observes(ch), IsPayment(q.req)
                 PROVE  q.n \in AllowedNs(receipts[ch]) \cup AllowedNs(pending[ch])
      BY <1>3
    <3>1. PICK j \in DOMAIN l : l[j] = "x402"
      BY DEF Observes, Enforcers, ToSet
    <3>2. Decided(ch)
      BY <1>8, <3>1 DEF Decided
    <3> QED
      BY <1>1, <1>2, <3>2 DEF ChannelInv, Receipted
  <2>2. Observes(ch)' = Observes(ch)
    BY <1>1 DEF Observes, Enforcers
  <2>3. \A r \in ToSet(tunnel'[ch]) : Observes(ch)' /\ IsPayment(r.req) =>
            r.n \in AllowedNs(receipts[ch]) \cup AllowedNs(pending[ch])
    BY <1>2, <1>5, <1>7, <2>1, <2>2 DEF ChannelInv, Receipted
  <2> QED
    BY <1>1, <1>7, <2>3, Hands DEF Receipted, records
<1>17. Over(ch)'
  BY <1>1, <1>2 DEF ChannelInv, Over, Busy
<1> QED
  BY <1>9, <1>10, <1>11, <1>12, <1>13, <1>14, <1>15, <1>16, <1>17, ChannelStep DEF ChannelInv

------------------------------------------------------------------------------
(* The responder, the end of a channel, and who is around. *)

\* The channel's receipts are about the same requests, wherever they are now.
Moved(ch) ==
    /\ receipts' \in [Channels -> Seq(Receipt)] /\ pending' \in [Channels -> Seq(Receipt)]
    /\ \A d \in Channels \ {ch} : receipts'[d] = receipts[d] /\ pending'[d] = pending[d]
    /\ Ns(receipts'[ch]) \cup Ns(pending'[ch]) = Ns(receipts[ch]) \cup Ns(pending[ch])
    /\ Ns(receipts'[ch]) \cap Ns(pending'[ch]) = {}
    /\ Distinct(receipts'[ch]) /\ Distinct(pending'[ch])
    /\ AllowedNs(receipts'[ch]) \cup AllowedNs(pending'[ch]) =
            AllowedNs(receipts[ch]) \cup AllowedNs(pending[ch])
    /\ pending[ch] = <<>> => pending'[ch] = <<>>

LEMMA Stays ==
    ASSUME IInv, NEW ch \in Channels, UNCHANGED records
    PROVE  Moved(ch)
BY DEF records, IInv, ChannelTypeOK, ChannelInv, Once, Moved

\* A step that is not the pump's takes requests from the tunnel at most.
LEMMA AsideStep ==
    ASSUME IInv, NEW ch \in Channels, UNCHANGED <<kind, asked, inbox, pump, budget, paid>>,
           Moved(ch), ToSet(tunnel'[ch]) \subseteq ToSet(tunnel[ch]), ChannelTypeOK',
           \A d \in Channels \ {ch} :
                /\ got'[d] = got[d] /\ tunnel'[d] = tunnel[d] /\ answers'[d] = answers[d]
                /\ responder'[d] = responder[d] /\ life'[d] = life[d],
           Load(ch)', Over(ch)'
    PROVE  IInv'
<1>1. ChannelInv(ch)
  BY DEF IInv
<1>2. BudgetTypeOK'
  BY DEF budget, IInv, BudgetTypeOK
<1>3. \A d \in Channels \ {ch} : Same(d)
  BY DEF Same, Moved
<1>4. Pumping(ch)' /\ Permitted(ch)' /\ Queued(ch)'
  BY <1>1 DEF ChannelInv, Pumping, Permitted, Queued, Busy, Enforcers
<1>5. Decided(ch)' <=> Decided(ch)
  BY DEF Decided
<1>6. Once(ch)'
  BY <1>1, <1>5 DEF ChannelInv, Once, Moved, Busy
<1>7. Receipted(ch)'
  BY <1>1, <1>5 DEF ChannelInv, Receipted, Moved, Observes, Enforcers
<1> QED
  BY <1>2, <1>3, <1>4, <1>6, <1>7, ChannelStep DEF ChannelInv

\* finalizePending moves the oldest receipt that waits to the log.
LEMMA SettleMoves ==
    ASSUME IInv, NEW ch \in Channels, NEW a \in Answer, Settle(ch, a), pending[ch] # <<>>
    PROVE  Moved(ch)
<1> DEFINE h == Head(pending[ch])
           x == [h EXCEPT !.tx = a.n]
           t == Tail(pending[ch])
           u == Append(receipts[ch], x)
<1>1. /\ receipts \in [Channels -> Seq(Receipt)] /\ pending \in [Channels -> Seq(Receipt)]
      /\ receipts[ch] \in Seq(Receipt) /\ pending[ch] \in Seq(Receipt) /\ Once(ch)
      /\ receipts' = [receipts EXCEPT ![ch] = u] /\ pending' = [pending EXCEPT ![ch] = t]
  BY DEF IInv, ChannelTypeOK, ChannelInv, Settle, Push, Pop
<1>2. /\ t \in Seq(Receipt) /\ h \in Receipt
      /\ Ns(pending[ch]) = {h.n} \cup Ns(t)
      /\ AllowedNs(pending[ch]) = IF h.allowed THEN {h.n} \cup AllowedNs(t) ELSE AllowedNs(t)
      /\ Distinct(pending[ch]) => Distinct(t) /\ h.n \notin Ns(t)
  BY <1>1, Popped
<1>3. x \in Receipt /\ x.n = h.n /\ x.allowed = h.allowed
  <2>1. a.n \in 0..MaxRequests
    BY Bounds DEF Answer
  <2> HIDE DEF h
  <2> QED
    BY <1>2, <2>1 DEF Receipt
<1> HIDE DEF h, x, t
<1>4. Distinct(t) /\ h.n \notin Ns(t) /\ h.n \notin Ns(receipts[ch])
  BY <1>1, <1>2 DEF Once
<1>5. /\ u \in Seq(Receipt) /\ Ns(u) = Ns(receipts[ch]) \cup {h.n} /\ Distinct(u)
      /\ AllowedNs(u) = IF h.allowed THEN AllowedNs(receipts[ch]) \cup {h.n}
                                     ELSE AllowedNs(receipts[ch])
  BY <1>1, <1>3, <1>4, Appended DEF Once
<1> HIDE DEF u
<1>6. receipts'[ch] = u /\ pending'[ch] = t
  BY <1>1, <1>2, <1>5
<1>7. /\ receipts' \in [Channels -> Seq(Receipt)] /\ pending' \in [Channels -> Seq(Receipt)]
      /\ \A d \in Channels \ {ch} : receipts'[d] = receipts[d] /\ pending'[d] = pending[d]
  BY <1>1, <1>2, <1>5
<1>8. Ns(u) \cap Ns(t) = {} /\ Ns(u) \cup Ns(t) = Ns(receipts[ch]) \cup Ns(pending[ch])
  BY <1>1, <1>2, <1>4, <1>5 DEF Once
<1>9. AllowedNs(u) \cup AllowedNs(t) = AllowedNs(receipts[ch]) \cup AllowedNs(pending[ch])
  BY <1>2, <1>5
<1> QED
  BY <1>4, <1>5, <1>6, <1>7, <1>8, <1>9 DEF Moved

LEMMA Reload ==
    ASSUME NEW i \in Nat, NEW p \in Nat, NEW t \in Nat, NEW most \in Nat,
           NEW g1 \in Nat, NEW a1 \in Nat, NEW r1 \in Nat,
           NEW g2 \in Nat, NEW a2 \in Nat, NEW r2 \in Nat,
           g1 + i + p + t + a1 + r1 <= most, g2 + a2 + r2 <= g1 + a1 + r1
    PROVE  g2 + i + p + t + a2 + r2 <= most
OBVIOUS

\* The responder turns to something else; at most one answer is in its hands.
LEMMA ResponderTurns ==
    ASSUME IInv, NEW ch \in Channels, NEW x \in ResponderState,
           responder' = [responder EXCEPT ![ch] = x],
           UNCHANGED <<kind, asked, inbox, pump, tunnel, unsettled, budget, paid, ends, life>>,
           Moved(ch), got' \in [Channels -> Nat], answers' \in [Channels -> Seq(Answer)],
           challenge' \in [Channels -> Challenges \cup {None}],
           offered' \in [Channels -> Challenges \cup {None}],
           \A d \in Channels \ {ch} : got'[d] = got[d] /\ answers'[d] = answers[d],
           got'[ch] + InAnswers(ch)' + (IF x.at \in {"head", "body"} THEN 1 ELSE 0)
                <= got[ch] + InAnswers(ch) + InResponder(ch)
    PROVE  IInv'
<1>1. responder \in [Channels -> ResponderState] /\ ChannelInv(ch)
  BY DEF IInv, ChannelTypeOK
<1>2. responder'[ch] = x /\ responder' \in [Channels -> ResponderState]
  BY <1>1
<1>3. ChannelTypeOK'
  BY <1>2 DEF IInv, ChannelTypeOK, Moved
<1>4. Load(ch)'
  <2>1. /\ asked' = asked /\ InInbox(ch)' = InInbox(ch) /\ InTunnel(ch)' = InTunnel(ch)
        /\ InPump(ch)' = InPump(ch) /\ kind' = kind
    BY DEF InInbox, InTunnel, InPump, Busy
  <2>2. /\ InResponder(ch)' = IF x.at \in {"head", "body"} THEN 1 ELSE 0
        /\ InResponder(ch)' \in Nat
    BY <1>2 DEF InResponder, Answering
  <2>3. got'[ch] \in Nat /\ InAnswers(ch)' \in Nat
    <3>1. answers'[ch] \in Seq(Answer)
      OBVIOUS
    <3> QED
      BY <3>1 DEF InAnswers
  <2>4. got'[ch] + InAnswers(ch)' + InResponder(ch)' <= got[ch] + InAnswers(ch) + InResponder(ch)
    BY <2>2
  <2>5. /\ asked'[ch] = asked[ch] /\ kind'[ch] = kind[ch]
        /\ InInbox(ch)' = InInbox(ch) /\ InTunnel(ch)' = InTunnel(ch)
        /\ InPump(ch)' = InPump(ch) /\ InResponder(ch)' \in Nat
    BY <2>1, <2>2
  <2>6. /\ InPump(ch) \in Nat /\ InResponder(ch) \in Nat
        /\ got[ch] + InInbox(ch) + InPump(ch) + InTunnel(ch) + InAnswers(ch)
                + InResponder(ch) <= asked[ch]
    BY Counts DEF Load
  <2>7. got'[ch] + InInbox(ch) + InPump(ch) + InTunnel(ch) + InAnswers(ch)'
            + InResponder(ch)' <= asked[ch]
    BY <2>3, <2>4, <2>5, <2>6, Counts, Reload
  <2> QED
    BY <2>5, <2>7, Counts DEF Load
<1>5. Over(ch)'
  BY <1>1 DEF ChannelInv, Over, Moved
<1>6. \A d \in Channels \ {ch} : responder'[d] = responder[d]
  BY <1>1
<1> QED
  BY <1>3, <1>4, <1>5, <1>6, AsideStep

LEMMA ReadAnswerStep ==
    ASSUME IInv, NEW ch \in Channels, ReadAnswer(ch)
    PROVE  IInv'
<1> DEFINE a == Head(answers[ch])
           x == [at |-> "head", answer |-> a]
           t == Tail(answers[ch])
<1>1. /\ responder[ch].at = "read" /\ answers[ch] # <<>>
      /\ responder' = [responder EXCEPT ![ch] = x]
      /\ Note(ch, a)
      /\ IF Observes(ch) /\ a.settles /\ pending[ch] # <<>>
         THEN Settle(ch, a) ELSE UNCHANGED records
      /\ answers' = [answers EXCEPT ![ch] = t]
      /\ UNCHANGED <<kind, agents, tunnel, unsettled, offered, budget, paid, pump, ends, life>>
  BY DEF ReadAnswer, Pop
<1>2. answers \in [Channels -> Seq(Answer)] /\ answers[ch] \in Seq(Answer)
  BY DEF IInv, ChannelTypeOK
<1>3. /\ t \in Seq(Answer) /\ a \in Answer /\ Len(t) = Len(answers[ch]) - 1
      /\ Len(answers[ch]) \in Nat
  BY <1>1, <1>2, Popped
<1>4. x \in ResponderState /\ x.at = "head"
  <2> HIDE DEF a
  <2> QED
    BY <1>3 DEF ResponderState
<1> HIDE DEF a, x, t
<1>5. Moved(ch)
  BY <1>1, <1>3, SettleMoves, Stays
<1>6. /\ answers' \in [Channels -> Seq(Answer)] /\ answers'[ch] = t
      /\ \A d \in Channels \ {ch} : answers'[d] = answers[d]
  BY <1>1, <1>2, <1>3
<1>7. challenge' \in [Channels -> Challenges \cup {None}]
  <2>1. a.ask \in Challenges \cup {None}
    BY <1>3 DEF Answer
  <2>2. challenge \in [Channels -> Challenges \cup {None}]
    BY DEF IInv, ChannelTypeOK
  <2>3. challenge' = [challenge EXCEPT ![ch] = a.ask] \/ challenge' = challenge
    BY <1>1 DEF Note
  <2> QED
    BY <2>1, <2>2, <2>3
<1>8. /\ InResponder(ch) = 0 /\ InAnswers(ch)' = InAnswers(ch) - 1
      /\ InAnswers(ch) \in Nat /\ got[ch] \in Nat /\ got' = got
  BY <1>1, <1>3, <1>6, Counts DEF InResponder, Answering, InAnswers, agents
<1>9. got'[ch] + InAnswers(ch)' + (IF x.at \in {"head", "body"} THEN 1 ELSE 0)
                <= got[ch] + InAnswers(ch) + InResponder(ch)
  BY <1>4, <1>8
<1>10. /\ UNCHANGED <<kind, asked, inbox, pump, tunnel, unsettled, budget, paid, ends, life>>
       /\ got' \in [Channels -> Nat]
       /\ offered' \in [Channels -> Challenges \cup {None}]
       /\ \A d \in Channels \ {ch} : got'[d] = got[d] /\ answers'[d] = answers[d]
  BY <1>1, <1>6 DEF agents, IInv, ChannelTypeOK
<1> QED
  BY <1>1, <1>4, <1>5, <1>6, <1>7, <1>9, <1>10, ResponderTurns

LEMMA WriteHeadStep ==
    ASSUME IInv, NEW ch \in Channels, WriteHead(ch)
    PROVE  IInv'
<1> DEFINE q == responder[ch]
           x == [q EXCEPT !.at = "body"]
<1>1. q.at = "head" /\ q \in ResponderState /\ responder' = [responder EXCEPT ![ch] = x]
  BY DEF WriteHead, IInv, ChannelTypeOK
<1>2. x \in ResponderState /\ x.at = "body"
  <2> HIDE DEF q
  <2> QED
    BY <1>1 DEF ResponderState
<1>3. InResponder(ch) = 1
  BY <1>1 DEF InResponder, Answering
<1> HIDE DEF q, x
<1>4. UNCHANGED <<kind, agents, servers, records, challenges, budget, paid, pump, ends, life>>
  BY DEF WriteHead
<1>5. Moved(ch)
  BY <1>4, Stays
<1>6. /\ InAnswers(ch)' = InAnswers(ch) /\ InAnswers(ch) \in Nat
      /\ got[ch] \in Nat /\ got' = got
  BY <1>4, Counts DEF InAnswers, agents, servers
<1>7. got'[ch] + InAnswers(ch)' + (IF x.at \in {"head", "body"} THEN 1 ELSE 0)
                <= got[ch] + InAnswers(ch) + InResponder(ch)
  BY <1>2, <1>3, <1>6
<1>8. /\ UNCHANGED <<kind, asked, inbox, pump, tunnel, unsettled, budget, paid, ends, life>>
      /\ got' \in [Channels -> Nat] /\ answers' \in [Channels -> Seq(Answer)]
      /\ challenge' \in [Channels -> Challenges \cup {None}]
      /\ offered' \in [Channels -> Challenges \cup {None}]
      /\ \A d \in Channels \ {ch} : got'[d] = got[d] /\ answers'[d] = answers[d]
  BY <1>4 DEF agents, servers, challenges, IInv, ChannelTypeOK
<1> QED
  BY <1>1, <1>2, <1>5, <1>7, <1>8, ResponderTurns

LEMMA WriteBodyStep ==
    ASSUME IInv, NEW ch \in Channels, WriteBody(ch)
    PROVE  IInv'
<1> DEFINE a == responder[ch].answer
<1>1. /\ responder[ch].at = "body" /\ responder' = [responder EXCEPT ![ch] = NoAnswer]
      /\ got' = [got EXCEPT ![ch] = got[ch] + 1] /\ got \in [Channels -> Nat]
      /\ offered' = IF a.ask # None /\ Observes(ch)
                    THEN [offered EXCEPT ![ch] = a.ask] ELSE offered
      /\ UNCHANGED <<kind, asked, inbox, servers, records, challenge, budget, paid,
                     pump, ends, life>>
  BY DEF WriteBody, IInv, ChannelTypeOK
<1>2. InResponder(ch) = 1
  BY <1>1 DEF InResponder, Answering
<1>3. Moved(ch)
  BY <1>1, Stays
<1>4. got'[ch] = got[ch] + 1 /\ got' \in [Channels -> Nat]
      /\ \A d \in Channels \ {ch} : got'[d] = got[d]
  BY <1>1
<1>5. InAnswers(ch)' = InAnswers(ch) /\ InAnswers(ch) \in Nat /\ got[ch] \in Nat
  BY <1>1, Counts DEF InAnswers, servers
<1>6. got'[ch] + InAnswers(ch)' + (IF NoAnswer.at \in {"head", "body"} THEN 1 ELSE 0)
                <= got[ch] + InAnswers(ch) + InResponder(ch)
  BY <1>2, <1>4, <1>5, Hands
<1>7. offered' \in [Channels -> Challenges \cup {None}]
  <2>1. a \in Answer
    BY <1>1 DEF IInv, ChannelTypeOK, ResponderState
  <2> QED
    BY <1>1, <2>1 DEF Answer, IInv, ChannelTypeOK
<1>8. /\ UNCHANGED <<kind, asked, inbox, pump, tunnel, unsettled, budget, paid, ends, life>>
      /\ answers' \in [Channels -> Seq(Answer)]
      /\ challenge' \in [Channels -> Challenges \cup {None}]
      /\ \A d \in Channels \ {ch} : got'[d] = got[d] /\ answers'[d] = answers[d]
  BY <1>1, <1>4 DEF servers, IInv, ChannelTypeOK
<1> QED
  BY <1>1, <1>3, <1>4, <1>6, <1>7, <1>8, Hands, ResponderTurns

LEMMA ResponderFailsStep ==
    ASSUME IInv, NEW ch \in Channels, ResponderFails(ch)
    PROVE  IInv'
<1>1. /\ responder' = [responder EXCEPT ![ch] = NoResponder]
      /\ UNCHANGED <<kind, agents, servers, records, challenges, budget, paid, pump, ends, life>>
  BY DEF ResponderFails, ResponderEnds
<1>2. Moved(ch)
  BY <1>1, Stays
<1>3. /\ InAnswers(ch)' = InAnswers(ch) /\ InAnswers(ch) \in Nat
      /\ got[ch] \in Nat /\ got' = got /\ InResponder(ch) \in Nat
  BY <1>1, Counts DEF InAnswers, agents, servers
<1>4. got'[ch] + InAnswers(ch)' + (IF NoResponder.at \in {"head", "body"} THEN 1 ELSE 0)
                <= got[ch] + InAnswers(ch) + InResponder(ch)
  BY <1>3, Hands
<1>5. /\ UNCHANGED <<kind, asked, inbox, pump, tunnel, unsettled, budget, paid, ends, life>>
      /\ got' \in [Channels -> Nat] /\ answers' \in [Channels -> Seq(Answer)]
      /\ challenge' \in [Channels -> Challenges \cup {None}]
      /\ offered' \in [Channels -> Challenges \cup {None}]
      /\ \A d \in Channels \ {ch} : got'[d] = got[d] /\ answers'[d] = answers[d]
  BY <1>1 DEF agents, servers, challenges, IInv, ChannelTypeOK
<1> QED
  BY <1>1, <1>2, <1>4, <1>5, Hands, ResponderTurns

\* A step that leaves the load as it is, and closes or finishes the channel.
LEMMA CloseBothStep ==
    ASSUME IInv, NEW ch \in Channels, CloseBoth(ch)
    PROVE  IInv'
<1>1. /\ life' = [life EXCEPT ![ch] = "closed"]
      /\ UNCHANGED <<kind, agents, servers, records, challenges, budget, paid, pump,
                     responder, ends>>
  BY DEF CloseBoth
<1>2. Moved(ch)
  BY <1>1, Stays
<1>3. /\ life \in [Channels -> {"running", "closed", "finished"}]
      /\ life' \in [Channels -> {"running", "closed", "finished"}]
      /\ life'[ch] = "closed"
  BY <1>1 DEF IInv, ChannelTypeOK
<1>4. ChannelTypeOK'
  BY <1>1, <1>3 DEF agents, servers, records, challenges, IInv, ChannelTypeOK
<1>5. Load(ch)'
  BY <1>1, Counts DEF Load, InInbox, InTunnel, InAnswers, InPump, InResponder, Busy, Answering,
     agents, servers
<1>6. Over(ch)'
  BY <1>3 DEF Over
<1> QED
  BY <1>1, <1>2, <1>3, <1>4, <1>5, <1>6, AsideStep DEF agents, servers

LEMMA FinishStep ==
    ASSUME IInv, NEW ch \in Channels, Finish(ch)
    PROVE  IInv'
<1> DEFINE u == receipts[ch] \o pending[ch]
<1>1. /\ life' = [life EXCEPT ![ch] = "finished"] /\ pump[ch].at = "done"
      /\ receipts' = [receipts EXCEPT ![ch] = u] /\ pending' = [pending EXCEPT ![ch] = <<>>]
      /\ UNCHANGED <<kind, agents, servers, challenges, budget, paid, pump, responder, ends>>
  BY DEF Finish, BothDone, PumpDone, At, IInv, ChannelTypeOK
<1>2. /\ receipts \in [Channels -> Seq(Receipt)] /\ pending \in [Channels -> Seq(Receipt)]
      /\ receipts[ch] \in Seq(Receipt) /\ pending[ch] \in Seq(Receipt) /\ Once(ch)
  BY DEF IInv, ChannelTypeOK, ChannelInv
<1>3. /\ u \in Seq(Receipt) /\ Ns(u) = Ns(receipts[ch]) \cup Ns(pending[ch])
      /\ AllowedNs(u) = AllowedNs(receipts[ch]) \cup AllowedNs(pending[ch])
      /\ Distinct(u)
  BY <1>2, Joined DEF Once
<1>4. /\ Ns(<<>>) = {} /\ AllowedNs(<<>>) = {} /\ Distinct(<<>>) /\ <<>> \in Seq(Receipt)
  BY DEF Ns, AllowedNs, Distinct
<1> HIDE DEF u
<1>5. /\ receipts'[ch] = u /\ pending'[ch] = <<>>
      /\ receipts' \in [Channels -> Seq(Receipt)] /\ pending' \in [Channels -> Seq(Receipt)]
      /\ \A d \in Channels \ {ch} : receipts'[d] = receipts[d] /\ pending'[d] = pending[d]
  BY <1>1, <1>2, <1>3, <1>4
<1>6. Moved(ch)
  BY <1>3, <1>4, <1>5 DEF Moved
<1>7. /\ life \in [Channels -> {"running", "closed", "finished"}]
      /\ life' \in [Channels -> {"running", "closed", "finished"}]
  BY <1>1 DEF IInv, ChannelTypeOK
<1>8. ChannelTypeOK'
  BY <1>1, <1>5, <1>7 DEF agents, servers, challenges, IInv, ChannelTypeOK
<1>9. Load(ch)'
  BY <1>1, Counts DEF Load, InInbox, InTunnel, InAnswers, InPump, InResponder, Busy, Answering,
     agents, servers
<1>10. Over(ch)'
  BY <1>1, <1>5 DEF Over
<1> QED
  BY <1>1, <1>6, <1>7, <1>8, <1>9, <1>10, AsideStep DEF agents, servers

LEMMA SendStep ==
    ASSUME IInv, NEW ch \in Channels, Send(ch)
    PROVE  IInv'
<1>1. PICK r \in kind[ch].requests : inbox' = Push(inbox, ch, [n |-> asked[ch] + 1, req |-> r])
  BY DEF Send
<1> DEFINE x == [n |-> asked[ch] + 1, req |-> r]
           t == Append(inbox[ch], x)
           n == asked[ch] + 1
<1>2. /\ asked[ch] < kind[ch].most /\ asked' = [asked EXCEPT ![ch] = n]
      /\ inbox' = [inbox EXCEPT ![ch] = t]
      /\ UNCHANGED <<kind, got, servers, records, challenges, budget, paid, pump,
                     responder, ends, life>>
  BY <1>1 DEF Send, Push, IInv, ChannelTypeOK
<1>3. /\ asked \in [Channels -> Nat] /\ inbox \in [Channels -> Seq(Numbered)]
      /\ inbox[ch] \in Seq(Numbered) /\ ChannelInv(ch) /\ asked[ch] \in Nat
      /\ pump[ch] \in PumpState
  BY DEF IInv, ChannelTypeOK
<1>4. kind[ch].most \in Nat /\ kind[ch].most <= MaxRequests /\ n \in Nat /\ n <= kind[ch].most
  BY <1>2, <1>3, KindType, Bounds DEF IInv
<1>5. x \in Numbered /\ x.n = n
  <2>1. r \in Requests
    BY KindType DEF IInv, Kind
  <2>2. n \in 1..MaxRequests
    BY <1>3, <1>4, Bounds
  <2> QED
    BY <2>1, <2>2 DEF Numbered, Numbers
<1>6. Ns(inbox[ch]) \subseteq Nat
  BY <1>3, QueueNumbers
<1>7. \A m \in Nat : m <= asked[ch] => m < n /\ m <= n
  BY <1>3
<1>8. \A m \in Ns(inbox[ch]) : m < x.n
  BY <1>3, <1>5, <1>6, <1>7 DEF ChannelInv, Queued
<1>9. /\ t \in Seq(Numbered) /\ Len(t) = Len(inbox[ch]) + 1
      /\ Ns(t) = Ns(inbox[ch]) \cup {n} /\ Ascending(t)
  BY <1>3, <1>5, <1>8, Appended DEF ChannelInv, Queued
<1> HIDE DEF x, t
<1>10. inbox'[ch] = t /\ asked'[ch] = n
  BY <1>2, <1>3
<1>11. ChannelTypeOK' /\ BudgetTypeOK'
  <2>1. asked' \in [Channels -> Nat] /\ inbox' \in [Channels -> Seq(Numbered)]
    BY <1>2, <1>3, <1>4, <1>9
  <2>2. ChannelTypeOK'
    BY <1>2, <2>1 DEF servers, records, challenges, IInv, ChannelTypeOK
  <2>3. BudgetTypeOK'
    BY <1>2 DEF budget, IInv, BudgetTypeOK
  <2> QED
    BY <2>2, <2>3
<1>12. \A d \in Channels \ {ch} : Same(d)
  BY <1>2, <1>3 DEF servers, records, Same
<1>13. Pumping(ch)' /\ Permitted(ch)'
  BY <1>2, <1>3 DEF ChannelInv, Pumping, Permitted, Busy, Enforcers, servers
<1>14. Load(ch)'
  <2>1. /\ got' = got /\ InTunnel(ch)' = InTunnel(ch) /\ InPump(ch)' = InPump(ch)
        /\ InAnswers(ch)' = InAnswers(ch) /\ kind' = kind /\ InResponder(ch)' = InResponder(ch)
    BY <1>2 DEF servers, InTunnel, InPump, Busy, InAnswers, InResponder, Answering
  <2>2. InInbox(ch)' = InInbox(ch) + 1
    BY <1>9, <1>10 DEF InInbox
  <2> QED
    BY <1>4, <1>10, <2>1, <2>2, Counts DEF Load
<1> HIDE DEF n
<1>15. Busy(ch) => pump[ch].n \in Nat /\ pump[ch].n <= asked[ch]
  BY <1>3, Bounds DEF ChannelInv, Queued, Pumping
<1>16. \A m \in Ns(t) : m <= n /\ (m \in Ns(inbox[ch]) \/ m = n)
  BY <1>4, <1>5, <1>6, <1>7, <1>8, <1>9
<1>17. Queued(ch)'
  <2>1. Busy(ch)' <=> Busy(ch)
    BY <1>2 DEF Busy
  <2>2. Busy(ch) => pump[ch].n < n /\ pump[ch].n <= n
    BY <1>7, <1>15
  <2> QED
    BY <1>2, <1>3, <1>9, <1>10, <1>16, <2>1, <2>2 DEF ChannelInv, Queued
<1>18. Once(ch)'
  <2>1. Busy(ch)' <=> Busy(ch)
    BY <1>2 DEF Busy
  <2>2. \A m \in Ns(receipts[ch]) \cup Ns(pending[ch]) : m \in Nat
    BY ReceiptNumbers DEF IInv, ChannelTypeOK
  <2>3. \A m \in Ns(receipts[ch]) \cup Ns(pending[ch]) :
            /\ m <= n /\ \A k \in Ns(t) : m < k
            /\ Busy(ch) => m <= pump[ch].n
    BY <1>3, <1>7, <1>9, <2>2 DEF ChannelInv, Once
  <2>4. Decided(ch)' <=> Decided(ch)
    BY <1>2 DEF Decided
  <2> QED
    BY <1>2, <1>3, <1>10, <2>1, <2>3, <2>4 DEF ChannelInv, Once, records
<1>19. Receipted(ch)' /\ Over(ch)'
  BY <1>2, <1>3 DEF ChannelInv, Receipted, Over, Decided, Observes, Enforcers, servers, records
<1> QED
  BY <1>11, <1>12, <1>13, <1>14, <1>17, <1>18, <1>19, ChannelStep DEF ChannelInv

LEMMA RespondStep ==
    ASSUME IInv, NEW ch \in Channels, Respond(ch)
    PROVE  IInv'
<1> DEFINE r == Head(tunnel[ch])
           t == Tail(tunnel[ch])
<1>1. /\ tunnel[ch] # <<>> /\ tunnel' = [tunnel EXCEPT ![ch] = t]
      /\ unsettled' \in {unsettled, [unsettled EXCEPT ![ch] = @ \cup {r.n}]}
      /\ \E settles \in BOOLEAN, ask \in Challenges \cup {None} :
            answers' = Push(answers, ch, [n |-> r.n, settles |-> settles, ask |-> ask])
      /\ UNCHANGED <<kind, agents, records, challenges, budget, paid, pump, responder, ends, life>>
  BY DEF Respond, Pop
<1>2. /\ tunnel \in [Channels -> Seq(Numbered)] /\ answers \in [Channels -> Seq(Answer)]
      /\ tunnel[ch] \in Seq(Numbered) /\ answers[ch] \in Seq(Answer) /\ ChannelInv(ch)
  BY DEF IInv, ChannelTypeOK
<1>3. /\ t \in Seq(Numbered) /\ r \in Numbered /\ ToSet(t) \subseteq ToSet(tunnel[ch])
      /\ Len(t) = Len(tunnel[ch]) - 1
  BY <1>1, <1>2, Popped
<1>4. PICK settles \in BOOLEAN, ask \in Challenges \cup {None} :
            answers' = Push(answers, ch, [n |-> r.n, settles |-> settles, ask |-> ask])
  BY <1>1
<1> DEFINE x == [n |-> r.n, settles |-> settles, ask |-> ask]
           u == Append(answers[ch], x)
<1>5. x \in Answer
  <2>1. r.n \in Numbers
    BY <1>3 DEF Numbered
  <2> HIDE DEF r
  <2> QED
    BY <2>1 DEF Answer
<1> HIDE DEF x, r, t
<1>6. u \in Seq(Answer) /\ Len(u) = Len(answers[ch]) + 1
  BY <1>2, <1>5, Appended
<1>7. answers' = [answers EXCEPT ![ch] = u]
  BY <1>2, <1>4 DEF Push, x
<1> HIDE DEF u
<1>8. tunnel'[ch] = t /\ answers'[ch] = u
  BY <1>1, <1>2, <1>7
<1>9. ChannelTypeOK'
  <2>1. tunnel' \in [Channels -> Seq(Numbered)] /\ answers' \in [Channels -> Seq(Answer)]
    BY <1>1, <1>2, <1>3, <1>6, <1>7
  <2>2. r.n \in Numbers
    BY <1>3 DEF Numbered
  <2>3. unsettled \in [Channels -> SUBSET Numbers]
    BY DEF IInv, ChannelTypeOK
  <2>4. unsettled' \in [Channels -> SUBSET Numbers]
    BY <1>1, <2>2, <2>3
  <2> QED
    BY <1>1, <2>1, <2>4 DEF agents, records, challenges, IInv, ChannelTypeOK
<1>10. Load(ch)'
  <2>1. /\ asked' = asked /\ got' = got /\ InInbox(ch)' = InInbox(ch)
        /\ InPump(ch)' = InPump(ch) /\ kind' = kind /\ InResponder(ch)' = InResponder(ch)
    BY <1>1 DEF agents, InInbox, InPump, Busy, InResponder, Answering
  <2>2. InTunnel(ch)' = InTunnel(ch) - 1
    BY <1>3, <1>8 DEF InTunnel
  <2>3. InAnswers(ch)' = InAnswers(ch) + 1
    BY <1>6, <1>8 DEF InAnswers
  <2> QED
    BY <2>1, <2>2, <2>3, Counts DEF Load
<1>11. Over(ch)'
  BY <1>1, <1>2 DEF ChannelInv, Over, records
<1>12. Moved(ch)
  BY <1>1, Stays
<1>13. /\ ToSet(tunnel'[ch]) \subseteq ToSet(tunnel[ch])
       /\ \A d \in Channels \ {ch} :
                /\ got'[d] = got[d] /\ tunnel'[d] = tunnel[d] /\ answers'[d] = answers[d]
                /\ responder'[d] = responder[d] /\ life'[d] = life[d]
  BY <1>1, <1>2, <1>3, <1>7, <1>8 DEF agents
<1> QED
  BY <1>1, <1>9, <1>10, <1>11, <1>12, <1>13, AsideStep DEF agents

\* Who is around, and time, are no channel's state.
LEMMA OutsideStep ==
    ASSUME IInv, EpochLapses \/ (\E ch \in Channels : Leave(ch)) \/ UNCHANGED vars
    PROVE  IInv'
<1>1. UNCHANGED <<kind, agents, servers, records, challenges, paid, pump, responder, life>>
  BY DEF EpochLapses, Leave, vars
<1>2. ends' \in [Channels -> SUBSET {"agent", "server"}]
  <2>1. ends \in [Channels -> SUBSET {"agent", "server"}]
    BY DEF IInv, ChannelTypeOK
  <2>2. ASSUME NEW ch \in Channels, Leave(ch)
        PROVE  ends' \in [Channels -> SUBSET {"agent", "server"}]
    <3>1. PICK x \in ends[ch] : ends' = [ends EXCEPT ![ch] = ends[ch] \ {x}]
      BY <2>1, <2>2 DEF Leave
    <3> QED
      BY <2>1, <3>1
  <2>3. CASE EpochLapses \/ UNCHANGED vars
    BY <2>1, <2>3 DEF EpochLapses, vars
  <2> QED
    BY <2>2, <2>3
<1>3. ChannelTypeOK'
  BY <1>1, <1>2 DEF agents, servers, records, challenges, IInv, ChannelTypeOK
<1>4. BudgetTypeOK'
  <2>1. CASE EpochLapses
    BY <2>1, Bounds DEF EpochLapses, IInv, BudgetTypeOK
  <2>2. CASE (\E ch \in Channels : Leave(ch)) \/ UNCHANGED vars
    BY <2>2 DEF Leave, vars, budget, IInv, BudgetTypeOK
  <2> QED
    BY <2>1, <2>2
<1>5. \A ch \in Channels : Same(ch)
  BY <1>1 DEF agents, servers, records, Same
<1> QED
  BY <1>3, <1>4, <1>5, SameStays DEF IInv

LEMMA InitInv == Init => IInv
<1> SUFFICES ASSUME Init PROVE IInv
  OBVIOUS
<1>1. /\ kind \in Scenarios /\ asked = [ch \in Channels |-> 0] /\ got = asked
      /\ inbox = [ch \in Channels |-> <<>>]
      /\ tunnel = inbox /\ answers = inbox /\ pending = inbox /\ receipts = inbox
      /\ pump = [ch \in Channels |-> IF Used(ch) THEN NoRequest ELSE NoPump]
      /\ responder = [ch \in Channels |-> IF Used(ch) THEN NoAnswer ELSE NoResponder]
      /\ challenge = [ch \in Channels |-> None] /\ offered = challenge
      /\ ends = [ch \in Channels |-> {"agent", "server"}]
      /\ life = [ch \in Channels |-> IF Used(ch) THEN "running" ELSE "finished"]
      /\ unsettled = [ch \in Channels |-> {}]
  BY DEF Init
<1>2. pump \in [Channels -> PumpState] /\ responder \in [Channels -> ResponderState]
  BY <1>1, Hands
<1>3. ChannelTypeOK
  BY <1>1, <1>2 DEF ChannelTypeOK
<1>4. BudgetTypeOK
  BY Bounds DEF Init, BudgetTypeOK
<1>5. ASSUME NEW ch \in Channels PROVE ChannelInv(ch)
  <2>1. /\ asked[ch] = 0 /\ got[ch] = 0 /\ inbox[ch] = <<>> /\ tunnel[ch] = <<>>
        /\ answers[ch] = <<>> /\ pending[ch] = <<>> /\ receipts[ch] = <<>>
        /\ pump[ch].at \in {"read", "done"} /\ pump[ch].i = 1
        /\ responder[ch].at \in {"read", "done"}
        /\ life[ch] = "finished" => pump[ch].at = "done"
    BY <1>1, Hands
  <2>2. /\ Len(kind[ch].pipeline) \in Nat /\ kind[ch].most \in 0..MaxRequests
    BY <1>3, KindType
  <2>3. Pumping(ch) /\ Permitted(ch)
    BY <2>1, <2>2 DEF Pumping, Permitted, Busy, ToSet
  <2>4. Load(ch)
    <3>1. InInbox(ch) = 0 /\ InTunnel(ch) = 0 /\ InAnswers(ch) = 0
      BY <2>1 DEF InInbox, InTunnel, InAnswers
    <3>2. InPump(ch) = 0 /\ InResponder(ch) = 0
      BY <2>1 DEF InPump, InResponder, Busy, Answering
    <3> QED
      BY <2>1, <2>2, <3>1, <3>2, Bounds DEF Load
  <2>5. Queued(ch) /\ Once(ch)
    BY <2>1 DEF Queued, Once, Ascending, Distinct, Ns, Busy
  <2>6. Receipted(ch) /\ Over(ch)
    BY <2>1 DEF Receipted, Over, ToSet
  <2> QED
    BY <2>3, <2>4, <2>5, <2>6 DEF ChannelInv
<1> QED
  BY <1>3, <1>4, <1>5 DEF IInv

LEMMA Invariant == Spec => []IInv
<1>1. ASSUME IInv, [Next]_vars PROVE IInv'
  <2>1. ASSUME NEW ch \in Channels, Pump(ch) PROVE IInv'
    BY <1>1, <2>1, ReadRequestStep, CheckToolsStep, NoPaymentStep, MalformedStep,
       EvaluateStep, RecordStep, ReadFailsStep DEF Pump
  <2>2. ASSUME NEW ch \in Channels, Responder(ch) \/ Proxy(ch) PROVE IInv'
    BY <1>1, <2>2, ReadAnswerStep, ResponderFailsStep, CloseBothStep, FinishStep
    DEF Responder, Proxy
  <2>3. ASSUME NEW ch \in Channels, Write(ch) PROVE IInv'
    BY <1>1, <2>3, ReadFailsStep, ForwardStep, WriteHeadStep, WriteBodyStep DEF Write
  <2>4. ASSUME NEW ch \in Channels, Send(ch) \/ Respond(ch) PROVE IInv'
    BY <1>1, <2>4, SendStep, RespondStep
  <2>5. CASE EpochLapses \/ (\E ch \in Channels : Leave(ch)) \/ UNCHANGED vars
    BY <1>1, <2>5, OutsideStep
  <2> QED
    BY <1>1, <2>1, <2>2, <2>3, <2>4, <2>5 DEF Next
<1> QED
  BY <1>1, InitInv, PTL DEF Spec

------------------------------------------------------------------------------
(* The theorems. *)

\* Every variable holds a value of its type: an agent never gets more answers
\* than it sent requests, the budget is never overdrawn, and the pump never
\* looks for an enforcer past the end of the pipeline.
THEOREM TypeCorrect == Spec => []TypeOK
<1>1. IInv => TypeOK
  <2> SUFFICES ASSUME IInv PROVE TypeOK
    OBVIOUS
  <2>1. ASSUME NEW ch \in Channels PROVE asked[ch] \in 0..MaxRequests /\ got[ch] \in 0..MaxRequests
    <3>1. /\ asked[ch] <= kind[ch].most /\ kind[ch].most <= MaxRequests /\ got[ch] <= asked[ch]
          /\ asked[ch] \in Nat /\ got[ch] \in Nat /\ kind[ch].most \in Nat
      BY Counts, Bounds DEF Load
    <3> QED
      BY <3>1, Bounds
  <2>2. ASSUME NEW ch \in Channels
        PROVE  /\ pump[ch].at \in {"read", "enforce", "record", "deny", "done"}
               /\ pump[ch].i \in 1..(Len(kind[ch].pipeline) + 1)
               /\ responder[ch].at \in {"read", "head", "body", "done"}
    <3>1. pump[ch] \in PumpState /\ responder[ch] \in ResponderState /\ Pumping(ch)
      BY DEF IInv, ChannelTypeOK, ChannelInv
    <3>2. pump[ch].i \in Nat \ {0} /\ pump[ch].i <= Len(kind[ch].pipeline) + 1
      BY <3>1 DEF Pumping, PumpState
    <3>3. Len(kind[ch].pipeline) \in Nat
      BY KindType DEF IInv
    <3> QED
      BY <3>1, <3>2, <3>3 DEF PumpState, ResponderState
  <2>3. asked \in [Channels -> 0..MaxRequests] /\ got \in [Channels -> 0..MaxRequests]
    BY <2>1 DEF IInv, ChannelTypeOK
  <2>4. \A ch \in Channels :
            /\ inbox[ch] \in Seq(Numbered) /\ tunnel[ch] \in Seq(Numbered)
            /\ answers[ch] \in Seq(Answer)
            /\ pending[ch] \in Seq(Receipt) /\ receipts[ch] \in Seq(Receipt)
    BY DEF IInv, ChannelTypeOK
  <2> QED
    BY <2>2, <2>3, <2>4 DEF TypeOK, IInv, ChannelTypeOK, BudgetTypeOK
<1> QED
  BY <1>1, Invariant, PTL

\* "A request is forwarded only if EVERY enforcer permits it" (guard.go),
\* whatever enforcers a port has and in whatever order.
THEOREM OnlyPermittedHolds == Spec => []OnlyPermitted
<1>1. IInv => OnlyPermitted
  <2> SUFFICES ASSUME IInv, NEW ch \in Channels, NEW r \in ToSet(tunnel[ch])
               PROVE  /\ "mcp" \in Enforcers(ch) => ToolsPermitted(r.req)
                      /\ Observes(ch) => r.req.pay # Malformed
    BY DEF OnlyPermitted
  <2>1. Permitted(ch)
    BY DEF IInv, ChannelInv
  <2> QED
    BY <2>1 DEF Permitted, Passed, Observes
<1> QED
  BY <1>1, Invariant, PTL

\* A payment has one receipt, a forwarded one a receipt that allows it, and none
\* waits for its settlement when the channel has finished (payment.go record,
\* finalizePending, flushPending).
THEOREM ReceiptsOnceHolds == Spec => []ReceiptsOnce
<1>1. IInv => ReceiptsOnce
  <2> SUFFICES ASSUME IInv, NEW ch \in Channels,
                      NEW all, all = receipts[ch] \o pending[ch]
               PROVE  /\ \A i, j \in DOMAIN all : all[i].n = all[j].n => i = j
                      /\ \A r \in ToSet(tunnel[ch]) : Observes(ch) /\ IsPayment(r.req) =>
                            \E i \in DOMAIN all : all[i].n = r.n /\ all[i].allowed
                      /\ life[ch] = "finished" => pending[ch] = <<>>
    BY DEF ReceiptsOnce
  <2>1. /\ receipts[ch] \in Seq(Receipt) /\ pending[ch] \in Seq(Receipt)
        /\ Once(ch) /\ Receipted(ch) /\ Over(ch)
    BY DEF IInv, ChannelTypeOK, ChannelInv
  <2>2. /\ Distinct(all)
        /\ AllowedNs(all) = AllowedNs(receipts[ch]) \cup AllowedNs(pending[ch])
    BY <2>1, Joined DEF Once
  <2>3. ASSUME NEW r \in ToSet(tunnel[ch]), Observes(ch), IsPayment(r.req)
        PROVE  \E i \in DOMAIN all : all[i].n = r.n /\ all[i].allowed
    <3>1. r.n \in AllowedNs(all)
      BY <2>1, <2>2, <2>3 DEF Receipted
    <3> QED
      BY <3>1 DEF AllowedNs
  <2> QED
    BY <2>1, <2>2, <2>3 DEF Distinct, Over
<1> QED
  BY <1>1, Invariant, PTL

------------------------------------------------------------------------------
(* Challenges: with an agent that waits, the two goroutines take turns. *)

Noted(ch) ==
    kind[ch].sequential =>
        /\ asked[ch] <= got[ch] + 1
        /\ responder[ch].at = "read" => challenge[ch] = offered[ch]
        /\ Answering(ch) =>
                challenge[ch] = IF Observes(ch) /\ responder[ch].answer.ask # None
                                THEN responder[ch].answer.ask ELSE offered[ch]

LEMMA NotedStep ==
    ASSUME IInv, [Next]_vars, NEW ch \in Channels, Noted(ch)
    PROVE  Noted(ch)'
<1> DEFINE Quiet == /\ kind'[ch] = kind[ch] /\ asked'[ch] = asked[ch] /\ got'[ch] = got[ch]
                    /\ challenge'[ch] = challenge[ch] /\ offered'[ch] = offered[ch]
                    /\ responder'[ch] = responder[ch]
<1>1. ASSUME Quiet PROVE Noted(ch)'
  BY <1>1 DEF Noted, Answering, Observes, Enforcers
<1>2. /\ asked \in [Channels -> Nat] /\ got \in [Channels -> Nat]
      /\ challenge \in [Channels -> Challenges \cup {None}]
      /\ offered \in [Channels -> Challenges \cup {None}]
      /\ responder \in [Channels -> ResponderState]
      /\ asked[ch] \in Nat /\ got[ch] \in Nat
  BY DEF IInv, ChannelTypeOK
<1>3. ASSUME NEW d \in Channels,
             \/ ReadRequest(d) \/ CheckTools(d) \/ NoPaymentHeader(d) \/ MalformedHeader(d)
             \/ RecordPayment(d) \/ ReadFails(d) \/ PumpWriteFails(d) \/ Forward(d)
             \/ CloseBoth(d) \/ Finish(d) \/ Respond(d) \/ Leave(d)
      PROVE  Quiet
  <2>1. UNCHANGED <<kind, asked, got, challenge, offered, responder>>
    BY <1>3 DEF ReadRequest, CheckTools, NoPaymentHeader, MalformedHeader, RecordPayment,
       ReadFails, PumpWriteFails, Forward, CloseBoth, Finish, Respond, Leave,
       agents, challenges
  <2> QED
    BY <2>1
<1>4. ASSUME NEW d \in Channels, d # ch,
             \/ EvaluatePayment(d) \/ Deny(d) \/ ReadAnswer(d) \/ ResponderFails(d)
             \/ WriteHead(d) \/ WriteBody(d) \/ Send(d)
      PROVE  Quiet
  <2>1. CASE EvaluatePayment(d)
    BY <1>2, <1>4, <2>1 DEF EvaluatePayment, agents
  <2>2. CASE Deny(d)
    BY <1>2, <1>4, <2>2 DEF Deny, challenges
  <2>3. CASE ReadAnswer(d)
    BY <1>2, <1>4, <2>3 DEF ReadAnswer, Note, agents
  <2>4. CASE ResponderFails(d)
    BY <1>2, <1>4, <2>4 DEF ResponderFails, ResponderEnds, agents, challenges
  <2>5. CASE WriteHead(d)
    BY <1>2, <1>4, <2>5 DEF WriteHead, agents, challenges
  <2>6. CASE WriteBody(d)
    BY <1>2, <1>4, <2>6 DEF WriteBody
  <2>7. CASE Send(d)
    BY <1>2, <1>4, <2>7 DEF Send, challenges
  <2> QED
    BY <1>4, <2>1, <2>2, <2>3, <2>4, <2>5, <2>6, <2>7
<1>5. CASE EvaluatePayment(ch)
  <2>1. /\ Busy(ch) /\ challenge'[ch] = None /\ offered'[ch] = None
        /\ UNCHANGED <<kind, asked, got, responder>>
    BY <1>2, <1>5 DEF EvaluatePayment, Turn, At, Busy, agents
  <2>2. kind[ch].sequential => ~Answering(ch)
    <3> SUFFICES ASSUME kind[ch].sequential, Answering(ch) PROVE FALSE
      OBVIOUS
    <3>1. InPump(ch) = 1 /\ InResponder(ch) = 1
      BY <2>1 DEF InPump, InResponder
    <3>2. asked[ch] <= got[ch] + 1
      BY DEF Noted
    <3>3. got[ch] + InInbox(ch) + InPump(ch) + InTunnel(ch) + InAnswers(ch)
            + InResponder(ch) <= asked[ch]
      BY Counts DEF Load
    <3> QED
      BY <3>1, <3>2, <3>3, Counts
  <2> QED
    BY <2>1, <2>2 DEF Noted, Answering
<1>6. CASE Deny(ch)
  <2>1. /\ got'[ch] = got[ch] + 1
        /\ UNCHANGED <<kind, asked, challenge, offered, responder>>
    BY <1>2, <1>6 DEF Deny, challenges
  <2>2. asked[ch] <= got[ch] + 1 => asked[ch] <= (got[ch] + 1) + 1
    BY <1>2
  <2> QED
    BY <2>1, <2>2 DEF Noted, Answering, Observes, Enforcers
<1>7. CASE ReadAnswer(ch)
  <2> DEFINE a == Head(answers[ch])
             x == [at |-> "head", answer |-> a]
  <2>1. /\ responder' = [responder EXCEPT ![ch] = x] /\ responder[ch].at = "read"
        /\ challenge' = IF Observes(ch) /\ a.ask # None
                        THEN [challenge EXCEPT ![ch] = a.ask] ELSE challenge
        /\ UNCHANGED <<kind, asked, got, offered>>
    BY <1>7 DEF ReadAnswer, Note, agents
  <2>2. responder'[ch] = x /\ x.at = "head" /\ x.answer = a
    BY <1>2, <2>1
  <2> HIDE DEF x, a
  <2>3. Noted(ch)' <=> (kind[ch].sequential =>
            /\ asked[ch] <= got[ch] + 1
            /\ challenge'[ch] = IF Observes(ch) /\ a.ask # None THEN a.ask ELSE offered[ch])
    BY <2>1, <2>2 DEF Noted, Answering, Observes, Enforcers
  <2> QED
    BY <1>2, <2>1, <2>3 DEF Noted
<1>8. CASE ResponderFails(ch)
  <2>1. responder'[ch].at = "done" /\ UNCHANGED <<kind, asked, got, challenge, offered>>
    BY <1>2, <1>8, Hands DEF ResponderFails, ResponderEnds, agents, challenges
  <2> QED
    BY <2>1 DEF Noted, Answering
<1>9. CASE WriteHead(ch)
  <2>1. /\ responder[ch].at = "head" /\ responder[ch] \in ResponderState
        /\ responder' = [responder EXCEPT ![ch].at = "body"]
        /\ UNCHANGED <<kind, asked, got, challenge, offered>>
    BY <1>2, <1>9 DEF WriteHead, agents, challenges
  <2>2. responder'[ch].at = "body" /\ responder'[ch].answer = responder[ch].answer
    BY <1>2, <2>1 DEF ResponderState
  <2> QED
    BY <2>1, <2>2 DEF Noted, Answering, Observes, Enforcers
<1>10. CASE WriteBody(ch)
  <2> DEFINE a == responder[ch].answer
  <2>1. /\ responder[ch].at = "body" /\ responder'[ch] = NoAnswer
        /\ got'[ch] = got[ch] + 1
        /\ offered'[ch] = IF a.ask # None /\ Observes(ch) THEN a.ask ELSE offered[ch]
        /\ UNCHANGED <<kind, asked, challenge>>
    BY <1>2, <1>10 DEF WriteBody
  <2>2. asked[ch] <= got[ch] + 1 => asked[ch] <= (got[ch] + 1) + 1
    BY <1>2
  <2>3. kind[ch].sequential => challenge[ch] = offered'[ch]
    BY <2>1 DEF Noted, Answering
  <2> QED
    BY <2>1, <2>2, <2>3, Hands DEF Noted, Answering
<1>11. CASE Send(ch)
  <2>1. /\ asked'[ch] = asked[ch] + 1
        /\ kind[ch].sequential => got[ch] = asked[ch]
        /\ UNCHANGED <<kind, got, challenge, offered, responder>>
    BY <1>2, <1>11 DEF Send, challenges
  <2>2. kind[ch].sequential => asked'[ch] <= got[ch] + 1
    BY <1>2, <2>1
  <2> QED
    BY <2>1, <2>2 DEF Noted, Answering, Observes, Enforcers
<1>12. CASE EpochLapses \/ UNCHANGED vars
  BY <1>1, <1>12 DEF EpochLapses, vars, agents, challenges
<1> QED
  BY <1>1, <1>3, <1>4, <1>5, <1>6, <1>7, <1>8, <1>9, <1>10, <1>11, <1>12
  DEF Next, Pump, Responder, Proxy, Write

------------------------------------------------------------------------------
(* Settlements: requests and answers stay in the order of their numbers. *)

\* The numbers of the payments among requests, of the settlements among answers.
PaymentNs(s) == {s[i].n : i \in {j \in DOMAIN s : IsPayment(s[j].req)}}
SettlementNs(s) == {s[i].n : i \in {j \in DOMAIN s : s[j].settles}}

Ordered(ch) ==
    /\ Ascending(pending[ch]) /\ Ascending(answers[ch]) /\ Ascending(tunnel[ch])
    /\ \A a \in Ns(answers[ch]), t \in Ns(tunnel[ch]) : a < t
    /\ \A t \in Ns(answers[ch]) \cup Ns(tunnel[ch]) :
            /\ t <= asked[ch] /\ \A k \in Ns(inbox[ch]) : t < k
            /\ Busy(ch) => t < pump[ch].n

\* The payments on their way to the server or back.
Travelling(ch) == PaymentNs(tunnel[ch]) \cup SettlementNs(answers[ch])

\* Receipts that got a settlement, the settlements they got, the payments the
\* server has answered for good, and those whose receipt waits or got one.
Settled(ch) == {x \in ToSet(receipts[ch]) : x.tx # 0}
Txs(ch) == {x.tx : x \in Settled(ch)}
Answered(ch) == Txs(ch) \cup unsettled[ch]
Allowances(ch) == {x.n : x \in Settled(ch)} \cup Ns(pending[ch])

\* Every payment allowed travels or was answered, except at most one after them
\* all: that of the pump's request, also when the pump has dropped it.  The
\* receipt of one that travels waits.
Waiting(ch) ==
    LET waiting == Ns(pending[ch])
    IN  /\ Travelling(ch) \subseteq waiting
        /\ Answered(ch) \subseteq Allowances(ch)
        /\ \A m \in Allowances(ch) \ (Travelling(ch) \cup Answered(ch)) :
                /\ \A t \in Ns(answers[ch]) \cup Ns(tunnel[ch]) : t < m
                /\ pump[ch].at = "done" \/ (Busy(ch) /\ m = pump[ch].n)
        /\ Busy(ch) /\ pump[ch].n \in waiting => IsPayment(pump[ch].req)
        /\ pump[ch].at = "enforce" /\ IsPayment(pump[ch].req) /\ Decided(ch)
                => pump[ch].n \in waiting

\* What is behind is older than what is to come.
Behind(ch) ==
    /\ \A x \in Settled(ch), m \in Ns(pending[ch]) : x.n < m
    /\ \A x \in Txs(ch), t \in SettlementNs(answers[ch]) \cup Ns(tunnel[ch]) : x < t
    /\ \A u \in unsettled[ch], t \in Ns(tunnel[ch]) : u < t
    /\ unsettled[ch] \cap (SettlementNs(answers[ch]) \cup Txs(ch)) = {}
    /\ Busy(ch) => \A m \in Answered(ch) : m < pump[ch].n

\* What SettlesInOrder says of the receipts of one channel.
Matched(ch) ==
    /\ \A x \in ToSet(pending[ch]) : x.tx = 0
    /\ \A x \in Settled(ch) :
            /\ x.n <= x.tx
            /\ x.tx = x.n <=> \A u \in unsettled[ch] : x.n < u
    /\ \A x, y \in Settled(ch) : x.tx = y.tx => x = y
    /\ ~Observes(ch) => Settled(ch) = {}

Settling(ch) ==
    /\ Matched(ch)
    /\ Observes(ch) /\ life[ch] # "finished" => Waiting(ch) /\ Behind(ch)

OwnInv == \A ch \in Channels : Noted(ch) /\ Ordered(ch) /\ Settling(ch)

LEMMA Payments ==
    ASSUME NEW s \in Seq(Numbered)
    PROVE  /\ PaymentNs(s) \subseteq Ns(s)
           /\ \A x \in Numbered : PaymentNs(Append(s, x)) =
                    IF IsPayment(x.req) THEN PaymentNs(s) \cup {x.n} ELSE PaymentNs(s)
           /\ s # <<>> => PaymentNs(s) =
                    IF IsPayment(Head(s).req) THEN {Head(s).n} \cup PaymentNs(Tail(s))
                                              ELSE PaymentNs(Tail(s))
<1>1. PaymentNs(s) \subseteq Ns(s)
  BY DEF PaymentNs, Ns
<1>2. ASSUME NEW x \in Numbered
      PROVE  PaymentNs(Append(s, x)) =
                IF IsPayment(x.req) THEN PaymentNs(s) \cup {x.n} ELSE PaymentNs(s)
  <2> DEFINE t == Append(s, x)
  <2>1. /\ Len(s) \in Nat /\ DOMAIN s = 1..Len(s) /\ DOMAIN t = DOMAIN s \cup {Len(s) + 1}
        /\ \A i \in DOMAIN s : t[i] = s[i]
        /\ t[Len(s) + 1] = x
    OBVIOUS
  <2> HIDE DEF t
  <2>2. PaymentNs(t) = IF IsPayment(x.req) THEN PaymentNs(s) \cup {x.n} ELSE PaymentNs(s)
    BY <2>1 DEF PaymentNs
  <2> QED
    BY <2>2 DEF t
<1>3. ASSUME s # <<>>
      PROVE  PaymentNs(s) =
                IF IsPayment(Head(s).req) THEN {Head(s).n} \cup PaymentNs(Tail(s))
                                          ELSE PaymentNs(Tail(s))
  <2> DEFINE t == Tail(s)
             h == Head(s)
  <2>1. /\ 1 \in DOMAIN s /\ h = s[1]
        /\ \A i \in DOMAIN s : i = 1 \/ (i - 1 \in DOMAIN t /\ s[i] = t[i - 1])
        /\ \A i \in DOMAIN t : i + 1 \in DOMAIN s /\ s[i + 1] = t[i]
    BY <1>3
  <2> HIDE DEF t, h
  <2>2. ASSUME NEW m \in PaymentNs(s) PROVE (IsPayment(h.req) /\ m = h.n) \/ m \in PaymentNs(t)
    <3>1. PICK i \in DOMAIN s : m = s[i].n /\ IsPayment(s[i].req)
      BY DEF PaymentNs
    <3> QED
      BY <2>1, <3>1 DEF PaymentNs
  <2>3. ASSUME NEW m \in PaymentNs(t) PROVE m \in PaymentNs(s)
    <3>1. PICK i \in DOMAIN t : m = t[i].n /\ IsPayment(t[i].req)
      BY DEF PaymentNs
    <3> QED
      BY <2>1, <3>1 DEF PaymentNs
  <2>4. IsPayment(h.req) => h.n \in PaymentNs(s)
    BY <2>1 DEF PaymentNs
  <2>5. PaymentNs(s) = IF IsPayment(h.req) THEN {h.n} \cup PaymentNs(t) ELSE PaymentNs(t)
    BY <2>2, <2>3, <2>4
  <2> QED
    BY <2>5 DEF t, h
<1> QED
  BY <1>1, <1>2, <1>3

LEMMA Settlements ==
    ASSUME NEW s \in Seq(Answer)
    PROVE  /\ SettlementNs(s) \subseteq Ns(s)
           /\ \A x \in Answer : SettlementNs(Append(s, x)) =
                    IF x.settles THEN SettlementNs(s) \cup {x.n} ELSE SettlementNs(s)
           /\ s # <<>> => SettlementNs(s) =
                    IF Head(s).settles THEN {Head(s).n} \cup SettlementNs(Tail(s))
                                       ELSE SettlementNs(Tail(s))
<1>1. SettlementNs(s) \subseteq Ns(s)
  BY DEF SettlementNs, Ns
<1>2. ASSUME NEW x \in Answer
      PROVE  SettlementNs(Append(s, x)) =
                IF x.settles THEN SettlementNs(s) \cup {x.n} ELSE SettlementNs(s)
  <2> DEFINE t == Append(s, x)
  <2>1. /\ Len(s) \in Nat /\ DOMAIN s = 1..Len(s) /\ DOMAIN t = DOMAIN s \cup {Len(s) + 1}
        /\ \A i \in DOMAIN s : t[i] = s[i]
        /\ t[Len(s) + 1] = x
    OBVIOUS
  <2> HIDE DEF t
  <2>2. SettlementNs(t) = IF x.settles THEN SettlementNs(s) \cup {x.n} ELSE SettlementNs(s)
    BY <2>1 DEF SettlementNs
  <2> QED
    BY <2>2 DEF t
<1>3. ASSUME s # <<>>
      PROVE  SettlementNs(s) =
                IF Head(s).settles THEN {Head(s).n} \cup SettlementNs(Tail(s))
                                   ELSE SettlementNs(Tail(s))
  <2> DEFINE t == Tail(s)
             h == Head(s)
  <2>1. /\ 1 \in DOMAIN s /\ h = s[1]
        /\ \A i \in DOMAIN s : i = 1 \/ (i - 1 \in DOMAIN t /\ s[i] = t[i - 1])
        /\ \A i \in DOMAIN t : i + 1 \in DOMAIN s /\ s[i + 1] = t[i]
    BY <1>3
  <2> HIDE DEF t, h
  <2>2. ASSUME NEW m \in SettlementNs(s) PROVE (h.settles /\ m = h.n) \/ m \in SettlementNs(t)
    <3>1. PICK i \in DOMAIN s : m = s[i].n /\ s[i].settles
      BY DEF SettlementNs
    <3> QED
      BY <2>1, <3>1 DEF SettlementNs
  <2>3. ASSUME NEW m \in SettlementNs(t) PROVE m \in SettlementNs(s)
    <3>1. PICK i \in DOMAIN t : m = t[i].n /\ t[i].settles
      BY DEF SettlementNs
    <3> QED
      BY <2>1, <3>1 DEF SettlementNs
  <2>4. h.settles => h.n \in SettlementNs(s)
    BY <2>1 DEF SettlementNs
  <2>5. SettlementNs(s) = IF h.settles THEN {h.n} \cup SettlementNs(t) ELSE SettlementNs(t)
    BY <2>2, <2>3, <2>4
  <2> QED
    BY <2>5 DEF t, h
<1> QED
  BY <1>1, <1>2, <1>3

\* A step that leaves the requests, answers and receipts of a channel alone.
SameOwn(ch) ==
    /\ kind'[ch] = kind[ch] /\ asked'[ch] = asked[ch] /\ inbox'[ch] = inbox[ch]
    /\ tunnel'[ch] = tunnel[ch] /\ answers'[ch] = answers[ch] /\ pump'[ch] = pump[ch]
    /\ pending'[ch] = pending[ch] /\ receipts'[ch] = receipts[ch]
    /\ unsettled'[ch] = unsettled[ch]
    /\ life'[ch] # "finished" => life[ch] # "finished"

LEMMA OwnStays ==
    ASSUME NEW ch \in Channels, SameOwn(ch), Ordered(ch), Settling(ch)
    PROVE  Ordered(ch)' /\ Settling(ch)'
<1>1. Ordered(ch)'
  BY DEF SameOwn, Ordered, Busy
<1>2. Decided(ch)' <=> Decided(ch)
  BY DEF SameOwn, Decided
<1>3. Settled(ch)' = Settled(ch) /\ Txs(ch)' = Txs(ch)
  BY DEF SameOwn, Settled, Txs
<1>4. Answered(ch)' = Answered(ch) /\ Allowances(ch)' = Allowances(ch)
  BY <1>3 DEF SameOwn, Answered, Allowances
<1>5. Waiting(ch) => Waiting(ch)'
  BY <1>2, <1>4 DEF SameOwn, Waiting, Travelling, Busy
<1>6. Behind(ch) => Behind(ch)'
  BY <1>3, <1>4 DEF SameOwn, Behind, Busy
<1>7. Matched(ch) => Matched(ch)'
  BY <1>3 DEF SameOwn, Matched, Observes, Enforcers
<1>8. Settling(ch)'
  BY <1>5, <1>6, <1>7 DEF SameOwn, Settling, Observes, Enforcers
<1> QED
  BY <1>1, <1>8

\* What is behind depends on the log, the settlements left out, and who waits.
LEMMA SameBehind ==
    ASSUME NEW ch \in Channels, receipts'[ch] = receipts[ch], unsettled'[ch] = unsettled[ch]
    PROVE  /\ Settled(ch)' = Settled(ch) /\ Txs(ch)' = Txs(ch) /\ Answered(ch)' = Answered(ch)
           /\ pending'[ch] = pending[ch] => Allowances(ch)' = Allowances(ch)
BY DEF Settled, Txs, Answered, Allowances

\* Their numbers, and those the server answers for good.
LEMMA SettledNumbers ==
    ASSUME IInv, NEW ch \in Channels
    PROVE  /\ \A x \in Settled(ch) : x \in Receipt /\ x.n \in Nat /\ x.tx \in Nat
           /\ Txs(ch) \subseteq 0..MaxRequests /\ unsettled[ch] \subseteq Nat
           /\ Answered(ch) \subseteq Nat /\ Allowances(ch) \subseteq Nat
           /\ {x.n : x \in Settled(ch)} \subseteq Ns(receipts[ch])
<1>1. /\ receipts[ch] \in Seq(Receipt) /\ pending[ch] \in Seq(Receipt)
      /\ unsettled[ch] \subseteq Numbers
  BY DEF IInv, ChannelTypeOK
<1>2. \A x \in Receipt : x.n \in Nat /\ x.tx \in 0..MaxRequests
  BY Bounds DEF Receipt
<1>3. \A x \in Settled(ch) : x \in Receipt /\ x.n \in Ns(receipts[ch])
  BY <1>1 DEF Settled, ToSet, Ns
<1>4. Txs(ch) \subseteq 0..MaxRequests
  <2> SUFFICES ASSUME NEW x \in Settled(ch) PROVE x.tx \in 0..MaxRequests
    BY DEF Txs
  <2> QED
    BY <1>2, <1>3
<1>5. unsettled[ch] \subseteq Nat /\ 0..MaxRequests \subseteq Nat
  <2>1. MaxRequests \in Nat /\ Numbers \subseteq Nat
    BY Bounds
  <2>2. 0..MaxRequests \subseteq Nat
    BY <2>1
  <2> QED
    BY <1>1, <2>1, <2>2
<1>6. Ns(pending[ch]) \subseteq Nat
  BY <1>1, ReceiptNumbers
<1> QED
  BY <1>2, <1>3, <1>4, <1>5, <1>6 DEF Answered, Allowances

\* A step of the pump that changes its place, or adds a receipt of a denial.
LEMMA PumpOwn ==
    ASSUME NEW ch \in Channels, Ordered(ch), Settling(ch),
           UNCHANGED <<kind, asked, inbox, tunnel, answers, unsettled, pending, life>>,
           Settled(ch)' = Settled(ch),
           \/ pump'[ch].at = "done"
           \/ /\ Busy(ch) /\ Busy(ch)'
              /\ pump'[ch].n = pump[ch].n /\ pump'[ch].req = pump[ch].req
              /\ pump'[ch].at = "enforce" /\ IsPayment(pump[ch].req) /\ Decided(ch)' /\ Waiting(ch)
                    => pump[ch].n \in Ns(pending[ch])
    PROVE  Ordered(ch)' /\ Settling(ch)'
<1>1. Ordered(ch)'
  BY DEF Ordered, Busy
<1>2. /\ Travelling(ch)' = Travelling(ch) /\ Txs(ch)' = Txs(ch)
      /\ Answered(ch)' = Answered(ch) /\ Allowances(ch)' = Allowances(ch)
  BY DEF Travelling, Txs, Answered, Allowances
<1>3. Waiting(ch) => Waiting(ch)'
  <2>1. CASE pump'[ch].at = "done"
    BY <1>2, <2>1 DEF Waiting, Busy
  <2>2. CASE /\ Busy(ch) /\ Busy(ch)'
             /\ pump'[ch].n = pump[ch].n /\ pump'[ch].req = pump[ch].req
             /\ pump'[ch].at = "enforce" /\ IsPayment(pump[ch].req) /\ Decided(ch)' /\ Waiting(ch)
                    => pump[ch].n \in Ns(pending[ch])
    <3>1. pump[ch].at # "done"
      BY <2>2 DEF Busy
    <3> QED
      BY <1>2, <2>2, <3>1 DEF Waiting
  <2> QED
    BY <2>1, <2>2
<1>4. Behind(ch) => Behind(ch)'
  BY <1>2 DEF Behind, Busy
<1>5. Matched(ch)'
  BY DEF Settling, Matched, Observes, Enforcers
<1>6. Settling(ch)'
  BY <1>3, <1>4, <1>5 DEF Settling, Observes, Enforcers
<1> QED
  BY <1>1, <1>6

\* The pump's steps that leave the receipts that wait alone.
LEMMA PumpOwnSteps ==
    ASSUME IInv, NEW ch \in Channels, Ordered(ch), Settling(ch),
           \/ CheckTools(ch) \/ NoPaymentHeader(ch) \/ MalformedHeader(ch)
           \/ EvaluatePayment(ch) \/ ReadFails(ch) \/ PumpWriteFails(ch) \/ Deny(ch)
           \/ RecordPayment(ch) /\ ~pump[ch].allow
    PROVE  Ordered(ch)' /\ Settling(ch)'
<1> DEFINE q == pump[ch]
           l == kind[ch].pipeline
<1>1. /\ pump \in [Channels -> PumpState] /\ q \in PumpState
      /\ receipts \in [Channels -> Seq(Receipt)] /\ receipts[ch] \in Seq(Receipt)
  BY DEF IInv, ChannelTypeOK
<1>2. CASE ReadFails(ch) \/ PumpWriteFails(ch) \/ Deny(ch)
  <2>1. /\ UNCHANGED <<kind, asked, inbox, tunnel, answers, unsettled, pending, receipts, life>>
        /\ pump'[ch].at = "done"
    BY <1>1, <1>2, Hands DEF ReadFails, PumpWriteFails, Deny, PumpEnds, agents, servers, records
  <2> QED
    BY <2>1, PumpOwn, SameBehind
<1>3. CASE CheckTools(ch)
  <2>1. /\ q.at = "enforce" /\ Busy(ch) /\ q.i \in DOMAIN l /\ l[q.i] = "mcp"
        /\ UNCHANGED <<kind, asked, inbox, tunnel, answers, unsettled, pending, receipts, life>>
    BY <1>3, AtTurn DEF CheckTools, agents, servers, records
  <2>2. \E p \in PumpState : /\ pump'[ch] = p /\ p.n = q.n /\ p.req = q.req
                             /\ p.at \in {"enforce", "deny"}
                             /\ p.at = "enforce" => (Decided(ch)' <=> Decided(ch))
    <3>1. CASE ToolsPermitted(q.req)
      <4>1. NextEnforcer(ch) /\ Passed(l[q.i], q.req)
        BY <1>3, <2>1, <3>1 DEF CheckTools, Passed
      <4> QED
        BY <2>1, <4>1, Advances
    <3>2. CASE ~ToolsPermitted(q.req)
      <4>1. Goes(ch, "deny")
        BY <1>3, <3>2 DEF CheckTools
      <4> QED
        BY <2>1, <4>1, Denies
    <3> QED
      BY <3>1, <3>2
  <2>3. /\ Busy(ch)' /\ pump'[ch].n = q.n /\ pump'[ch].req = q.req
        /\ pump'[ch].at = "enforce" => (Decided(ch)' <=> Decided(ch))
    BY <2>2 DEF Busy
  <2>4. pump'[ch].at = "enforce" /\ IsPayment(q.req) /\ Decided(ch)' /\ Waiting(ch)
            => q.n \in Ns(pending[ch])
    BY <2>1, <2>3 DEF Waiting
  <2> QED
    BY <2>1, <2>3, <2>4, PumpOwn, SameBehind
<1>4. CASE NoPaymentHeader(ch)
  <2>1. /\ q.at = "enforce" /\ Busy(ch) /\ q.i \in DOMAIN l /\ l[q.i] = "x402"
        /\ q.req.pay = None /\ NextEnforcer(ch)
        /\ UNCHANGED <<kind, asked, inbox, tunnel, answers, unsettled, pending, receipts, life>>
    BY <1>4, AtTurn DEF NoPaymentHeader, agents, servers, records
  <2>2. Passed(l[q.i], q.req) /\ ~IsPayment(q.req)
    BY <2>1, ProxyAssumption DEF Passed, IsPayment
  <2>3. pump'[ch].n = q.n /\ pump'[ch].req = q.req /\ pump'[ch].at = "enforce"
    BY <2>1, <2>2, Advances
  <2>4. Busy(ch)'
    BY <2>3 DEF Busy
  <2> QED
    BY <2>1, <2>2, <2>3, <2>4, PumpOwn, SameBehind
<1>5. CASE MalformedHeader(ch) \/ (RecordPayment(ch) /\ ~q.allow)
  <2>1. /\ Busy(ch) /\ Goes(ch, "deny") /\ receipts' = Push(receipts, ch, Denied(ch))
        /\ UNCHANGED <<kind, asked, inbox, tunnel, answers, unsettled, pending, life>>
    BY <1>5, AtTurn DEF MalformedHeader, RecordPayment, At, Busy, agents, servers
  <2>2. pump'[ch].n = q.n /\ pump'[ch].req = q.req /\ pump'[ch].at = "deny"
    BY <2>1, Denies
  <2> DEFINE x == Denied(ch)
  <2>3. x \in Receipt /\ x.tx = 0
    <3>1. q.n \in Numbers
      BY <2>1 DEF IInv, ChannelInv, Pumping
    <3> QED
      BY <3>1, Bounds DEF Denied, Receipt
  <2>4. receipts' = Push(receipts, ch, x)
    BY <2>1
  <2> HIDE DEF x
  <2>5. ToSet(receipts'[ch]) = ToSet(receipts[ch]) \cup {x}
    <3>1. receipts'[ch] = Append(receipts[ch], x)
      BY <1>1, <2>4 DEF Push
    <3> QED
      BY <1>1, <2>3, <3>1, Appended
  <2>6. Busy(ch)'
    BY <2>2 DEF Busy
  <2>7. Settled(ch)' = Settled(ch)
    BY <2>3, <2>5 DEF Settled
  <2> QED
    BY <2>1, <2>2, <2>6, <2>7, PumpOwn, SameBehind
<1>6. CASE EvaluatePayment(ch)
  <2>1. /\ Busy(ch)
        /\ UNCHANGED <<kind, asked, inbox, tunnel, answers, unsettled, pending, receipts, life>>
        /\ \E b \in BOOLEAN : pump' = [pump EXCEPT ![ch] = Turned(q, "record", b)]
    <3> DEFINE b == /\ Matches(q.req.pay, challenge[ch]) /\ InPolicy(q.req.pay)
                    /\ Fits(q.req.pay)
    <3>1. /\ Turn(ch, "x402")
          /\ pump' = [pump EXCEPT ![ch].at = "record", ![ch].allow = b]
          /\ UNCHANGED <<kind, agents, servers, records, life>>
      BY <1>6 DEF EvaluatePayment
    <3>2. b \in BOOLEAN
      BY DEF Matches, InPolicy, Fits
    <3> HIDE DEF b
    <3>3. pump' = [pump EXCEPT ![ch] = Turned(q, "record", b)]
      BY <1>1, <3>1 DEF Turned
    <3> QED
      BY <3>1, <3>2, <3>3, AtTurn DEF agents, servers, records
  <2>2. PICK b \in BOOLEAN : pump' = [pump EXCEPT ![ch] = Turned(q, "record", b)]
    BY <2>1
  <2>3. pump'[ch] = Turned(q, "record", b)
    BY <1>1, <2>2
  <2> HIDE DEF q
  <2>4. pump'[ch].n = q.n /\ pump'[ch].req = q.req /\ pump'[ch].at = "record"
    BY <1>1, <2>3 DEF Turned, PumpState
  <2>5. Busy(ch)'
    BY <2>4 DEF Busy
  <2> QED
    BY <2>1, <2>4, <2>5, PumpOwn, SameBehind DEF q
<1> QED
  BY <1>2, <1>3, <1>4, <1>5, <1>6

\* The receipt of the pump's request is the last of those that wait.
LEMMA RecordOwn ==
    ASSUME IInv, NEW ch \in Channels, Ordered(ch), Settling(ch),
           RecordPayment(ch), pump[ch].allow
    PROVE  Ordered(ch)' /\ Settling(ch)'
<1> DEFINE q == pump[ch]
           x == Allowed(ch)
           t == Append(pending[ch], x)
<1>1. /\ q.at = "record" /\ NextEnforcer(ch)
      /\ pending' = Push(pending, ch, Allowed(ch))
      /\ UNCHANGED <<kind, asked, inbox, tunnel, answers, unsettled, receipts, life>>
  BY DEF RecordPayment, At, agents, servers
<1>2. /\ Busy(ch) /\ ChannelInv(ch) /\ q.n \in Numbers
      /\ q.i \in DOMAIN kind[ch].pipeline
      /\ kind[ch].pipeline[q.i] = "x402" /\ IsPayment(q.req)
      /\ pending \in [Channels -> Seq(Receipt)] /\ pending[ch] \in Seq(Receipt)
  BY <1>1 DEF IInv, ChannelTypeOK, ChannelInv, Pumping, Busy
<1>3. q.n \notin Ns(receipts[ch]) \cup Ns(pending[ch])
  BY <1>1, <1>2, Undecided
<1>4. x \in Receipt /\ x.n = q.n /\ x.tx = 0
  BY <1>2, Bounds DEF Allowed, Receipt
<1>5. \A m \in Ns(pending[ch]) : m < x.n
  <2>1. \A m \in Ns(pending[ch]) : m <= q.n /\ m # q.n
    BY <1>2, <1>3 DEF ChannelInv, Once
  <2>2. q.n \in Nat /\ Ns(pending[ch]) \subseteq Nat
    BY <1>2, Bounds, ReceiptNumbers
  <2> QED
    BY <1>4, <2>1, <2>2
<1>6. /\ t \in Seq(Receipt) /\ ToSet(t) = ToSet(pending[ch]) \cup {x}
      /\ Ns(t) = Ns(pending[ch]) \cup {q.n} /\ Ascending(t)
  BY <1>2, <1>4, <1>5, Appended DEF Ordered
<1>7. pending'[ch] = t
  BY <1>1, <1>2 DEF Push
<1> HIDE DEF x, t
<1>8. /\ pump'[ch].n = q.n /\ pump'[ch].req = q.req /\ pump'[ch].at = "enforce"
  <2>1. Passed("x402", q.req)
    BY <1>2, ProxyAssumption DEF Passed, IsPayment
  <2> QED
    BY <1>1, <1>2, <2>1, Advances
<1>9. Busy(ch)' /\ pump[ch].at # "done"
  BY <1>1, <1>8 DEF Busy
<1>10. Ordered(ch)'
  BY <1>1, <1>2, <1>6, <1>7, <1>8, <1>9 DEF Ordered
<1>11. /\ Travelling(ch)' = Travelling(ch) /\ Settled(ch)' = Settled(ch)
       /\ Txs(ch)' = Txs(ch) /\ Answered(ch)' = Answered(ch)
       /\ Allowances(ch)' = Allowances(ch) \cup {q.n}
  BY <1>1, <1>6, <1>7 DEF Travelling, Settled, Txs, Answered, Allowances
<1>12. Waiting(ch) => Waiting(ch)'
  <2>1. \A k \in Ns(answers[ch]) \cup Ns(tunnel[ch]) : k < q.n
    BY <1>2 DEF Ordered
  <2> QED
    BY <1>1, <1>2, <1>6, <1>7, <1>8, <1>9, <1>11, <2>1 DEF Waiting
<1>13. Behind(ch) => Behind(ch)'
  <2> SUFFICES ASSUME Behind(ch) PROVE Behind(ch)'
    OBVIOUS
  <2>1. \A y \in Settled(ch) : y.n < q.n
    <3> SUFFICES ASSUME NEW y \in Settled(ch) PROVE y.n < q.n
      OBVIOUS
    <3>1. y.n <= y.tx
      BY DEF Settling, Matched
    <3>2. y.tx < q.n
      BY <1>2 DEF Behind, Answered, Txs
    <3>3. y.n \in Nat /\ y.tx \in Nat /\ q.n \in Nat
      BY <1>2, SettledNumbers, Bounds
    <3> QED
      BY <3>1, <3>2, <3>3
  <2> QED
    BY <1>1, <1>2, <1>6, <1>7, <1>8, <1>9, <1>11, <2>1 DEF Behind
<1>14. Settling(ch)'
  BY <1>1, <1>4, <1>6, <1>7, <1>11, <1>12, <1>13 DEF Settling, Matched, Observes, Enforcers
<1> QED
  BY <1>10, <1>14

LEMMA ReadRequestOwn ==
    ASSUME IInv, NEW ch \in Channels, Ordered(ch), Settling(ch), ReadRequest(ch)
    PROVE  Ordered(ch)' /\ Settling(ch)'
<1> DEFINE r == Head(inbox[ch])
           p == [NoRequest EXCEPT !.n = r.n, !.req = r.req,
                    !.at = IF r.req.form = "oversize" THEN "deny" ELSE "enforce"]
<1>1. /\ pump[ch].at = "read" /\ inbox[ch] # <<>>
      /\ pump' = [pump EXCEPT ![ch] = p] /\ inbox' = [inbox EXCEPT ![ch] = Tail(inbox[ch])]
      /\ UNCHANGED <<kind, asked, tunnel, answers, unsettled, pending, receipts, life>>
  BY DEF ReadRequest, At, Pop, IInv, ChannelTypeOK, servers, records
<1>2. /\ pump \in [Channels -> PumpState] /\ inbox \in [Channels -> Seq(Numbered)]
      /\ inbox[ch] \in Seq(Numbered) /\ ChannelInv(ch)
  BY DEF IInv, ChannelTypeOK
<1>3. r \in Numbered /\ Ns(inbox[ch]) = {r.n} \cup Ns(Tail(inbox[ch]))
  BY <1>1, <1>2, Popped
<1>4. p.n = r.n /\ p.req = r.req /\ p.i = 1 /\ p.at \in {"deny", "enforce"}
  <2> HIDE DEF r
  <2> QED
    BY Hands DEF PumpState
<1> HIDE DEF p, r
<1>5. pump'[ch] = p /\ inbox'[ch] = Tail(inbox[ch]) /\ ~Busy(ch)
  BY <1>1, <1>2 DEF Busy
<1>6. Ordered(ch)'
  BY <1>1, <1>3, <1>4, <1>5 DEF Ordered
<1>7. r.n \notin Ns(pending[ch])
  <2>1. \A m \in Ns(pending[ch]) : m < r.n
    BY <1>2, <1>3 DEF ChannelInv, Once
  <2>2. Ns(pending[ch]) \subseteq Nat
    BY ReceiptNumbers DEF IInv, ChannelTypeOK
  <2> QED
    BY <2>1, <2>2
<1>8. ~Decided(ch)'
  <2>1. Len(kind[ch].pipeline) \in Nat /\ DOMAIN kind[ch].pipeline = 1..Len(kind[ch].pipeline)
    BY KindType DEF IInv
  <2> QED
    BY <1>1, <1>4, <1>5, <2>1 DEF Decided
<1>9. Travelling(ch)' = Travelling(ch)
  BY <1>1 DEF Travelling
<1>10. /\ Settled(ch)' = Settled(ch) /\ Txs(ch)' = Txs(ch) /\ Answered(ch)' = Answered(ch)
       /\ Allowances(ch)' = Allowances(ch)
  BY <1>1, SameBehind
<1>11. Waiting(ch) => Waiting(ch)'
  <2>1. Waiting(ch) => Allowances(ch) \subseteq Travelling(ch) \cup Answered(ch)
    BY <1>1, <1>5 DEF Waiting
  <2> QED
    BY <1>1, <1>4, <1>5, <1>7, <1>8, <1>9, <1>10, <2>1 DEF Waiting
<1>12. Waiting(ch) /\ Behind(ch) => Behind(ch)'
  <2>1. Allowances(ch) \subseteq Ns(receipts[ch]) \cup Ns(pending[ch])
    BY SettledNumbers DEF Allowances
  <2>2. \A m \in Allowances(ch) : m < r.n
    BY <1>2, <1>3, <2>1 DEF ChannelInv, Once
  <2> QED
    BY <1>1, <1>4, <1>5, <1>9, <1>10, <2>2 DEF Waiting, Behind
<1>13. Settling(ch)'
  BY <1>1, <1>10, <1>11, <1>12 DEF Settling, Matched, Observes, Enforcers
<1> QED
  BY <1>6, <1>13

\* A request that is forwarded is younger than all that travel.
LEMMA ForwardOwn ==
    ASSUME IInv, NEW ch \in Channels, Ordered(ch), Settling(ch), Forward(ch)
    PROVE  Ordered(ch)' /\ Settling(ch)'
<1> DEFINE q == pump[ch]
           l == kind[ch].pipeline
           x == [n |-> q.n, req |-> q.req]
           t == Append(tunnel[ch], x)
<1>1. /\ q.at = "enforce" /\ q.i > Len(l)
      /\ tunnel' = [tunnel EXCEPT ![ch] = t] /\ pump' = [pump EXCEPT ![ch] = NoRequest]
      /\ UNCHANGED <<kind, asked, inbox, answers, unsettled, pending, receipts, life>>
  BY DEF Forward, Ready, At, Push, IInv, ChannelTypeOK, agents, records
<1>2. /\ pump \in [Channels -> PumpState] /\ tunnel \in [Channels -> Seq(Numbered)]
      /\ tunnel[ch] \in Seq(Numbered) /\ Busy(ch) /\ Queued(ch)
      /\ q.n \in Numbers /\ q.req \in Requests
  BY <1>1 DEF IInv, ChannelTypeOK, ChannelInv, Pumping, Busy
<1>3. x \in Numbered /\ x.n = q.n /\ x.req = q.req
  BY <1>2 DEF Numbered
<1>4. Observes(ch) => Decided(ch)
  <2>1. Len(l) \in Nat /\ DOMAIN l = 1..Len(l) /\ q.i \in Nat
    BY <1>2, KindType DEF IInv, PumpState
  <2>2. \A j \in DOMAIN l : j < q.i
    BY <1>1, <2>1
  <2> QED
    BY <2>2 DEF Observes, Enforcers, ToSet, Decided
<1>5. \A m \in Ns(answers[ch]) \cup Ns(tunnel[ch]) : m < x.n
  BY <1>2, <1>3 DEF Ordered
<1>6. /\ t \in Seq(Numbered) /\ Ns(t) = Ns(tunnel[ch]) \cup {q.n} /\ Ascending(t)
  BY <1>2, <1>3, <1>5, Appended DEF Ordered
<1>7. PaymentNs(t) = IF IsPayment(q.req) THEN PaymentNs(tunnel[ch]) \cup {q.n}
                                         ELSE PaymentNs(tunnel[ch])
  BY <1>2, <1>3, Payments
<1> HIDE DEF x, t
<1>8. tunnel'[ch] = t /\ pump'[ch] = NoRequest /\ ~Busy(ch)'
  BY <1>1, <1>2, Hands DEF Busy
<1>9. Ordered(ch)'
  <2>1. q.n <= asked[ch] /\ \A k \in Ns(inbox[ch]) : q.n < k
    BY <1>2 DEF Queued
  <2> QED
    BY <1>1, <1>3, <1>5, <1>6, <1>8, <2>1 DEF Ordered
<1>10. /\ Settled(ch)' = Settled(ch) /\ Txs(ch)' = Txs(ch) /\ Answered(ch)' = Answered(ch)
       /\ Allowances(ch)' = Allowances(ch)
  BY <1>1, SameBehind
<1>11. Travelling(ch)' = IF IsPayment(q.req) THEN Travelling(ch) \cup {q.n} ELSE Travelling(ch)
  BY <1>1, <1>7, <1>8 DEF Travelling
<1>12. Observes(ch) /\ Waiting(ch) /\ Behind(ch) => Waiting(ch)'
  <2> SUFFICES ASSUME Observes(ch), Waiting(ch), Behind(ch) PROVE Waiting(ch)'
    OBVIOUS
  <2>1. IsPayment(q.req) <=> q.n \in Ns(pending[ch])
    BY <1>1, <1>2, <1>4 DEF Waiting
  <2>2. \A m \in Allowances(ch) \ (Travelling(ch) \cup Answered(ch)) : m = q.n
    BY <1>1 DEF Waiting
  <2>3. \A y \in Settled(ch) : y.n # q.n
    <3> SUFFICES ASSUME NEW y \in Settled(ch) PROVE y.n # q.n
      OBVIOUS
    <3>1. y.n <= y.tx
      BY DEF Settling, Matched
    <3>2. y.tx < q.n
      BY <1>2 DEF Behind, Answered, Txs
    <3>3. y.n \in Nat /\ y.tx \in Nat /\ q.n \in Nat
      BY <1>2, SettledNumbers, Bounds
    <3> QED
      BY <3>1, <3>2, <3>3
  <2>4. Allowances(ch) \subseteq Travelling(ch)' \cup Answered(ch)
    BY <1>11, <2>1, <2>2, <2>3 DEF Allowances
  <2>5. Travelling(ch)' \subseteq Ns(pending[ch])
    BY <1>11, <2>1 DEF Waiting
  <2>6. Answered(ch) \subseteq Allowances(ch)
    BY DEF Waiting
  <2> QED
    BY <1>1, <1>8, <1>10, <2>4, <2>5, <2>6, Hands DEF Waiting
<1>13. Behind(ch) => Behind(ch)'
  <2>1. tunnel'[ch] = t /\ Ns(t) = Ns(tunnel[ch]) \cup {q.n}
    BY <1>6, <1>8
  <2> QED
    BY <1>1, <1>2, <1>8, <1>10, <2>1 DEF Behind, Answered
<1>14. Settling(ch)'
  BY <1>1, <1>10, <1>12, <1>13 DEF Settling, Matched, Observes, Enforcers
<1> QED
  BY <1>9, <1>14

\* A new request is younger than all that went before.
LEMMA SendOwn ==
    ASSUME IInv, NEW ch \in Channels, Ordered(ch), Settling(ch), Send(ch)
    PROVE  Ordered(ch)' /\ Settling(ch)'
<1> DEFINE n == asked[ch] + 1
<1>1. PICK r \in kind[ch].requests : inbox' = Push(inbox, ch, [n |-> asked[ch] + 1, req |-> r])
  BY DEF Send
<1> DEFINE x == [n |-> asked[ch] + 1, req |-> r]
           t == Append(inbox[ch], x)
<1>2. /\ asked[ch] < kind[ch].most /\ asked' = [asked EXCEPT ![ch] = n]
      /\ inbox' = [inbox EXCEPT ![ch] = t]
      /\ UNCHANGED <<kind, tunnel, answers, unsettled, pending, receipts, pump, life>>
  BY <1>1 DEF Send, Push, IInv, ChannelTypeOK, servers, records
<1>3. /\ asked \in [Channels -> Nat] /\ inbox \in [Channels -> Seq(Numbered)]
      /\ inbox[ch] \in Seq(Numbered) /\ asked[ch] \in Nat /\ kind[ch].most \in 0..MaxRequests
      /\ tunnel[ch] \in Seq(Numbered) /\ answers[ch] \in Seq(Answer)
  BY KindType DEF IInv, ChannelTypeOK
<1>4. x \in Numbered /\ x.n = n
  <2>1. r \in Requests
    BY KindType DEF IInv, Kind
  <2>2. n \in 1..MaxRequests
    BY <1>2, <1>3, Bounds
  <2> QED
    BY <2>1, <2>2 DEF Numbered, Numbers
<1>5. Ns(t) = Ns(inbox[ch]) \cup {n}
  BY <1>3, <1>4, Appended
<1>6. \A m \in Nat : m <= asked[ch] => m < n /\ m <= n
  BY <1>3
<1>7. Ns(tunnel[ch]) \subseteq Nat /\ Ns(answers[ch]) \subseteq Nat
  <2>1. \A i \in DOMAIN answers[ch] : answers[ch][i] \in Answer
    BY <1>3
  <2>2. \A a \in Answer : a.n \in Nat
    BY Bounds DEF Answer
  <2>3. Ns(answers[ch]) \subseteq Nat
    BY <2>1, <2>2 DEF Ns
  <2> QED
    BY <1>3, <2>3, QueueNumbers
<1> HIDE DEF n, x, t
<1>8. inbox'[ch] = t /\ asked'[ch] = n
  BY <1>2, <1>3
<1>9. Ordered(ch)'
  BY <1>2, <1>5, <1>6, <1>7, <1>8 DEF Ordered, Busy
<1>10. /\ Settled(ch)' = Settled(ch) /\ Txs(ch)' = Txs(ch) /\ Answered(ch)' = Answered(ch)
       /\ Allowances(ch)' = Allowances(ch) /\ Travelling(ch)' = Travelling(ch)
  BY <1>2, SameBehind DEF Travelling
<1>11. Waiting(ch) => Waiting(ch)'
  BY <1>2, <1>10 DEF Waiting, Busy, Decided
<1>12. Behind(ch) => Behind(ch)'
  BY <1>2, <1>10 DEF Behind, Busy
<1>13. Settling(ch)'
  BY <1>2, <1>10, <1>11, <1>12 DEF Settling, Matched, Observes, Enforcers
<1> QED
  BY <1>9, <1>13

LEMMA AnswerNumbers ==
    ASSUME NEW s \in Seq(Answer)
    PROVE  Ns(s) \subseteq Nat
<1>1. \A i \in DOMAIN s : s[i] \in Answer
  OBVIOUS
<1>2. \A a \in Answer : a.n \in Nat
  BY Bounds DEF Answer
<1> QED
  BY <1>1, <1>2 DEF Ns

\* The server turns a payment into its settlement, or leaves it without one.
LEMMA RespondOwn ==
    ASSUME IInv, NEW ch \in Channels, Ordered(ch), Settling(ch), Respond(ch)
    PROVE  Ordered(ch)' /\ Settling(ch)'
<1> DEFINE r == Head(tunnel[ch])
           t == Tail(tunnel[ch])
<1>1. /\ tunnel[ch] # <<>> /\ tunnel' = [tunnel EXCEPT ![ch] = t]
      /\ \E settles \in BOOLEAN, ask \in Challenges \cup {None} :
            /\ answers' = Push(answers, ch, [n |-> r.n, settles |-> settles, ask |-> ask])
            /\ settles => IsPayment(r.req)
            /\ unsettled' = IF ~settles /\ IsPayment(r.req)
                            THEN [unsettled EXCEPT ![ch] = @ \cup {r.n}] ELSE unsettled
      /\ UNCHANGED <<kind, asked, inbox, pending, receipts, pump, life>>
  BY DEF Respond, Pop, agents, records
<1>2. /\ tunnel \in [Channels -> Seq(Numbered)] /\ answers \in [Channels -> Seq(Answer)]
      /\ tunnel[ch] \in Seq(Numbered) /\ answers[ch] \in Seq(Answer)
      /\ unsettled \in [Channels -> SUBSET Numbers]
  BY DEF IInv, ChannelTypeOK
<1>3. /\ t \in Seq(Numbered) /\ r \in Numbered /\ Ns(tunnel[ch]) = {r.n} \cup Ns(t)
      /\ Ascending(t) /\ \A m \in Ns(t) : r.n < m
  BY <1>1, <1>2, Popped DEF Ordered
<1>4. PaymentNs(tunnel[ch]) =
            IF IsPayment(r.req) THEN {r.n} \cup PaymentNs(t) ELSE PaymentNs(t)
  BY <1>1, <1>2, Payments
<1>5. PICK settles \in BOOLEAN, ask \in Challenges \cup {None} :
            /\ answers' = Push(answers, ch, [n |-> r.n, settles |-> settles, ask |-> ask])
            /\ settles => IsPayment(r.req)
            /\ unsettled' = IF ~settles /\ IsPayment(r.req)
                            THEN [unsettled EXCEPT ![ch] = @ \cup {r.n}] ELSE unsettled
  BY <1>1
<1> DEFINE x == [n |-> r.n, settles |-> settles, ask |-> ask]
           u == Append(answers[ch], x)
<1>6. x \in Answer /\ x.n = r.n /\ x.settles = settles
  <2>1. r.n \in Numbers
    BY <1>3 DEF Numbered
  <2> HIDE DEF r
  <2> QED
    BY <2>1 DEF Answer
<1> HIDE DEF x, r, t
<1>7. \A m \in Ns(answers[ch]) : m < x.n
  BY <1>3, <1>6 DEF Ordered
<1>8. Ns(u) = Ns(answers[ch]) \cup {r.n} /\ Ascending(u)
  BY <1>2, <1>6, <1>7, Appended DEF Ordered
<1>9. SettlementNs(u) = IF settles THEN SettlementNs(answers[ch]) \cup {r.n}
                                   ELSE SettlementNs(answers[ch])
  BY <1>2, <1>6, Settlements
<1>10. answers' = [answers EXCEPT ![ch] = u]
  BY <1>2, <1>5 DEF Push, x
<1> HIDE DEF u
<1>11. tunnel'[ch] = t /\ answers'[ch] = u
  BY <1>1, <1>2, <1>10
<1>12. Ns(u) \cup Ns(t) = Ns(answers[ch]) \cup Ns(tunnel[ch])
  BY <1>3, <1>8
<1>13. Ordered(ch)'
  <2>1. \A a \in Ns(u), m \in Ns(t) : a < m
    BY <1>3, <1>8 DEF Ordered
  <2> QED
    BY <1>1, <1>3, <1>8, <1>11, <1>12, <2>1 DEF Ordered, Busy
<1>14. /\ Settled(ch)' = Settled(ch) /\ Txs(ch)' = Txs(ch) /\ Allowances(ch)' = Allowances(ch)
       /\ Answered(ch)' = Txs(ch) \cup unsettled'[ch]
  BY <1>1 DEF Settled, Txs, Allowances, Answered
<1>15. unsettled'[ch] = IF ~settles /\ IsPayment(r.req)
                        THEN unsettled[ch] \cup {r.n} ELSE unsettled[ch]
  BY <1>2, <1>5
<1>16. /\ SettlementNs(answers[ch]) \subseteq Ns(answers[ch])
       /\ IsPayment(r.req) => r.n \in Travelling(ch)
       /\ r.n \in Ns(tunnel[ch])
  BY <1>2, <1>3, <1>4, Settlements DEF Travelling
<1>17. Waiting(ch) => Waiting(ch)'
  <2> SUFFICES ASSUME Waiting(ch) PROVE Waiting(ch)'
    OBVIOUS
  <2>1. Travelling(ch)' = SettlementNs(u) \cup PaymentNs(t)
    BY <1>11 DEF Travelling
  <2>2. /\ Travelling(ch)' \subseteq Travelling(ch)
        /\ Travelling(ch)' \cup Answered(ch)' = Travelling(ch) \cup Answered(ch)
    BY <1>4, <1>5, <1>9, <1>14, <1>15, <2>1 DEF Travelling, Answered
  <2>3. Answered(ch)' \subseteq Allowances(ch)
    BY <1>14, <1>15, <1>16 DEF Waiting, Answered, Allowances
  <2>4. \A m \in Allowances(ch)' \ (Travelling(ch)' \cup Answered(ch)') :
            m \in Allowances(ch) \ (Travelling(ch) \cup Answered(ch))
    BY <1>14, <2>2
  <2> QED
    BY <1>1, <1>11, <1>12, <1>14, <2>2, <2>3, <2>4 DEF Waiting, Busy, Decided
<1>18. Behind(ch) => Behind(ch)'
  <2> SUFFICES ASSUME Behind(ch) PROVE Behind(ch)'
    OBVIOUS
  <2>1. \A y \in Txs(ch), m \in SettlementNs(u) \cup Ns(t) : y < m
    BY <1>3, <1>9, <1>16 DEF Behind
  <2>2. \A y \in unsettled'[ch], m \in Ns(t) : y < m
    BY <1>3, <1>15 DEF Behind
  <2>3. r.n \notin SettlementNs(answers[ch]) \cup Txs(ch)
    <3>1. \A m \in SettlementNs(answers[ch]) \cup Txs(ch) : m < r.n
      BY <1>16 DEF Behind, Ordered
    <3>2. r.n \in Numbers
      BY <1>3 DEF Numbered
    <3>3. r.n \in Nat
      BY <3>2, Bounds
    <3>4. ~(r.n < r.n)
      BY <3>3
    <3> QED
      BY <3>1, <3>4
  <2>4. unsettled[ch] \cap {r.n} = {}
    <3>1. \A m \in unsettled[ch] : m < r.n
      BY <1>16 DEF Behind
    <3>2. r.n \in Numbers
      BY <1>3 DEF Numbered
    <3>3. r.n \in Nat
      BY <3>2, Bounds
    <3>4. ~(r.n < r.n)
      BY <3>3
    <3> QED
      BY <3>1, <3>4
  <2>5. unsettled'[ch] \cap (SettlementNs(u) \cup Txs(ch)) = {}
    BY <1>9, <1>15, <2>3, <2>4 DEF Behind
  <2>6. Busy(ch) => \A m \in Txs(ch) \cup unsettled'[ch] : m < pump[ch].n
    BY <1>15, <1>16 DEF Behind, Ordered, Answered
  <2> QED
    BY <1>1, <1>11, <1>14, <2>1, <2>2, <2>5, <2>6 DEF Behind, Busy
<1>19. Matched(ch)'
  <2>1. ASSUME NEW y \in Settled(ch), Running(ch)
        PROVE  (\A m \in unsettled'[ch] : y.n < m) <=> (\A m \in unsettled[ch] : y.n < m)
    <3>1. Behind(ch)
      BY <2>1 DEF Settling, Matched, Running
    <3>2. y.n <= y.tx /\ y.tx < r.n
      BY <1>16, <2>1, <3>1 DEF Behind, Txs, Settling, Matched
    <3>3. y.n < r.n
      <4>1. y.n \in Nat /\ y.tx \in Nat /\ r.n \in Nat
        BY <1>3, <2>1, SettledNumbers, Bounds DEF Numbered
      <4> QED
        BY <3>2, <4>1
    <3> QED
      BY <1>15, <3>3
  <2>2. Running(ch)
    BY DEF Respond
  <2> QED
    BY <1>1, <1>14, <2>1, <2>2 DEF Settling, Matched, Observes, Enforcers
<1>20. Settling(ch)'
  BY <1>1, <1>17, <1>18, <1>19 DEF Settling, Observes, Enforcers
<1> QED
  BY <1>13, <1>20

\* What waits when the channel ends stays without a settlement.
LEMMA FinishOwn ==
    ASSUME IInv, NEW ch \in Channels, Ordered(ch), Settling(ch), Finish(ch)
    PROVE  Ordered(ch)' /\ Settling(ch)'
<1> DEFINE u == receipts[ch] \o pending[ch]
<1>1. /\ life' = [life EXCEPT ![ch] = "finished"]
      /\ receipts' = [receipts EXCEPT ![ch] = u] /\ pending' = [pending EXCEPT ![ch] = <<>>]
      /\ UNCHANGED <<kind, asked, inbox, tunnel, answers, unsettled, pump>>
  BY DEF Finish, IInv, ChannelTypeOK, agents, servers
<1>2. /\ receipts \in [Channels -> Seq(Receipt)] /\ pending \in [Channels -> Seq(Receipt)]
      /\ receipts[ch] \in Seq(Receipt) /\ pending[ch] \in Seq(Receipt)
      /\ life \in [Channels -> {"running", "closed", "finished"}]
  BY DEF IInv, ChannelTypeOK
<1>3. ToSet(u) = ToSet(receipts[ch]) \cup ToSet(pending[ch])
  BY <1>2, Joined
<1> HIDE DEF u
<1>4. receipts'[ch] = u /\ pending'[ch] = <<>> /\ life'[ch] = "finished"
  BY <1>1, <1>2
<1>5. Ascending(<<>>) /\ ToSet(<<>>) = {}
  BY DEF Ascending, ToSet
<1>6. Ordered(ch)'
  BY <1>1, <1>4, <1>5 DEF Ordered, Busy
<1>7. Settled(ch)' = Settled(ch)
  BY <1>3, <1>4 DEF Settling, Matched, Settled
<1>8. Settling(ch)'
  BY <1>1, <1>4, <1>5, <1>7 DEF Settling, Matched, Observes, Enforcers
<1> QED
  BY <1>6, <1>8

\* Every set of numbers up to a bound that is not empty has a greatest one.
LEMMA GreatestExists ==
    ASSUME NEW k \in Nat, NEW T, T \subseteq 0..k, T # {}
    PROVE  \E x \in T : \A y \in T : y <= x
<1> DEFINE above == {1..(k - x) : x \in T}
<1>1. IsWellFoundedOn(StrictSubsetOrdering(Nat), FiniteSubsetsOf(Nat))
  BY FS_StrictSubsetOrderingWellFounded
<1>2. above \subseteq FiniteSubsetsOf(Nat)
  <2> SUFFICES ASSUME NEW x \in T PROVE 1..(k - x) \in FiniteSubsetsOf(Nat)
    OBVIOUS
  <2>1. k - x \in Nat
    OBVIOUS
  <2>2. IsFiniteSet(1..(k - x))
    BY <2>1, FS_Interval
  <2>3. 1..(k - x) \subseteq Nat
    OBVIOUS
  <2> QED
    BY <2>2, <2>3 DEF FiniteSubsetsOf
<1>3. above # {}
  OBVIOUS
<1> HIDE DEF above
<1>4. PICK m \in above : \A n \in above : <<n, m>> \notin StrictSubsetOrdering(Nat)
  BY <1>1, <1>2, <1>3, WFMin, Zenon
<1> USE DEF above
<1>5. PICK x \in T : m = 1..(k - x)
  OBVIOUS
<1>6. ASSUME NEW y \in T, y > x PROVE FALSE
  <2>1. k - y \in Nat /\ k - x \in Nat /\ k - y < k - x
    BY <1>6
  <2>2. /\ 1..(k - y) \subseteq Nat /\ 1..(k - x) \subseteq Nat
        /\ 1..(k - y) \subseteq 1..(k - x) /\ 1..(k - y) # 1..(k - x)
    <3>1. k - x \in 1..(k - x) /\ k - x \notin 1..(k - y)
      BY <2>1
    <3> QED
      BY <2>1, <3>1
  <2>3. <<1..(k - y), m>> \in StrictSubsetOrdering(Nat)
    BY <1>5, <2>2 DEF StrictSubsetOrdering
  <2> QED
    BY <1>4, <2>3
<1> QED
  BY <1>6

\* The oldest receipt that waits, h, when the settlement of n is the next: not
\* younger than n, and n's own unless a payment up to it was left without one.
LEMMA Oldest ==
    ASSUME IInv, NEW ch \in Channels, Ordered(ch), Waiting(ch), Behind(ch), Matched(ch),
           NEW n \in Nat, NEW h \in Nat,
           n \in SettlementNs(answers[ch]), n \in Ns(answers[ch]), h \in Ns(pending[ch]),
           \A m \in Travelling(ch) : n <= m,
           \A m \in Ns(pending[ch]) : h <= m
    PROVE  h <= n /\ (h = n <=> \A u \in unsettled[ch] : h < u)
<1> DEFINE T == Txs(ch)
           U == unsettled[ch]
<1>1. n \in Ns(pending[ch]) /\ n \notin U
  BY DEF Waiting, Travelling, Behind
<1>2. h <= n
  BY <1>1
<1>3. /\ T \subseteq 0..MaxRequests /\ MaxRequests \in Nat /\ U \subseteq Nat
      /\ \A x \in Settled(ch) : x.n \in Nat /\ x.tx \in Nat /\ x.tx \in T
  BY SettledNumbers, Bounds DEF Txs
<1>4. /\ \A x \in Settled(ch) : x.n < h /\ x.n <= x.tx
      /\ \A x \in Settled(ch) : \A u \in U : ~(x.n < u) => x.tx # x.n
      /\ \A x \in Settled(ch) : x.tx # x.n => \E u \in U : ~(x.n < u)
  BY DEF Behind, Matched
<1>5. \A m \in T \cup U : m < h => \E x \in Settled(ch) : x.n = m
  <2> SUFFICES ASSUME NEW m \in T \cup U, m < h PROVE \E x \in Settled(ch) : x.n = m
    OBVIOUS
  <2>1. m \in Allowances(ch) /\ m \in Nat
    BY <1>3 DEF Waiting, Answered
  <2>2. m \notin Ns(pending[ch])
    BY <2>1
  <2> QED
    BY <2>1, <2>2 DEF Allowances
<1>6. ASSUME h = n, NEW u \in U PROVE h < u
  <2> SUFFICES ASSUME u <= h PROVE FALSE
    BY <1>3
  <2>1. u < h /\ u \in Nat
    BY <1>1, <1>3, <1>6
  <2>2. PICK x \in Settled(ch) : x.n = u
    BY <1>5, <2>1
  <2>3. x.tx > u /\ x.tx \in T
    <3>1. ~(x.n < u)
      BY <2>1, <2>2
    <3>2. x.n <= x.tx /\ x.n \in Nat /\ x.tx \in Nat /\ x.tx \in T
      BY <1>3, <1>4, <2>2
    <3>3. x.tx # x.n
      BY <1>4, <2>2, <3>1
    <3> QED
      BY <2>1, <2>2, <3>2, <3>3
  <2>4. PICK g \in T : \A y \in T : y <= g
    BY <1>3, <2>3, GreatestExists
  <2>5. g < n /\ g \in Nat /\ g > u
    <3>1. g < n
      BY DEF Behind
    <3> QED
      BY <1>3, <2>1, <2>3, <2>4, <3>1
  <2>6. PICK y \in Settled(ch) : y.n = g
    BY <1>5, <1>6, <2>5
  <2>7. y.tx > g /\ y.tx \in T
    <3>1. ~(y.n < u)
      BY <2>1, <2>5, <2>6
    <3>2. y.n <= y.tx /\ y.n \in Nat /\ y.tx \in Nat /\ y.tx \in T
      BY <1>3, <1>4, <2>6
    <3>3. y.tx # y.n
      BY <1>4, <2>6, <3>1
    <3> QED
      BY <2>5, <2>6, <3>2, <3>3
  <2> QED
    BY <1>3, <2>4, <2>5, <2>7
<1>7. ASSUME h < n PROVE \E u \in U : ~(h < u)
  <2>1. h \in Allowances(ch) /\ h \notin Travelling(ch)
    BY <1>7 DEF Allowances
  <2>2. h \in T \cup U
    <3> SUFFICES ASSUME h \notin T \cup U PROVE FALSE
      OBVIOUS
    <3>1. n < h
      BY <2>1 DEF Waiting, Answered
    <3> QED
      BY <1>7, <3>1
  <2>3. CASE h \in T
    <3>1. PICK x \in Settled(ch) : x.tx = h
      BY <2>3 DEF Txs
    <3>2. x.n < h /\ x.n \in Nat
      BY <1>3, <1>4, <3>1
    <3>3. x.tx # x.n
      BY <3>1, <3>2
    <3>4. PICK u \in U : ~(x.n < u)
      BY <1>4, <3>1, <3>3
    <3>5. u \in Nat /\ ~(h < u)
      BY <1>3, <3>2, <3>4
    <3> QED
      BY <3>5
  <2> QED
    BY <2>2, <2>3
<1> QED
  BY <1>2, <1>6, <1>7

LEMMA ReadAnswerOwn ==
    ASSUME IInv, NEW ch \in Channels, Ordered(ch), Settling(ch), ReadAnswer(ch)
    PROVE  Ordered(ch)' /\ Settling(ch)'
<1> DEFINE a == Head(answers[ch])
           t == Tail(answers[ch])
<1>1. /\ answers[ch] # <<>>
      /\ IF Observes(ch) /\ a.settles /\ pending[ch] # <<>>
         THEN Settle(ch, a) ELSE UNCHANGED records
      /\ answers' = [answers EXCEPT ![ch] = t]
      /\ UNCHANGED <<kind, asked, inbox, tunnel, unsettled, pump, life>>
  BY DEF ReadAnswer, Pop, agents
<1>2. /\ answers \in [Channels -> Seq(Answer)] /\ answers[ch] \in Seq(Answer)
      /\ tunnel[ch] \in Seq(Numbered)
  BY DEF IInv, ChannelTypeOK
<1>3. /\ t \in Seq(Answer) /\ a \in Answer /\ Ns(answers[ch]) = {a.n} \cup Ns(t)
      /\ Ascending(t) /\ \A m \in Ns(t) : a.n < m
  BY <1>1, <1>2, Popped DEF Ordered
<1>4. /\ SettlementNs(answers[ch]) =
            IF a.settles THEN {a.n} \cup SettlementNs(t) ELSE SettlementNs(t)
      /\ SettlementNs(answers[ch]) \subseteq Ns(answers[ch])
      /\ SettlementNs(t) \subseteq Ns(t)
  BY <1>1, <1>2, <1>3, Settlements
<1>5. PaymentNs(tunnel[ch]) \subseteq Ns(tunnel[ch])
  BY <1>2, Payments
<1> HIDE DEF a, t
<1>6. answers'[ch] = t
  BY <1>1, <1>2
<1>7. CASE UNCHANGED records /\ ~(Observes(ch) /\ a.settles /\ pending[ch] # <<>>)
  <2>1. Ordered(ch)'
    BY <1>1, <1>3, <1>6, <1>7 DEF Ordered, Busy, records
  <2>2. /\ Settled(ch)' = Settled(ch) /\ Txs(ch)' = Txs(ch) /\ Answered(ch)' = Answered(ch)
        /\ Allowances(ch)' = Allowances(ch)
    BY <1>1, <1>7, SameBehind DEF records
  <2>3. Matched(ch)'
    BY <1>1, <1>7, <2>2 DEF Settling, Matched, Observes, Enforcers, records
  <2>4. CASE ~a.settles
    <3>1. Travelling(ch)' = Travelling(ch)
      BY <1>1, <1>4, <1>6, <2>4 DEF Travelling
    <3>2. Waiting(ch) => Waiting(ch)'
      BY <1>1, <1>3, <1>6, <1>7, <2>2, <3>1 DEF Waiting, Busy, Decided, records
    <3>3. Behind(ch) => Behind(ch)'
      BY <1>1, <1>4, <1>6, <1>7, <2>2, <2>4 DEF Behind, Busy, records
    <3>4. Settling(ch)'
      BY <1>1, <2>3, <3>2, <3>3 DEF Settling, Observes, Enforcers
    <3> QED
      BY <2>1, <3>4
  <2>5. CASE a.settles /\ (Observes(ch) => pending[ch] = <<>>)
    <3>1. Observes(ch) => ~Waiting(ch)
      <4>1. Ns(<<>>) = {}
        BY DEF Ns
      <4> QED
        BY <1>4, <2>5, <4>1 DEF Waiting, Travelling
    <3>2. Settling(ch)'
      BY <1>1, <2>3, <3>1 DEF Settling, Observes, Enforcers
    <3> QED
      BY <2>1, <3>2
  <2> QED
    BY <1>7, <2>4, <2>5
<1>8. CASE Observes(ch) /\ a.settles /\ pending[ch] # <<>> /\ Settle(ch, a)
  <2> DEFINE h == Head(pending[ch])
             x == [h EXCEPT !.tx = a.n]
             p == Tail(pending[ch])
             u == Append(receipts[ch], x)
  <2>1. /\ receipts \in [Channels -> Seq(Receipt)] /\ pending \in [Channels -> Seq(Receipt)]
        /\ receipts[ch] \in Seq(Receipt) /\ pending[ch] \in Seq(Receipt)
        /\ receipts' = [receipts EXCEPT ![ch] = u] /\ pending' = [pending EXCEPT ![ch] = p]
    BY <1>8 DEF IInv, ChannelTypeOK, Settle, Push, Pop
  <2>2. /\ p \in Seq(Receipt) /\ h \in Receipt /\ h \in ToSet(pending[ch])
        /\ ToSet(p) \subseteq ToSet(pending[ch])
        /\ Ns(pending[ch]) = {h.n} \cup Ns(p)
        /\ Ascending(p) /\ \A m \in Ns(p) : h.n < m
    BY <1>8, <2>1, Popped DEF Ordered
  <2>3. a.n \in 0..MaxRequests /\ a.n \in Nat /\ a.n # 0 /\ h.n \in Nat
    BY <1>3, <2>2, Bounds DEF Answer, Receipt
  <2>4. x \in Receipt /\ x.n = h.n /\ x.tx = a.n
    <3> HIDE DEF h
    <3> QED
      BY <2>2, <2>3 DEF Receipt
  <2> HIDE DEF h, x, p
  <2>5. u \in Seq(Receipt) /\ ToSet(u) = ToSet(receipts[ch]) \cup {x}
    BY <2>1, <2>4, Appended
  <2> HIDE DEF u
  <2>6. receipts'[ch] = u /\ pending'[ch] = p
    BY <2>1
  <2>7. Ordered(ch)'
    BY <1>1, <1>3, <1>6, <2>2, <2>6 DEF Ordered, Busy
  <2>8. Waiting(ch) /\ Behind(ch) /\ Matched(ch)
    <3>1. life[ch] # "finished"
      BY <1>8 DEF IInv, ChannelInv, Over
    <3> QED
      BY <1>8, <3>1 DEF Settling
  <2>9. \A m \in Ns(answers[ch]) \cup Ns(tunnel[ch]) : a.n <= m
    <3>1. \A m \in Ns(answers[ch]) \cup Ns(tunnel[ch]) : a.n = m \/ a.n < m
      BY <1>3 DEF Ordered
    <3>2. Ns(answers[ch]) \cup Ns(tunnel[ch]) \subseteq Nat
      BY <1>2, AnswerNumbers, QueueNumbers
    <3> QED
      BY <2>3, <3>1, <3>2
  <2>10. \A m \in Ns(pending[ch]) : h.n <= m
    <3>1. Ns(pending[ch]) \subseteq Nat
      BY <2>1, ReceiptNumbers
    <3> QED
      BY <2>2, <2>3, <3>1
  <2>11. h.n <= a.n /\ (h.n = a.n <=> \A m \in unsettled[ch] : h.n < m)
    <3>1. a.n \in SettlementNs(answers[ch]) /\ a.n \in Ns(answers[ch]) /\ h.n \in Ns(pending[ch])
      BY <1>3, <1>4, <1>8, <2>2
    <3>2. \A m \in Travelling(ch) : a.n <= m
      BY <1>4, <1>5, <2>9 DEF Travelling
    <3> QED
      BY <2>3, <2>8, <2>10, <3>1, <3>2, Oldest
  <2>12. /\ Settled(ch)' = Settled(ch) \cup {x} /\ Txs(ch)' = Txs(ch) \cup {a.n}
         /\ Answered(ch)' = Answered(ch) \cup {a.n} /\ Allowances(ch)' = Allowances(ch)
    <3>1. Settled(ch)' = Settled(ch) \cup {x}
      BY <2>3, <2>4, <2>5, <2>6 DEF Settled
    <3>2. Txs(ch)' = Txs(ch) \cup {a.n}
      BY <2>4, <3>1 DEF Txs
    <3>3. Answered(ch)' = Answered(ch) \cup {a.n}
      BY <1>1, <3>2 DEF Answered
    <3>4. Allowances(ch)' = {y.n : y \in Settled(ch) \cup {x}} \cup Ns(p)
      BY <2>6, <3>1 DEF Allowances
    <3>5. {y.n : y \in Settled(ch) \cup {x}} = {y.n : y \in Settled(ch)} \cup {h.n}
      BY <2>4
    <3> QED
      BY <2>2, <3>1, <3>2, <3>3, <3>4, <3>5 DEF Allowances
  <2>13. /\ a.n \notin Ns(t) \cup Ns(tunnel[ch])
         /\ \A m \in Ns(t) \cup Ns(tunnel[ch]) : a.n < m /\ h.n # m
         /\ Busy(ch) => a.n < pump[ch].n /\ pump[ch].n # h.n
    <3>1. /\ \A m \in Ns(t) \cup Ns(tunnel[ch]) : a.n < m
          /\ Busy(ch) => a.n < pump[ch].n
      BY <1>3 DEF Ordered
    <3>2. Ns(t) \cup Ns(tunnel[ch]) \subseteq Nat
      BY <1>2, <1>3, AnswerNumbers, QueueNumbers
    <3>3. pump[ch].n \in Nat
      BY Bounds DEF IInv, ChannelTypeOK, PumpState
    <3> QED
      BY <2>3, <2>11, <3>1, <3>2, <3>3
  <2>14. /\ Travelling(ch)' = SettlementNs(t) \cup PaymentNs(tunnel[ch])
         /\ Travelling(ch) = {a.n} \cup Travelling(ch)'
         /\ h.n \notin Travelling(ch)'
    <3>1. Travelling(ch)' = SettlementNs(t) \cup PaymentNs(tunnel[ch])
      BY <1>1, <1>6 DEF Travelling
    <3>2. Travelling(ch) = {a.n} \cup Travelling(ch)'
      BY <1>4, <1>8, <3>1 DEF Travelling
    <3> QED
      BY <1>4, <1>5, <2>13, <3>1, <3>2
  <2>15. Waiting(ch)'
    <3>1. Travelling(ch)' \subseteq Ns(p)
      BY <2>2, <2>8, <2>14 DEF Waiting
    <3>2. Answered(ch)' \subseteq Allowances(ch)'
      BY <2>8, <2>12, <2>14 DEF Waiting, Allowances
    <3>3. Travelling(ch)' \cup Answered(ch)' = Travelling(ch) \cup Answered(ch)
      BY <2>12, <2>14
    <3>4. pump[ch].at = "enforce" => Busy(ch)
      BY DEF Busy
    <3>5. Busy(ch) => (pump[ch].n \in Ns(p) <=> pump[ch].n \in Ns(pending[ch]))
      BY <2>2, <2>13
    <3>6. /\ Busy(ch)' <=> Busy(ch)
          /\ Decided(ch)' <=> Decided(ch)
      BY <1>1 DEF Busy, Decided
    <3> QED
      BY <1>1, <1>3, <1>6, <2>6, <2>8, <2>12, <3>1, <3>2, <3>3, <3>4, <3>5, <3>6 DEF Waiting
  <2>16. Behind(ch)'
    <3>1. \A y \in Settled(ch)', m \in Ns(p) : y.n < m
      BY <2>2, <2>4, <2>8, <2>12 DEF Behind
    <3>2. \A y \in Txs(ch)', m \in SettlementNs(t) \cup Ns(tunnel[ch]) : y < m
      BY <1>4, <2>8, <2>12, <2>13 DEF Behind
    <3>3. unsettled[ch] \cap (SettlementNs(t) \cup Txs(ch)') = {}
      BY <1>4, <1>8, <2>8, <2>12 DEF Behind
    <3>4. Busy(ch) => \A m \in Answered(ch)' : m < pump[ch].n
      BY <2>8, <2>12, <2>13 DEF Behind
    <3> QED
      BY <1>1, <1>6, <2>6, <2>8, <3>1, <3>2, <3>3, <3>4 DEF Behind, Busy
  <2>17. Matched(ch)'
    <3>1. \A y \in Settled(ch) : y.tx # a.n
      <4>1. \A y \in Settled(ch) : y.tx < a.n
        BY <1>4, <1>8, <2>8 DEF Behind, Txs
      <4> QED
        BY <2>3, <4>1
    <3>2. \A y, z \in Settled(ch)' : y.tx = z.tx => y = z
      BY <2>4, <2>8, <2>12, <3>1 DEF Matched
    <3>3. \A y \in Settled(ch)' :
            /\ y.n <= y.tx
            /\ y.tx = y.n <=> \A m \in unsettled[ch] : y.n < m
      BY <2>4, <2>8, <2>11, <2>12 DEF Matched
    <3>4. \A y \in ToSet(p) : y.tx = 0
      BY <2>2, <2>8 DEF Matched
    <3> QED
      BY <1>1, <1>8, <2>6, <3>2, <3>3, <3>4 DEF Matched, Observes, Enforcers
  <2> QED
    BY <2>7, <2>15, <2>16, <2>17 DEF Settling
<1> QED
  BY <1>1, <1>7, <1>8

\* Nobody else touches the requests, answers and receipts of the channel.
LEMMA OthersOwn ==
    ASSUME IInv, NEW ch \in Channels,
           \/ EpochLapses \/ UNCHANGED vars
           \/ \E d \in Channels : \/ WriteHead(d) \/ WriteBody(d) \/ ResponderFails(d)
                                  \/ CloseBoth(d) \/ Leave(d)
           \/ \E d \in Channels \ {ch} :
                \/ Pump(d) \/ ReadAnswer(d) \/ Finish(d) \/ Deny(d) \/ Forward(d)
                \/ Send(d) \/ Respond(d)
    PROVE  SameOwn(ch)
<1>1. /\ asked \in [Channels -> Nat] /\ inbox \in [Channels -> Seq(Numbered)]
      /\ tunnel \in [Channels -> Seq(Numbered)] /\ answers \in [Channels -> Seq(Answer)]
      /\ pump \in [Channels -> PumpState] /\ unsettled \in [Channels -> SUBSET Numbers]
      /\ pending \in [Channels -> Seq(Receipt)] /\ receipts \in [Channels -> Seq(Receipt)]
      /\ life \in [Channels -> {"running", "closed", "finished"}]
  BY DEF IInv, ChannelTypeOK
<1>2. CASE EpochLapses \/ UNCHANGED vars
  BY <1>2 DEF EpochLapses, vars, agents, servers, records, SameOwn
<1>3. ASSUME NEW d \in Channels, WriteHead(d) \/ WriteBody(d) \/ ResponderFails(d) \/ Leave(d)
      PROVE  SameOwn(ch)
  BY <1>3 DEF WriteHead, WriteBody, ResponderFails, Leave, agents, servers, records, SameOwn
<1>4. ASSUME NEW d \in Channels, CloseBoth(d)
      PROVE  SameOwn(ch)
  <2>1. /\ life' = [life EXCEPT ![d] = "closed"] /\ life[d] = "running"
        /\ UNCHANGED <<kind, asked, inbox, tunnel, answers, unsettled, pump, pending, receipts>>
    BY <1>4 DEF CloseBoth, Running, agents, servers, records
  <2> QED
    BY <1>1, <2>1 DEF SameOwn
<1>5. ASSUME NEW d \in Channels \ {ch}, Pump(d) \/ Deny(d) \/ Forward(d)
      PROVE  SameOwn(ch)
  <2>1. UNCHANGED <<kind, asked, answers, unsettled, life>>
    BY <1>5 DEF Pump, ReadRequest, CheckTools, NoPaymentHeader, MalformedHeader,
       EvaluatePayment, RecordPayment, ReadFails, PumpWriteFails, Deny, Forward, agents, servers
  <2>2. inbox'[ch] = inbox[ch]
    BY <1>1, <1>5 DEF Pump, ReadRequest, CheckTools, NoPaymentHeader, MalformedHeader,
       EvaluatePayment, RecordPayment, ReadFails, PumpWriteFails, Deny, Forward, agents, Pop
  <2>3. tunnel'[ch] = tunnel[ch]
    BY <1>1, <1>5 DEF Pump, ReadRequest, CheckTools, NoPaymentHeader, MalformedHeader,
       EvaluatePayment, RecordPayment, ReadFails, PumpWriteFails, Deny, Forward, servers, Push
  <2>4. pending'[ch] = pending[ch] /\ receipts'[ch] = receipts[ch]
    BY <1>1, <1>5 DEF Pump, ReadRequest, CheckTools, NoPaymentHeader, MalformedHeader,
       EvaluatePayment, RecordPayment, ReadFails, PumpWriteFails, Deny, Forward, records, Push
  <2>5. pump'[ch] = pump[ch]
    BY <1>1, <1>5 DEF Pump, ReadRequest, CheckTools, NoPaymentHeader, MalformedHeader,
       EvaluatePayment, RecordPayment, ReadFails, PumpWriteFails, Deny, Forward,
       NextEnforcer, Goes, PumpEnds
  <2> QED
    BY <2>1, <2>2, <2>3, <2>4, <2>5 DEF SameOwn
<1>6. ASSUME NEW d \in Channels \ {ch}, ReadAnswer(d) \/ Finish(d) \/ Send(d) \/ Respond(d)
      PROVE  SameOwn(ch)
  <2>1. UNCHANGED <<kind, pump>>
    BY <1>6 DEF ReadAnswer, Finish, Send, Respond
  <2>2. asked'[ch] = asked[ch] /\ inbox'[ch] = inbox[ch]
    BY <1>1, <1>6 DEF ReadAnswer, Finish, Send, Respond, agents, Push
  <2>3. tunnel'[ch] = tunnel[ch] /\ answers'[ch] = answers[ch]
    BY <1>1, <1>6 DEF ReadAnswer, Finish, Send, Respond, servers, Push, Pop
  <2>4. pending'[ch] = pending[ch] /\ receipts'[ch] = receipts[ch]
    BY <1>1, <1>6 DEF ReadAnswer, Settle, Finish, Send, Respond, records, Push, Pop
  <2>5. life'[ch] = life[ch]
    BY <1>1, <1>6 DEF ReadAnswer, Finish, Send, Respond
  <2>6. unsettled'[ch] = unsettled[ch]
    <3>1. CASE Respond(d)
      <4>1. \/ unsettled' = unsettled
            \/ unsettled' = [unsettled EXCEPT ![d] = @ \cup {Head(tunnel[d]).n}]
        BY <3>1 DEF Respond
      <4> QED
        BY <1>1, <4>1
    <3> QED
      BY <1>6, <3>1 DEF ReadAnswer, Finish, Send, servers
  <2> QED
    BY <2>1, <2>2, <2>3, <2>4, <2>5, <2>6 DEF SameOwn
<1> QED
  BY <1>2, <1>3, <1>4, <1>5, <1>6

LEMMA OwnStep ==
    ASSUME IInv, OwnInv, [Next]_vars
    PROVE  OwnInv'
<1> SUFFICES ASSUME NEW ch \in Channels PROVE Noted(ch)' /\ Ordered(ch)' /\ Settling(ch)'
  BY DEF OwnInv
<1>1. Noted(ch)'
  BY NotedStep DEF OwnInv
<1>2. Ordered(ch) /\ Settling(ch)
  BY DEF OwnInv
<1>3. CASE Pump(ch) \/ Deny(ch) \/ Forward(ch)
  BY <1>1, <1>2, <1>3, ReadRequestOwn, PumpOwnSteps, RecordOwn, ForwardOwn DEF Pump, RecordPayment
<1>4. CASE ReadAnswer(ch) \/ Finish(ch) \/ Send(ch) \/ Respond(ch)
  BY <1>1, <1>2, <1>4, ReadAnswerOwn, FinishOwn, SendOwn, RespondOwn
<1>5. \/ Pump(ch) \/ Deny(ch) \/ Forward(ch)
      \/ ReadAnswer(ch) \/ Finish(ch) \/ Send(ch) \/ Respond(ch)
      \/ SameOwn(ch)
  BY OthersOwn DEF Next, Responder, Proxy, Write
<1> QED
  BY <1>1, <1>2, <1>3, <1>4, <1>5, OwnStays

LEMMA InitOwn == Init => OwnInv
<1> SUFFICES ASSUME Init, NEW ch \in Channels PROVE Noted(ch) /\ Ordered(ch) /\ Settling(ch)
  BY DEF OwnInv
<1>1. /\ asked[ch] = 0 /\ got[ch] = 0 /\ inbox[ch] = <<>> /\ tunnel[ch] = <<>>
      /\ answers[ch] = <<>> /\ pending[ch] = <<>> /\ receipts[ch] = <<>>
      /\ pump[ch].at \in {"read", "done"} /\ responder[ch].at \in {"read", "done"}
      /\ challenge[ch] = None /\ offered[ch] = None /\ unsettled[ch] = {}
  BY Hands DEF Init
<1>2. /\ Ns(<<>>) = {} /\ PaymentNs(<<>>) = {} /\ SettlementNs(<<>>) = {}
      /\ ToSet(<<>>) = {} /\ Ascending(<<>>)
  BY DEF Ns, PaymentNs, SettlementNs, ToSet, Ascending
<1>3. Noted(ch)
  BY <1>1 DEF Noted, Answering
<1>4. Ordered(ch)
  BY <1>1, <1>2 DEF Ordered
<1>5. Settled(ch) = {} /\ Txs(ch) = {} /\ Answered(ch) = {} /\ Allowances(ch) = {}
  BY <1>1, <1>2 DEF Settled, Txs, Answered, Allowances
<1>6. Settling(ch)
  BY <1>1, <1>2, <1>5 DEF Settling, Matched, Waiting, Behind, Travelling, Busy
<1> QED
  BY <1>3, <1>4, <1>6

LEMMA OwnInvariant == Spec => []OwnInv
BY InitOwn, OwnStep, Invariant, PTL DEF Spec

\* An agent that waits for its answers has its next payment judged by the very
\* 402 challenge it has read (handleResponses "records the challenge BEFORE the
\* agent can retry"): while it waits, the pump and the responder take turns.
THEOREM ChallengeNotedHolds == Spec => []ChallengeNoted
<1>1. OwnInv => ChallengeNoted
  BY DEF OwnInv, Noted, ChallengeNoted
<1> QED
  BY <1>1, OwnInvariant, PTL

\* Whatever the server settles and leaves unsettled, a receipt has its own
\* settlement exactly as long as no payment up to it was left without one, and a
\* later one's from then on, never an earlier one's or one that another receipt
\* has (payment.go finalizePending takes the oldest receipt, whatever is settled).
THEOREM SettlesInOrderHolds == Spec => []SettlesInOrder
<1>1. IInv /\ OwnInv => SettlesInOrder
  <2> SUFFICES ASSUME IInv, OwnInv, NEW ch \in Channels
               PROVE  /\ \A i \in DOMAIN receipts[ch] : receipts[ch][i].tx # 0 =>
                            /\ receipts[ch][i].n <= receipts[ch][i].tx
                            /\ receipts[ch][i].tx = receipts[ch][i].n
                                    <=> \A u \in unsettled[ch] : receipts[ch][i].n < u
                      /\ \A i, j \in DOMAIN receipts[ch] :
                            receipts[ch][i].tx # 0 /\ receipts[ch][j].tx # 0
                                /\ receipts[ch][i].tx = receipts[ch][j].tx => i = j
    BY DEF SettlesInOrder
  <2>1. \A i \in DOMAIN receipts[ch] : receipts[ch][i].tx # 0 => receipts[ch][i] \in Settled(ch)
    BY DEF Settled, ToSet
  <2>2. Matched(ch) /\ Distinct(receipts[ch])
    BY DEF OwnInv, Settling, IInv, ChannelInv, Once
  <2> QED
    BY <2>1, <2>2 DEF Matched, Distinct
<1> QED
  BY <1>1, Invariant, OwnInvariant, PTL

------------------------------------------------------------------------------
(* The velocity limit.  Amounts on their way are counted unit by unit: a set *)
(* holds a pair <<ch, k>> for the k-th unit of what ch's pump may yet        *)
(* forward.                                                                  *)

\* What the pump holds of the budget: a payment that Evaluate counted.
Held(ch) == IF pump[ch].allow THEN pump[ch].req.pay.amount ELSE 0
Holdings == [ch \in Channels |-> Held(ch)]
Units(h) == {u \in Channels \X (Nat \ {0}) : u[2] <= h[u[1]]}
OnTheWay == Cardinality(Units(Holdings))

\* The verdict in the pump's hands is about a payment, is there only once the
\* x402 enforcer had its turn, and no payment gets past that without it.
Counted(ch) ==
    /\ pump[ch].allow => IsPayment(pump[ch].req)
    /\ pump[ch].at = "enforce" /\ pump[ch].allow => Decided(ch)
    /\ pump[ch].at = "enforce" /\ IsPayment(pump[ch].req) /\ Decided(ch) => pump[ch].allow

\* What was forwarded and what may yet be is covered by the budgets of the
\* epochs before this one and by what was spent in this one.
Covers(begun, over, sent, held, used) ==
    \/ begun = 0 /\ over /\ sent + held = 0
    \/ sent + held + MaxPerEpoch <= MaxPerEpoch * begun + used

Covered == Covers(epochs, lapsed, paid, OnTheWay, spent)

SpendInv ==
    /\ \A ch \in Channels : Counted(ch)
    /\ IsFiniteSet(Units(Holdings))
    /\ Covered

LEMMA UnitsMore ==
    ASSUME NEW h \in [Channels -> Nat], NEW g \in [Channels -> Nat], NEW ch \in Channels,
           h[ch] = 0, \A d \in Channels \ {ch} : g[d] = h[d],
           IsFiniteSet(Units(h))
    PROVE  /\ IsFiniteSet(Units(g))
           /\ Cardinality(Units(g)) = Cardinality(Units(h)) + g[ch]
<1> DEFINE own == {ch} \X (1..g[ch])
<1>1. /\ IsFiniteSet({ch}) /\ Cardinality({ch}) = 1
      /\ IsFiniteSet(1..g[ch]) /\ Cardinality(1..g[ch]) = g[ch]
  <2>1. g[ch] \in Nat /\ 1 \in Int /\ g[ch] \in Int
    OBVIOUS
  <2>2. /\ IsFiniteSet(1..g[ch])
        /\ Cardinality(1..g[ch]) = IF 1 > g[ch] THEN 0 ELSE g[ch] - 1 + 1
    BY <2>1, FS_Interval
  <2>3. Cardinality(1..g[ch]) = g[ch]
    BY <2>1, <2>2
  <2>4. IsFiniteSet({ch}) /\ Cardinality({ch}) = 1
    BY FS_Singleton
  <2> QED
    BY <2>2, <2>3, <2>4
<1>2. IsFiniteSet(own) /\ Cardinality(own) = g[ch]
  <2>1. IsFiniteSet(own) /\ Cardinality(own) = Cardinality({ch}) * Cardinality(1..g[ch])
    BY <1>1, FS_Product
  <2> QED
    BY <1>1, <2>1
<1>3. Units(g) = Units(h) \cup own
  <2>1. ASSUME NEW u \in Units(g) PROVE u \in Units(h) \cup own
    BY DEF Units
  <2>2. ASSUME NEW u \in Units(h) PROVE u \in Units(g)
    BY DEF Units
  <2>3. ASSUME NEW u \in own PROVE u \in Units(g)
    BY DEF Units
  <2> QED
    BY <2>1, <2>2, <2>3
<1>4. Units(h) \cap own = {}
  BY DEF Units
<1> HIDE DEF own
<1>5. Cardinality(Units(h) \cap own) = 0
  BY <1>4, FS_EmptySet
<1>6. Cardinality(Units(h)) \in Nat
  BY FS_CardinalityType
<1> QED
  BY <1>2, <1>3, <1>5, <1>6, FS_Union

LEMMA UnitsFewer ==
    ASSUME NEW h \in [Channels -> Nat], NEW g \in [Channels -> Nat],
           \A d \in Channels : g[d] <= h[d], IsFiniteSet(Units(h))
    PROVE  /\ IsFiniteSet(Units(g))
           /\ Cardinality(Units(g)) <= Cardinality(Units(h))
<1>1. Units(g) \subseteq Units(h)
  BY DEF Units
<1> QED
  BY <1>1, FS_Subset

LEMMA HoldingsType ==
    ASSUME ChannelTypeOK, \A ch \in Channels : Counted(ch)
    PROVE  Holdings \in [Channels -> Nat] /\ \A ch \in Channels : Holdings[ch] = Held(ch)
<1>1. ASSUME NEW ch \in Channels PROVE Held(ch) \in Nat
  <2>1. IsPayment(pump[ch].req) => pump[ch].req.pay.amount \in Nat
    BY Bounds DEF IsPayment, Payment
  <2> QED
    BY <2>1 DEF Held, Counted
<1> QED
  BY <1>1 DEF Holdings

LEMMA HoldingsTypePrime ==
    ASSUME ChannelTypeOK', \A ch \in Channels : Counted(ch)'
    PROVE  Holdings' \in [Channels -> Nat] /\ \A ch \in Channels : Holdings'[ch] = Held(ch)'
<1>1. ASSUME NEW ch \in Channels PROVE Held(ch)' \in Nat
  <2>1. IsPayment(pump[ch].req)' => pump'[ch].req.pay.amount \in Nat
    BY Bounds DEF IsPayment, Payment
  <2> QED
    BY <2>1 DEF Held, Counted
<1> QED
  BY <1>1 DEF Holdings

LEMMA Limit ==
    /\ \A e \in Nat : MaxPerEpoch * e \in Nat /\ MaxPerEpoch * (e + 1) = MaxPerEpoch * e + MaxPerEpoch
    /\ MaxPerEpoch * 0 = 0
  BY Bounds

\* Money that is dropped, and an epoch that lapses.
LEMMA CoversLess ==
    ASSUME NEW begun \in Nat, NEW over \in BOOLEAN, NEW sent \in Nat, NEW held \in Nat, NEW used \in Nat,
           NEW less \in Nat, less <= held, NEW later \in BOOLEAN, over => later,
           Covers(begun, over, sent, held, used)
    PROVE  Covers(begun, later, sent, less, used)
<1> DEFINE limit == MaxPerEpoch * begun
<1>1. limit \in Nat /\ MaxPerEpoch \in Nat
  BY Limit, Bounds
<1>2. (begun = 0 /\ over /\ sent + held = 0) \/ sent + held + MaxPerEpoch <= limit + used
  BY DEF Covers
<1>3. (begun = 0 /\ later /\ sent + less = 0) \/ sent + less + MaxPerEpoch <= limit + used
           => Covers(begun, later, sent, less, used)
  BY DEF Covers
<1> HIDE DEF limit
<1>4. sent + held = 0 => sent + less = 0
  OBVIOUS
<1>5. sent + held + MaxPerEpoch <= limit + used => sent + less + MaxPerEpoch <= limit + used
  BY <1>1
<1> QED
  BY <1>2, <1>3, <1>4, <1>5

\* An epoch that begins, with an amount that fits into it.
LEMMA CoversRoll ==
    ASSUME NEW begun \in Nat, NEW over \in BOOLEAN, NEW sent \in Nat, NEW held \in Nat,
           NEW used \in 0..MaxPerEpoch, NEW amount \in Nat,
           Covers(begun, over, sent, held, used)
    PROVE  Covers(begun + 1, FALSE, sent, held + amount, amount)
<1> DEFINE limit == MaxPerEpoch * begun
           next == MaxPerEpoch * (begun + 1)
<1>1. limit \in Nat /\ MaxPerEpoch \in Nat /\ next = limit + MaxPerEpoch
  BY Limit, Bounds
<1>2. sent + held = 0 \/ sent + held + MaxPerEpoch <= limit + used
  BY DEF Covers
<1>3. sent + (held + amount) + MaxPerEpoch <= next + amount
           => Covers(begun + 1, FALSE, sent, held + amount, amount)
  BY DEF Covers
<1> HIDE DEF limit, next
<1>4. sent + held <= limit + used
  BY <1>1, <1>2
<1>5. sent + (held + amount) + MaxPerEpoch <= next + amount
  <2>1. CASE sent + held = 0
    BY <1>1, <2>1
  <2>2. CASE sent + held + MaxPerEpoch <= limit + used
    <3>1. used <= MaxPerEpoch /\ used \in Nat
      BY <1>1
    <3> QED
      BY <1>1, <2>2, <3>1
  <2> QED
    BY <1>2, <2>1, <2>2
<1> QED
  BY <1>3, <1>5

\* An amount that is spent within the epoch.
LEMMA CoversSpend ==
    ASSUME NEW begun \in Nat, NEW sent \in Nat, NEW held \in Nat, NEW used \in Nat, NEW amount \in Nat,
           Covers(begun, FALSE, sent, held, used)
    PROVE  Covers(begun, FALSE, sent, held + amount, used + amount)
<1> DEFINE limit == MaxPerEpoch * begun
<1>1. limit \in Nat /\ MaxPerEpoch \in Nat
  BY Limit, Bounds
<1>2. sent + held + MaxPerEpoch <= limit + used
  BY DEF Covers
<1>3. sent + (held + amount) + MaxPerEpoch <= limit + (used + amount)
           => Covers(begun, FALSE, sent, held + amount, used + amount)
  BY DEF Covers
<1> HIDE DEF limit
<1>4. sent + (held + amount) + MaxPerEpoch <= limit + (used + amount)
  BY <1>1, <1>2
<1> QED
  BY <1>3, <1>4

\* An amount that is forwarded.
LEMMA CoversSent ==
    ASSUME NEW begun \in Nat, NEW over \in BOOLEAN, NEW sent \in Nat, NEW held \in Nat, NEW used \in Nat,
           NEW amount \in Nat,
           Covers(begun, over, sent, held + amount, used)
    PROVE  Covers(begun, over, sent + amount, held, used)
<1>1. sent + (held + amount) = (sent + amount) + held
  OBVIOUS
<1> QED
  BY <1>1 DEF Covers

LEMMA MoneyType ==
    ASSUME IInv, SpendInv
    PROVE  /\ epochs \in Nat /\ lapsed \in BOOLEAN /\ paid \in Nat /\ OnTheWay \in Nat
           /\ spent \in Nat /\ spent \in 0..MaxPerEpoch
           /\ Holdings \in [Channels -> Nat] /\ \A ch \in Channels : Holdings[ch] = Held(ch)
<1>1. OnTheWay \in Nat
  BY FS_CardinalityType DEF SpendInv, OnTheWay
<1>2. Holdings \in [Channels -> Nat] /\ \A ch \in Channels : Holdings[ch] = Held(ch)
  BY HoldingsType DEF IInv, SpendInv
<1>3. /\ epochs \in 0..MaxEpochs /\ lapsed \in BOOLEAN /\ paid \in Nat /\ spent \in 0..MaxPerEpoch
      /\ MaxEpochs \in Nat /\ MaxPerEpoch \in Nat
  BY Bounds DEF IInv, BudgetTypeOK
<1> QED
  BY <1>1, <1>2, <1>3

\* A step that moves no money but may drop some.
LEMMA Drops ==
    ASSUME IInv, IInv', SpendInv, \A ch \in Channels : Counted(ch)',
           \A ch \in Channels : Held(ch)' <= Held(ch),
           paid' = paid, epochs' = epochs, spent' = spent, lapsed => lapsed'
    PROVE  SpendInv'
<1>1. /\ Holdings \in [Channels -> Nat] /\ \A ch \in Channels : Holdings[ch] = Held(ch)
      /\ Holdings' \in [Channels -> Nat] /\ \A ch \in Channels : Holdings'[ch] = Held(ch)'
  BY HoldingsType, HoldingsTypePrime DEF IInv, SpendInv
<1>2. IsFiniteSet(Units(Holdings')) /\ OnTheWay' <= OnTheWay
  BY <1>1, UnitsFewer DEF SpendInv, OnTheWay
<1>3. OnTheWay' \in Nat /\ lapsed' \in BOOLEAN
  BY <1>2, FS_CardinalityType DEF IInv, BudgetTypeOK, OnTheWay
<1>4. Covers(epochs, lapsed', paid, OnTheWay', spent)
  BY <1>2, <1>3, MoneyType, CoversLess DEF SpendInv, Covered
<1>5. Covered'
  BY <1>4 DEF Covered
<1> QED
  BY <1>2, <1>5 DEF SpendInv

\* A step of one channel's pump that moves no money.
LEMMA PumpDrops ==
    ASSUME IInv, IInv', SpendInv, NEW ch \in Channels, NEW p \in PumpState,
           pump' = [pump EXCEPT ![ch] = p], UNCHANGED <<kind, budget, paid>>,
           p.allow => pump[ch].allow /\ p.req = pump[ch].req,
           Counted(ch)'
    PROVE  SpendInv'
<1>1. pump \in [Channels -> PumpState]
  BY DEF IInv, ChannelTypeOK
<1>2. pump'[ch] = p /\ \A d \in Channels \ {ch} : pump'[d] = pump[d]
  BY <1>1
<1>3. ASSUME NEW d \in Channels PROVE Counted(d)'
  <2>1. CASE d = ch
    BY <2>1
  <2>2. CASE d # ch
    <3>1. pump'[d] = pump[d] /\ kind' = kind /\ Counted(d)
      BY <1>2, <2>2 DEF SpendInv
    <3> QED
      BY <3>1 DEF Counted, Decided
  <2> QED
    BY <2>1, <2>2
<1>4. ASSUME NEW d \in Channels PROVE Held(d)' <= Held(d)
  <2>1. Held(d) \in Nat
    BY MoneyType
  <2>2. CASE d = ch
    BY <1>2, <2>1, <2>2 DEF Held
  <2>3. CASE d # ch
    BY <1>2, <2>1, <2>3 DEF Held
  <2> QED
    BY <2>2, <2>3
<1>5. paid' = paid /\ epochs' = epochs /\ spent' = spent /\ lapsed' = lapsed
  BY DEF budget
<1> QED
  BY <1>3, <1>4, <1>5, Drops

\* A request that is read, dropped or refused is no money on its way.
LEMMA EmptySpend ==
    ASSUME IInv, IInv', SpendInv, NEW ch \in Channels,
           ReadRequest(ch) \/ ReadFails(ch) \/ PumpWriteFails(ch) \/ Deny(ch)
    PROVE  SpendInv'
<1>1. UNCHANGED <<kind, budget, paid>>
  BY DEF ReadRequest, ReadFails, PumpWriteFails, Deny
<1>2. \E p \in PumpState :
        pump' = [pump EXCEPT ![ch] = p] /\ p.allow = FALSE /\ p.i = 1
  <2>1. CASE ReadRequest(ch)
    <3> DEFINE r == Head(inbox[ch])
               p == [NoRequest EXCEPT !.n = r.n, !.req = r.req,
                        !.at = IF r.req.form = "oversize" THEN "deny" ELSE "enforce"]
    <3>1. pump' = [pump EXCEPT ![ch] = p] /\ inbox[ch] # <<>>
      BY <2>1 DEF ReadRequest
    <3>2. inbox[ch] \in Seq(Numbered)
      BY DEF IInv, ChannelTypeOK
    <3>3. r \in Numbered
      BY <3>1, <3>2, Popped
    <3>4. r.n \in 0..MaxRequests /\ r.req \in Requests
      BY <3>3, Bounds DEF Numbered
    <3> HIDE DEF r
    <3>5. NoRequest.allow = FALSE
      BY DEF NoRequest
    <3>6. p \in PumpState /\ p.allow = FALSE /\ p.i = 1
      BY <3>4, <3>5, Hands DEF PumpState
    <3> QED
      BY <3>1, <3>6
  <2>2. CASE ReadFails(ch) \/ PumpWriteFails(ch) \/ Deny(ch)
    <3>1. NoPump \in PumpState /\ NoPump.allow = FALSE /\ NoPump.i = 1
      BY Hands DEF NoPump, NoRequest
    <3> QED
      BY <2>2, <3>1 DEF ReadFails, PumpWriteFails, Deny, PumpEnds
  <2> QED
    BY <2>1, <2>2
<1>3. PICK p \in PumpState :
        pump' = [pump EXCEPT ![ch] = p] /\ p.allow = FALSE /\ p.i = 1
  BY <1>2
<1>4. pump'[ch] = p
  BY <1>3 DEF IInv, ChannelTypeOK
<1>5. ~Decided(ch)'
  <2>1. DOMAIN kind[ch].pipeline = 1..Len(kind[ch].pipeline) /\ Len(kind[ch].pipeline) \in Nat
    BY KindType DEF IInv
  <2> QED
    BY <1>1, <1>3, <1>4, <2>1 DEF Decided
<1>6. Counted(ch)'
  BY <1>3, <1>4, <1>5 DEF Counted
<1> QED
  BY <1>1, <1>3, <1>6, PumpDrops

\* An enforcer's verdict leaves a payment that was counted in the pump's hands.
LEMMA VerdictSpend ==
    ASSUME IInv, IInv', SpendInv, NEW ch \in Channels,
           CheckTools(ch) \/ NoPaymentHeader(ch) \/ MalformedHeader(ch) \/ RecordPayment(ch)
    PROVE  SpendInv'
<1>1. UNCHANGED <<kind, budget, paid>>
  BY DEF CheckTools, NoPaymentHeader, MalformedHeader, RecordPayment
<1>2. Counted(ch)
  BY DEF SpendInv
<1> DEFINE Kept(p) ==
        /\ pump' = [pump EXCEPT ![ch] = p] /\ p.allow = pump[ch].allow
        /\ p.req = pump[ch].req /\ pump'[ch] = p
<1>3. CASE Busy(ch) /\ Goes(ch, "deny")
  <2>1. PICK p \in PumpState : Kept(p) /\ p.at = "deny"
    BY <1>1, <1>3, Denies
  <2>2. Counted(ch)'
    BY <1>2, <2>1 DEF Counted
  <2> QED
    BY <1>1, <2>1, <2>2, PumpDrops
<1>4. CASE /\ NextEnforcer(ch) /\ pump[ch].at \in {"enforce", "record"}
           /\ pump[ch].i \in DOMAIN kind[ch].pipeline
           /\ Passed(kind[ch].pipeline[pump[ch].i], pump[ch].req)
           /\ \/ kind[ch].pipeline[pump[ch].i] = "mcp" /\ pump[ch].at = "enforce"
              \/ kind[ch].pipeline[pump[ch].i] = "x402"
                    /\ (pump[ch].allow <=> IsPayment(pump[ch].req))
  <2>1. PICK p \in PumpState :
          /\ Kept(p) /\ p.at = "enforce"
          /\ Decided(ch)' <=> Decided(ch) \/ kind[ch].pipeline[pump[ch].i] = "x402"
    BY <1>1, <1>4, Advances
  <2>2. Counted(ch)'
    BY <1>2, <1>4, <2>1 DEF Counted
  <2> QED
    BY <1>1, <2>1, <2>2, PumpDrops
<1>5. CASE CheckTools(ch)
  <2>1. Turn(ch, "mcp")
    BY <1>5 DEF CheckTools
  <2>2. /\ Busy(ch) /\ pump[ch].at = "enforce" /\ pump[ch].i \in DOMAIN kind[ch].pipeline
        /\ kind[ch].pipeline[pump[ch].i] = "mcp"
    BY <2>1, AtTurn
  <2>3. ToolsPermitted(pump[ch].req) => Passed("mcp", pump[ch].req)
    BY DEF Passed
  <2> QED
    BY <1>3, <1>4, <1>5, <2>2, <2>3 DEF CheckTools
<1>6. CASE NoPaymentHeader(ch)
  <2>1. Turn(ch, "x402") /\ NextEnforcer(ch) /\ pump[ch].req.pay = None
    BY <1>6 DEF NoPaymentHeader
  <2>2. /\ pump[ch].at = "enforce" /\ pump[ch].i \in DOMAIN kind[ch].pipeline
        /\ kind[ch].pipeline[pump[ch].i] = "x402"
    BY <2>1, AtTurn
  <2>3. Passed("x402", pump[ch].req) /\ ~IsPayment(pump[ch].req)
    BY <2>1, ProxyAssumption DEF Passed, IsPayment
  <2>4. ~pump[ch].allow /\ pump[ch].allow \in BOOLEAN
    BY <1>2, <2>3 DEF Counted, IInv, ChannelTypeOK, PumpState
  <2> QED
    BY <1>4, <2>1, <2>2, <2>3, <2>4
<1>7. CASE MalformedHeader(ch)
  <2>1. Turn(ch, "x402") /\ Goes(ch, "deny")
    BY <1>7 DEF MalformedHeader
  <2> QED
    BY <1>3, <2>1, AtTurn
<1>8. CASE RecordPayment(ch)
  <2>1. /\ pump[ch].at = "record" /\ Busy(ch)
        /\ (NextEnforcer(ch) /\ pump[ch].allow) \/ Goes(ch, "deny")
    BY <1>8 DEF RecordPayment, At, Busy
  <2>2. /\ pump[ch].i \in DOMAIN kind[ch].pipeline
        /\ kind[ch].pipeline[pump[ch].i] = "x402" /\ IsPayment(pump[ch].req)
    BY <2>1 DEF IInv, ChannelInv, Pumping
  <2>3. Passed("x402", pump[ch].req)
    BY <2>2, ProxyAssumption DEF Passed, IsPayment
  <2> QED
    BY <1>3, <1>4, <2>1, <2>2, <2>3
<1> QED
  BY <1>5, <1>6, <1>7, <1>8

\* A payment that Evaluate allows is spent, and on its way.
LEMMA EvaluateSpend ==
    ASSUME IInv, IInv', SpendInv, NEW ch \in Channels, EvaluatePayment(ch)
    PROVE  SpendInv'
<1> DEFINE q == pump[ch]
           proper == Matches(q.req.pay, challenge[ch]) /\ InPolicy(q.req.pay)
           b == proper /\ Fits(q.req.pay)
<1>1. /\ Turn(ch, "x402") /\ IsPayment(q.req)
      /\ IF proper THEN Spend(q.req.pay) ELSE UNCHANGED budget
      /\ pump' = [pump EXCEPT ![ch].at = "record", ![ch].allow = b]
      /\ kind' = kind /\ paid' = paid
  BY DEF EvaluatePayment
<1>2. /\ q.at = "enforce" /\ q.i \in DOMAIN kind[ch].pipeline
      /\ kind[ch].pipeline[q.i] = "x402" /\ pump \in [Channels -> PumpState] /\ q \in PumpState
  BY <1>1, AtTurn DEF IInv, ChannelTypeOK
<1>3. ~q.allow
  BY <1>2, Undecided DEF SpendInv, Counted
<1>4. b \in BOOLEAN
  BY DEF Matches, InPolicy, Fits
<1> DEFINE amount == IF b THEN q.req.pay.amount ELSE 0
<1>5. amount \in Nat /\ q.req.pay.amount \in Nat
  BY <1>1, Bounds DEF IsPayment, Payment
<1>6. /\ epochs \in Nat /\ lapsed \in BOOLEAN /\ paid \in Nat /\ OnTheWay \in Nat
      /\ spent \in Nat /\ spent \in 0..MaxPerEpoch
      /\ Holdings \in [Channels -> Nat] /\ \A d \in Channels : Holdings[d] = Held(d)
  BY MoneyType
<1>7. Covers(epochs', lapsed', paid, OnTheWay + amount, spent')
  <2>1. Covers(epochs, lapsed, paid, OnTheWay, spent)
    BY DEF SpendInv, Covered
  <2>2. CASE ~proper
    <3>1. UNCHANGED budget /\ amount = 0 /\ OnTheWay + amount = OnTheWay
      BY <1>1, <1>6, <2>2
    <3> QED
      BY <2>1, <3>1 DEF budget
  <2>3. CASE proper /\ lapsed
    <3>1. Spend(q.req.pay) /\ Before = 0
      BY <1>1, <2>3 DEF Before
    <3>2. lapsed' = FALSE /\ epochs' = epochs + 1 /\ spent' = amount
      BY <1>5, <2>3, <3>1 DEF Spend
    <3> HIDE DEF amount
    <3> QED
      BY <1>5, <1>6, <2>1, <3>2, CoversRoll
  <2>4. CASE proper /\ ~lapsed
    <3>1. Spend(q.req.pay) /\ Before = spent
      BY <1>1, <2>4 DEF Before
    <3>2. lapsed' = FALSE /\ epochs' = epochs /\ spent' = spent + amount
      BY <1>5, <1>6, <2>4, <3>1 DEF Spend
    <3>3. Covers(epochs, FALSE, paid, OnTheWay, spent)
      BY <1>6, <2>1, <2>4
    <3> HIDE DEF amount
    <3> QED
      BY <1>5, <1>6, <3>2, <3>3, CoversSpend
  <2> QED
    BY <2>2, <2>3, <2>4
<1>8. /\ pump'[ch].allow = b /\ pump'[ch].req = q.req /\ pump'[ch].at = "record"
      /\ \A d \in Channels \ {ch} : pump'[d] = pump[d]
  <2> HIDE DEF b
  <2> QED
    BY <1>1, <1>2 DEF PumpState
<1> HIDE DEF b
<1>9. ASSUME NEW d \in Channels PROVE Counted(d)'
  <2>1. CASE d = ch
    BY <1>1, <1>8, <2>1 DEF Counted, IsPayment
  <2>2. CASE d # ch
    <3>1. pump'[d] = pump[d] /\ kind' = kind /\ Counted(d)
      BY <1>1, <1>8, <2>2 DEF SpendInv
    <3> QED
      BY <3>1 DEF Counted, Decided
  <2> QED
    BY <2>1, <2>2
<1>10. /\ Holdings' \in [Channels -> Nat] /\ Holdings[ch] = 0 /\ Holdings'[ch] = amount
       /\ \A d \in Channels \ {ch} : Holdings'[d] = Holdings[d]
  <2>1. Holdings' \in [Channels -> Nat] /\ \A d \in Channels : Holdings'[d] = Held(d)'
    BY <1>9, HoldingsTypePrime DEF IInv
  <2>2. Held(ch) = 0 /\ Held(ch)' = amount
    BY <1>3, <1>8 DEF Held
  <2>3. \A d \in Channels \ {ch} : Held(d)' = Held(d)
    BY <1>8 DEF Held
  <2> QED
    BY <1>6, <2>1, <2>2, <2>3
<1> HIDE DEF amount
<1>11. IsFiniteSet(Units(Holdings')) /\ OnTheWay' = OnTheWay + amount
  BY <1>6, <1>10, UnitsMore DEF SpendInv, OnTheWay
<1>12. Covered'
  BY <1>1, <1>7, <1>11 DEF Covered
<1> QED
  BY <1>9, <1>11, <1>12 DEF SpendInv

\* What is forwarded was counted, and is no longer on its way.
LEMMA ForwardSpend ==
    ASSUME IInv, IInv', SpendInv, NEW ch \in Channels, Forward(ch)
    PROVE  SpendInv'
<1> DEFINE q == pump[ch]
           amount == IF Observes(ch) /\ IsPayment(q.req) THEN q.req.pay.amount ELSE 0
<1>1. /\ q.at = "enforce" /\ q.i > Len(kind[ch].pipeline)
      /\ paid' = IF Observes(ch) /\ IsPayment(q.req) THEN paid + q.req.pay.amount ELSE paid
      /\ pump' = [pump EXCEPT ![ch] = NoRequest]
      /\ UNCHANGED <<kind, budget>>
  BY DEF Forward, Ready, At
<1>2. /\ pump \in [Channels -> PumpState] /\ q.i \in Nat
      /\ Len(kind[ch].pipeline) \in Nat
      /\ DOMAIN kind[ch].pipeline = 1..Len(kind[ch].pipeline)
  BY KindType DEF IInv, ChannelTypeOK, PumpState
<1>3. /\ epochs \in Nat /\ lapsed \in BOOLEAN /\ paid \in Nat /\ OnTheWay \in Nat
      /\ spent \in Nat
      /\ Holdings \in [Channels -> Nat] /\ \A d \in Channels : Holdings[d] = Held(d)
  BY MoneyType
<1>4. amount \in Nat /\ paid' = paid + amount
  <2>1. IsPayment(q.req) => q.req.pay.amount \in Nat
    BY Bounds DEF IsPayment, Payment
  <2> QED
    BY <1>1, <1>3, <2>1
<1>5. Held(ch) = amount
  <2>1. Decided(ch) <=> Observes(ch)
    <3>1. \A j \in DOMAIN kind[ch].pipeline : j < q.i
      BY <1>1, <1>2
    <3> QED
      BY <3>1 DEF Decided, Observes, Enforcers, ToSet
  <2>2. Counted(ch)
    BY DEF SpendInv
  <2> QED
    BY <1>1, <2>1, <2>2 DEF Counted, Held
<1>6. /\ pump'[ch] = NoRequest /\ NoRequest.allow = FALSE /\ NoRequest.at = "read"
      /\ \A d \in Channels \ {ch} : pump'[d] = pump[d]
  BY <1>1, <1>2, Hands DEF NoRequest
<1>7. ASSUME NEW d \in Channels PROVE Counted(d)'
  <2>1. CASE d = ch
    BY <1>6, <2>1 DEF Counted
  <2>2. CASE d # ch
    <3>1. pump'[d] = pump[d] /\ kind' = kind /\ Counted(d)
      BY <1>1, <1>6, <2>2 DEF SpendInv
    <3> QED
      BY <3>1 DEF Counted, Decided
  <2> QED
    BY <2>1, <2>2
<1>8. /\ Holdings' \in [Channels -> Nat] /\ Holdings[ch] = amount /\ Holdings'[ch] = 0
      /\ \A d \in Channels \ {ch} : Holdings'[d] = Holdings[d]
  <2>1. Holdings' \in [Channels -> Nat] /\ \A d \in Channels : Holdings'[d] = Held(d)'
    BY <1>7, HoldingsTypePrime DEF IInv
  <2>2. Held(ch)' = 0
    BY <1>6 DEF Held
  <2>3. \A d \in Channels \ {ch} : Held(d)' = Held(d)
    BY <1>6 DEF Held
  <2> QED
    BY <1>3, <1>5, <2>1, <2>2, <2>3
<1> HIDE DEF amount
<1>9. IsFiniteSet(Units(Holdings')) /\ OnTheWay' <= OnTheWay
  <2>1. \A d \in Channels : Holdings'[d] <= Holdings[d]
    BY <1>3, <1>4, <1>8
  <2> QED
    BY <1>3, <1>8, <2>1, UnitsFewer DEF SpendInv, OnTheWay
<1>10. OnTheWay = OnTheWay' + amount /\ OnTheWay' \in Nat
  <2>1. OnTheWay' \in Nat
    BY <1>9, FS_CardinalityType DEF OnTheWay
  <2>2. \A d \in Channels \ {ch} : Holdings[d] = Holdings'[d]
    BY <1>8
  <2>3. Cardinality(Units(Holdings)) = Cardinality(Units(Holdings')) + Holdings[ch]
    BY <1>3, <1>8, <1>9, <2>2, UnitsMore
  <2> QED
    BY <1>8, <2>1, <2>3 DEF OnTheWay
<1>11. Covers(epochs, lapsed, paid + amount, OnTheWay', spent)
  <2>1. Covers(epochs, lapsed, paid, OnTheWay' + amount, spent)
    BY <1>10 DEF SpendInv, Covered
  <2> QED
    BY <1>3, <1>4, <1>10, <2>1, CoversSent
<1>12. Covered'
  BY <1>1, <1>4, <1>11 DEF Covered, budget
<1> QED
  BY <1>7, <1>9, <1>12 DEF SpendInv

\* The steps of the others leave all this alone, or let the epoch lapse.
LEMMA OthersSpend ==
    ASSUME IInv, IInv', SpendInv,
           \/ \E ch \in Channels : \/ Responder(ch) \/ Proxy(ch) \/ WriteHead(ch)
                                   \/ WriteBody(ch) \/ Send(ch) \/ Respond(ch) \/ Leave(ch)
           \/ EpochLapses \/ UNCHANGED vars
    PROVE  SpendInv'
<1>1. /\ pump' = pump /\ paid' = paid /\ epochs' = epochs /\ spent' = spent
      /\ lapsed => lapsed'
      /\ kind' = kind
  <2>1. CASE \E ch \in Channels : ReadAnswer(ch)
    <3>1. PICK ch \in Channels : UNCHANGED <<kind, budget, paid, pump>>
      BY <2>1, Zenon DEF ReadAnswer
    <3> QED
      BY <3>1 DEF budget
  <2>2. CASE \E ch \in Channels : ResponderFails(ch) \/ Proxy(ch) \/ WriteHead(ch) \/ WriteBody(ch)
    <3>1. PICK ch \in Channels : UNCHANGED <<kind, budget, paid, pump>>
      BY <2>2, Zenon DEF ResponderFails, Proxy, CloseBoth, Finish, WriteHead, WriteBody
    <3> QED
      BY <3>1 DEF budget
  <2>3. CASE \E ch \in Channels : Send(ch) \/ Respond(ch) \/ Leave(ch)
    <3>1. PICK ch \in Channels : UNCHANGED <<kind, budget, paid, pump>>
      BY <2>3, Zenon DEF Send, Respond, Leave
    <3> QED
      BY <3>1 DEF budget
  <2>4. CASE EpochLapses \/ UNCHANGED vars
    BY <2>4 DEF EpochLapses, vars, budget
  <2> QED
    BY <2>1, <2>2, <2>3, <2>4 DEF Responder
<1>2. \A ch \in Channels : Counted(ch)'
  BY <1>1 DEF SpendInv, Counted, Decided
<1>3. \A ch \in Channels : Held(ch)' <= Held(ch)
  <2>1. ASSUME NEW ch \in Channels PROVE Held(ch)' <= Held(ch)
    <3>1. Held(ch) \in Nat
      BY MoneyType
    <3>2. Held(ch)' = Held(ch)
      BY <1>1 DEF Held
    <3> QED
      BY <3>1, <3>2
  <2> QED
    BY <2>1
<1> QED
  BY <1>1, <1>2, <1>3, Drops

LEMMA InitSpend == Init => SpendInv
<1> SUFFICES ASSUME Init PROVE SpendInv
  OBVIOUS
<1>1. pump = [ch \in Channels |-> IF Used(ch) THEN NoRequest ELSE NoPump]
  BY DEF Init
<1>2. ASSUME NEW ch \in Channels
      PROVE  pump[ch].allow = FALSE /\ pump[ch].at \in {"read", "done"}
  <2>1. NoRequest.allow = FALSE /\ NoPump.allow = FALSE
    BY DEF NoPump, NoRequest
  <2> QED
    BY <1>1, <2>1, Hands
<1>3. \A ch \in Channels : Counted(ch) /\ Held(ch) = 0
  BY <1>2 DEF Counted, Held
<1>4. \A ch \in Channels : Holdings[ch] = 0
  BY <1>3 DEF Holdings
<1>5. Units(Holdings) = {}
  <2>1. ASSUME NEW u \in Units(Holdings) PROVE FALSE
    <3>1. u[1] \in Channels /\ u[2] \in Nat \ {0} /\ u[2] <= Holdings[u[1]]
      BY DEF Units
    <3> QED
      BY <1>4, <3>1
  <2> QED
    BY <2>1
<1>6. IsFiniteSet(Units(Holdings)) /\ OnTheWay = 0
  BY <1>5, FS_EmptySet DEF OnTheWay
<1>7. epochs = 0 /\ lapsed /\ paid = 0
  BY DEF Init
<1>8. Covered
  BY <1>6, <1>7 DEF Covered, Covers
<1> QED
  BY <1>3, <1>6, <1>8 DEF SpendInv

LEMMA SpendInvariant == Spec => []SpendInv
<1>1. ASSUME IInv, IInv', SpendInv, [Next]_vars PROVE SpendInv'
  <2>1. ASSUME NEW ch \in Channels, Pump(ch) \/ Write(ch) PROVE SpendInv'
    BY <1>1, <2>1, EmptySpend, VerdictSpend, EvaluateSpend, ForwardSpend, OthersSpend
    DEF Pump, Write
  <2>2. CASE \/ \E ch \in Channels : \/ Responder(ch) \/ Proxy(ch) \/ WriteHead(ch)
                                     \/ WriteBody(ch) \/ Send(ch) \/ Respond(ch) \/ Leave(ch)
             \/ EpochLapses \/ UNCHANGED vars
    BY <1>1, <2>2, OthersSpend
  <2> QED
    BY <1>1, <2>1, <2>2 DEF Next
<1> QED
  BY <1>1, InitSpend, Invariant, PTL DEF Spec

\* What leaves the daemon over all its channels never exceeds the budgets of
\* the epochs begun, whatever the epoch's end falls between: SpendPolicy.Evaluate
\* counts an amount before the pump forwards it, and the amounts that are
\* counted and not forwarded are those in the pumps' hands.
THEOREM VelocityHolds == Spec => []Velocity
<1>1. ASSUME IInv, SpendInv PROVE Velocity
  <2> DEFINE limit == MaxPerEpoch * epochs
  <2>1. /\ epochs \in Nat /\ paid \in Nat /\ OnTheWay \in Nat /\ spent \in 0..MaxPerEpoch
        /\ MaxPerEpoch \in Nat
    BY <1>1, MoneyType, Bounds
  <2>2. limit \in Nat
    BY <2>1, Limit
  <2>3. paid + OnTheWay = 0 \/ paid + OnTheWay + MaxPerEpoch <= limit + spent
    BY <1>1 DEF SpendInv, Covered, Covers
  <2>4. Velocity <=> paid <= limit
    BY DEF Velocity
  <2> HIDE DEF limit
  <2>5. paid <= limit
    <3>1. CASE paid + OnTheWay = 0
      BY <2>1, <2>2, <3>1
    <3>2. CASE paid + OnTheWay + MaxPerEpoch <= limit + spent
      <4>1. spent \in Nat /\ spent <= MaxPerEpoch
        BY <2>1
      <4> HIDE DEF OnTheWay
      <4> QED
        BY <2>1, <2>2, <3>2, <4>1
    <3> QED
      BY <2>3, <3>1, <3>2
  <2> QED
    BY <2>4, <2>5
<1> QED
  BY <1>1, Invariant, SpendInvariant, PTL

==============================================================================

# Grimlock TLS in TLA+

Grimlock is a per-host daemon that carries an agent's TCP connections to agents
on other hosts through attested TLS tunnels. This directory models its daemon
(`src/grimlock/cmd/grimlock`, `src/grimlock/internal`) in TLA+: modules
translated from the Go source, TLC runs that check them on small instances, and
TLAPS proofs of what matters most for every instance.

## 1. The system

An agent's `connect` is redirected by eBPF to the local daemon. The daemon
recovers where the agent wanted to go, takes a tunnel to that peer from a warm
pool, writes a destination header and relays bytes, either spliced by the kernel
(fast channel) or through a pipeline of enforcers (guarded channel). The peer's
daemon accepts the tunnel, and dials its own agent.

| Component | Source | State | Operations | Hard parts | What makes it correct |
|---|---|---|---|---|---|
| Attestation gate | `internal/attest/gate.go` | one call of `Run` per end: round, goroutine writing, verdict | four exchanges, quote, appraisal, verdict barrier | two ends in lockstep over a connection that stalls or breaks; a deadline; the order of returns | success is mutual; errors say whether trust failed; no deadlock, no hang |
| Tunnel set-up | `tunnel.go` `serverAttest`, `clientAttest`, `runGate`, `runResume`, `resumeCache`, `attestedManifests` | per daemon: secret per peer key, manifest per peer address | propose, answer, gate, resume, store | set-ups run concurrently, in both roles, and share two maps; restarts; expiry | a resumed tunnel rests on one gate at both ends; what is enforced on a tunnel is what its gate bound, or newer; tunnels keep coming |
| Warm pool | `pool.go`, `CreateDedicatedTunnel` | channel of tunnels, cooldown, quit | get, refill, establish, Close | refills race requests; the peer goes down; three clocks (secret, tunnel, cooldown) | bounded age of attestation, no dial storm, recovery |
| Capabilities | `internal/capability/capability.go` | grant lists | covering, attenuation, chains, policy check | prefix order, intersection of generated ideals | delegation neither escalates nor loses |
| Set-up slots, server data phase | `tunnel.go` `handleIncomingTCP`, `handleForwardingConnection` | semaphore of 128, deadlines | accept, shed, hand-shake, forward, half-close | slot freed once on every path; which deadline is in force | slots conserved; every connection ends |
| Guarded channel | `guard.go`, `mcp.go` | request buffer, pipeline | pump, enforce, deny, finish | two goroutines, two writers to the agent | a request is forwarded only if every enforcer permits it |
| x402 payments | `payment.go`, `internal/x402` | challenge slot, pending receipts, spent per epoch | evaluate, record, settle, finish | request and response goroutines share the slot | budget, challenge matching, one receipt per payment |
| Receipt log | `receipt.go` | file, chain head, mutex | append, recover, verify | failed writes and syncs, torn lines, restart, channels that append at once | the file is one chain; what was acknowledged stays |
| Original destination | `origdest.go`, `grimlock.bpf.c`, `main.go` | two kernel maps | connect4, sock_ops, Resolve | kernel and daemon race; port reuse | the connection goes where the agent dialled |
| Local side | `main.go`, `guard.go` | one handler per connection, the egress policy | admit, obtain a tunnel, relay or guard, close | layers of a tunnel closed in different orders; ends of two relays | the peer reads the header and the agent's bytes only, past the port's enforcers |
| kTLS hand-over | `crypto.go` | key log, socket options | enable TX, RX | half of it fails; a TLS connection on a socket that encrypts | nothing is encrypted twice |
| Manifest puller | `puller.go` | cached manifest | pull, refresh | refresh during a gate | digest bound is the manifest sent |

Interactions: the pool calls set-up (`CreateDedicatedTunnel` → `clientAttest`),
set-up calls the gate (`runGate` → `gate.Run`), the gate reads the puller's cache
(`LocalAttachmentFunc`), the guarded channel reads the manifest that set-up
stored, and payments bind the epoch that set-up returned. All of a daemon's
connections share the resumption cache, the manifest map, the pools, the receipt
log and the spend budget.

`PROJECT.json` lists every component and every hazard with its line.

## 2. Modules

| Module | Models |
|---|---|
| `MutualBarrier` | what the gate promises: two verdicts, two results, without the wire |
| `AttestGate` | `GateConfig.Run` at both ends, frame by frame; implements `MutualBarrier` |
| `AttestGateProofs` | TLAPS: types, `MutualTrust`, `FailureClass`, refinement |
| `AttestSession` | tunnel set-up between daemons, with the two maps they keep |
| `TunnelPool` | the warm pool, with ages and the cooldown |
| `Capability` | the capability order, attenuation, delegation chains |
| `CapabilityProofs` | TLAPS: attenuation is intersection; chains |
| `SetupServer` | the server end: set-up slots, deadlines, relays |
| `SetupServerProofs` | TLAPS: types, conservation of slots |
| `GuardedProxy` | a guarded channel: pump, responder, MCP and x402 enforcers, budget |
| `AuditTrail` | what an auditor is promised of the receipts |
| `ReceiptLog` | the receipt log and its file through faults, kills and restarts; implements `AuditTrail` |
| `OrigDest` | the routing token: kernel maps, `Resolve` |
| `LocalForward` | the local handler, on top of `OrigDest`: classification, tunnel, kTLS layers, relays |
| `AttestSessionProofs` | TLAPS: types, `SameGate`, `EnforcesAttested` |
| `TunnelPoolProofs` | TLAPS: types, `AttestationBounded`, `NoDialStorm` |
| `LocalForwardProofs` | TLAPS: types, `TokenLinear`, `RoutedAsDialled`, `StreamIntact`, `Governed` |
| `GuardedProxyProofs` | TLAPS: types, `OnlyPermitted`, `ReceiptsOnce`, `ChallengeNoted`, `SettlesInOrder`, `Velocity` |
| `ReceiptLogProofs` | TLAPS: types, `BreaksBounded`, `TamperEvident`, refinement |
| `MC*` | constants for TLC |

### AttestGate

`pc`, `round` say where each `Run` is; `writer` and `reader` are the two halves
of the current `exchange*` call (the goroutine and the caller); `sent` counts
the frames an end has handed to the transport. Because a frame's content is fixed before it is written, the reader looks it up (`big`, `defects`, `verdict`) when the frame is there. `StartWrite`/`WriteDone`/`WriteFails`
and `Read`/`ReadFails` are the exchange; `AttachmentsExchanged`, `StartQuote`,
`QuoteReady`, `Appraise`, `Conclude` and `ExchangeError` are what `Run` does
between two exchanges; `Outcome` is the order of its final returns. A frame is
readable as soon as its write has started, and a write ends when at most
`Capacity` frames are unread: `Capacity = 0` is the unbuffered transport
`exchangeFixed` is written for. `Run`'s callers close the connection on an error,
so `Return` cuts the link. `fresh` is false at the only call site, so the nonce
round is not modelled. Which appraisals an end would fail (`defects`) and which
TLS session it terminates (`ekm`) are chosen initially: a quote verifies only against the report data of one's own session. So is `big`, the rounds whose frame the peer refuses for its size
(`readBlob`'s limit on the attachment and the agent measurement, `readFrame`'s bounds on the
quote).

### AttestSession

One record per connection (`conn`) and per end of it (`end`). `Propose` is the
dial and the client's mode byte, `ReadMode` the server's answer, `ReadAck` the
client's next step, `RunGate` a gate that passes together with `resume.put`,
`Store` the client's `storeManifest`, `Resume` the comparison of tags. The gate is
one step per end, possible once the peer is in it too, which is what
`AttestGate` shows of it, and every appraisal accepts: this module is about
sound peers. A secret is identified with the TLS session it was derived from;
identities are reused when nothing holds them any more. An expired entry is a
removed entry (`get` deletes it). `Restart` empties the daemon's maps, breaks its
connections and, since its instance key is new, makes the entries others hold
for it unreachable. `manifests` is kept by address and survives the peer's restart.
`advert` is the manifest a daemon advertises, in their order: 0 is none (the first pull
failed and the daemon started all the same), and a manifest outside `Usable` does not
parse, so `storeManifest` stores nil (`Parsed`). `Publish` is a refresh that changed it
(only one that parses replaces the last); a restart may come up with a manifest of either sort, or
still none. Daemons act in both roles, set-ups overlap, and cuts, restarts, new manifests
and set-ups of the other direction come between any of their steps; `MaxEvents` bounds how many.
`over` and `passed` are history: which newer manifest a session was overtaken by.

### TunnelPool

Goroutines are callers of `get` and refills. A tunnel carries the age of the gate
it rests on, the time since it was pooled and whether the peer still has its
end. `Begin`, `Attest`, `EstablishFails`, `Finish` are
`CreateDedicatedTunnel`; `Take`, `Drop`, `Miss` the three outcomes of an
iteration of `get`; `Check`, `Warmed` the refill; `Pools` its `select`, with the
choice Go makes when the pool is closed and has room. `Tick` ages everything and
cannot pass the end of an establish's time (`Setup`). `Down` kills the peer's
tunnels and, with its instance key, the cached secret. `EstablishFails` may happen at every
stage and also with a peer that is up, as in the code: a tag that differs, a shed
connection, a gate that rejects or times out.

### Capability

A capability is the sequence of its dot-separated segments, so the string test
`HasPrefix(r, g + ".")` is the proper prefix order on sequences. `HandOff` is one
step of `AttenuateChain`.

### SetupServer

`pc` is the stage a connection's handler is in: it waits for a slot, shakes
hands, reads the mode byte, is in a gate or a resumption, reads the header, dials the
agent, relays. `deadline` is what `SetDeadline` last set on the connection and
every stage says whether it sets it (`Acquire`, `Mode`, `Header`), clears it
(`Attested`: the gate's deferred call) or inherits it (`Handshake`). `sem` is the
number of tokens in `setupSem`, `slotFreed` the variable of that name, and
`Return` the deferred calls. The two relays are `relays`; a relay that ends closes
the write side it copied to and leaves the other alone (`Stop`), so that the agent is told
the end of the requests (`Told`). The relay to the agent may wait in a write to an agent that
does not read (`Blocks`), which no deadline ends. Peers and agents
are free to stall, half-close or vanish; `Tick` lets time pass, and a goroutine
may be scheduled arbitrarily late after its deadline. Whether a resumption is
possible is a choice: which secret is cached where is `AttestSession`'s subject.

### GuardedProxy

`pump` is where `pumpRequests` is, with the request in its hands and the index of
the enforcer whose turn it is; `responder` the same for `handleResponses` (or the
plain copy, when no enforcer observes). `challenge` and `pending` are the fields of
`paymentConn` the two share, `receipts` what `appendReceipt` was given, `spent`
and `lapsed` the enforcer's epoch. `EvaluatePayment` and `RecordPayment` are
two steps because the binding quote is requested between them; `ReadAnswer` is one step
up to the write, and an answer is two writes (`WriteHead`, `WriteBody`), since a
denial of the pump can come between them. `life` is `guardedProxy`'s own progress.
A request is what the enforcers look at: the payment header, whether the body can
be classified, the tools it calls. The manifest and the grant are two sets of tools
(the order behind the grant is `Capability`'s subject). `InPolicy` has the policy's lists and
cap with their empty values, which restrict nothing, and amounts that do not parse. What
was buffered is still read after `CloseBoth`, by either goroutine, and either may meet what it
cannot parse while both ends are open. `kind` fixes the sort of
channel: its pipeline, and whether its agent waits for each answer. A server may leave any
payment without a settlement, which `unsettled` notes. A pipeline names no enforcer twice: `buildEgressPolicy` would
accept a `--guard` that does, and such a port is left out. `unsettled`, `offered`, `epochs`
and `paid` are history variables.

### ReceiptLog

`file` is the sequence of the pieces that writes left: a whole line, one without its
newline, or less. `head` is `ReceiptLog.prev`, `holder` the receipt whose `Append`
holds the mutex and `link` its `PrevHash`; `stage` follows a receipt from the
decision (`Record`) over the wait for its settlement (`Finalize`) through `Append`
(`Lock`, `Write`, `Sync`), which returns an error without (`WriteRefused`) or with
(`WriteCutShort`, `SyncFails`) something left in the file. `Crash` is the end of the
process, by a signal too (`main` returns without finishing the channels), or of the
machine, which keeps only what was flushed for certain and may cut the line after it.
`Start` is `OpenReceiptLogFile`. A receipt's identity stands for its hash, which
covers all its fields; an edited entry has an identity of its own (`Edits`), and carries any
`PrevHash` and `Hash` its author likes, the recomputed one included. `VerifyChain` checks both, as
the code does. `faults` counts what leaves a bad line behind.

`AuditTrail` has a trail of records that only grows and holds no receipt twice; what
cannot be read stands in it as `Torn`. A receipt that was acknowledged can be read in it, or
its line began in a torn one and is `Torn` too: each such receipt stands right behind a torn
record of its own. It is refined by the flushed pieces, of which only those that are a whole
line and begin one count as readable. `Breaks` are the links an auditor finds broken: a line
that does not parse, a receipt that does not name its predecessor, and a receipt behind a
line that does not parse. `TamperEvident` lets an auditor be shown any entries, lines of the file
or edits, before a line known to be genuine: `VerifyChain` accepts only the file's own.

The model shows three things the code's users may not expect. A line torn exactly
before its newline parses, so the restart accepts it and the next append
continues on the same line (two links are lost, which `BreaksBounded` allows). Any
other torn line makes the next start fatal (`main.go:321`), until someone repairs
the file. And an allowed payment's receipt lives in memory until its settlement
arrives: a signal loses it (`stage` "lost").

### OrigDest

`sock` is the agent's socket, `cookie_dest` and `port_dest` the two kernel maps,
`handler` the daemon's goroutine up to the end of `Resolve`. `Connect` is connect4,
`Establish` and `StateClose` the two sock_ops callbacks, `Lookup` one iteration of
the loop in `Resolve`, `Consume` its `Delete`, a step of its own as in the code.
The kernel runs the callback of the established connection before the acknowledgement
that completes the listener's half, so a token is in the map before the connection can be
accepted and the retries never help; what loses a token is `StateClose`, or another
handler on the same port. The
maps evict their least recently used entry beyond 8192; the model has fewer.

A source port is free for another connection as soon as the agent's socket is done with, by
a close or a reset, whatever the daemon's handler of the old connection is doing; so two
handlers may search on one port. `rivals` (history) are the connections whose searches
met there. `RoutedAsDialled` says what that can do: a handler with a rival may take the
rival's token, or find none and fall back to the default; one without goes where its agent
dialled, unless the agent has gone before the look-up. In that last case its bytes go to
port 8080 of the default peer, under the class of 8080.

### LocalForward

`fwd` is the handler after `Resolve`: `Admit` refuses what has no peer or is
denied, `Obtain` takes a tunnel and writes the header, `HeaderFails` is a tunnel that breaks
under it and is closed, `MoveUp` is a chunk in either
kind of channel, `UpEnds` and `DownEnds` the ends of the two relays with
`closeWrite`, `Stalls` a write of answer bytes to an agent that does not read, `Finish` the
deferred closes in their order. `Chain` is
`buildEgressPolicy` and `Classify` is `classify`. A tunnel (`tun`) is what its client end
does to it: the layer that encrypts, whether it can still be written, and `stream`, the
records the peer's daemon reads. `Layers` are the outcomes of `enableKTLS`: both
directions, none, or "half" (TX set, RX failed, so the user-space connection goes
on above a socket that encrypts). `CloseWrite` and `Closed` say what each layer sends when
it is closed. In attested mode a gate cannot pass over "half", so no such
tunnel is used; in CA mode it is, and everything on it arrives encrypted twice.
`Drop` is a tunnel that the pool set up and closes unused. What an enforcer decides is
`GuardedProxy`'s subject; here each record carries the set of those that vetted it.

## 3. Runs

| Run | Instance | Shows |
|---|---|---|
| `gate` | capacity 0, deadline, 2 sessions, no defect or identity, no frame refused or that of any one round, one cut or stall at any time | `MutualTrust`, `FailureClass`, `DeadlineEnds`, `UndisturbedCompletes`, `ImplementsBarrier` |
| `session` | 2 daemons, 2 set-ups at a time, secrets expire; one cut, restart, new manifest or set-up in the other direction at any time; no manifest, one that parses, one that does not | `SameGate`, `EnforcesAttested`, `SelfHealing` |
| `session_diverges` | 2 set-ups, no expiry | **violates** `SelfHealing` |
| `pool` | 1 caller, 2 refills, pool of 1, TTL 2, set-up 1, cooldown 2, peer down once, set-ups that fail at will, Close | `AttestationBounded`, `NoDialStorm`, `Recovers` |
| `server` | 2 connections, 1 slot, timeouts of 1 or 2 ticks, default flags / re-attestation / no gate deadline / CA mode | `SlotsConserved`, `SetupEnds`, `ServingEnds`, `HalfCloseServed` |
| `server_header` | the same | **violates** `HeaderEnds` |
| `guard` | 1 channel of 2 requests under 3 pipelines, agents that wait or pipeline, servers that settle what they like, or 2 channels of 1 payment; 2 epochs, budget 2 | `OnlyPermitted`, `ReceiptsOnce`, `Velocity`, `ChallengeNoted`, `SettlesInOrder`, `ChannelEnds` |
| `receipts` | 4 receipts, 2 ends of daemon or machine, 2 faults, an edit, 2 entries before the one known | `BreaksBounded`, `TamperEvident`, `ImplementsTrail`, `AppendsEnd` |
| `receipts_break` | the same, 1 fault, no crash | **violates** `FailedWriteHarmless` |
| `local` | 2 connections on 1 port, 2 intercepted destinations and a default, 1 tunnel, 2 look-ups, 1 record each, 2 settings | `RoutedAsDialled`, `TokenLinear`, `StreamIntact`, `Governed`, `EndPassedOn` |
| `local_drop` | the same | **violates** `DialsAsAsked` |
| `capability` | 2 segments, 14 capabilities, grants of up to 2, chains of 3 | `EndToEnd` |

Why the bounds are enough. The gate has two ends and four rounds: nothing is cut
off. All checks but the binding to the session are treated alike, so one defect stands for them. A capacity of 0
blocks writers most; larger capacities are covered by the proofs of the safety
part. Two concurrent set-ups are what it takes for puts to cross, and one event among
them for each of the exceptions of `EnforcesAttested`; the proof covers any number of both. The pool of one with two refills reaches a
full channel, an empty one and a stale one; larger pools are covered by the proofs of the
safety part. The interval
of two ticks is longer than a set-up, as in the code. Two connections for one slot
are what it takes for one to be shed, or to take the slot another frees; the
set-up's timeout is longer than the gate's, as by default. Two requests are what it
takes for a settlement to go to the wrong payment or a payment to answer a
challenge; payments of one and two units fill a budget of two exactly, overrun it by one,
and start a second epoch. Four receipts leave two on either side of a fault or a
restart. Two connections on one port are what it takes for a token to meet the
wrong connection; handlers share nothing but tokens, so one tunnel tells a used one from a
dropped one, and the bound on an agent's records is one, since records pass one by one.
A second look-up comes only after the first failed; ten behave as two do.

Deadlock is checked everywhere except in `gate`, `capability`, `guard`, `receipts`,
`receipts_break`, `local` and `local_drop`, where the system stops: both calls have
returned, the chain has its last hop, the channels have finished, every receipt is
decided or the daemon refuses to start, the connections and the tunnel are used up.

### What the violations show

* `session_diverges`: two full gates with one peer finish together; the client
  puts their secrets in one order, the server in the other. Each end holds a secret,
  so every later set-up is resumed, and every resumption fails. Nothing removes
  the entries but expiry, and the default interval of 0 means none
  (`docs/attestation.md:181` promises self-healing).
* `server_header`: `Run` and `Resume` clear the connection's deadline when they
  return, the set-up deadline included, so the header is read without one
  (`docs/architecture.md:420-422` says it is deadline-bound). Slots are not
  affected: they are freed before (`SlotsConserved`, `SetupEnds`).

* `receipts_break`: a failed flush leaves its line in the file and the head where it
  was, and a write cut short leaves a beginning of a line: the receipt logged next does
  not follow the line before it (`receipt.go:102-104` says a failed write does
  not corrupt the chain). `BreaksBounded` is what holds.
* `local_drop`: a warm tunnel that is dropped is closed by its `tls.Conn`, whose
  close_notify the kTLS socket encrypts as data. The peer's daemon reads it as a header, and dials
  a port of its own host (`main.go:545-546` says what the header is).
  `StreamIntact` shows that tunnels in use are not affected, since `closeWrite` or the
  raw close precedes.

Where a text of the repository promises more than the code keeps, and no run of its own
shows it, the property that holds says exactly what is left of the promise:

| The text | The code | The property |
|---|---|---|
| `tunnel.go:51-52`: manifests are "captured on the full gate, reused across resumed connections" | `serverAttest` discards the manifest of a gate whose secret it keeps, and the client role resumes from it; `put` precedes `storeManifest`, so an overlapping set-up resumes before the manifest is there; gates that overlap may store in the opposite order | `EnforcesAttested` has these three cases and no other. In the first two the enforcer may have no manifest and then refuses all calls |
| `docs/x402-attested-payments.md:64-67`: the receipt has the settlement of its payment | `finalizePending` takes the oldest receipt that waits, whatever the answer settles | `SettlesInOrder`: its own exactly until a payment up to it was left unsettled, a later one's from then on |
| `receipt.go:5`, `docs/x402-attested-payments.md:63-64`: any later edit or removal breaks the chain | nothing is behind the last line | `TamperEvident`: everything before a receipt known to be genuine; the end may be cut off or forged |
| `origdest.go:27-31`, `docs/threat-model.md` row K: the token is taken exactly once and the port cannot be reused before | the agent's close or reset frees the port while the handler is still to look | `RoutedAsDialled`: right but for connections whose look-ups met on a port |
| `main.go:122`, `guard.go:80`, `docs/channel-classes.md:46,228`: a fast port is "never enforced" | `classify` asks for guards first, as `docs/channel-classes.md:64` has it | `Governed` says nothing of a port that both flags name |
| `tunnel.go:581-586`, `docs/threat-model.md` 8.2: past the interval the tunnel is closed | neither the relay's writes to the agent nor its reads from it have a deadline | `ServingEnds`: no more requests if the agent reads, closed if it closes |
| `pool.go:9-10`: warm tunnels are no older than `maxIdle` | the age of a warm tunnel starts at its set-up, that of its attestation at a gate up to one interval earlier | `AttestationBounded`: two intervals and a set-up, when the tunnel is handed out |

## 4. Fairness

`AttestGate`: weak fairness of each end's steps, since goroutines run, a started
write or read that can proceed does, and the quoter returns. Neither the
deadline nor the network is fair: `DeadlineEnds` starts when the deadline has
passed. `UndisturbedCompletes` assumes that the network and the deadline leave
the call alone. `AttestSession`: each connection's set-up proceeds, requests keep
arriving (the pool's refills and callers), and an entry with an expiry expires
(time passes). `TunnelPool`: goroutines run, requests keep coming, time
passes; the peer owes nothing, and `Recovers` assumes that from some point on it stays up
and set-ups with it no longer fail (`Accepted`): `session_diverges` shows a peer that is up and
refuses for ever, which the pool cannot mend. `SetupServer`: handlers are scheduled and time passes, and nothing else
is fair: neither a peer's bytes nor an agent's. `ServingEnds` and `HalfCloseServed` name in their
statements what they need: an agent that reads, one that answers at the request's end, a client
that reads. `GuardedProxy`: the two goroutines and
`guardedProxy` run, the quoter returns and a read that stays empty times out
(`guardReadTimeout`); writes may block for ever, and agents, servers and the
epoch's clock owe nothing. `ReceiptLog`: an append that may go on does; disks may fail
and daemons end. `LocalForward`: a relay that reads the end of the answer and a handler whose relays are
over go on; agents, peers and the pool owe nothing, writes may block for ever, and `EndPassedOn`
is about agents that read.

## 5. Proofs

`AttestGateProofs` assumes only `GateAssumption` (a Boolean, a natural capacity,
sets of checks). `MutualTrust` is not inductive: an end that reads "accepted"
must know that its peer has a verdict at all. `IInv` adds three facts. `Frames`:
a frame is on the transport exactly when its writing goroutine has started, and
an end that has finished reading in a round has its peer's frame of that round.
`Phases`: an end has a verdict exactly in the barrier, and quotes only between the
second and the third exchange. `Verdicts`, `Results`: a verdict is the outcome of the
appraisal, and a result follows from both verdicts. With `Frames`, having read
the barrier's frame means that the peer reached the barrier; with `Phases`, that
it has a verdict. There is one lemma for the steps inside an exchange, one for
going to the next round, one for returning. `Implements` maps `Appraise`,
`Conclude`, `ExchangeError` and `QuoteFails` to the barrier's steps and all
other steps to stuttering.

`CapabilityProofs` assumes that capabilities are sequences of segments and
grants sets of them. `Attenuation` rests on one lemma: two prefixes of a sequence are
comparable (`CoversComparable`), which is why comparing pairs loses nothing.
`ChainExact` carries it along chains of every length.

`SetupServerProofs` assumes finitely many connections and positive timeouts.
`SlotsConserved` is inductive together with the types. `FreeSlotFrees` and
`AcquireHolds` relate the token to the set of holders (its cardinality changes by
one exactly when the set does), `Leaving` and `SlotsUnchanged` relate the holders to the
stages; then each action is one of: returns, leaves the set-up, touches no slot.
With it, the receive in `freeSlot` never blocks.

`AttestSessionProofs` assumes finitely many daemons and connection slots
(`SessionAssumption`), which is what leaves an identity for each new secret: the type
theorem counts the places that can hold one. `SameGate` follows
from how far the two ends of one set-up can be apart: `Agreeing` while they agree on the
mode, `Gated` (an end that has passed the gate holds its secret) and `Resumed` (an older
secret, and an end is up only when the other had the same). None of them speaks of two
connections: what concurrent set-ups do to the maps disturbs a resumption only through the
comparison of tags. `EnforcesAttested` does speak of several. `ManifestInv` follows what a daemon
holds of a gate it ran as client, in its cache or at the end of a session (`Holds`): until that
gate has stored its manifest it is `Pending`; after that what the enforcer reads is as new,
or was overtaken (`Settled`). For this to last, every session that would bring an older
manifest must already count as overtaken (`Behind`), and a secret must belong to the session
that made it (`Owned`), which is where the freshness of identities comes in.

`ReceiptLogProofs` assumes that receipts are positive numbers (`LogAssumption`). The
invariant says where the log is between two statements: a receipt is in the file once
(`WrittenOnce`), the one being flushed is the last piece (`AtTheEnd`), what was logged is
among the stable pieces (`LoggedStable`), and the head is the last piece's receipt unless that
piece was dropped (`HeadFollows`). `Marks` are the pieces that a fault left torn or whose
append returned an error: there are no more of them than faults (`FewMarks`), and a piece
names the one before it unless that one is marked (`Linked`). A broken link lies at a marked
piece or right behind one, which gives two for each fault (`BreaksBounded`). `TamperEvident`
takes the last entry shown that is not in its place: the one behind it is genuine and names the hash of its
predecessor in the file, which only that line has (`Genuine`). The refinement is step by step: every step extends
the stable pieces or leaves them, `Sync` acknowledges only what it made stable, and a receipt whose
line cannot be read stands behind a torn piece that was never acknowledged (`StableComplete`). Lines are
related pairwise, so no fold over the file is involved.

`TunnelPoolProofs` assumes positive intervals and disjoint names (`PoolAssumption`). The
invariant follows one tunnel through its life: a resumption starts from a live secret and
ages no more than the set-up lasts (`Aged`), and a pooled tunnel is no older than that
plus the time it has been warm, unless it is stale (`Kept`). The bound of
`AttestationBounded` is the sum. `NoDialStorm` has one more hypothesis, `Brief`: a
cooldown for each goroutine, one after another, fits in a re-attestation interval (a
cooldown is two seconds; without it TLC finds a storm, with a cooldown of four ticks and
an interval of one). `get` asks for the cooldown unless it has dropped `Size + 1` stale
tunnels. `StormInv` names a set of goroutines that were on their way when the cooldown began:
each may dial and fail once and start it again, so the cooldown lasts no longer than
`Window`. All others would have to find more stale tunnels than the pool held when they came
(`Aging` counts those that can go stale in the window; a new one cannot). The run checks
`NoDialStorm` outside `Brief`, where it happens to hold for so small a pool. With the
default interval of 0 nothing ever goes stale, and the models have no such interval.

`LocalForwardProofs` assumes at least one look-up, and policies that use enforcers which
are enabled (`OrigDestAssumption`, `ForwardAssumption`). Its first half is about `OrigDest`,
and its heart who owns a source port: of two sockets with one port at most one has it
(`OnePort`), and handlers that search on one port are rivals (`Rivals`); so while the agent is
there its token can be found unless it has a rival (`TokenThere`), and what a handler finds is its
own or a rival's (`FoundOwn`); the steps of
agents, kernel and handlers keep this. The second half shows that a tunnel is one
connection's (`OwnTunnel`, `Unclaimed`), can be written while it is served (`Served`), and
carries that connection's header and records (`Carried`). `Governed` joins the two: without a
rival the token is the dialled port's, and so is the chain that vetted the records.

`GuardedProxyProofs` assumes the types of the constants (`ProxyAssumption`), and pipelines
without repeats. `OnlyPermitted`: the enforcers before the pump's index have passed the
request (`Pumping`). `ReceiptsOnce`: requests are read in the order of their numbers
(`Queued`), so a receipt about the pump's own request exists only after the x402
enforcer's turn (`Once`), and a payment past that turn has one that allows it
(`Receipted`). `ChallengeNoted`: answers, denials and requests under way never exceed what
was asked (`Load`), so with an agent that waits the pump and the responder are never
busy together, and neither can consume or replace the challenge between the other's steps
(`Noted`). `SettlesInOrder`: requests, answers and waiting receipts are each in the order of
their numbers (`Ordered`); every payment that was allowed travels or was answered, except at most the
pump's own, and the receipt of one that travels waits (`Waiting`); what is behind is older than what
is to come (`Behind`). So the oldest receipt is that of the oldest settlement as long as each
payment got one, and that of an older payment from then on. `Velocity`: the sum over all channels of what their pumps hold is
the cardinality of a set with one element per unit (`OnTheWay`), which a step of one channel
changes by that channel's amount (`UnitsMore`, `UnitsFewer`), so no induction over channels
is needed. `Covered` relates it to the budget: what was forwarded, what is on its way and one
whole budget fit in the budgets of the epochs begun and what was spent in this one; that
survives a new epoch, which forgets `spent` while payments are on their way.

Only model-checked: all liveness (`DeadlineEnds`, `UndisturbedCompletes`, `SelfHealing`,
`Recovers`, `SetupEnds`, `ServingEnds`, `HalfCloseServed`, `ChannelEnds`, `EndPassedOn`,
`AppendsEnd`), which is out of the proof system's reach. Every invariant and every refinement
that a passing run checks is also a theorem, `NoDialStorm` under the hypothesis named above.

## 6. Not modelled, and the plan

Left out for good: flag parsing and start-up, certificate loading, the TDX
quote's own verification (its outcome is a choice), the byte encoding of the
transcript, seccomp and hardening, metrics, logging, demos and scripts. Also left
out, each for its reason: the generations of attestation epochs (they are only compared for
equality, which is what `AttestSession`'s identities do); kTLS at the server's end
(it falls back the same way, on a socket nobody pools); the puller's HTTP requests and
size limits (a pull is `Publish`, and an attachment that is too large is `AttestGate`'s
`TooLarge`); and the static check of a manifest against a grant, a pure traversal.

Done since the first plan: the receipt log with its refinement, the routing token, the
local side with classification and kTLS layers, set-up sessions with restarts and cuts in
one run, and the proofs about every component that is modelled.

What would come next, in this order:

1. The server's header stage joined to `TunnelPool`: in CA mode, or with no gate
   deadline, the set-up deadline stays in force while the tunnel waits warm.
2. The depth of the pool over time: after a failed refill it does not grow back.
3. Action properties behind the liveness that is only model-checked, one step of each
   argument at a time (what an end that waits is waiting for is never taken away).

# A TLA+ verification of tickchaos

tickchaos is a UDP proxy that degrades market data on purpose: it drops, delays,
duplicates and reorders packets as a scenario says, with toxics that can target the
sequence numbers of a feed. It also holds a FIX framer and a TCP transport. These modules
specify its data plane, its control plane with `main`, its seeded decisions, and the FIX
side, model-check them with TLC and prove the main properties with TLAPS. Paths below are
relative to the repository.

## Inventory

| Part | State | Operations | Interacts through |
|---|---|---|---|
| Proxy loop, `src/backgrounds/proxy.rs` | the flow in force, the reload cell, the delay queue (a local of `run`), the PRNG, `max_in_flight` | `run`, `enqueue`, `send_and_count` | socket, timers, reload cell, counters |
| Toxics, `src/scripts/*.rs` | the rate limiter's bucket; the other six are constant | `new`, `decide` | called by the flow, with the loop's PRNG |
| Flow, `src/flows/flow.rs` | the list of toxics | `decide` | called by the loop, replaced as a whole by a reload |
| Extractors, `src/protocols/moldudp64.rs`, `src/domain/extractor.rs` | none | `extract` | called by the loop |
| Control plane, `src/backgrounds/control_plane.rs` | the listener | `serve`, `GET /metrics`, `POST /reload` | stores into the reload cell, loads the counters, one task per connection |
| Scenario, `src/config/scenario.rs` | the parsed TOML | `build_flow`, `build_extractor`, `OperatorConfig::build` | called by `main` and by `/reload` |
| Stats, `src/backgrounds/stats.rs` | six atomic counters | `snapshot` (six separate loads) | loop writes; control plane and `main` read |
| main, `src/main.rs` | the scenario, the run report | start-up, `select!` of proxy, control plane and ctrl-c | drops the proxy at one of its awaits |
| UDP transport, `src/transport/udp.rs` | a socket and a buffer | `bind`, the multicast join, `recv`, `send` | kernel |
| FIX framer, `src/protocols/fix.rs`, `src/domain/fix.rs` | a buffer, a sticky error | `extend`, `next_message` | called by the TCP transport |
| TCP transport, `src/transport/tcp.rs` | stream, framer | `listen`, `connect`, `from_accepted`, `recv_message`, `send_raw`, `split`, `shutdown` | kernel, peer |
| benches, `examples/latency.rs`, CI | - | - | - |

`main` runs the UDP side only. The TCP transport is a library part that nothing in the
repository calls but its tests and benchmarks, so it is composed with a peer of its own
kind and not with the proxy.

What is hard to get right and hard to test here:

- the reload cell is read before an await and the flow is used after it; handlers,
  other holders of the handle and the loop race on it;
- one queue holds delayed packets and copies of duplicates while other packets pass
  them directly, under a cap, with real timers;
- a duplicate is two sends with an await, and an admission to the queue, in between;
- errors of send are swallowed, errors of receive end the loop, shutdown drops it at
  any await, an oversized delay panics;
- `select!` picks among ready branches at random, so progress of timers and reloads
  rests on its fairness;
- the toxics are ordered, the first that does not forward hides the rest, and with them
  the draws they would have made from the one PRNG;
- the rate limiter is the one toxic that time decides, and a reload gives it a full bucket;
- the start may fail at any step, and the run may end by any of three branches;
- a FIX stream arrives in any chunks, is framed by lengths that the peer states, and must
  not be picked up in its middle after an error;
- calls of `recv_message` and `send_raw` are cancelled at their awaits, a connection is
  split with bytes read ahead, and an end may be clean, cut or broken.

`PROJECT.json` lists these hazards at their lines, with the properties that cover each.

What makes each part correct: the loop must account for every packet, keep the order and
the deadlines it promises, stay within its cap, and put the last reload in force; the
toxics must decide as configured for any arrival times, and the flow must consult them in
order; one seed must decide the same twice; the control plane must publish exactly the
accepted scenarios and answer; a snapshot should be one moment of the run; `main` must come
up whole or not at all and report every end; the framer must cut the same messages out of
any chunking, and the TCP transport must hand over every byte once and report a clean end
only between messages.

## Modules

| Module | What it is |
|---|---|
| `Toxics` | the seven toxics, `Flow::decide` and the extractors as operators |
| `Proxy` | the loop and everything that runs around it, with the properties |
| `PacketRelay` | the abstract relay that `Proxy` implements |
| `Scenario` | from a posted or read scenario to the flow and the extractor |
| `ControlPlane` | the whole program: `main`, `Proxy` and the HTTP handlers |
| `TokenBucket` | the rate limiter over time and over reloads |
| `Determinism` | two runs of one seed |
| `FixFramer` | the framer and the header fields as operators |
| `FixGrammar` | the messages of a byte string by a grammar, the reference |
| `FixFraming` | a framer that is fed a stream in chunks |
| `FixLink` | a FIX connection between two ends |
| `MessageStream` | the abstract stream that each direction of `FixLink` implements |
| `MCProxy`, `MCControlPlane`, `MCTokenBucket`, `MCDeterminism`, `MCFixFraming`, `MCFixLink` | the constants of the TLC instances |
| `ProxyProofs`, `ControlPlaneProofs`, `TokenBucketProofs`, `DeterminismProofs`, `FixFramerProofs`, `FixFramingProofs`, `FixLinkProofs` | the TLAPS proofs |
| `Recursion` | induction and recursion over numbers, for the proofs; it models no code |

`Proxy`, `TokenBucket`, `Determinism` and `Scenario` extend `Toxics`; `ControlPlane`
extends `Proxy` and `Scenario`, and implements `Proxy`, which implements `PacketRelay`.
`FixGrammar` extends `FixFramer`; `FixFraming` and `FixLink` extend `FixGrammar`, and
`FixLink` implements `MessageStream` twice.

Definitions that a comment calls a mutant are plausible mistakes in the definition after
them, kept to show that each property can fail; nothing else uses them.

### Toxics

An `Option<T>` is a set of at most one element. `Decide(toxics, p)` is the set of possible
outcomes of `Flow::decide`: an effect and the toxics afterwards. The PRNG is
nondeterminism (`Draws`): a probability matters as 0, 1 or anything between. Delays are in
ticks of the clock, and so is the jitter, drawn from `min .. max`. A header is what
`extract` finds in it: `{}` if it is too short, `{n}` otherwise.

The rate limiter keeps an `f64`. Here a token is `TicksPerSec * Grain` parts (`Token`), a tick
is worth `Grain` parts per packet of the rate, and every refill that some time makes is off by
what the constant `Rounding` says, a function of what the code computes with, at most
`MaxError` parts per packet of the rate. Errors add up: at ten packets a second ten refills
of 0.1 make less than a token. Paying 1.0 is exact in `f64`, as the bucket holds
1.0 or more, and so is the full bucket. With ticks of a nanosecond a refill is off by a
few 2^-53 of a capacity, so that `MaxError / Grain` is below 10^-6. The proofs hold for every
`Rounding` and every `MaxError` up to `Grain`; `MCTokenBucket` has one that rounds up at its
top rate and down at the others, the other instances are exact (`MaxError = 0`).

`NewGapBurst` makes the range of a gap burst like its constructor, and keeps the configured
`start` and `len` beside it. `Targets`, which `DropsExactly` uses, is defined by these two and
not by the range.

### Proxy

The task is single-threaded, so an action covers the code from one await to the next:

| `pc` | Where the task is | Actions |
|---|---|---|
| `"reload"` | at the top of the loop | `SwapReload` (proxy.rs 73-77) |
| `"select"` | in `tokio::select!` | `Receive`, `ReceiveFails` (80-102), `Expire` (103-106) |
| `"send"` | in the await of `transport.send`, the packet in `job` | `SendSucceeds`, `SendFails` (96-99, 125-134) |
| `"stopped"`, `"panicked"` | the task is gone, and its queue with it | `Halted` |

`SwapReload` and the wait in `select!` are separate steps although no await lies between
them: handlers run on other threads and can store a flow in between. The deadline of a
copy counts from the end of its original's send, as in the code.

Around the task: `Arrive` (network and kernel buffer, which loses what does not fit),
`Tick` (the clock), `Publish` (a handler's store into the cell), `Load` and `Release` (a
holder of `reload_handle`, which is public, that takes a guard on the flow in the cell),
`Cancel` (`main` drops the future at an await). An observer's guard makes
`Arc::try_unwrap` fail (`Shared`), and the swapped-out flow is then dropped: with an
observer a reload can be lost, and the old flow decides on until the next one. `LatestReloadWins`
is therefore stated of a program without observers, as `main` is. With them `FlowMovesForward`
holds, and `StaleBound` with one exception: `lag` counts the decisions since a publication
until a published flow is in force, and is given up only by a swap that finds the
flow in the hands of an observer. A swap that loses it in any other way leaves `lag` counting.

`NextExpired` stands for the delay queue of tokio-util: earliest deadline first, any order
within one tick, never before the deadline. `MaxTimeout` is the longest timeout that its
`insert` accepts. Both are external and modelled from how the loop uses them.

The variables `verdict`, `attempts`, `abandoned` and `lag` are history: no action's guard
reads them.

### PacketRelay

What the data plane promises whatever the flow is: packets are taken in once and in order,
each is owed at most two sends, the second may be given up, at most `Capacity` packets wait
besides the one in hand, nothing is sent when the relay is down. `Proxy` implements it
under the mapping `taken` = the packets with a verdict, `owed` = what waits in queue and
hand, `sent` = `attempts`, `up` = `Running`.

### Scenario

`BuildFlow` is all or nothing, as `collect::<Result<..>>` is; `Valid` is what the
constructors reject. A file or a body is the `Option` of the scenario that
`toml::from_str` makes of it: a file that is missing, the syntax, and the type errors that
serde rejects, are one case, `{}`. `ParseFlow` takes nothing but the operators from a body,
like `parse_flow`; the other fields of a posted scenario are ignored by the code. Of the
fields that `main` uses, the operators, the protocol and the multicast group are there,
because they decide whether the program comes up and what it does.

### ControlPlane

`main` goes through the stages of `main.rs`:

| `main` | Actions | Code |
|---|---|---|
| `"config"` | `Configure`: the file is read and parsed, flow and extractor are built | main.rs 29-38 |
| `"open"` | `OpenSocket`: the UDP socket is created, set up and bound | udp.rs 14-49 |
| `"join"` | `JoinGroup`: the multicast group is joined, IPv6 refused, the socket handed to the runtime | udp.rs 51-76 |
| `"run"` | everything below; then `Report` | main.rs 56-73 |
| `"failed"`, `"exited"` | `Exited` | |

`server` is the listener of the control plane, which a command line may leave out
(`"absent"`). It is bound by `Serve` in the first poll of `serve`, when the proxy may be
running already; that it cannot be bound, or fails later, is `ServerFails`, which like
ctrl-c (`Interrupt`) and an error of the proxy (`ProxyFails`) ends the `select!` and drops
the other branches where they are. Dropping the proxy before its first poll differs in
nothing that is observed from dropping it after its first `SwapReload`, so `Cancel` is not
offered earlier. A ctrl-c handler that cannot be registered ends that branch in the same
way. `Report` is what `main` does after its `select!`; it does not come to that after a
panic.

Each connection of `Posters` and `Readers` carries one request at a time, served by a task
of its own, on other threads than the loop's:

| `handler[c].at` | Actions |
|---|---|
| `"idle"` | `Post` (a body arrives and is parsed), `Get` |
| `"store"` | `Store` (the flow goes into the reload cell) |
| `"load"` | `LoadCounter`, one of the six loads of `Stats::snapshot` |
| `"answered"`, `"read"` | `Answer` (the client has the response) |

`DataPlane` is `Proxy` without `Publish` (replaced by `Store`) and without observers, which
`main` does not have. The counters are loaded in program order: a relaxed load could be
reordered further, which only adds readings that mix more moments. Requests are followed
while the proxy runs; afterwards the runtime is torn down with them. `log`, `floor` and the
fields kept in an answered request are history.

### TokenBucket

`Toxics`' `Refilled`, `HasToken` and `RateLimiterAfter` under arrivals at any time and
reloads to any rate. `count` is an observer that may start counting at any moment
(`Recount`): what passed since, how many refills were rounded, and how many reloads it saw.
`busy` counts from the moment the bucket was last full. Both are history.

### Determinism

The other modules let the PRNG answer anything. Here it is a stream of words fixed by the
seed, and a decision takes as many words as the toxics it consults ask for: none for a
probability of 1 and for the toxics that do not draw, one for the other probabilities, and
for a jitter as many as its draw rejects and one more. `Hits` is `gen_bool` of rand 0.8 (a
word below the probability's share; "maybe" is one half here) and `Jittered` with `Zone` is
`gen_range(min ..= max)` (widening multiplication with rejection); both are external. Two
runs decide on the same packets in lock-step, each packet at a time of arrival of its own
per run, with reloads at the same places in the stream of packets. Words have `WordBits`
bits and the stream comes round after `Period` words; an instance checks every stream of
that size that contains the word 0, which is never rejected.

### FixFramer, FixGrammar, FixFraming

A byte is a digit or one of the classes that the framer tells apart: SOH, `=`, `Y`, any
other; the prefixes it looks for consist of digits and `=` only. `Layout` is `layout` with its scan for a terminator inside `MaxHeaderScan`, its numbers bounded by
`MaxNumber` for `u64::MAX`, its cap `MaxMessageLen`, and its early errors on a prefix
that can no longer become a message. `NextMessage(f)` is what `next_message` answers
together with the framer it leaves: a message is cut off the front, an error empties the
buffer and sticks. `ParseHeader` walks the fields of the body and lifts tags 34, 35 and 43;
an absent and an unreadable tag 34 are both `None`, as in the code.

`FixGrammar` defines the same messages without scan or buffer: a byte string is a message
if some two positions split it into the fields of the grammar, with the stated length equal
to the actual one (`Says`), and `Cut` takes messages off a string one after the other.
`LastField` finds the last field of a tag by its position. `FixFraming` feeds a framer
chunks of `1 .. MaxChunk` bytes and asks it at any moment, so that a framer may also be fed
on before it was asked, or asked again.

### FixLink, MessageStream

Two ends, `"client"` and `"server"`, and the kernel between them. A call is followed from
one await to the next:

| `reader[e]` | Where `recv_message` is | Actions |
|---|---|---|
| `"idle"` | not called | `Recv` |
| `"called"` | called, not polled yet | `Poll` |
| `"reading"` | in the await of its read | `Read`, `ReadEnd`, `ReadFails`, `CancelRecv` |

`Poll` and `Read` both go through `Framed`, the turn of the loop in tcp.rs that asks the
framer and returns or reads on. `send_raw` is `Send`, then any number of `Write`s that take
what the kernel has room for, or `WriteFails`, or `CancelSend`, which leaves part of a
message sent. A whole connection (`&mut self`) does not send while it receives; the halves
of a split one do. `SplitUp`, `Shutdown` and `Drop` are the ends' own doing, `Break` is the
network's. Dropping an end with unread bytes, or writing to a dropped one, breaks the
connection, as TCP resets it. A receiver that was told `Ok(None)`, `truncated` or `Framing`
may call again; after an I/O error an end stops receiving. That is an assumption about the
caller, which tcp.rs does not enforce: on Linux a read after the reset would return 0, which
`recv_message` takes for the end of the stream.

`MessageStream` is one direction of it: messages are offered when their last byte is sent,
delivered once and in order; a clean end comes only after the last of them, a failure before
the last of them only if the connection broke. A message is what the grammar calls one: where
a cancelled `send_raw` leaves the front of a message that makes one with what is sent
next, that is offered too, and neither `ImplementsStream` nor `FailedEndsAreRight` objects to
its delivery. The mapping is `offered` = the messages that
the sent bytes complete, `received` = the bytes of the messages handed over, `open` = the
sender has not closed its side, `broken` = `reset`, `outcome` = `Told(e)`.

`sent`, `offered`, `taken` and `received` are history.

## Runs

Each run's configuration is the file of the same name; `MCX_y.cfg` runs the module `MCX`.
Deadlock is checked everywhere.

| Configuration | Checks | Why these bounds |
|---|---|---|
| `MCProxy_packets` | `CopiesBalance`, `HoldsBalance`, `BoundedMemory`, `SentAsDecided`, `NotEarly`, `DeadlineOrder`, `DirectOrder`, `ImplementsRelay` | three packets against two queue places overflow the queue and overtake each other; one reload exchanges any two of a dropping, holding and duplicating flow, a jittering one, and one whose hold of 3 ticks meets a queue that takes 2 |
| `MCProxy_observed` | `StaleBound`, `FlowMovesForward` | three reloads: one in force, one in the cell, one overwriting it; two observers can pin two different versions, and make the swap lose one |
| `MCProxy_live` | `DelayedIsSent`, `ReloadLands` | one queue place, which copies and holds compete for |
| `MCProxy_panic` | `NeverPanics` is violated | |
| `MCControlPlane_reload` | `TypeOK`, `PublishedWhole`, `AcknowledgedIsPublished`, `LatestReloadWins`, `DropsExactly`, `StartsWhole`, `IsProxy`, `EveryEndIsReported`, `RequestsAreAnswered` | files that are missing, cannot be built, name a group of the wrong family, or are good; two clients and two reloads overtake each other; bodies that are no TOML, have an operator out of range behind a good one, an empty jitter range, an unknown protocol, and good ones, with a bucket of one token, a loss, and the targets of `drop_seq` and of `gap_burst`, with runs of no number, up to their last one, and past the largest one; packets with a targeted number, another one and none |
| `MCControlPlane_metrics` | `ReadingInRange`, `ReportIsFinal`, `MomentsConsistent` | two packets, lost, sent, copied or refused between the loads of one reading |
| `MCControlPlane_protocol` | `TargetedNeverSent` is violated by a reload | |
| `MCTokenBucket` | `RateIsCapped`, `RefusalsAreDue` | rates 0, 1, 2 and 4, seconds of 3 ticks, in which most rates let a fraction of a packet pass, more than two of them, one reload; every refill is off by a tenth of what a tick is worth, up at rate 4 and down at the others, and neither property would hold without its allowance for that |
| `MCDeterminism_replay` | `UnlimitedRunsReplay`, `OnlyLimitersDiverge`, `SeededIsAllowed` | every stream of three words of two bits; a jitter of three delays, which rejects words; toxics that draw behind one that drops by number, and behind a limiter |
| `MCDeterminism_limited` | `OneSeedOneRun` is violated with a rate limiter | |
| `MCFixFraming` | `CutsTheGrammar`, `FailureDeserved`, `RetainsLessThanAMessage`, `HeaderSaysTheBody`, `FailureSticks` | 274 streams: two messages at the limits (a header that ends where the scan does, a message as long as one may be), every stream that differs from these in one byte, and streams wrong in kind (lengths that are too large or do not fit, repeated and unreadable tags, a cut, a header without end); chunks from a byte to 6, so that a chunk may end inside every field and hold the end of one and the beginning of another |
| `MCFixLink` | `NothingLost`, `BufferIsBounded`, `CleanEndIsComplete`, `FailedEndsAreRight`, `ImplementsStream`, `StreamsFlow` | two messages in three calls against 16 bytes of kernel buffer, a message cut over two calls, a way back of one byte, and a stream that is not FIX; reads of 6 and of 16 bytes |

Bounds: `MaxPackets`, `MaxReloads` and `MaxClock` cap arrivals, publications and idle time
in the guards of `Arrive`, `Publish`, `Post` (with `Posting`, the flows stored or about to
be) and `Tick`. `Tick` goes on past `MaxClock` for as long as a timer waits, so no deadline
is cut off. `SocketCapacity` and `MaxInFlight` are parameters of the system and small enough
to be reached. In `FixFraming`, `MaxChunk` caps a chunk; a larger one is as good as several
in a row with no question asked in between, which `Feed` allows. In `FixLink`, `ReadSizes`
picks some of the sizes that a read may have (the proofs hold for any), `Scripts` are the
calls of `send_raw` and `WireCapacity` the kernel's buffers. `MaxMessageLen`,
`MaxHeaderScan` and `MaxNumber` are parameters: 16,384, 32 and 2^64 - 1 in the code. In
`Determinism`, `WordBits` and `Period` stand for the 64 bits and the endless stream of the
generator.

### Fairness

`Fairness` in `Proxy`: the task goes on when it can (weak fairness of `SwapReload` and of
the end of a send), time passes (weak fairness of `Tick`), and neither branch of `select!`
is passed over for ever when it is ready again and again (strong fairness of `Receive` and
`Expire`): `tokio::select!` without `biased` polls its branches in a random order. Nothing
is assumed of arrivals, reloads, observers or shutdown. Arrivals are bounded, so in a run the
socket is dry in the end; against a socket that never is, `DelayedIsSent` rests on the strong
fairness of `Expire` and is not put to the test.

`ControlFairness` in `ControlPlane`: `main` goes on after its `select!` (`Report`), and the
task of a handler runs on (`Store`, `LoadCounter`, `Answer`). Nothing is asked of the loop,
so `RequestsAreAnswered` says that no request waits for it.

`Fairness` in `FixLink`: a task that receives calls `recv_message` again and again (`Recv`);
it may cancel each call, but the call is polled before that (`Polled`, weakly fair in
`reader` alone); a read that is polled with bytes there yields them, so that it cannot be
passed over for ever by calls that start over (strong fairness of `Yields` and of the ends);
the kernel takes bytes while it has room (`Write`). It is asked of polls and reads alone, not
of what the loop makes of them, and nothing is asked of an end to send, to split, to shut
down or to stay.

### What the violated properties say

- `NeverPanics`: durations of a scenario have no upper limit; `DelayQueue::insert` does.
- `TargetedNeverSent` after a reload: the extractor stays the one of the start-up scenario,
  so `gap-seq.toml` posted to a proxy that runs the quick start's scenario drops nothing.
- `OneSeedOneRun`: the README and the comment on the run report say that a seed replays a
  run. With a rate limiter what passes depends on when packets arrive, and what passes
  decides how many words the toxics behind it draw.

Weaker statements are checked where a stronger one could be expected and is not promised
by the code:

- `StaleBound`, one stale decision after a reload, and not none: the loop looks at the cell
  before it waits in `select!`, so the packet that wakes it is decided by the old flow. And
  more than one after a reload that was lost because an observer held it at the swap.
- `RateIsCapped` and `RefusalsAreDue` up to the rounding of the refills: they are not exact in
  `f64`, and the errors of many refills add up.
- `ReadingInRange`, and not consistency of a whole answer of `/metrics`: a snapshot's loads
  are six moments, and `forwarded` is loaded before `duplicated`, so a reader may see a copy and
  not yet its original. `MomentsConsistent` is what holds of the counters themselves and of
  the run report.
- `DropsExactly` behind toxics that drop or forward, and not behind jitter, which never
  forwards, so that a toxic after it is never asked.
- `UnlimitedRunsReplay` without rate limiters; `OnlyLimitersDiverge` says that nothing else
  tells two runs apart.
- `FailureDeserved` says where a stream may be given up, not with which error: a prefix
  that can become no message is rejected early or late, with the error of the byte or of
  the window, as the chunks happen to end.
- `StreamsFlow` of split connections: a whole one that sends does not receive, and two such
  ends can wait for each other.

## Proofs

The proof modules prove the following for every value of the constants that satisfies the
assumptions of their modules: what the types and the scenario parser guarantee, and that the
error of a refill is no more than what a tick is worth (`ToxicsAssumption`,
`ProxyAssumption`), that a file which `main` accepts names the protocol of the instance
(`ControlPlaneAssumption`), that the limits of the framer are in order (`FramerAssumption`),
and the ranges of the parameters (`FramingAssumption`, `LinkAssumption`, `BucketAssumption`,
`DeterminismAssumption`). Any scenarios, number of packets, reloads, observers, clients,
streams, chunks, buffers, words and roundings are covered. Every
run evaluates the assumptions of the modules it uses.

| Theorem | Says |
|---|---|
| `TypeCorrectness` (`ProxyProofs`) | `Spec => []TypeOK` |
| `MemoryIsBounded` | `Spec => []BoundedMemory` |
| `AtMostOneStaleDecision` | `Spec => []StaleBound`, observers excepted as it says |
| `ReloadsMoveForward` | `Spec => FlowMovesForward` |
| `LatestReloadIsInForce` | `Spec => []LatestReloadWins` if `Observers = {}` |
| `NothingIsSentTwice` | `Spec => []SentAsDecided` |
| `DelaysAreKept` | `Spec => []NotEarly` |
| `DeadlinesAreOrdered` | `Spec => []DeadlineOrder` |
| `ArrivalOrderIsKept` | `Spec => []DirectOrder` |
| `CopiesAreAccountedFor` | `Spec => []CopiesBalance` |
| `HoldsAreAccountedFor` | `Spec => []HoldsBalance` |
| `ProxyIsRelay` | `Spec => ImplementsRelay`, which is the specification of `PacketRelay` |
| `TargetsAreDropped` | `Spec => []DropsExactly` if the protocol is MoldUDP64 and all toxics drop or forward |
| `ProgramIsProxy` (`ControlPlaneProofs`) | `ControlSpec => IsProxy`, which is `Spec` |
| `ReportSaysTheEnd` | `ControlSpec => []ReportIsFinal` |
| `StartIsAllOrNothing` | `ControlSpec => []StartsWhole` |
| `AcknowledgedIsStored` | `ControlSpec => []AcknowledgedIsPublished` |
| `ReloadsAreWhole` | `ControlSpec => []PublishedWhole` |
| `MomentsAreConsistent` | `ControlSpec => []MomentsConsistent` |
| `ReadingsAreInRange` | `ControlSpec => []ReadingInRange` |
| `BucketTypeCorrectness` (`TokenBucketProofs`) | the bucket stays between empty and full |
| `RateLimitHolds` | `Spec => []RateIsCapped`, for any rounding |
| `RefusalsAreJustified` | `Spec => []RefusalsAreDue`, for any rounding |
| `SeedsReplay` (`DeterminismProofs`) | `Spec => []UnlimitedRunsReplay` |
| `OnlyTokensDiverge` | `Spec => OnlyLimitersDiverge` |
| `SeedIsOneOfMany` | `Spec => SeededIsAllowed` |
| `LayoutStable` (`FixFramerProofs`) | what the framer says of a buffer stays when bytes are added |
| `NextMessageKeeps` | a message is exactly the front of the buffer |
| `EndsAreLayout` | the scanner finds a message just where the grammar has one |
| `CutIsLayout` | the messages of the grammar are those the scanner finds, one after the other |
| `NextMessageCuts` | one call yields the first of them, waits while there is none, or fails when there will never be one |
| `HeaderIsOfTheBody` | a header field is that of the last field of its tag in the body |
| `CutGrows` | more bytes change no message that is complete |
| `RetentionIsBounded` (`FixFramingProofs`) | `Spec => []RetainsLessThanAMessage` |
| `FailureIsFinal` | `Spec => FailureSticks` |
| `GrammarIsCut` | `Spec => []CutsTheGrammar` |
| `FailureIsDeserved` | `Spec => []FailureDeserved` |
| `HeadersAreOfTheBody` | `Spec => []HeaderSaysTheBody` |
| `LinkTypeCorrectness` (`FixLinkProofs`) | `Spec => []TypeOK` |
| `ConnectionIsBounded` | `Spec => []BufferIsBounded` |
| `BytesArriveOnceInOrder` | `Spec => []NothingLost` |
| `CleanEndsAreComplete` | `Spec => []CleanEndIsComplete` |
| `FailedEnds` | `Spec => []FailedEndsAreRight` |
| `ConnectionIsTwoStreams` | `Spec => ImplementsStream`, two specifications of `MessageStream` |

**Types and the cap (`ProxyProofs`).** The inductive invariant is
`TypeInv == TypeOK /\ Bounded`. `BoundedMemory` alone is not inductive: the cardinality of a
set says something only if the set is finite, so `Bounded` adds that the queue is.
`EnqueueType` shows that `Enqueue` keeps it. The types rest on lemmas about the toxics, from
the bottom up: `EarnedType` and `RefilledType` (the bucket is a natural number whatever the arrival times),
`RateLimiterAfterType` (a payment never makes it negative), `ToxicAfterType`,
`ToxicEffectsType`, `DecideType`.

**Reloads (`ProxyProofs`).** `ReloadInv` strengthens `StaleBound`: the flow in force is not
newer than the last one published, a flow in the cell is exactly the last one published,
decisions are counted only while a flow waits in the cell, and none has been made by the old
flow whenever the loop is in `select!`. The third part holds because a swap either puts the
flow in force or finds it with an observer. The last part is needed because `StaleBound`
alone lets a second decision follow the first; it holds since the only way into `select!` is
through `SwapReload`, and the only decision is made there. `OnlySwapChangesVersion` gives
`ReloadsMoveForward`. `LatestReloadIsInForce` needs `Observers = {}`: an observer that pins
the flow in the cell makes the swap lose it.

**Packets (`ProxyProofs`).** None of the delivery properties is inductive: each speaks of
what was sent and says nothing of what may still be sent. `LifeInv` ties the verdict of a
packet to the place it is in: waiting, in hand, or neither, never in two places, and with the
sends behind it that this place implies. It is inductive because a packet taken from the
socket is new (`IncomingIsNew`, by the order of the socket in `OrderInv`). `TimeInv` adds the
deadlines: a delayed packet that has left was due, and nothing that still waits is due before
it, for `NextExpired` takes the earliest. `OrderInv` adds that two packets that are not
delayed are never on their way at once: the later one is in hand only after the first send
of the earlier one. The counters are the sums of what these places hold, and `BalanceInv` is
inductive beside them, with one cardinality moving per step. `ProxyIsRelay` follows the
actions: a receive is a `TakeIn`, the end of a send an `Emit`, the end of the task `GoDown`, and reloads, arrivals, time and observers stutter; the
mapped `owed` is rewritten as a function of queue and hand (`Owes`) whose value moves for one
packet at a time. `TargetsAreDropped` needs that every toxic drops or forwards: behind a
jitter or a duplicator a toxic may never be asked.

**The program (`ControlPlaneProofs`).** `HandlerInv` says that a handler about to store
holds one of the posted bodies; hence what it stores is built from a scenario and `Store` is
a step of `Publish`. With `ProgramIsProxy` every theorem about `Spec` holds of the program.
`ReportInv` adds to `ReportIsFinal` that the `select!` has ended only once the loop is gone
and that there is a report only then, since nothing moves the counters after it.
`StartInv` adds to `StartsWhole` that `main` gets past its configuration only with a usable
scenario in the file. `LogInv` gives `published` its meaning, the length of the log, and
says of every acknowledgement that its version is an entry of the log, made of its body, and
nobody else's; a version given out is never given out again because the log only grows.

**The counters (`ControlPlaneProofs`).** `ReadingInRange` needs to know of the counters that
a reader has yet to load: `ReadingInv` says that each was, at the request, at most what it
is now, and that those loaded lie between. A load adds one counter, and the loop only counts
up (`CountersGrow`).
For `MomentsConsistent` what it says of the counters (`Consistent`) is inductive beside the
types: a copy is counted in the step that counts the send of its original (`Sent`), and no
step takes a counter back. It holds of the report because a report is one of the moments,
by `ReportInv`.

**The rate limiter (`TokenBucketProofs`).** `RateIsCapped` is no invariant by itself: a
bucket could be fuller than what passed allows. `Inv` counts the bucket's level (`Level`,
what it would hold if a packet came now and the refill were exact) as if it had passed
already, against `Paid`, what the count allows with its refills. Time raises the level by at
most the rate, an arrival moves a packet from the level to the count and adds at most an
error, a reload adds one bucket. For `RefusalsAreDue` it bounds the bucket from below: it
holds at least `Due`, a full bucket and the time since it was full less the errors of the
refills, minus what passed. `EarnedFacts` and `RefilledFacts` are all the proof knows of
`Rounding`: an error is bounded, and a refill never takes tokens away.

**Recursion.** The models define sums, cursors and cuts by recursive functions. That such a
function has the value its definition says is itself to be proved: the definition chooses a
function, and there must be one to choose. `Recursion` shows that there is, for any number of
steps; `Induction` and `Descent` are stated over sets, so that the provers can instantiate
them. The lemmas named `...Unfolds` and `...Facts` apply them once to each function
(`Positions`, `Power`, `Tens`, `Values`, `Cut`, `ParseHeader`, `Flat`); the proofs use
nothing else of the recursion.

**Replay (`DeterminismProofs`).** Without a rate limiter `Decision` does not look at the
time of a packet: neither the answers nor the number of words nor what the toxics become
depend on it. Hence the two runs keep the same toxics, cursor and effects, and the invariant
says so. For `OnlyTokensDiverge` the two flows are `Alike`: the same toxics but for what the
limiters hold. As long as every limiter has a token in both runs or in neither, all answers
and all cursors are the same (`AlikeAnswer`), and the flows stay alike. For `SeedIsOneOfMany` the
words that a decision takes are turned into draws, toxic by toxic, and the flow of
`Determinism` into that of `Toxics`. Every draw exists, since a stream has a word that every
zone accepts, and lies in its range, which rests on the sizes of the powers of two.

**Framing (`FixFramerProofs`, `FixFramingProofs`).** `LayoutSees` says that a buffer on
which the framer waits is shorter than the largest message: the scan gives up at its window,
and a body is waited for only if the whole fits. `LayoutStable` is the reason why framing
does not depend on chunks: a message or a failure found in a buffer is found in every longer
one (a failure perhaps as another error). `NextMessageKeeps` says that the bytes of a
message and the new buffer make up the old one. The invariant of `FixFraming` adds that the
errors answered are those that the framer is failed with.

That framing is right, and not only the same for all chunks, is `GrammarIsCut`. `Shape` says
of a buffer where its header fields and its trailer lie, without a scan. `SplitsShape` takes
the grammar to it and `ShapeIsFramed` and `FramedIsShape` the scanner, which meets the
same offsets since the first separator is where a scan stops; `SaysIsParsed` does the same
for the body length, whose digits are parsed from the left and read by the grammar from the
right. Hence `EndsAreLayout`, by `Descent` over the offsets `CutIsLayout`, and
`NextMessageCuts`. The invariant `YieldsTheCut` speaks of every way the stream may go on:
its messages are those yielded and then those of what the framer holds, or none after a
failure. `CutsTheGrammar` and `FailureDeserved` are what it says of the stream at hand.
For the header `TellsTheLast` says what the fields read so far determine, offset by offset.

**The connection (`FixLinkProofs`).** `FramedKeeps` carries the framer's lemmas into the
receive loop. `NothingLost` is inductive beside `TypeOK`, by associativity of concatenation:
a read moves bytes from the wire to the buffer, a message from the buffer to what was taken,
a write from the call to the wire, and a cancellation or a split moves nothing. For
`CleanEndIsComplete` `EndInv` says that after a clean end nothing is left in the buffer or on
the wire and that the closed side has nothing pending; it needs that a receiver that waits
has not failed, as a failed framer has thrown bytes away.

`StreamInv` joins the bytes to the messages, again for every way the stream may go on:
what was taken consists of the messages received (`TookTheMessages`), a stream that was given
up has no other (`GaveUpRightly`), a receiver that waits has looked at all it holds, and each
outcome is true of the stream (`OutcomeIsTrue`). That last part also says that nothing
comes after an outcome: not after a clean or a cut end, as the wire is empty and the
buffer looked at, nor after a failure. `ConnectionIsTwoStreams` then follows the actions:
a message is a `Deliver`, because what is received is a prefix of what is offered; a write
an `Offer`, by `CutGrows`; the end of a stream an `EndCleanly` or a `Fail`; a shutdown or a
drop a `Finish` to one side and at most a `Break` to the other. Both directions are
instances of one argument (`StreamTo`).

What stays with TLC: liveness (`DelayedIsSent`, `ReloadLands`, `EveryEndIsReported`,
`RequestsAreAnswered`, `StreamsFlow`), and the runs that expect a violation. Every invariant,
action property and refinement of the other runs is a theorem.

## Not modelled

- Payloads, addresses, the set-up of sockets beyond that it may fail, logging, the wording
  of errors, `nodelay` and `peer_addr`, which only report.
- The values of probabilities beyond 0, 1 and between (one half in `Determinism`), and the
  generator behind the PRNG's words.
- `f64` beyond a bounded error in each refill of the rate limiter.
- HTTP and TOML syntax, the command line, the rendering of the run report, which cannot fail
  for its fields.
- The wrap-around of the counters at 2^64.
- The value of a FIX checksum, which the framer does not check either.
- Benchmarks, the latency example, CI: they measure and build, and hold no logic of the
  program.

## Plan

1. Done: `Toxics`, `Proxy`, `PacketRelay`, `MCProxy`, `ProxyProofs`.
2. Done: `Scenario` and `ControlPlane`, composed with `Proxy`, from the start of the program
   to its report.
3. Done: `TokenBucket`, and `Determinism` with its two runs of one seed.
4. Done: `FixFramer`, `FixGrammar`, `FixFraming`, `FixLink`, `MessageStream`.
5. Done: packet accounting, order and the refinement of `PacketRelay`, in `ProxyProofs`.
6. Done: the counters and their readings, the replay of a seed, the grammar of FIX messages
   and the refinement of `MessageStream`.

-------------------------------- MODULE Proxy --------------------------------
(***************************************************************************)
(* The data plane: Proxy::run (src/backgrounds/proxy.rs), one task that    *)
(* loops over                                                              *)
(*   - taking a replacement flow out of the reload cell,                   *)
(*   - tokio::select! between the socket and the delay queue,              *)
(*   - awaiting the send of the packet in hand.                            *)
(* Around it run, concurrently, the network that fills the socket, the     *)
(* clock, the control plane that publishes flows into the reload cell,     *)
(* other holders of the reload handle, and main, which drops the task on   *)
(* shutdown.  Nothing else can happen while the task computes, so an       *)
(* action is what the code does from one await to the next.                *)
(***************************************************************************)
EXTENDS Toxics

CONSTANTS
  Headers,         \* headers of arriving packets, see Extract
  Protocol,        \* "moldudp64" or "none"
  Scenarios,       \* the flows a scenario can build, sequences of toxics
  MaxInFlight,     \* max_in_flight: cap on the delay queue
  MaxTimeout,      \* the longest timeout DelayQueue::insert takes
  SocketCapacity,  \* packets the kernel's receive buffer holds
  Observers,       \* holders of a reload handle that load() it
  MaxPackets,      \* bound: packets that arrive
  MaxReloads,      \* bound: flows published
  MaxClock         \* bound: see Tick

PacketIds == 1 .. MaxPackets

ASSUME ProxyAssumption ==
  /\ Headers \subseteq Option(SeqNums)
  /\ Protocol \in {"none", "moldudp64"}
  /\ Scenarios \subseteq Seq(Toxic)
  /\ MaxInFlight \in Nat \ {0}
  /\ MaxTimeout \in Nat
  /\ SocketCapacity \in Nat
  /\ MaxPackets \in Nat
  /\ MaxReloads \in Nat
  /\ MaxClock \in Nat

VARIABLES
  clock,       \* Instant::now()
  socket,      \* datagrams in the kernel's receive buffer
  arrived,     \* number of datagrams that reached the host
  pc,          \* where the task is in the loop of run
  flow,        \* self.flow and the version it was published as
  reload,      \* self.reload, the ArcSwapOption<Flow>
  guards,      \* version of the published flow that each observer holds
  published,   \* version of the last flow stored in the reload cell
  delayQueue,  \* the DelayQueue, a local of run
  job,         \* Option: the send being awaited and what follows it
  stats,       \* the counters of Stats
  verdict,     \* history: what was decided about each packet
  attempts,    \* history: how often each packet was handed to send
  abandoned,   \* history: copies lost with the task
  lag          \* history, Option: decisions taken since a flow was published
               \* that is still to come into force

envVars  == <<clock, socket, arrived>>
cellVars == <<reload, guards, published>>
history  == <<verdict, attempts, abandoned, lag>>
vars     == <<clock, socket, arrived, pc, flow, reload, guards, published,
              delayQueue, job, stats, verdict, attempts, abandoned, lag>>

-----------------------------------------------------------------------------

Counters == {"forwarded", "dropped", "delayed", "duplicated", "send_errors",
             "queue_overflows"}

Datagram == [id : PacketIds, header : Option(SeqNums)]
Flow     == [version : 0 .. MaxReloads, toxics : Seq(Toxic)]
Entry    == [packet : Packet, due : Nat]
Job      == [packet : Packet, copyAfter : Option(Nat)]
Verdict  == [kind : Kinds \cup {"none"}, due : Nat, targeted : BOOLEAN, lossy : BOOLEAN]

Running == pc \in {"reload", "select", "send"}

Count(s, counter) == [s EXCEPT ![counter] = @ + 1]

-----------------------------------------------------------------------------

Init ==
  /\ clock = 0
  /\ socket = <<>>
  /\ arrived = 0
  /\ pc = "reload"
  /\ flow \in [version : {0}, toxics : Scenarios]
  /\ reload = {}
  /\ guards = [o \in Observers |-> {}]
  /\ published = 0
  /\ delayQueue = {}
  /\ job = {}
  /\ stats = [c \in Counters |-> 0]
  /\ verdict = [id \in PacketIds |-> [kind |-> "none", due |-> 0, targeted |-> FALSE, lossy |-> FALSE]]
  /\ attempts = [id \in PacketIds |-> 0]
  /\ abandoned = 0
  /\ lag = {}

-----------------------------------------------------------------------------
(* The top of the loop.  Arc::try_unwrap fails while somebody else holds   *)
(* the flow that was swapped out; that flow is then dropped.               *)

Shared(f) == \E o \in Observers : guards[o] = {f.version}

\* Mutant: the flow in force is moved out before the new one is unwrapped.
AdoptedOrNone ==
  IF \E f \in reload : Shared(f) THEN {[version |-> 0, toxics |-> <<>>]}
  ELSE IF reload = {} THEN {flow} ELSE reload

\* Mutant: a new flow is only taken up while no packet is delayed.
AdoptedWhenIdle ==
  IF delayQueue = {} /\ \E f \in reload : ~Shared(f) THEN reload ELSE {flow}

Adopted == IF \E f \in reload : ~Shared(f) THEN reload ELSE {flow}

SwapReload ==
  /\ pc = "reload"
  /\ pc' = "select"
  /\ flow' \in Adopted
  /\ reload' = {}
  /\ lag' = IF flow'.version = published \/ (\E f \in reload : Shared(f)) THEN {} ELSE lag
  /\ UNCHANGED <<envVars, guards, published, delayQueue, job, stats,
                 verdict, attempts, abandoned>>

-----------------------------------------------------------------------------
(* enqueue: at the cap the packet is counted and let go; a timeout beyond  *)
(* what the delay queue supports panics.                                   *)

\* Mutant: the cap is off by one.
HasRoomForOneMore == Cardinality(delayQueue) <= MaxInFlight

HasRoom == Cardinality(delayQueue) < MaxInFlight
Panics(after) == HasRoom /\ after > MaxTimeout

\* Mutant: at the cap the new packet takes the place of the others.
EnqueueEvicts(p, after) ==
  (IF HasRoom THEN delayQueue ELSE {}) \cup {[packet |-> p, due |-> clock + after]}

\* Mutant: the deadline counts from the start of the queue.
EnqueueRelative(p, after) ==
  IF HasRoom THEN delayQueue \cup {[packet |-> p, due |-> after]} ELSE delayQueue

Enqueue(p, after) ==
  IF HasRoom THEN delayQueue \cup {[packet |-> p, due |-> clock + after]} ELSE delayQueue

\* Mutant: the caller ignores that enqueue refused the packet.
CountsAnyway(s, counter) == Count(s, counter)

\* Mutant: a refused packet is not counted.
CountsNoOverflow(s, counter) == IF HasRoom THEN Count(s, counter) ELSE s

CountEnqueue(s, counter) == Count(s, IF HasRoom THEN counter ELSE "queue_overflows")

\* The end of the task, however it comes about, drops its locals.
Halt(how) ==
  /\ pc' = how
  /\ delayQueue' = {}
  /\ job' = {}
  /\ abandoned' = abandoned + Cardinality(delayQueue) + Cardinality(job)

-----------------------------------------------------------------------------
(* The first branch of select!: a packet was received and is decided on.   *)

Received == [id |-> Head(socket).id, seqnum |-> {}, received_at |-> clock]
Incoming == [Received EXCEPT !.seqnum = Extract(Protocol, Head(socket).header)]

\* Mutant: a forwarded packet takes the way of a delayed one.
OnForwardQueued(e) ==
  /\ e.kind = "forward"
  /\ delayQueue' = Enqueue(Incoming, 0)
  /\ pc' = "reload"
  /\ UNCHANGED <<job, stats, abandoned>>

OnForward(e) ==
  /\ e.kind = "forward"
  /\ job' = {[packet |-> Incoming, copyAfter |-> {}]}
  /\ pc' = "send"
  /\ UNCHANGED <<delayQueue, stats, abandoned>>

\* Mutant: the loop goes on without a look at the reload cell.
OnDropContinues(e) ==
  /\ e.kind = "drop"
  /\ stats' = Count(stats, "dropped")
  /\ pc' = "select"
  /\ UNCHANGED <<delayQueue, job, abandoned>>

OnDrop(e) ==
  /\ e.kind = "drop"
  /\ stats' = Count(stats, "dropped")
  /\ pc' = "reload"
  /\ UNCHANGED <<delayQueue, job, abandoned>>

OnDelay(e) ==
  /\ e.kind = "delay"
  /\ ~Panics(e.after)
  /\ delayQueue' = Enqueue(Incoming, e.after)
  /\ stats' = CountEnqueue(stats, "delayed")
  /\ pc' = "reload"
  /\ UNCHANGED <<job, abandoned>>

\* DelayQueue::insert panics; the packet it was given is lost with the task.
OnOversizedDelay(e) ==
  /\ e.kind = "delay"
  /\ Panics(e.after)
  /\ Halt("panicked")
  /\ UNCHANGED stats

\* Mutant: the copy is queued before its original is sent.
OnDuplicateEager(e) ==
  /\ e.kind = "duplicate"
  /\ job' = {[packet |-> Incoming, copyAfter |-> {}]}
  /\ delayQueue' = Enqueue(Incoming, e.after)
  /\ stats' = CountEnqueue(stats, "duplicated")
  /\ pc' = "send"
  /\ UNCHANGED abandoned

OnDuplicate(e) ==
  /\ e.kind = "duplicate"
  /\ job' = {[packet |-> Incoming, copyAfter |-> {e.after}]}
  /\ pc' = "send"
  /\ UNCHANGED <<delayQueue, stats, abandoned>>

Receive ==
  /\ pc = "select"
  /\ socket # <<>>
  /\ socket' = Tail(socket)
  /\ \E d \in Decide(flow.toxics, Incoming) :
       /\ flow' = [flow EXCEPT !.toxics = d.toxics]
       /\ verdict' = [verdict EXCEPT ![Incoming.id] =
                        [kind     |-> d.effect.kind,
                         due      |-> clock + d.effect.after,
                         targeted |-> TargetedBy(flow.toxics, Head(socket).header),
                         lossy    |-> Lossy(flow.toxics)]]
       /\ \/ OnForward(d.effect)
          \/ OnDrop(d.effect)
          \/ OnDelay(d.effect)
          \/ OnOversizedDelay(d.effect)
          \/ OnDuplicate(d.effect)
  /\ lag' = {n + 1 : n \in lag}
  /\ UNCHANGED <<clock, arrived, cellVars, attempts>>

\* received?: an error of recv ends the loop, and the delayed packets with it.
ReceiveFails ==
  /\ pc = "select"
  /\ Halt("stopped")
  /\ UNCHANGED <<envVars, flow, cellVars, stats, verdict, attempts, lag>>

-----------------------------------------------------------------------------
(* The second branch: a timer fired.  The queue yields entries in the      *)
(* order of their deadlines, and those of one deadline in any order.       *)

NextExpired == {e \in delayQueue : e.due <= clock /\ \A x \in delayQueue : e.due <= x.due}

Expire ==
  /\ pc = "select"
  /\ \E e \in NextExpired :
       /\ delayQueue' = delayQueue \ {e}
       /\ job' = {[packet |-> e.packet, copyAfter |-> {}]}
  /\ pc' = "send"
  /\ UNCHANGED <<envVars, flow, cellVars, stats, history>>

-----------------------------------------------------------------------------
(* send_and_count, and the copy that follows the send of a duplicate.      *)

Sent(j, outcome) ==
  /\ pc' = "reload"
  /\ job' = {}
  /\ attempts' = [attempts EXCEPT ![j.packet.id] = @ + 1]
  /\ IF j.copyAfter = {}
     THEN /\ stats' = Count(stats, outcome)
          /\ UNCHANGED delayQueue
     ELSE /\ stats' = CountEnqueue(Count(stats, outcome), "duplicated")
          /\ \E after \in j.copyAfter : delayQueue' = Enqueue(j.packet, after)
  /\ UNCHANGED <<envVars, flow, cellVars, verdict, abandoned, lag>>

SendSucceeds == pc = "send" /\ \E j \in job : Sent(j, "forwarded")

SendFails    == pc = "send" /\ \E j \in job : Sent(j, "send_errors")

-----------------------------------------------------------------------------
(* The environment of the task.                                            *)

\* A full receive buffer loses the datagram before the proxy sees it.
Arrive ==
  /\ Running
  /\ arrived < MaxPackets
  /\ arrived' = arrived + 1
  /\ \E h \in Headers :
       socket' = IF Len(socket) < SocketCapacity
                 THEN Append(socket, [id |-> arrived + 1, header |-> h])
                 ELSE socket
  /\ UNCHANGED <<clock, pc, flow, cellVars, delayQueue, job, stats, history>>

\* Past MaxClock time still runs for as long as some timer waits for it.
Tick ==
  /\ Running
  /\ clock < MaxClock \/ \E e \in delayQueue : clock < e.due
  /\ clock' = clock + 1
  /\ UNCHANGED <<socket, arrived, pc, flow, cellVars, delayQueue, job, stats, history>>

\* Mutant: a flow that still waits in the cell is not replaced.
PublishFlowYields(toxics) ==
  /\ Running
  /\ published < MaxReloads
  /\ published' = published + 1
  /\ reload' = IF reload = {} THEN {[version |-> published + 1, toxics |-> toxics]} ELSE reload
  /\ lag' = IF lag = {} THEN {0} ELSE lag
  /\ UNCHANGED <<envVars, pc, flow, guards, delayQueue, job, stats, verdict, attempts, abandoned>>

\* The control plane stores a flow it built from a scenario.
PublishFlow(toxics) ==
  /\ Running
  /\ published < MaxReloads
  /\ published' = published + 1
  /\ reload' = {[version |-> published + 1, toxics |-> toxics]}
  /\ lag' = IF lag = {} THEN {0} ELSE lag
  /\ UNCHANGED <<envVars, pc, flow, guards, delayQueue, job, stats, verdict, attempts, abandoned>>

Publish == \E toxics \in Scenarios : PublishFlow(toxics)

Load(o) ==
  /\ Running
  /\ guards[o] = {}
  /\ \E f \in reload : guards' = [guards EXCEPT ![o] = {f.version}]
  /\ UNCHANGED <<envVars, pc, flow, reload, published, delayQueue, job, stats, history>>

Release(o) ==
  /\ Running
  /\ guards[o] # {}
  /\ guards' = [guards EXCEPT ![o] = {}]
  /\ UNCHANGED <<envVars, pc, flow, reload, published, delayQueue, job, stats, history>>

\* main drops the future of run at one of its awaits.
Cancel ==
  /\ pc \in {"select", "send"}
  /\ Halt("stopped")
  /\ UNCHANGED <<envVars, flow, cellVars, stats, verdict, attempts, lag>>

Halted ==
  /\ ~Running
  /\ UNCHANGED vars

Loop == SwapReload \/ Receive \/ ReceiveFails \/ Expire \/ SendSucceeds \/ SendFails

Environment == Arrive \/ Tick \/ Publish \/ (\E o \in Observers : Load(o) \/ Release(o)) \/ Cancel

Next == Loop \/ Environment \/ Halted

Spec == Init /\ [][Next]_vars

\* select! polls its branches in a random order, so neither of two ready
\* branches is passed over for ever; a send of a datagram completes.
Fairness ==
  /\ WF_vars(SwapReload)
  /\ SF_vars(Receive)
  /\ SF_vars(Expire)
  /\ WF_vars(SendSucceeds \/ SendFails)
  /\ WF_vars(Tick)

FairSpec == Spec /\ Fairness

-----------------------------------------------------------------------------
(* Properties.                                                             *)

\* Type invariant.
TypeOK ==
  /\ clock \in Nat
  /\ socket \in Seq(Datagram)
  /\ arrived \in 0 .. MaxPackets
  /\ pc \in {"reload", "select", "send", "stopped", "panicked"}
  /\ flow \in Flow
  /\ reload \in Option(Flow)
  /\ guards \in [Observers -> Option(0 .. MaxReloads)]
  /\ published \in 0 .. MaxReloads
  /\ delayQueue \in SUBSET Entry
  /\ job \in Option(Job)
  /\ stats \in [Counters -> Nat]
  /\ verdict \in [PacketIds -> Verdict]
  /\ attempts \in [PacketIds -> Nat]
  /\ abandoned \in Nat
  /\ lag \in Option(Nat)

Decided(kind) == Cardinality({id \in PacketIds : verdict[id].kind = kind})
PendingCopies == Cardinality({j \in job : j.copyAfter # {}})

\* What is due to be sent is sent, counted as failed, in hand, waiting, or
\* lost with the task: no interleaving of timers, arrivals, overflows and
\* sends leaks or invents a copy that the counters do not show.
CopiesBalance ==
  stats.forwarded + stats.send_errors + Cardinality(delayQueue) + Cardinality(job) + abandoned
    = Decided("forward") + Decided("duplicate") + stats.delayed + stats.duplicated

\* While the task runs every DelayBy and every DuplicateAfter is counted
\* exactly once, as admitted to the delay queue or as an overflow, except
\* the copy whose original is still being sent; and every Drop is counted.
HoldsBalance ==
  Running =>
    /\ stats.delayed + stats.duplicated + stats.queue_overflows + PendingCopies
         = Decided("delay") + Decided("duplicate")
    /\ stats.dropped = Decided("drop")

\* The delay queue never holds more than max_in_flight packets, whatever mix
\* of delays and duplicates fills it.
BoundedMemory == Cardinality(delayQueue) <= MaxInFlight

Owed(kind) ==
  CASE kind \in {"forward", "delay"} -> 1
    [] kind = "duplicate"           -> 2
    [] OTHER                        -> 0

Waiting(id) == Cardinality({e \in delayQueue : e.packet.id = id})
InHand(id)  == Cardinality({j \in job : j.packet.id = id})

\* Over its whole life a packet is handed to the transport as often as its
\* verdict says and no more (a dropped one never, a duplicated one twice),
\* and a copy waits only after its original went out.
SentAsDecided ==
  \A id \in PacketIds :
    /\ attempts[id] + Waiting(id) + InHand(id) <= Owed(verdict[id].kind)
    /\ verdict[id].kind = "duplicate" /\ Waiting(id) > 0 => attempts[id] = 1

\* A delayed packet is not sent before its delay is over.
NotEarly ==
  \A id \in PacketIds :
    verdict[id].kind = "delay" /\ attempts[id] + InHand(id) > 0 => verdict[id].due <= clock

\* Time-shifted packets leave in the order of their deadlines: nothing still
\* waiting was due before a delayed packet that already left.
DeadlineOrder ==
  \A e \in delayQueue, id \in PacketIds :
    verdict[id].kind = "delay" /\ attempts[id] + InHand(id) > 0 => verdict[id].due <= e.due

\* Packets that are not time-shifted leave in the order they arrived in: an
\* earlier one has been handed to send before a later one is.
DirectOrder ==
  \A i, k \in PacketIds :
    /\ i < k
    /\ {verdict[i].kind, verdict[k].kind} \subseteq {"forward", "duplicate"}
    /\ attempts[k] + InHand(k) > 0
    => attempts[i] > 0

\* Once a flow has been published the one it replaces decides no more than
\* one packet, with one exception: an observer that holds the published flow
\* at the swap makes the swap lose it, and the old flow goes on.
StaleBound == \A n \in lag : n <= 1

\* With nobody else holding on to published flows, an empty cell means that
\* the flow in force is the one published last; none is lost or overtaken.
LatestReloadWins == reload = {} => flow.version = published

\* Reloads are never undone: the flow in force only moves to a later one.
FlowMovesForward == [][flow'.version >= flow.version]_vars

\* A packet with a sequence number that the drop_seq and gap_burst toxics in
\* force target is never sent, whatever the toxics in front of them.
TargetedNeverSent ==
  \A id \in PacketIds : verdict[id].targeted => attempts[id] + InHand(id) = 0

\* Behind toxics that only forward or drop, a targeted packet is dropped,
\* and a packet with another number or none passes untouched unless a loss
\* or a rate limiter takes it, whatever flow was reloaded before it came.
DropsExactly ==
  \A id \in PacketIds :
    verdict[id].kind # "none" =>
      /\ verdict[id].targeted => verdict[id].kind = "drop"
      /\ verdict[id].kind = "drop" => verdict[id].targeted \/ verdict[id].lossy

\* The hot path does not panic.
NeverPanics == pc # "panicked"

\* A packet in the delay queue is eventually sent, unless the task ends.
DelayedIsSent ==
  \A id \in PacketIds : \A n \in 0 .. 1 :
    (Waiting(id) > 0 /\ attempts[id] = n) ~> (attempts[id] > n \/ ~Running)

\* A published flow, or one published after it, comes into force if the loop
\* has anything left to do: it is not parked, or a packet or a timer is there
\* to wake it.
ReloadLands ==
  \A v \in 1 .. MaxReloads :
    (published >= v /\ (pc # "select" \/ socket # <<>> \/ delayQueue # {}))
      ~> (flow.version >= v \/ ~Running)

-----------------------------------------------------------------------------
(* The relay that the proxy implements.                                    *)

Taken    == {id \in PacketIds : verdict[id].kind # "none"}
Sends(j) == 1 + Cardinality(j.copyAfter)
OwedNow  == [id \in PacketIds |->
               Waiting(id) + (IF \E j \in job : j.packet.id = id
                              THEN Sends(CHOOSE j \in job : TRUE) ELSE 0)]

Relay == INSTANCE PacketRelay
           WITH Ids <- PacketIds, Capacity <- MaxInFlight,
                taken <- Taken, owed <- OwedNow, sent <- attempts, up <- Running

\* The proxy implements PacketRelay: no reload, timer, overflow or failed
\* send makes it send a packet once too often, forget one that it holds
\* while it runs, hold more than it may or send after its end.
ImplementsRelay == Relay!Spec

=============================================================================

----------------------------- MODULE ProxyProofs -----------------------------
(***************************************************************************)
(* What TLAPS proves about Proxy, for every scenario, limit, number of     *)
(* packets, reloads and observers: its types and queue, how often, when    *)
(* and in which order packets are sent, that the counters account for      *)
(* every one of them, and that the proxy implements PacketRelay.           *)
(***************************************************************************)
EXTENDS Proxy, FiniteSetTheorems, TLAPS

-----------------------------------------------------------------------------
(* The toxics: what a decision returns is well typed.                      *)

\* A refill is off by less than what a tick is worth, so it takes nothing.
LEMMA EarnedType ==
  ASSUME NEW t \in RateLimiters, NEW elapsed \in Nat
  PROVE  Earned(t, elapsed) \in Nat
<1> DEFINE cap   == t.capacity
           error == RoundingError(t, elapsed)
<1>1. /\ cap \in Nat /\ Grain \in Nat /\ MaxError \in Nat /\ MaxError <= Grain
  BY ToxicsAssumption DEF RateLimiters
<1>2. error \in Int /\ error >= -(MaxError * cap)
  <2>1. MaxError * cap \in Nat
    BY <1>1
  <2> QED
    BY <2>1 DEF RoundingError
<1> HIDE DEF cap, error
<1>3. CASE elapsed = 0
  BY <1>3 DEF Earned
<1>4. CASE elapsed # 0
  <2>1. /\ elapsed * cap * Grain = cap * Grain + (elapsed - 1) * cap * Grain
        /\ (elapsed - 1) * cap * Grain \in Nat
    <3>1. (elapsed - 1) * cap \in Nat /\ elapsed * cap = cap + (elapsed - 1) * cap
      BY <1>1, <1>4
    <3>2. \A m, n \in Nat : (m + n) * Grain = m * Grain + n * Grain /\ n * Grain \in Nat
      BY <1>1
    <3> QED
      BY <1>1, <3>1, <3>2
  <2>2. cap * Grain = MaxError * cap + cap * (Grain - MaxError) /\ cap * (Grain - MaxError) \in Nat
    BY <1>1
  <2>3. Earned(t, elapsed) = elapsed * cap * Grain + error
    BY <1>4 DEF Earned, cap, error
  <2>4. MaxError * cap \in Nat
    BY <1>1
  <2> QED
    BY <1>1, <1>2, <2>1, <2>2, <2>3, <2>4
<1> QED
  BY <1>3, <1>4

\* Refilling a bucket, where the product of two naturals is a natural.
LEMMA RefilledType ==
  ASSUME NEW t \in RateLimiters, NEW p \in Packet
  PROVE  Refilled(t, p) \in Nat
<1>1. /\ t.capacity \in Nat
      /\ t.tokens \in Nat
      /\ p.received_at \in Nat
      /\ Token \in Nat
  BY ToxicsAssumption DEF RateLimiters, Packet, Token
<1>2. t.capacity * Token \in Nat
  BY <1>1
<1>3. CASE t.last_refill = {}
  BY <1>2, <1>3 DEF Refilled
<1>4. CASE t.last_refill # {}
  <2>1. (CHOOSE at \in t.last_refill : TRUE) \in Nat
    BY <1>4 DEF RateLimiters, Option
  <2>2. Elapsed(t, p) \in Nat
    BY <1>1, <2>1 DEF Elapsed
  <2>3. Earned(t, Elapsed(t, p)) \in Nat
    BY <2>2, EarnedType
  <2> QED
    BY <1>1, <1>2, <1>4, <2>3 DEF Refilled, MinOf
<1> QED
  BY <1>3, <1>4

\* A consulted rate limiter is a rate limiter: it pays only what it has.
LEMMA RateLimiterAfterType ==
  ASSUME NEW t \in RateLimiters, NEW p \in Packet
  PROVE  RateLimiterAfter(t, p) \in RateLimiters
<1>1. Refilled(t, p) \in Nat
  BY RefilledType
<1> DEFINE paid == Refilled(t, p) - (IF HasToken(t, p) THEN Token ELSE 0)
<1>2. paid \in Nat
  BY <1>1, ToxicsAssumption DEF HasToken, Token
<1>3. {p.received_at} \in Option(Nat)
  BY DEF Packet, Option
<1>4. RateLimiterAfter(t, p) = [t EXCEPT !.tokens = paid, !.last_refill = {p.received_at}]
  BY DEF RateLimiterAfter
<1> HIDE DEF paid
<1> QED
  BY <1>2, <1>3, <1>4 DEF RateLimiters

\* Being consulted leaves a toxic a toxic.
LEMMA ToxicAfterType ==
  ASSUME NEW t \in Toxic, NEW p \in Packet
  PROVE  ToxicAfter(t, p) \in Toxic
<1>1. CASE t.type = "rate_limit"
  <2>1. t \in RateLimiters
    BY <1>1 DEF Toxic, Droppers, Duplicators, JitterDelays, Reorderers, DropSeqs, GapBursts
  <2> QED
    BY <1>1, <2>1, RateLimiterAfterType DEF ToxicAfter, Toxic
<1>2. CASE t.type # "rate_limit"
  BY <1>2 DEF ToxicAfter
<1> QED
  BY <1>1, <1>2

\* Every toxic answers with an effect.
LEMMA ToxicEffectsType ==
  ASSUME NEW t \in Toxic, NEW p \in Packet
  PROVE  ToxicEffects(t, p) \subseteq Effects
<1>1. Forward \in Effects /\ Drop \in Effects
  BY DEF Forward, Drop, Effects, Kinds
<1>2. \A d \in Nat : DelayBy(d) \in Effects /\ DuplicateAfter(d) \in Effects
  BY DEF DelayBy, DuplicateAfter, Effects, Kinds
<1>3. CASE t.type \in {"drop", "drop_seq", "gap_burst", "rate_limit"}
  BY <1>1, <1>3 DEF ToxicEffects, DropperEffects, RateLimiterEffects, DropSeqEffects,
                    GapBurstEffects
<1>4. CASE t.type = "duplicate"
  BY <1>1, <1>2, <1>4 DEF ToxicEffects, DuplicatorEffects
<1>5. CASE t.type = "jitter"
  <2>1. t.min \in Nat /\ t.max \in Nat
    BY <1>5 DEF Toxic, Droppers, Duplicators, JitterDelays, Reorderers, RateLimiters,
                DropSeqs, GapBursts
  <2> QED
    BY <1>2, <1>5, <2>1 DEF ToxicEffects, JitterEffects
<1>6. CASE t.type = "reorder"
  <2>1. t.hold \in Nat
    BY <1>6 DEF Toxic, Droppers, Duplicators, JitterDelays, Reorderers, RateLimiters,
                DropSeqs, GapBursts
  <2> QED
    BY <1>1, <1>2, <1>6, <2>1 DEF ToxicEffects, ReordererEffects
<1> QED
  BY <1>3, <1>4, <1>5, <1>6 DEF Toxic, Droppers, Duplicators, JitterDelays, Reorderers,
                                RateLimiters, DropSeqs, GapBursts

\* A decision returns one of the effects and a flow of the same toxics.
LEMMA DecideType ==
  ASSUME NEW toxics \in Seq(Toxic), NEW p \in Packet, NEW d \in Decide(toxics, p)
  PROVE  d.effect \in Effects /\ d.toxics \in Seq(Toxic)
<1>1. \A n : Consulted(toxics, n, p) \in Seq(Toxic)
  BY ToxicAfterType DEF Consulted
<1>2. ASSUME NEW n \in 1 .. Len(toxics), d \in StopsAt(toxics, n, p)
      PROVE  d.effect \in Effects /\ d.toxics \in Seq(Toxic)
  <2>1. toxics[n] \in Toxic
    OBVIOUS
  <2>2. PICK e \in ToxicEffects(toxics[n], p) :
          d = [effect |-> e, toxics |-> Consulted(toxics, n, p)]
    BY <1>2 DEF StopsAt
  <2> QED
    BY <1>1, <2>1, <2>2, ToxicEffectsType
<1>3. ASSUME d \in RunsThrough(toxics, p)
      PROVE  d.effect \in Effects /\ d.toxics \in Seq(Toxic)
  BY <1>1, <1>3 DEF RunsThrough, Forward, Effects, Kinds
<1> QED
  BY <1>2, <1>3 DEF Decide

-----------------------------------------------------------------------------
(* Options, and the delay queue as enqueue leaves it.                      *)

LEMMA OptionFacts ==
  ASSUME NEW S
  PROVE  /\ {} \in Option(S)
         /\ \A x \in S : {x} \in Option(S)
         /\ \A o \in Option(S) : IsFiniteSet(o) /\ Cardinality(o) \in 0 .. 1
<1>1. {} \in Option(S) /\ \A x \in S : {x} \in Option(S)
  BY DEF Option
<1>2. ASSUME NEW o \in Option(S)
      PROVE  IsFiniteSet(o) /\ Cardinality(o) \in 0 .. 1
  <2>1. CASE o = {}
    BY <2>1, FS_EmptySet
  <2>2. CASE o # {}
    <3>1. PICK x \in o : o = {x}
      BY <2>2 DEF Option
    <3>2. IsFiniteSet({x}) /\ Cardinality({x}) = 1
      BY FS_Singleton
    <3> QED
      BY <3>1, <3>2
  <2> QED
    BY <2>1, <2>2
<1> QED
  BY <1>1, <1>2

Bounded == IsFiniteSet(delayQueue) /\ Cardinality(delayQueue) <= MaxInFlight

TypeInv == TypeOK /\ Bounded

\* Whatever enqueue decides, the queue stays typed, finite and within its cap.
LEMMA EnqueueType ==
  ASSUME TypeInv, NEW p \in Packet, NEW after \in Nat
  PROVE  /\ Enqueue(p, after) \in SUBSET Entry
         /\ IsFiniteSet(Enqueue(p, after))
         /\ Cardinality(Enqueue(p, after)) <= MaxInFlight
<1> DEFINE e == [packet |-> p, due |-> clock + after]
<1>1. e \in Entry /\ delayQueue \in SUBSET Entry
  BY DEF TypeInv, TypeOK, Entry
<1>2. CASE HasRoom
  <2>1. Enqueue(p, after) = delayQueue \cup {e}
    BY <1>2 DEF Enqueue
  <2> HIDE DEF e
  <2>2. /\ IsFiniteSet(delayQueue \cup {e})
        /\ \/ Cardinality(delayQueue \cup {e}) = Cardinality(delayQueue)
           \/ Cardinality(delayQueue \cup {e}) = Cardinality(delayQueue) + 1
    BY FS_AddElement DEF TypeInv, Bounded
  <2>3. Cardinality(delayQueue) \in Nat /\ Cardinality(delayQueue) < MaxInFlight
    BY <1>2, FS_CardinalityType DEF TypeInv, Bounded, HasRoom
  <2> QED
    BY <1>1, <2>1, <2>2, <2>3, ProxyAssumption
<1>3. CASE ~HasRoom
  BY <1>1, <1>3 DEF Enqueue, TypeInv, Bounded
<1> QED
  BY <1>2, <1>3

\* The packet in front of the socket is a packet.
LEMMA IncomingType ==
  ASSUME TypeInv, socket # <<>>
  PROVE  /\ Incoming \in Packet
         /\ Incoming.id \in PacketIds
         /\ Tail(socket) \in Seq(Datagram)
<1>1. Head(socket) \in Datagram /\ Tail(socket) \in Seq(Datagram)
  BY DEF TypeInv, TypeOK
<1>2. PacketIds \subseteq Nat
  BY ProxyAssumption DEF PacketIds
<1>3. Extract(Protocol, Head(socket).header) \in Option(SeqNums)
  BY <1>1, OptionFacts DEF Extract, Datagram
<1>4. clock \in Nat
  BY DEF TypeInv, TypeOK
<1> QED
  BY <1>1, <1>2, <1>3, <1>4 DEF Incoming, Received, Packet, Datagram

\* Counting keeps the counters natural numbers.
LEMMA CountType ==
  ASSUME NEW s \in [Counters -> Nat], NEW c \in Counters
  PROVE  /\ Count(s, c) \in [Counters -> Nat]
         /\ c \in {"delayed", "duplicated"} => CountEnqueue(s, c) \in [Counters -> Nat]
BY DEF Count, CountEnqueue, Counters

\* The end of the task leaves an empty queue and counts what it held.
LEMMA HaltType ==
  ASSUME TypeInv, NEW how \in {"stopped", "panicked"}, Halt(how)
  PROVE  /\ pc' \in {"stopped", "panicked"}
         /\ delayQueue' \in SUBSET Entry
         /\ job' \in Option(Job)
         /\ abandoned' \in Nat
         /\ Bounded'
<1>1. Cardinality(delayQueue) \in Nat
  BY FS_CardinalityType DEF TypeInv, Bounded
<1>2. Cardinality(job) \in Nat
  BY OptionFacts DEF TypeInv, TypeOK
<1>3. Bounded'
  BY FS_EmptySet, ProxyAssumption DEF Halt, Bounded
<1> QED
  BY <1>1, <1>2, <1>3, OptionFacts DEF Halt, TypeInv, TypeOK

-----------------------------------------------------------------------------
(* Type correctness and the cap on the delay queue.                        *)

LEMMA TypeInit == Init => TypeInv
<1> SUFFICES ASSUME Init PROVE TypeInv
  OBVIOUS
<1>1. flow \in Flow
  BY ProxyAssumption DEF Init, Flow
<1>2. Bounded
  BY FS_EmptySet, ProxyAssumption DEF Init, Bounded
<1>3. verdict \in [PacketIds -> Verdict]
  BY OptionFacts DEF Init, Verdict
<1>4. guards \in [Observers -> Option(0 .. MaxReloads)]
  BY OptionFacts DEF Init
<1>5. stats \in [Counters -> Nat] /\ attempts \in [PacketIds -> Nat]
  BY DEF Init
<1>6. reload \in Option(Flow) /\ job \in Option(Job)
  BY OptionFacts DEF Init
<1>7. lag \in Option(Nat)
  BY OptionFacts DEF Init
<1> QED
  BY <1>1, <1>2, <1>3, <1>4, <1>5, <1>6, <1>7, ProxyAssumption DEF Init, TypeInv, TypeOK

\* A decision and what the loop does about it.
LEMMA TypeReceive == TypeInv /\ Receive => TypeInv'
<1> SUFFICES ASSUME TypeInv, Receive PROVE TypeInv'
  OBVIOUS
<1>1. /\ Incoming \in Packet
      /\ Incoming.id \in PacketIds
      /\ socket' \in Seq(Datagram)
  BY IncomingType DEF Receive
<1>2. PICK d \in Decide(flow.toxics, Incoming) :
        /\ flow' = [flow EXCEPT !.toxics = d.toxics]
        /\ verdict' = [verdict EXCEPT ![Incoming.id] =
                         [kind     |-> d.effect.kind,
                          due      |-> clock + d.effect.after,
                          targeted |-> TargetedBy(flow.toxics, Head(socket).header),
                          lossy    |-> Lossy(flow.toxics)]]
        /\ \/ OnForward(d.effect)
           \/ OnDrop(d.effect)
           \/ OnDelay(d.effect)
           \/ OnOversizedDelay(d.effect)
           \/ OnDuplicate(d.effect)
  BY DEF Receive
<1>3. /\ flow.toxics \in Seq(Toxic)
      /\ flow \in Flow
      /\ clock \in Nat
      /\ verdict \in [PacketIds -> Verdict]
      /\ delayQueue \in SUBSET Entry
      /\ job \in Option(Job)
      /\ stats \in [Counters -> Nat]
      /\ abandoned \in Nat
      /\ lag \in Option(Nat)
  BY DEF TypeInv, TypeOK, Flow
<1>4. d.effect \in Effects /\ d.toxics \in Seq(Toxic)
  BY <1>1, <1>2, <1>3, DecideType
<1>5. d.effect.after \in Nat /\ d.effect.kind \in Kinds
  BY <1>4 DEF Effects
<1>6. flow' \in Flow
  BY <1>2, <1>3, <1>4 DEF Flow
<1>7. verdict' \in [PacketIds -> Verdict]
  <2>1. /\ TargetedBy(flow.toxics, Head(socket).header) \in BOOLEAN
        /\ Lossy(flow.toxics) \in BOOLEAN
    BY DEF TargetedBy, Lossy
  <2>2. [kind     |-> d.effect.kind,
         due      |-> clock + d.effect.after,
         targeted |-> TargetedBy(flow.toxics, Head(socket).header),
         lossy    |-> Lossy(flow.toxics)] \in Verdict
    BY <1>3, <1>5, <2>1 DEF Verdict
  <2> QED
    BY <1>1, <1>2, <1>3, <2>2
<1>8. /\ pc' \in {"reload", "send", "panicked"}
      /\ delayQueue' \in SUBSET Entry
      /\ job' \in Option(Job)
      /\ stats' \in [Counters -> Nat]
      /\ abandoned' \in Nat
      /\ Bounded'
  <2>1. \A after \in Option(Nat) : [packet |-> Incoming, copyAfter |-> after] \in Job
    BY <1>1 DEF Job
  <2>2. CASE OnForward(d.effect)
    BY <1>3, <2>1, <2>2, OptionFacts DEF OnForward, TypeInv, Bounded
  <2>3. CASE OnDrop(d.effect)
    <3>1. stats' \in [Counters -> Nat]
      BY <1>3, <2>3, CountType DEF OnDrop, Counters
    <3> QED
      BY <1>3, <2>3, <3>1 DEF OnDrop, TypeInv, Bounded
  <2>4. CASE OnDelay(d.effect)
    <3>1. stats' \in [Counters -> Nat]
      BY <1>3, <2>4, CountType DEF OnDelay, Counters
    <3> QED
      BY <1>1, <1>3, <1>5, <2>4, <3>1, EnqueueType DEF OnDelay, Bounded
  <2>5. CASE OnOversizedDelay(d.effect)
    BY <1>3, <2>5, HaltType DEF OnOversizedDelay, Halt
  <2>6. CASE OnDuplicate(d.effect)
    BY <1>3, <1>5, <2>1, <2>6, OptionFacts DEF OnDuplicate, TypeInv, Bounded
  <2> QED
    BY <1>2, <2>2, <2>3, <2>4, <2>5, <2>6
<1>9. lag' \in Option(Nat)
  BY <1>3 DEF Receive, Option
<1>10. /\ UNCHANGED <<clock, arrived, reload, guards, published, attempts>>
  BY DEF Receive, cellVars
<1> QED
  BY <1>1, <1>6, <1>7, <1>8, <1>9, <1>10 DEF TypeInv, TypeOK

\* The end of a send, with or without a copy to follow.
LEMMA TypeSent ==
  ASSUME TypeInv, NEW j \in job, NEW outcome \in {"forwarded", "send_errors"}, Sent(j, outcome)
  PROVE  TypeInv'
<1>1. j \in Job
  BY DEF TypeInv, TypeOK, Option
<1>2. stats \in [Counters -> Nat]
  BY DEF TypeInv, TypeOK
<1>3. /\ Count(stats, outcome) \in [Counters -> Nat]
      /\ CountEnqueue(Count(stats, outcome), "duplicated") \in [Counters -> Nat]
  BY <1>2, CountType DEF Counters
<1>4. stats' \in [Counters -> Nat]
  BY <1>3 DEF Sent
<1>5. delayQueue' \in SUBSET Entry /\ Bounded'
  <2>1. CASE j.copyAfter = {}
    BY <2>1 DEF Sent, TypeInv, TypeOK, Bounded
  <2>2. CASE j.copyAfter # {}
    <3>1. PICK after \in j.copyAfter : delayQueue' = Enqueue(j.packet, after)
      BY <2>2 DEF Sent
    <3>2. j.packet \in Packet /\ after \in Nat
      BY <1>1 DEF Job, Option
    <3> QED
      BY <3>1, <3>2, EnqueueType DEF Bounded
  <2> QED
    BY <2>1, <2>2
<1>6. attempts' \in [PacketIds -> Nat]
  <2>1. attempts \in [PacketIds -> Nat]
    BY DEF TypeInv, TypeOK
  <2>2. attempts' = [attempts EXCEPT ![j.packet.id] = @ + 1]
    BY DEF Sent
  <2>3. ASSUME NEW id \in PacketIds PROVE attempts'[id] \in Nat
    BY <2>1, <2>2, <2>3
  <2>4. attempts' = [id \in PacketIds |-> attempts'[id]]
    BY <2>1, <2>2
  <2> QED
    BY <2>3, <2>4
<1>7. pc' = "reload" /\ job' \in Option(Job)
  BY OptionFacts DEF Sent
<1>8. UNCHANGED <<clock, socket, arrived, flow, reload, guards, published, verdict,
                  abandoned, lag>>
  BY DEF Sent, envVars, cellVars
<1> QED
  BY <1>4, <1>5, <1>6, <1>7, <1>8 DEF TypeInv, TypeOK

LEMMA TypeStep == TypeInv /\ [Next]_vars => TypeInv'
<1> SUFFICES ASSUME TypeInv, [Next]_vars PROVE TypeInv'
  OBVIOUS
<1> USE DEF TypeInv
<1>1. CASE SwapReload
  <2>1. flow' \in Flow /\ reload' \in Option(Flow)
    BY <1>1, OptionFacts DEF SwapReload, Adopted, TypeOK, Option
  <2>2. lag' \in Option(Nat)
    BY <1>1, OptionFacts DEF SwapReload, TypeOK
  <2> QED
    BY <1>1, <2>1, <2>2 DEF SwapReload, TypeOK, Bounded, envVars
<1>2. CASE Receive
  BY <1>2, TypeReceive
<1>3. CASE ReceiveFails
  BY <1>3, HaltType DEF ReceiveFails, TypeOK, envVars, cellVars
<1>4. CASE Expire
  <2>1. PICK e \in NextExpired : /\ delayQueue' = delayQueue \ {e}
                                /\ job' = {[packet |-> e.packet, copyAfter |-> {}]}
    BY <1>4 DEF Expire
  <2>2. e \in delayQueue /\ e \in Entry
    BY <2>1 DEF NextExpired, TypeOK
  <2>3. job' \in Option(Job)
    BY <2>1, <2>2, OptionFacts DEF Entry, Job
  <2>4. Bounded'
    <3>1. /\ IsFiniteSet(delayQueue \ {e})
          /\ Cardinality(delayQueue \ {e}) = Cardinality(delayQueue) - 1
      BY <2>2, FS_RemoveElement DEF Bounded
    <3>2. Cardinality(delayQueue) \in Nat
      BY FS_CardinalityType DEF Bounded
    <3> QED
      BY <2>1, <3>1, <3>2, ProxyAssumption DEF Bounded
  <2> QED
    BY <1>4, <2>1, <2>3, <2>4 DEF Expire, TypeOK, envVars, cellVars, history
<1>5. CASE SendSucceeds
  BY <1>5, TypeSent DEF SendSucceeds
<1>6. CASE SendFails
  BY <1>6, TypeSent DEF SendFails
<1>7. CASE Arrive
  <2>1. arrived' \in 0 .. MaxPackets /\ arrived + 1 \in PacketIds
    BY <1>7, ProxyAssumption DEF Arrive, TypeOK, PacketIds
  <2>2. \A h \in Headers : [id |-> arrived + 1, header |-> h] \in Datagram
    BY <2>1, ProxyAssumption DEF Datagram
  <2>3. socket' \in Seq(Datagram)
    BY <1>7, <2>2 DEF Arrive, TypeOK
  <2> QED
    BY <1>7, <2>1, <2>3 DEF Arrive, TypeOK, Bounded, cellVars, history
<1>8. CASE Tick
  BY <1>8 DEF Tick, TypeOK, Bounded, cellVars, history
<1>9. CASE Publish
  <2>1. published' \in 0 .. MaxReloads
    BY <1>9, ProxyAssumption DEF Publish, PublishFlow, TypeOK
  <2>2. PICK toxics \in Scenarios :
          reload' = {[version |-> published', toxics |-> toxics]}
    BY <1>9 DEF Publish, PublishFlow
  <2>3. [version |-> published', toxics |-> toxics] \in Flow
    BY <2>1, ProxyAssumption DEF Flow
  <2>4. reload' \in Option(Flow)
    BY <2>2, <2>3, OptionFacts
  <2>5. lag' \in Option(Nat)
    <3>1. lag' = IF lag = {} THEN {0} ELSE lag
      BY <1>9 DEF Publish, PublishFlow
    <3>2. {0} \in Option(Nat)
      BY OptionFacts
    <3> QED
      BY <3>1, <3>2 DEF TypeOK
  <2> QED
    BY <1>9, <2>1, <2>4, <2>5 DEF Publish, PublishFlow, TypeOK, Bounded, envVars
<1>10. ASSUME NEW o \in Observers, Load(o) PROVE TypeInv'
  <2>1. PICK f \in reload : guards' = [guards EXCEPT ![o] = {f.version}]
    BY <1>10 DEF Load
  <2>2. f.version \in 0 .. MaxReloads
    BY DEF TypeOK, Option, Flow
  <2>3. guards' \in [Observers -> Option(0 .. MaxReloads)]
    BY <2>1, <2>2, OptionFacts DEF TypeOK
  <2> QED
    BY <1>10, <2>3 DEF Load, TypeOK, Bounded, envVars, history
<1>11. ASSUME NEW o \in Observers, Release(o) PROVE TypeInv'
  <2>1. guards' \in [Observers -> Option(0 .. MaxReloads)]
    BY <1>11, OptionFacts DEF Release, TypeOK
  <2> QED
    BY <1>11, <2>1 DEF Release, TypeOK, Bounded, envVars, history
<1>12. CASE Cancel
  BY <1>12, HaltType DEF Cancel, TypeOK, envVars, cellVars
<1>13. CASE Halted \/ UNCHANGED vars
  BY <1>13 DEF Halted, vars, TypeOK, Bounded
<1> QED
  BY <1>1, <1>2, <1>3, <1>4, <1>5, <1>6, <1>7, <1>8, <1>9, <1>10, <1>11, <1>12, <1>13
  DEF Next, Loop, Environment

LEMMA TypeInvariant == Spec => []TypeInv
BY TypeInit, TypeStep, PTL DEF Spec

\* Every variable keeps its type, for every scenario and every bound: no
\* decision makes a bucket negative, no packet is numbered out of range.
THEOREM TypeCorrectness == Spec => []TypeOK
<1>1. TypeInv => TypeOK
  BY DEF TypeInv
<1> QED
  BY <1>1, TypeInvariant, PTL

\* The delay queue never exceeds max_in_flight: enqueue is the only way in,
\* and it looks at the length first.
THEOREM MemoryIsBounded == Spec => []BoundedMemory
<1>1. TypeInv => BoundedMemory
  BY DEF TypeInv, Bounded, BoundedMemory
<1> QED
  BY <1>1, TypeInvariant, PTL

-----------------------------------------------------------------------------
(* Reloading.  What waits in the cell is the flow published last, the flow *)
(* in force is never newer, and the loop comes to select! only with no     *)
(* decision taken since it looked at the cell.                             *)

ReloadInv ==
  /\ flow.version <= published
  /\ \A f \in reload : f.version = published
  /\ lag # {} => reload # {}
  /\ lag \subseteq {0, 1}
  /\ pc = "select" => lag \subseteq {0}

\* Deciding on a packet changes the toxics' state and not the version.
LEMMA ReceiveKeepsVersion ==
  ASSUME TypeOK, Receive
  PROVE  flow'.version = flow.version /\ pc' \in {"reload", "send", "panicked"}
<1>1. flow \in Flow
  BY DEF TypeOK
<1>2. PICK d \in Decide(flow.toxics, Incoming) :
        /\ flow' = [flow EXCEPT !.toxics = d.toxics]
        /\ \/ OnForward(d.effect)
           \/ OnDrop(d.effect)
           \/ OnDelay(d.effect)
           \/ OnOversizedDelay(d.effect)
           \/ OnDuplicate(d.effect)
  BY DEF Receive
<1>3. pc' \in {"reload", "send", "panicked"}
  BY <1>2 DEF OnForward, OnDrop, OnDelay, OnOversizedDelay, OnDuplicate, Halt
<1> QED
  BY <1>1, <1>2, <1>3 DEF Flow

\* Every action but the swap leaves the version of the flow in force alone.
LEMMA OnlySwapChangesVersion ==
  ASSUME TypeOK, [Next]_vars, ~SwapReload
  PROVE  flow'.version = flow.version
<1>1. CASE Receive
  BY <1>1, ReceiveKeepsVersion
<1>2. CASE SendSucceeds \/ SendFails
  BY <1>2 DEF SendSucceeds, SendFails, Sent
<1>3. CASE ReceiveFails \/ Expire \/ Environment \/ Halted \/ UNCHANGED vars
  BY <1>3 DEF ReceiveFails, Expire, Environment, Arrive, Tick, Publish, PublishFlow, Load, Release,
              Cancel, Halted, vars
<1> QED
  BY <1>1, <1>2, <1>3 DEF Next, Loop

LEMMA ReloadStep == TypeOK /\ ReloadInv /\ [Next]_vars => ReloadInv'
<1> SUFFICES ASSUME TypeOK, ReloadInv, [Next]_vars PROVE ReloadInv'
  OBVIOUS
<1>0. /\ flow.version \in Nat
      /\ published \in Nat
  BY ProxyAssumption DEF TypeOK, Flow
<1>1. CASE SwapReload
  <2>1. flow'.version <= published /\ published' = published
    BY <1>0, <1>1 DEF SwapReload, Adopted, ReloadInv
  <2>2. lag' = {}
    <3>1. CASE lag = {}
      BY <1>1, <3>1 DEF SwapReload
    <3>2. CASE \E f \in reload : Shared(f)
      BY <1>1, <3>2 DEF SwapReload
    <3>3. CASE lag # {} /\ ~(\E f \in reload : Shared(f))
      <4>1. flow' \in reload
        BY <1>1, <3>3 DEF SwapReload, Adopted, ReloadInv
      <4> QED
        BY <1>1, <4>1 DEF SwapReload, ReloadInv
    <3> QED
      BY <3>1, <3>2, <3>3
  <2> QED
    BY <1>1, <2>1, <2>2 DEF SwapReload, ReloadInv
<1>2. CASE Receive
  <2>1. flow'.version = flow.version /\ pc' # "select"
    BY <1>2, ReceiveKeepsVersion
  <2>2. lag' \subseteq {0, 1} /\ (lag' # {} => lag # {})
    <3>1. lag \subseteq {0} /\ lag' = {n + 1 : n \in lag}
      BY <1>2 DEF Receive, ReloadInv
    <3> QED
      BY <3>1
  <2>3. reload' = reload /\ published' = published
    BY <1>2 DEF Receive, cellVars
  <2> QED
    BY <2>1, <2>2, <2>3 DEF ReloadInv
<1>3. CASE SendSucceeds \/ SendFails
  BY <1>3 DEF SendSucceeds, SendFails, Sent, cellVars, ReloadInv
<1>4. CASE ReceiveFails \/ Cancel
  BY <1>4 DEF ReceiveFails, Cancel, Halt, cellVars, ReloadInv
<1>5. CASE Expire
  BY <1>5 DEF Expire, cellVars, history, ReloadInv
<1>6. CASE Publish
  <2>1. PICK toxics : reload' = {[version |-> published + 1, toxics |-> toxics]}
    BY <1>6 DEF Publish, PublishFlow
  <2>2. /\ published' = published + 1
        /\ flow' = flow
        /\ pc' = pc
        /\ lag' = IF lag = {} THEN {0} ELSE lag
    BY <1>6 DEF Publish, PublishFlow
  <2>3. \A f \in reload' : f.version = published'
    BY <2>1, <2>2
  <2>4. flow'.version <= published'
    BY <1>0, <2>2 DEF ReloadInv
  <2> QED
    BY <2>1, <2>2, <2>3, <2>4 DEF ReloadInv
<1>7. CASE Arrive \/ Tick \/ (\E o \in Observers : Load(o) \/ Release(o))
  BY <1>7 DEF Arrive, Tick, Load, Release, cellVars, history, ReloadInv
<1>8. CASE Halted \/ UNCHANGED vars
  BY <1>8 DEF Halted, vars, ReloadInv
<1> QED
  BY <1>1, <1>2, <1>3, <1>4, <1>5, <1>6, <1>7, <1>8 DEF Next, Loop, Environment

LEMMA ReloadInvariant == Spec => []ReloadInv
<1>1. Init => ReloadInv
  BY ProxyAssumption DEF Init, ReloadInv
<1>2. TypeInv => TypeOK
  BY DEF TypeInv
<1> QED
  BY <1>1, <1>2, ReloadStep, TypeInvariant, PTL DEF Spec

\* After a reload has been published at most one packet is decided by the
\* old flow, unless an observer holds the published flow at the swap: with
\* any number of publishers, observers and packets.
THEOREM AtMostOneStaleDecision == Spec => []StaleBound
<1>1. ReloadInv => StaleBound
  BY DEF ReloadInv, StaleBound
<1> QED
  BY <1>1, ReloadInvariant, PTL

\* The flow in force is never replaced by one that was published earlier,
\* also when the swap loses flows to observers.
THEOREM ReloadsMoveForward == Spec => FlowMovesForward
<1>1. TypeOK /\ ReloadInv /\ [Next]_vars => [flow'.version >= flow.version]_vars
  <2> SUFFICES ASSUME TypeOK, ReloadInv, [Next]_vars
               PROVE  flow'.version >= flow.version
    OBVIOUS
  <2>1. flow.version \in Nat /\ published \in Nat
    BY ProxyAssumption DEF TypeOK, Flow
  <2>2. CASE SwapReload
    BY <2>1, <2>2 DEF SwapReload, Adopted, ReloadInv
  <2>3. CASE ~SwapReload
    BY <2>1, <2>3, OnlySwapChangesVersion
  <2> QED
    BY <2>2, <2>3
<1>2. TypeInv => TypeOK
  BY DEF TypeInv
<1> QED
  BY <1>1, <1>2, ReloadInvariant, TypeInvariant, PTL DEF Spec, FlowMovesForward

\* Nobody but the loop and the control plane has the reload handle: then an
\* empty cell means that the flow published last is in force.
THEOREM LatestReloadIsInForce ==
  ASSUME Observers = {}
  PROVE  Spec => []LatestReloadWins
<1>1. Init => LatestReloadWins
  BY DEF Init, LatestReloadWins
<1>2. TypeOK /\ ReloadInv /\ LatestReloadWins /\ [Next]_vars => LatestReloadWins'
  <2> SUFFICES ASSUME TypeOK, ReloadInv, LatestReloadWins, [Next]_vars
               PROVE  LatestReloadWins'
    OBVIOUS
  <2>1. CASE SwapReload
    <3>1. CASE reload = {}
      BY <2>1, <3>1 DEF SwapReload, Adopted, LatestReloadWins
    <3>2. CASE reload # {}
      <4>1. flow' \in reload
        BY <2>1, <3>2 DEF SwapReload, Adopted, Shared
      <4> QED
        BY <2>1, <4>1 DEF SwapReload, ReloadInv, LatestReloadWins
    <3> QED
      BY <3>1, <3>2
  <2>2. CASE Publish
    BY <2>2 DEF Publish, PublishFlow, LatestReloadWins
  <2>3. CASE ~SwapReload /\ ~Publish
    <3>1. flow'.version = flow.version
      BY <2>3, OnlySwapChangesVersion
    <3>2. reload' = reload /\ published' = published
      BY <2>3 DEF Next, Loop, Environment, Receive, ReceiveFails, Expire, SendSucceeds,
                  SendFails, Sent, Arrive, Tick, Load, Release, Cancel, Halted, vars, cellVars
    <3> QED
      BY <3>1, <3>2 DEF LatestReloadWins
  <2> QED
    BY <2>1, <2>2, <2>3
<1>3. TypeInv => TypeOK
  BY DEF TypeInv
<1> QED
  BY <1>1, <1>2, <1>3, ReloadInvariant, TypeInvariant, PTL DEF Spec

-----------------------------------------------------------------------------
(* The life of a packet.                                                   *)

Awaits(id) == \E e \in delayQueue : e.packet.id = id
InJob(id)  == \E j \in job : j.packet.id = id
Direct(id) == verdict[id].kind \in {"forward", "duplicate"}
Left(id)   == attempts[id] > 0 \/ InJob(id)

\* Where a packet is in its life, by the place it is found in.
LifeInv ==
  /\ \A id \in PacketIds : attempts[id] <= Owed(verdict[id].kind)
  /\ \A e \in delayQueue :
       /\ e.packet.id \in PacketIds
       /\ \/ verdict[e.packet.id].kind = "delay" /\ attempts[e.packet.id] = 0
          \/ verdict[e.packet.id].kind = "duplicate" /\ attempts[e.packet.id] = 1
       /\ \A f \in delayQueue : f.packet.id = e.packet.id => f = e
  /\ \A j \in job :
       /\ j.packet.id \in PacketIds
       /\ ~Awaits(j.packet.id)
       /\ \/ /\ verdict[j.packet.id].kind \in {"forward", "delay"}
             /\ attempts[j.packet.id] = 0
             /\ j.copyAfter = {}
          \/ /\ verdict[j.packet.id].kind = "duplicate"
             /\ attempts[j.packet.id] = IF j.copyAfter = {} THEN 1 ELSE 0

\* A delayed packet left when it was due, before everything still waiting.
TimeInv ==
  /\ \A e \in delayQueue :
       verdict[e.packet.id].kind = "delay" => e.due = verdict[e.packet.id].due
  /\ \A id \in PacketIds :
       verdict[id].kind = "delay" /\ Left(id) =>
         /\ verdict[id].due <= clock
         /\ \A e \in delayQueue : verdict[id].due <= e.due

\* Packets are decided on in the order of their numbers, and one that is not
\* time-shifted is on its way as soon as it is decided on.
OrderInv ==
  /\ job # {} => pc = "send"
  /\ \A n \in 1 .. Len(socket) :
       /\ socket[n].id <= arrived
       /\ \A m \in 1 .. n - 1 : socket[m].id < socket[n].id
  /\ \A id \in PacketIds :
       verdict[id].kind # "none" =>
         id <= arrived /\ \A n \in 1 .. Len(socket) : id < socket[n].id
  /\ Running => \A id \in PacketIds : Direct(id) => Left(id)
  /\ \A i, k \in PacketIds :
       i < k /\ Direct(i) /\ Direct(k) /\ Left(k) => attempts[i] > 0

DeliveryInv == LifeInv /\ TimeInv /\ OrderInv

-----------------------------------------------------------------------------
(* What the actions do to packets.                                         *)

\* A decision is about the packet in front of the socket, and one branch of
\* the match acts on it.
LEMMA ReceiveShape ==
  ASSUME TypeInv, Receive
  PROVE  \E v \in Verdict, e \in Effects :
           /\ v.kind = e.kind
           /\ v.due = clock + e.after
           /\ verdict' = [verdict EXCEPT ![Incoming.id] = v]
           /\ \/ OnForward(e)
              \/ OnDrop(e)
              \/ OnDelay(e)
              \/ OnOversizedDelay(e)
              \/ OnDuplicate(e)
<1>1. PICK d \in Decide(flow.toxics, Incoming) :
        /\ verdict' = [verdict EXCEPT ![Incoming.id] =
                         [kind     |-> d.effect.kind,
                          due      |-> clock + d.effect.after,
                          targeted |-> TargetedBy(flow.toxics, Head(socket).header),
                          lossy    |-> Lossy(flow.toxics)]]
        /\ \/ OnForward(d.effect)
           \/ OnDrop(d.effect)
           \/ OnDelay(d.effect)
           \/ OnOversizedDelay(d.effect)
           \/ OnDuplicate(d.effect)
  BY DEF Receive
<1> DEFINE v == [kind     |-> d.effect.kind,
                 due      |-> clock + d.effect.after,
                 targeted |-> TargetedBy(flow.toxics, Head(socket).header),
                 lossy    |-> Lossy(flow.toxics)]
<1>2. flow.toxics \in Seq(Toxic) /\ Incoming \in Packet /\ clock \in Nat
  BY IncomingType DEF Receive, TypeInv, TypeOK, Flow
<1>3. d.effect \in Effects
  BY <1>2, DecideType
<1>4. v \in Verdict /\ v.kind = d.effect.kind /\ v.due = clock + d.effect.after
  <2>1. TargetedBy(flow.toxics, Head(socket).header) \in BOOLEAN /\ Lossy(flow.toxics) \in BOOLEAN
    BY DEF TargetedBy, Lossy
  <2> QED
    BY <1>2, <1>3, <2>1 DEF Verdict, Effects
<1> HIDE DEF v
<1> QED
  BY <1>1, <1>3, <1>4 DEF v

\* enqueue puts the packet in the queue or leaves the queue alone.
LEMMA EnqueueAdds ==
  ASSUME NEW p, NEW after
  PROVE  \/ HasRoom /\ Enqueue(p, after) = delayQueue \cup {[packet |-> p, due |-> clock + after]}
         \/ ~HasRoom /\ Enqueue(p, after) = delayQueue
BY DEF Enqueue

\* Nothing is known yet of the packet that select! receives.
LEMMA IncomingIsNew ==
  ASSUME TypeInv, DeliveryInv, pc = "select", socket # <<>>
  PROVE  /\ job = {}
         /\ Incoming.id \in PacketIds
         /\ Incoming.id = socket[1].id
         /\ verdict[Incoming.id].kind = "none"
         /\ attempts[Incoming.id] = 0
         /\ ~Awaits(Incoming.id)
<1>1. Incoming.id = socket[1].id /\ 1 \in 1 .. Len(socket) /\ Incoming.id \in PacketIds
  <2>1. Len(socket) \in Nat /\ Len(socket) > 0
    BY DEF TypeInv, TypeOK
  <2> QED
    BY <2>1, IncomingType DEF Incoming, Received
<1>2. Incoming.id \in Nat
  BY <1>1, ProxyAssumption DEF PacketIds
<1>3. verdict[Incoming.id].kind = "none"
  BY <1>1, <1>2 DEF DeliveryInv, OrderInv
<1>4. attempts[Incoming.id] = 0
  <2>1. Owed(verdict[Incoming.id].kind) = 0
    BY <1>3 DEF Owed
  <2>2. attempts[Incoming.id] \in Nat
    BY <1>1 DEF TypeInv, TypeOK
  <2> QED
    BY <1>1, <2>1, <2>2 DEF DeliveryInv, LifeInv
<1>5. ~Awaits(Incoming.id)
  BY <1>3 DEF DeliveryInv, LifeInv, Awaits
<1>6. job = {}
  BY DEF DeliveryInv, OrderInv
<1> QED
  BY <1>1, <1>3, <1>4, <1>5, <1>6

-----------------------------------------------------------------------------
(* LifeInv: how often a packet is sent.                                    *)

LEMMA LifeReceive ==
  ASSUME TypeInv, DeliveryInv, Receive
  PROVE  LifeInv'
<1> DEFINE id == Incoming.id
<1>1. pc = "select" /\ socket # <<>> /\ attempts' = attempts
  BY DEF Receive
<1>2. PICK v \in Verdict, e \in Effects :
        /\ v.kind = e.kind
        /\ v.due = clock + e.after
        /\ verdict' = [verdict EXCEPT ![id] = v]
        /\ \/ OnForward(e)
           \/ OnDrop(e)
           \/ OnDelay(e)
           \/ OnOversizedDelay(e)
           \/ OnDuplicate(e)
  BY ReceiveShape
<1>3. /\ job = {} /\ id \in PacketIds
      /\ verdict[id].kind = "none" /\ attempts[id] = 0 /\ ~Awaits(id)
  BY <1>1, IncomingIsNew
<1>4. verdict \in [PacketIds -> Verdict] /\ attempts \in [PacketIds -> Nat]
  BY DEF TypeInv, TypeOK
<1> HIDE DEF id
<1>5. verdict'[id] = v /\ \A k \in PacketIds : k # id => verdict'[k] = verdict[k]
  BY <1>2, <1>3, <1>4
<1>6. v.kind \in Kinds
  BY <1>2 DEF Effects
<1>7. \A k \in PacketIds : attempts'[k] <= Owed(verdict'[k].kind)
  <2>1. Owed(v.kind) \in Nat /\ 0 <= Owed(v.kind)
    BY DEF Owed
  <2> QED
    BY <1>1, <1>3, <1>5, <2>1 DEF DeliveryInv, LifeInv
<1>8. \A q \in delayQueue :
        /\ q.packet.id \in PacketIds /\ q.packet.id # id
        /\ verdict'[q.packet.id] = verdict[q.packet.id]
        /\ \/ verdict'[q.packet.id].kind = "delay" /\ attempts'[q.packet.id] = 0
           \/ verdict'[q.packet.id].kind = "duplicate" /\ attempts'[q.packet.id] = 1
        /\ \A f \in delayQueue : f.packet.id = q.packet.id => f = q
  BY <1>1, <1>3, <1>5 DEF DeliveryInv, LifeInv, Awaits
<1>9. CASE OnForward(e) \/ OnDuplicate(e)
  <2>1. delayQueue' = delayQueue /\ v.kind \in {"forward", "duplicate"}
    BY <1>2, <1>9 DEF OnForward, OnDuplicate
  <2>2. \E after \in {{}, {e.after}} :
          /\ job' = {[packet |-> Incoming, copyAfter |-> after]}
          /\ v.kind = IF after = {} THEN "forward" ELSE "duplicate"
    BY <1>2, <1>9 DEF OnForward, OnDuplicate
  <2>3. \A j \in job' : /\ j.packet.id = id
                        /\ \/ v.kind = "forward" /\ j.copyAfter = {}
                           \/ v.kind = "duplicate" /\ j.copyAfter # {}
    BY <2>2 DEF id
  <2> QED
    BY <1>1, <1>3, <1>5, <1>7, <1>8, <2>1, <2>3 DEF LifeInv, Awaits
<1>10. CASE OnDrop(e) \/ OnOversizedDelay(e)
  <2>1. job' = {} /\ delayQueue' \in {delayQueue, {}}
    BY <1>3, <1>10 DEF OnDrop, OnOversizedDelay, Halt
  <2> QED
    BY <1>7, <1>8, <2>1 DEF LifeInv
<1>11. CASE OnDelay(e)
  <2>1. job' = {} /\ v.kind = "delay"
    BY <1>2, <1>3, <1>11 DEF OnDelay
  <2>2. PICK new : /\ new.packet.id = id
                   /\ delayQueue' \in {delayQueue, delayQueue \cup {new}}
    <3> DEFINE new == [packet |-> Incoming, due |-> clock + e.after]
    <3>1. delayQueue' \in {delayQueue, delayQueue \cup {new}}
      BY <1>11, EnqueueAdds DEF OnDelay
    <3>2. new.packet.id = id
      BY DEF id
    <3> QED
      BY <3>1, <3>2
  <2> QED
    BY <1>1, <1>3, <1>5, <1>7, <1>8, <2>1, <2>2 DEF LifeInv
<1> QED
  BY <1>2, <1>9, <1>10, <1>11

LEMMA LifeSent ==
  ASSUME TypeInv, DeliveryInv, NEW j \in job,
         NEW outcome \in {"forwarded", "send_errors"}, Sent(j, outcome)
  PROVE  LifeInv'
<1> DEFINE id == j.packet.id
<1>1. /\ job' = {}
      /\ verdict' = verdict
      /\ attempts' = [attempts EXCEPT ![id] = @ + 1]
  BY DEF Sent
<1>2. /\ id \in PacketIds
      /\ ~Awaits(id)
      /\ \/ verdict[id].kind \in {"forward", "delay"} /\ attempts[id] = 0 /\ j.copyAfter = {}
         \/ verdict[id].kind = "duplicate" /\ attempts[id] = IF j.copyAfter = {} THEN 1 ELSE 0
  BY DEF DeliveryInv, LifeInv
<1>3. attempts \in [PacketIds -> Nat]
  BY DEF TypeInv, TypeOK
<1>4. attempts'[id] = attempts[id] + 1 /\ \A k \in PacketIds : k # id => attempts'[k] = attempts[k]
  BY <1>1, <1>2, <1>3
<1>5. \A k \in PacketIds : attempts'[k] <= Owed(verdict'[k].kind)
  <2>1. attempts'[id] <= Owed(verdict[id].kind)
    BY <1>2, <1>4 DEF Owed
  <2> QED
    BY <1>1, <1>4, <2>1 DEF DeliveryInv, LifeInv
<1>6. \A q \in delayQueue :
        /\ q.packet.id \in PacketIds /\ q.packet.id # id
        /\ \/ verdict'[q.packet.id].kind = "delay" /\ attempts'[q.packet.id] = 0
           \/ verdict'[q.packet.id].kind = "duplicate" /\ attempts'[q.packet.id] = 1
        /\ \A f \in delayQueue : f.packet.id = q.packet.id => f = q
  BY <1>1, <1>2, <1>4 DEF DeliveryInv, LifeInv, Awaits
<1>7. CASE j.copyAfter = {}
  <2>1. delayQueue' = delayQueue
    BY <1>7 DEF Sent
  <2> QED
    BY <1>1, <1>5, <1>6, <2>1 DEF LifeInv
<1>8. CASE j.copyAfter # {}
  <2>1. PICK after \in j.copyAfter : delayQueue' = Enqueue(j.packet, after)
    BY <1>8 DEF Sent
  <2>2. PICK new : /\ new.packet.id = id
                   /\ delayQueue' \in {delayQueue, delayQueue \cup {new}}
    <3>1. [packet |-> j.packet, due |-> clock + after].packet.id = id
      OBVIOUS
    <3> QED
      BY <2>1, <3>1, EnqueueAdds
  <2>3. verdict'[id].kind = "duplicate" /\ attempts'[id] = 1
    BY <1>1, <1>2, <1>4, <1>8
  <2> HIDE DEF id
  <2> QED
    BY <1>1, <1>2, <1>5, <1>6, <2>2, <2>3 DEF LifeInv
<1> QED
  BY <1>7, <1>8

LEMMA LifeStep == TypeInv /\ DeliveryInv /\ [Next]_vars => LifeInv'
<1> SUFFICES ASSUME TypeInv, DeliveryInv, [Next]_vars PROVE LifeInv'
  OBVIOUS
<1>1. CASE Receive
  BY <1>1, LifeReceive
<1>2. CASE SendSucceeds \/ SendFails
  BY <1>2, LifeSent DEF SendSucceeds, SendFails
<1>3. CASE Expire
  <2>1. PICK e \in NextExpired : /\ delayQueue' = delayQueue \ {e}
                                /\ job' = {[packet |-> e.packet, copyAfter |-> {}]}
    BY <1>3 DEF Expire
  <2>2. e \in delayQueue /\ verdict' = verdict /\ attempts' = attempts
    BY <1>3, <2>1 DEF Expire, NextExpired, history
  <2>3. \A j \in job' : j.packet = e.packet /\ j.copyAfter = {}
    BY <2>1
  <2> QED
    BY <2>1, <2>2, <2>3 DEF DeliveryInv, LifeInv, Awaits
<1>4. CASE ReceiveFails \/ Cancel
  BY <1>4 DEF ReceiveFails, Cancel, Halt, DeliveryInv, LifeInv
<1>5. CASE SwapReload \/ Arrive \/ Tick \/ Publish \/ (\E o \in Observers : Load(o) \/ Release(o))
             \/ Halted \/ UNCHANGED vars
  <2>1. UNCHANGED <<verdict, attempts, delayQueue, job>>
    BY <1>5 DEF SwapReload, Arrive, Tick, Publish, PublishFlow, Load, Release, Halted, vars, history
  <2> QED
    BY <2>1 DEF DeliveryInv, LifeInv, Awaits
<1> QED
  BY <1>1, <1>2, <1>3, <1>4, <1>5 DEF Next, Loop, Environment

-----------------------------------------------------------------------------
(* TimeInv: when a delayed packet is sent.                                 *)

LEMMA TimeReceive ==
  ASSUME TypeInv, DeliveryInv, Receive
  PROVE  TimeInv'
<1> DEFINE id == Incoming.id
<1>1. /\ pc = "select" /\ socket # <<>>
      /\ attempts' = attempts /\ clock' = clock
  BY DEF Receive
<1>2. PICK v \in Verdict, e \in Effects :
        /\ v.kind = e.kind
        /\ v.due = clock + e.after
        /\ verdict' = [verdict EXCEPT ![id] = v]
        /\ \/ OnForward(e)
           \/ OnDrop(e)
           \/ OnDelay(e)
           \/ OnOversizedDelay(e)
           \/ OnDuplicate(e)
  BY ReceiveShape
<1>3. /\ job = {} /\ id \in PacketIds
      /\ verdict[id].kind = "none" /\ attempts[id] = 0 /\ ~Awaits(id)
  BY <1>1, IncomingIsNew
<1>4. /\ verdict \in [PacketIds -> Verdict] /\ attempts \in [PacketIds -> Nat]
      /\ clock \in Nat
  BY DEF TypeInv, TypeOK
<1>5. verdict'[id] = v /\ \A k \in PacketIds : k # id => verdict'[k] = verdict[k]
  BY <1>2, <1>3, <1>4
<1>6. \A j \in job' : j.packet.id = id /\ v.kind \in {"forward", "duplicate"}
  BY <1>2, <1>3 DEF OnForward, OnDrop, OnDelay, OnOversizedDelay, Halt, OnDuplicate
<1>7. \A q \in delayQueue' :
        \/ q \in delayQueue
        \/ v.kind = "delay" /\ q.packet.id = id /\ q.due = v.due
  <2>1. CASE OnDelay(e)
    BY <1>2, <2>1, EnqueueAdds DEF OnDelay
  <2>2. CASE ~OnDelay(e)
    BY <1>2, <2>2 DEF OnForward, OnDrop, OnOversizedDelay, Halt, OnDuplicate
  <2> QED
    BY <2>1, <2>2
<1>8. e.after \in Nat
  BY DEF Effects
<1> HIDE DEF id
<1>9. ASSUME NEW q \in delayQueue', verdict'[q.packet.id].kind = "delay"
      PROVE  q.due = verdict'[q.packet.id].due
  BY <1>3, <1>5, <1>7, <1>9 DEF DeliveryInv, LifeInv, TimeInv, Awaits
<1>10. ASSUME NEW k \in PacketIds, verdict'[k].kind = "delay", Left(k)'
       PROVE  verdict'[k].due <= clock' /\ \A q \in delayQueue' : verdict'[k].due <= q.due
  <2>1. k # id
    BY <1>1, <1>3, <1>5, <1>6, <1>10 DEF Left, InJob
  <2>2. verdict'[k] = verdict[k] /\ attempts[k] > 0
    BY <1>1, <1>5, <1>6, <1>10, <2>1 DEF Left, InJob
  <2>3. verdict[k].due <= clock /\ \A q \in delayQueue : verdict[k].due <= q.due
    BY <1>10, <2>2 DEF DeliveryInv, TimeInv, Left
  <2>4. verdict[k].due \in Nat
    BY <1>4 DEF Verdict
  <2>5. verdict[k].due <= v.due
    BY <1>2, <1>4, <1>8, <2>3, <2>4
  <2> QED
    BY <1>1, <1>7, <2>2, <2>3, <2>5
<1> QED
  BY <1>9, <1>10 DEF TimeInv

LEMMA TimeSent ==
  ASSUME TypeInv, DeliveryInv, NEW j \in job,
         NEW outcome \in {"forwarded", "send_errors"}, Sent(j, outcome)
  PROVE  TimeInv'
<1> DEFINE id == j.packet.id
<1>1. /\ job' = {} /\ verdict' = verdict /\ clock' = clock
      /\ attempts' = [attempts EXCEPT ![id] = @ + 1]
  BY DEF Sent, envVars
<1>2. attempts \in [PacketIds -> Nat] /\ clock \in Nat /\ verdict \in [PacketIds -> Verdict]
  BY DEF TypeInv, TypeOK
<1>3. /\ id \in PacketIds
      /\ j.copyAfter # {} => verdict[id].kind = "duplicate"
  BY DEF DeliveryInv, LifeInv
<1>4. \A q \in delayQueue' :
        \/ q \in delayQueue
        \/ /\ q.packet.id = id /\ verdict[id].kind = "duplicate"
           /\ \E after \in Nat : q.due = clock + after
  <2>1. CASE j.copyAfter = {}
    BY <2>1 DEF Sent
  <2>2. CASE j.copyAfter # {}
    <3>1. PICK after \in j.copyAfter : delayQueue' = Enqueue(j.packet, after)
      BY <2>2 DEF Sent
    <3>2. after \in Nat
      BY DEF TypeInv, TypeOK, Option, Job
    <3> QED
      BY <1>3, <2>2, <3>1, <3>2, EnqueueAdds
  <2> QED
    BY <2>1, <2>2
<1>5. ASSUME NEW k \in PacketIds, Left(k)' PROVE Left(k)
  <2>1. CASE k = id
    BY <2>1 DEF Left, InJob
  <2>2. CASE k # id
    BY <1>1, <1>2, <1>5, <2>2 DEF Left, InJob
  <2> QED
    BY <2>1, <2>2
<1> HIDE DEF id
<1>6. ASSUME NEW k \in PacketIds, verdict'[k].kind = "delay", Left(k)'
      PROVE  verdict'[k].due <= clock' /\ \A q \in delayQueue' : verdict'[k].due <= q.due
  <2>1. verdict[k].due <= clock /\ \A q \in delayQueue : verdict[k].due <= q.due
    BY <1>1, <1>5, <1>6 DEF DeliveryInv, TimeInv
  <2>2. verdict[k].due \in Nat
    BY <1>2 DEF Verdict
  <2>3. ASSUME NEW after \in Nat PROVE verdict[k].due <= clock + after
    BY <1>2, <2>1, <2>2
  <2> QED
    BY <1>1, <1>4, <2>1, <2>3
<1>7. \A q \in delayQueue' : verdict'[q.packet.id].kind = "delay" => q.due = verdict'[q.packet.id].due
  BY <1>1, <1>4 DEF DeliveryInv, TimeInv
<1> QED
  BY <1>6, <1>7 DEF TimeInv

\* The timer that fires is the earliest of those waiting, and it is due.
LEMMA TimeExpire ==
  ASSUME TypeInv, DeliveryInv, Expire
  PROVE  TimeInv'
<1>1. PICK e \in NextExpired : /\ delayQueue' = delayQueue \ {e}
                              /\ job' = {[packet |-> e.packet, copyAfter |-> {}]}
  BY DEF Expire
<1>2. /\ e \in delayQueue /\ e.due <= clock
      /\ \A q \in delayQueue : e.due <= q.due
  BY DEF NextExpired
<1>3. verdict' = verdict /\ attempts' = attempts /\ clock' = clock
  BY DEF Expire, envVars, history
<1>4. ASSUME NEW k \in PacketIds, verdict[k].kind = "delay", Left(k)'
      PROVE  verdict[k].due <= clock /\ \A q \in delayQueue : verdict[k].due <= q.due
  <2>1. CASE k = e.packet.id
    BY <1>2, <1>4, <2>1 DEF DeliveryInv, TimeInv
  <2>2. CASE k # e.packet.id
    BY <1>1, <1>3, <1>4, <2>2 DEF DeliveryInv, TimeInv, Left, InJob
  <2> QED
    BY <2>1, <2>2
<1> QED
  BY <1>1, <1>3, <1>4 DEF DeliveryInv, TimeInv

LEMMA TimeStep == TypeInv /\ DeliveryInv /\ [Next]_vars => TimeInv'
<1> SUFFICES ASSUME TypeInv, DeliveryInv, [Next]_vars PROVE TimeInv'
  OBVIOUS
<1>1. CASE Receive
  BY <1>1, TimeReceive
<1>2. CASE SendSucceeds \/ SendFails
  BY <1>2, TimeSent DEF SendSucceeds, SendFails
<1>3. CASE Expire
  BY <1>3, TimeExpire
<1>4. CASE ReceiveFails \/ Cancel
  BY <1>4 DEF ReceiveFails, Cancel, Halt, envVars, DeliveryInv, TimeInv, Left, InJob
<1>5. CASE Tick
  <2>1. clock' = clock + 1 /\ UNCHANGED <<verdict, attempts, delayQueue, job>>
    BY <1>5 DEF Tick, history
  <2>2. clock \in Nat /\ \A id \in PacketIds : verdict[id].due \in Nat
    BY DEF TypeInv, TypeOK, Verdict
  <2> QED
    BY <2>1, <2>2 DEF DeliveryInv, TimeInv, Left, InJob
<1>6. CASE SwapReload \/ Arrive \/ Publish \/ (\E o \in Observers : Load(o) \/ Release(o))
             \/ Halted \/ UNCHANGED vars
  <2>1. UNCHANGED <<clock, verdict, attempts, delayQueue, job>>
    BY <1>6 DEF SwapReload, Arrive, Publish, PublishFlow, Load, Release, Halted, vars, history, envVars
  <2> QED
    BY <2>1 DEF DeliveryInv, TimeInv, Left, InJob
<1> QED
  BY <1>1, <1>2, <1>3, <1>4, <1>5, <1>6 DEF Next, Loop, Environment

-----------------------------------------------------------------------------
(* OrderInv: the order in which packets are taken in and sent.             *)

LEMMA OrderReceive ==
  ASSUME TypeInv, DeliveryInv, Receive
  PROVE  OrderInv'
<1> DEFINE id == Incoming.id
<1>1. /\ pc = "select" /\ socket # <<>> /\ socket' = Tail(socket)
      /\ attempts' = attempts /\ arrived' = arrived
  BY DEF Receive
<1>2. PICK v \in Verdict, e \in Effects :
        /\ v.kind = e.kind
        /\ v.due = clock + e.after
        /\ verdict' = [verdict EXCEPT ![id] = v]
        /\ \/ OnForward(e)
           \/ OnDrop(e)
           \/ OnDelay(e)
           \/ OnOversizedDelay(e)
           \/ OnDuplicate(e)
  BY ReceiveShape
<1>3. job = {} /\ id \in PacketIds /\ id = socket[1].id
  BY <1>1, IncomingIsNew
<1>4. /\ verdict \in [PacketIds -> Verdict] /\ attempts \in [PacketIds -> Nat]
      /\ socket \in Seq(Datagram) /\ Len(socket) \in Nat /\ Len(socket) > 0
      /\ PacketIds \subseteq Nat /\ arrived \in Nat
  BY <1>1, ProxyAssumption DEF TypeInv, TypeOK, PacketIds
<1>5. verdict'[id] = v /\ \A k \in PacketIds : k # id => verdict'[k] = verdict[k]
  BY <1>2, <1>3, <1>4
<1>6. \/ job' = {} /\ v.kind \notin {"forward", "duplicate"}
      \/ \E after : job' = {[packet |-> Incoming, copyAfter |-> after]} /\ pc' = "send"
  BY <1>2, <1>3 DEF OnForward, OnDrop, OnDelay, OnOversizedDelay, Halt, OnDuplicate
<1>7. \A j \in job' : j.packet.id = id
  BY <1>6
<1>8. ASSUME v.kind \in {"forward", "duplicate"} PROVE \E j \in job' : j.packet.id = id
  <2>1. PICK after : job' = {[packet |-> Incoming, copyAfter |-> after]}
    BY <1>6, <1>8
  <2>2. [packet |-> Incoming, copyAfter |-> after].packet.id = id
    OBVIOUS
  <2> QED
    BY <2>1, <2>2
<1> HIDE DEF id
<1>9. Len(socket') = Len(socket) - 1 /\ \A n \in 1 .. Len(socket') : socket'[n] = socket[n + 1]
  BY <1>1, <1>4
<1>10. \A n \in 1 .. Len(socket) : /\ socket[n].id <= arrived
                                   /\ socket[n].id \in Nat
                                   /\ \A m \in 1 .. n - 1 : socket[m].id < socket[n].id
  <2>1. \A n \in 1 .. Len(socket) : socket[n] \in Datagram
    BY <1>4
  <2>2. \A datagram \in Datagram : datagram.id \in Nat
    BY <1>4 DEF Datagram
  <2> QED
    BY <2>1, <2>2 DEF DeliveryInv, OrderInv
<1>11. \A n \in 1 .. Len(socket') :
         /\ socket'[n].id <= arrived'
         /\ id < socket'[n].id
         /\ \A m \in 1 .. n - 1 : socket'[m].id < socket'[n].id
  <2> SUFFICES ASSUME NEW n \in 1 .. Len(socket')
               PROVE  /\ socket'[n].id <= arrived'
                      /\ id < socket'[n].id
                      /\ \A m \in 1 .. n - 1 : socket'[m].id < socket'[n].id
    OBVIOUS
  <2>1. n + 1 \in 1 .. Len(socket) /\ socket'[n] = socket[n + 1]
    BY <1>4, <1>9
  <2>2. socket'[n].id <= arrived' /\ id < socket'[n].id
    BY <1>1, <1>3, <1>10, <2>1
  <2>3. ASSUME NEW m \in 1 .. n - 1 PROVE socket'[m].id < socket'[n].id
    <3>1. m + 1 \in 1 .. (n + 1) - 1 /\ m \in 1 .. Len(socket')
      BY <1>4, <1>9
    <3> QED
      BY <1>9, <1>10, <2>1, <3>1
  <2> QED
    BY <2>2, <2>3
<1>12. ASSUME NEW k \in PacketIds, verdict'[k].kind # "none"
       PROVE  k <= arrived' /\ \A n \in 1 .. Len(socket') : k < socket'[n].id
  <2>1. CASE k = id
    BY <1>1, <1>3, <1>4, <1>10, <1>11, <2>1
  <2>2. CASE k # id
    <3>1. k <= arrived /\ \A n \in 1 .. Len(socket) : k < socket[n].id
      BY <1>5, <1>12, <2>2 DEF DeliveryInv, OrderInv
    <3>2. \A n \in 1 .. Len(socket') : n + 1 \in 1 .. Len(socket)
      BY <1>4, <1>9
    <3> QED
      BY <1>1, <1>9, <3>1, <3>2
  <2> QED
    BY <2>1, <2>2
<1>13. \A k \in PacketIds : k # id /\ Direct(k)' => attempts[k] > 0
  <2>1. \A k \in PacketIds : Direct(k) => attempts[k] > 0
    BY <1>1, <1>3 DEF DeliveryInv, OrderInv, Left, InJob, Running
  <2> QED
    BY <1>5, <2>1 DEF Direct
<1>14. Running' => \A k \in PacketIds : Direct(k)' => Left(k)'
  BY <1>1, <1>5, <1>8, <1>13 DEF Direct, Left, InJob
<1>15. ASSUME NEW i \in PacketIds, NEW k \in PacketIds,
              i < k, Direct(i)', Direct(k)', Left(k)'
       PROVE  attempts'[i] > 0
  <2>1. CASE i = id
    <3>1. k # id /\ verdict[k].kind # "none"
      BY <1>4, <1>5, <1>15, <2>1 DEF Direct
    <3>2. k < id
      BY <1>3, <1>4, <3>1 DEF DeliveryInv, OrderInv
    <3> QED
      BY <1>4, <1>15, <2>1, <3>2
  <2>2. CASE i # id
    BY <1>1, <1>13, <1>15, <2>2
  <2> QED
    BY <2>1, <2>2
<1>16. job' # {} => pc' = "send"
  BY <1>6
<1> QED
  BY <1>11, <1>12, <1>14, <1>15, <1>16 DEF OrderInv

LEMMA OrderSent ==
  ASSUME TypeInv, DeliveryInv, NEW j \in job,
         NEW outcome \in {"forwarded", "send_errors"}, Sent(j, outcome)
  PROVE  OrderInv'
<1> DEFINE id == j.packet.id
<1>1. /\ job' = {} /\ pc' = "reload"
      /\ attempts' = [attempts EXCEPT ![id] = @ + 1]
      /\ UNCHANGED <<verdict, socket, arrived>>
  BY DEF Sent, envVars
<1>2. attempts \in [PacketIds -> Nat] /\ id \in PacketIds /\ \A k \in job : k = j
  BY DEF TypeInv, TypeOK, DeliveryInv, LifeInv, Option
<1>3. pc = "send"
  BY DEF DeliveryInv, OrderInv
<1>4. ASSUME NEW k \in PacketIds
      PROVE  Left(k)' = Left(k) /\ (attempts[k] > 0 => attempts'[k] > 0)
  <2>1. CASE k = id
    BY <1>1, <1>2, <2>1 DEF Left, InJob
  <2>2. CASE k # id
    BY <1>1, <1>2, <2>2 DEF Left, InJob
  <2> QED
    BY <2>1, <2>2
<1> QED
  BY <1>1, <1>3, <1>4 DEF DeliveryInv, OrderInv, Direct, Running

LEMMA OrderExpire ==
  ASSUME TypeInv, DeliveryInv, Expire
  PROVE  OrderInv'
<1>1. PICK e \in delayQueue : job' = {[packet |-> e.packet, copyAfter |-> {}]}
  BY DEF Expire, NextExpired
<1>2. /\ pc = "select" /\ pc' = "send" /\ job = {}
      /\ UNCHANGED <<verdict, attempts, socket, arrived>>
  BY DEF Expire, envVars, history, DeliveryInv, OrderInv
<1>3. ASSUME NEW k \in PacketIds, Direct(k) PROVE Left(k)' = Left(k)
  <2>1. CASE k = e.packet.id
    <3>1. attempts[k] = 1
      BY <1>3, <2>1 DEF DeliveryInv, LifeInv, Direct
    <3> QED
      BY <1>2, <3>1 DEF Left
  <2>2. CASE k # e.packet.id
    BY <1>1, <1>2, <2>2 DEF Left, InJob
  <2> QED
    BY <2>1, <2>2
<1> QED
  BY <1>2, <1>3 DEF DeliveryInv, OrderInv, Direct, Running

LEMMA OrderArrive ==
  ASSUME TypeInv, DeliveryInv, Arrive
  PROVE  OrderInv'
<1>1. /\ arrived' = arrived + 1 /\ arrived \in Nat
      /\ UNCHANGED <<verdict, attempts, pc, job>>
  BY ProxyAssumption DEF Arrive, history, TypeInv, TypeOK
<1>2. socket \in Seq(Datagram) /\ PacketIds \subseteq Nat
  BY ProxyAssumption DEF TypeInv, TypeOK, PacketIds
<1>3. \A n \in 1 .. Len(socket) : socket[n].id \in Nat
  <2>1. \A n \in 1 .. Len(socket) : socket[n] \in Datagram
    BY <1>2
  <2> QED
    BY <1>2, <2>1 DEF Datagram
<1>4. \A n \in 1 .. Len(socket') : \/ n \in 1 .. Len(socket) /\ socket'[n] = socket[n]
                                   \/ n = Len(socket) + 1 /\ socket'[n].id = arrived'
  <2>1. CASE socket' = socket
    BY <2>1
  <2>2. CASE socket' # socket
    <3>1. PICK h \in Headers : socket' = Append(socket, [id |-> arrived + 1, header |-> h])
      BY <2>2 DEF Arrive
    <3> DEFINE datagram == [id |-> arrived + 1, header |-> h]
    <3>2. datagram.id = arrived'
      BY <1>1
    <3> HIDE DEF datagram
    <3>3. socket' = Append(socket, datagram)
      BY <3>1 DEF datagram
    <3> QED
      BY <1>2, <3>2, <3>3
  <2> QED
    BY <2>1, <2>2
<1>5. \A n \in 1 .. Len(socket') :
        /\ socket'[n].id <= arrived'
        /\ \A m \in 1 .. n - 1 : socket'[m].id < socket'[n].id
  <2> SUFFICES ASSUME NEW n \in 1 .. Len(socket')
               PROVE  /\ socket'[n].id <= arrived'
                      /\ \A m \in 1 .. n - 1 : socket'[m].id < socket'[n].id
    OBVIOUS
  <2>1. Len(socket) \in Nat
    BY <1>2
  <2>2. CASE n \in 1 .. Len(socket) /\ socket'[n] = socket[n]
    <3>1. socket[n].id <= arrived /\ \A m \in 1 .. n - 1 : socket[m].id < socket[n].id
      BY <2>2 DEF DeliveryInv, OrderInv
    <3>2. \A m \in 1 .. n - 1 : m \in 1 .. Len(socket') /\ m # Len(socket) + 1
      BY <2>1, <2>2
    <3>3. \A m \in 1 .. n - 1 : socket'[m] = socket[m]
      BY <1>4, <3>2
    <3>4. socket'[n].id <= arrived'
      BY <1>1, <1>3, <2>2, <3>1
    <3>5. \A m \in 1 .. n - 1 : socket'[m].id < socket'[n].id
      BY <2>2, <3>1, <3>3
    <3> QED
      BY <3>4, <3>5
  <2>3. CASE n = Len(socket) + 1 /\ socket'[n].id = arrived'
    <3>1. \A m \in 1 .. n - 1 : m \in 1 .. Len(socket) /\ m \in 1 .. Len(socket')
      BY <2>1, <2>3
    <3>2. \A m \in 1 .. n - 1 : socket'[m] = socket[m] /\ socket[m].id <= arrived
      BY <1>4, <2>1, <2>3, <3>1 DEF DeliveryInv, OrderInv
    <3> QED
      BY <1>1, <1>3, <2>3, <3>1, <3>2
  <2> QED
    BY <1>4, <2>2, <2>3
<1>6. ASSUME NEW k \in PacketIds, verdict'[k].kind # "none"
      PROVE  k <= arrived' /\ \A n \in 1 .. Len(socket') : k < socket'[n].id
  <2>1. k \in Nat /\ k <= arrived /\ \A n \in 1 .. Len(socket) : k < socket[n].id
    BY <1>1, <1>2, <1>6 DEF DeliveryInv, OrderInv
  <2> QED
    BY <1>1, <1>4, <2>1
<1>7. \A k \in PacketIds : Left(k)' = Left(k) /\ Direct(k)' = Direct(k)
  BY <1>1 DEF Left, InJob, Direct
<1> QED
  BY <1>1, <1>5, <1>6, <1>7 DEF DeliveryInv, OrderInv, Running

LEMMA OrderStep == TypeInv /\ DeliveryInv /\ [Next]_vars => OrderInv'
<1> SUFFICES ASSUME TypeInv, DeliveryInv, [Next]_vars PROVE OrderInv'
  OBVIOUS
<1>1. CASE Receive
  BY <1>1, OrderReceive
<1>2. CASE SendSucceeds \/ SendFails
  BY <1>2, OrderSent DEF SendSucceeds, SendFails
<1>3. CASE Expire
  BY <1>3, OrderExpire
<1>4. CASE ReceiveFails \/ Cancel
  <2>1. job' = {} /\ ~Running' /\ UNCHANGED <<verdict, attempts, socket, arrived>>
    BY <1>4 DEF ReceiveFails, Cancel, Halt, envVars, Running
  <2>2. \A k \in PacketIds : Left(k)' => Left(k)
    BY <2>1 DEF Left, InJob
  <2> QED
    BY <2>1, <2>2 DEF DeliveryInv, OrderInv, Direct
<1>5. CASE Arrive
  BY <1>5, OrderArrive
<1>6. CASE SwapReload \/ Tick \/ Publish \/ (\E o \in Observers : Load(o) \/ Release(o))
             \/ Halted \/ UNCHANGED vars
  <2>1. /\ UNCHANGED <<verdict, attempts, socket, arrived, job>>
        /\ pc' = pc \/ (pc = "reload" /\ pc' = "select")
    <3>1. CASE SwapReload
      BY <3>1 DEF SwapReload, envVars
    <3>2. CASE Tick \/ Publish
      BY <3>2 DEF Tick, Publish, PublishFlow, history, envVars
    <3>3. CASE \E o \in Observers : Load(o) \/ Release(o)
      BY <3>3 DEF Load, Release, history, envVars
    <3>4. CASE Halted \/ UNCHANGED vars
      BY <3>4 DEF Halted, vars
    <3> QED
      BY <1>6, <3>1, <3>2, <3>3, <3>4
  <2> QED
    BY <2>1 DEF DeliveryInv, OrderInv, Direct, Left, InJob, Running
<1> QED
  BY <1>1, <1>2, <1>3, <1>4, <1>5, <1>6 DEF Next, Loop, Environment

-----------------------------------------------------------------------------
(* The invariant and what follows from it.                                 *)

LEMMA DeliveryInit == Init => DeliveryInv
<1> SUFFICES ASSUME Init PROVE DeliveryInv
  OBVIOUS
<1>1. /\ delayQueue = {} /\ job = {} /\ socket = <<>>
      /\ \A id \in PacketIds : verdict[id].kind = "none" /\ attempts[id] = 0
  BY DEF Init
<1>2. LifeInv
  <2>1. Owed("none") = 0
    BY DEF Owed
  <2> QED
    BY <1>1, <2>1 DEF LifeInv
<1>3. TimeInv
  BY <1>1 DEF TimeInv
<1>4. OrderInv
  BY <1>1 DEF OrderInv, Direct
<1> QED
  BY <1>2, <1>3, <1>4 DEF DeliveryInv

LEMMA DeliveryInvariant == Spec => []DeliveryInv
<1>1. TypeInv /\ DeliveryInv /\ [Next]_vars => DeliveryInv'
  BY LifeStep, TimeStep, OrderStep DEF DeliveryInv
<1> QED
  BY <1>1, DeliveryInit, TypeInvariant, PTL DEF Spec

\* A set all of whose elements are equal has at most one.
LEMMA AtMostOne ==
  ASSUME NEW S, \A x, y \in S : x = y
  PROVE  IsFiniteSet(S) /\ Cardinality(S) = IF S = {} THEN 0 ELSE 1
<1>1. CASE S = {}
  BY <1>1, FS_EmptySet
<1>2. CASE S # {}
  <2>1. PICK x \in S : S = {x}
    BY <1>2
  <2> QED
    BY <1>2, <2>1, FS_Singleton
<1> QED
  BY <1>1, <1>2

\* A packet waits at most once and is in hand at most once.
LEMMA CopiesOfPacket ==
  ASSUME TypeInv, DeliveryInv, NEW id \in PacketIds
  PROVE  /\ Waiting(id) = IF Awaits(id) THEN 1 ELSE 0
         /\ InHand(id) = IF InJob(id) THEN 1 ELSE 0
<1>1. Waiting(id) = IF Awaits(id) THEN 1 ELSE 0
  <2> DEFINE W == {e \in delayQueue : e.packet.id = id}
  <2>1. (\A x, y \in W : x = y) /\ (W # {} <=> Awaits(id))
    BY DEF DeliveryInv, LifeInv, Awaits
  <2> HIDE DEF W
  <2>2. Cardinality(W) = IF Awaits(id) THEN 1 ELSE 0
    BY <2>1, AtMostOne
  <2> QED
    BY <2>2 DEF W, Waiting
<1>2. InHand(id) = IF InJob(id) THEN 1 ELSE 0
  <2> DEFINE H == {j \in job : j.packet.id = id}
  <2>1. (\A x, y \in H : x = y) /\ (H # {} <=> InJob(id))
    BY DEF TypeInv, TypeOK, Option, InJob
  <2> HIDE DEF H
  <2>2. Cardinality(H) = IF InJob(id) THEN 1 ELSE 0
    BY <2>1, AtMostOne
  <2> QED
    BY <2>2 DEF H, InHand
<1> QED
  BY <1>1, <1>2

\* No packet is sent more often than its verdict says, over its whole life
\* and in any interleaving: a dropped one never, a duplicated one twice.
THEOREM NothingIsSentTwice == Spec => []SentAsDecided
<1>1. TypeInv /\ DeliveryInv => SentAsDecided
  <2> SUFFICES ASSUME TypeInv, DeliveryInv, NEW id \in PacketIds
               PROVE  /\ attempts[id] + Waiting(id) + InHand(id) <= Owed(verdict[id].kind)
                      /\ verdict[id].kind = "duplicate" /\ Waiting(id) > 0 => attempts[id] = 1
    BY DEF SentAsDecided
  <2>1. /\ Waiting(id) = IF Awaits(id) THEN 1 ELSE 0
        /\ InHand(id) = IF InJob(id) THEN 1 ELSE 0
    BY CopiesOfPacket
  <2>2. attempts[id] \in Nat /\ attempts[id] <= Owed(verdict[id].kind)
    BY DEF TypeInv, TypeOK, DeliveryInv, LifeInv
  <2>3. CASE Awaits(id)
    <3>1. /\ ~InJob(id)
          /\ \/ verdict[id].kind = "delay" /\ attempts[id] = 0
             \/ verdict[id].kind = "duplicate" /\ attempts[id] = 1
      BY <2>3 DEF DeliveryInv, LifeInv, Awaits, InJob
    <3> QED
      BY <2>1, <2>3, <3>1 DEF Owed
  <2>4. CASE InJob(id) /\ ~Awaits(id)
    <3>1. \/ verdict[id].kind \in {"forward", "delay"} /\ attempts[id] = 0
          \/ verdict[id].kind = "duplicate" /\ attempts[id] \in {0, 1}
      BY <2>4 DEF DeliveryInv, LifeInv, InJob
    <3> QED
      BY <2>1, <2>4, <3>1 DEF Owed
  <2>5. CASE ~InJob(id) /\ ~Awaits(id)
    <3>1. Waiting(id) = 0 /\ InHand(id) = 0
      BY <2>1, <2>5
    <3> QED
      BY <2>2, <3>1
  <2> QED
    BY <2>3, <2>4, <2>5
<1> QED
  BY <1>1, TypeInvariant, DeliveryInvariant, PTL

\* No interleaving of timers and the loop sends a delayed packet early.
THEOREM DelaysAreKept == Spec => []NotEarly
<1>1. TypeInv /\ DeliveryInv => NotEarly
  <2> SUFFICES ASSUME TypeInv, DeliveryInv, NEW id \in PacketIds,
                      verdict[id].kind = "delay", attempts[id] + InHand(id) > 0
               PROVE  verdict[id].due <= clock
    BY DEF NotEarly
  <2>1. InHand(id) = (IF InJob(id) THEN 1 ELSE 0) /\ attempts[id] \in Nat
    BY CopiesOfPacket DEF TypeInv, TypeOK
  <2>2. Left(id)
    BY <2>1 DEF Left
  <2> QED
    BY <2>2 DEF DeliveryInv, TimeInv
<1> QED
  BY <1>1, TypeInvariant, DeliveryInvariant, PTL

\* Delayed packets leave in the order of their deadlines, whatever is queued
\* while others expire.
THEOREM DeadlinesAreOrdered == Spec => []DeadlineOrder
<1>1. TypeInv /\ DeliveryInv => DeadlineOrder
  <2> SUFFICES ASSUME TypeInv, DeliveryInv, NEW e \in delayQueue, NEW id \in PacketIds,
                      verdict[id].kind = "delay", attempts[id] + InHand(id) > 0
               PROVE  verdict[id].due <= e.due
    BY DEF DeadlineOrder
  <2>1. InHand(id) = (IF InJob(id) THEN 1 ELSE 0) /\ attempts[id] \in Nat
    BY CopiesOfPacket DEF TypeInv, TypeOK
  <2>2. Left(id)
    BY <2>1 DEF Left
  <2> QED
    BY <2>2 DEF DeliveryInv, TimeInv
<1> QED
  BY <1>1, TypeInvariant, DeliveryInvariant, PTL

\* Packets that are not delayed leave in the order they arrived in.
THEOREM ArrivalOrderIsKept == Spec => []DirectOrder
<1>1. TypeInv /\ DeliveryInv => DirectOrder
  <2> SUFFICES ASSUME TypeInv, DeliveryInv, NEW i \in PacketIds, NEW k \in PacketIds, i < k,
                      {verdict[i].kind, verdict[k].kind} \subseteq {"forward", "duplicate"},
                      attempts[k] + InHand(k) > 0
               PROVE  attempts[i] > 0
    BY DEF DirectOrder
  <2>1. InHand(k) = (IF InJob(k) THEN 1 ELSE 0) /\ attempts[k] \in Nat
    BY CopiesOfPacket DEF TypeInv, TypeOK
  <2>2. Left(k) /\ Direct(i) /\ Direct(k)
    BY <2>1 DEF Left, Direct
  <2> QED
    BY <2>2 DEF DeliveryInv, OrderInv
<1> QED
  BY <1>1, TypeInvariant, DeliveryInvariant, PTL

-----------------------------------------------------------------------------
(* The counters account for every packet.                                  *)

\* The packets decided on are finitely many.
LEMMA DecidedIsFinite ==
  ASSUME NEW kind
  PROVE  IsFiniteSet({k \in PacketIds : verdict[k].kind = kind}) /\ Decided(kind) \in Nat
<1> DEFINE counted == {k \in PacketIds : verdict[k].kind = kind}
<1>1. IsFiniteSet(PacketIds)
  BY FS_Interval, ProxyAssumption DEF PacketIds
<1>2. IsFiniteSet(counted)
  <2>1. counted \in SUBSET PacketIds
    OBVIOUS
  <2> HIDE DEF counted
  <2> QED
    BY <1>1, <2>1, FS_Subset
<1>3. Cardinality(counted) \in Nat
  <2> HIDE DEF counted
  <2> QED
    BY <1>2, FS_CardinalityType
<1> QED
  BY <1>2, <1>3 DEF Decided

\* Deciding on one more packet adds one to those of its kind.
LEMMA DecidedAfter ==
  ASSUME NEW id \in PacketIds, NEW v \in Verdict, NEW kind \in Kinds,
         verdict[id].kind = "none", verdict'[id] = v,
         \A k \in PacketIds : k # id => verdict'[k] = verdict[k]
  PROVE  Decided(kind)' = Decided(kind) + (IF v.kind = kind THEN 1 ELSE 0)
<1> DEFINE counted == {k \in PacketIds : verdict[k].kind = kind}
           recount == {k \in PacketIds : verdict'[k].kind = kind}
<1>1. IsFiniteSet(counted) /\ Decided(kind) = Cardinality(counted)
  BY DecidedIsFinite DEF Decided
<1>2. id \notin counted /\ recount = IF v.kind = kind THEN counted \cup {id} ELSE counted
  BY DEF Kinds
<1>3. Decided(kind)' = Cardinality(recount)
  BY DEF Decided
<1>4. Decided(kind) \in Nat
  BY DecidedIsFinite
<1> HIDE DEF counted, recount
<1>5. Cardinality(counted \cup {id}) = Cardinality(counted) + 1
  BY <1>1, <1>2, FS_AddElement
<1> QED
  BY <1>1, <1>2, <1>3, <1>4, <1>5

\* How many sends are in hand, and how many copies wait for one of them.
LEMMA JobCount ==
  ASSUME NEW J \in Option(Job)
  PROVE  /\ Cardinality(J) = IF J = {} THEN 0 ELSE 1
         /\ Cardinality({j \in J : j.copyAfter # {}})
              = IF \E j \in J : j.copyAfter # {} THEN 1 ELSE 0
<1>1. \A x, y \in J : x = y
  BY DEF Option
<1> DEFINE C == {j \in J : j.copyAfter # {}}
<1>2. (\A x, y \in C : x = y) /\ (C # {} <=> \E j \in J : j.copyAfter # {})
  BY <1>1
<1> HIDE DEF C
<1>3. Cardinality(C) = IF \E j \in J : j.copyAfter # {} THEN 1 ELSE 0
  BY <1>2, AtMostOne
<1> QED
  BY <1>1, <1>3, AtMostOne DEF C

\* A packet that is not in the queue yet takes one more place in it.
LEMMA EnqueueCount ==
  ASSUME TypeInv, NEW p \in Packet, NEW after \in Nat, ~Awaits(p.id)
  PROVE  /\ Cardinality(delayQueue) \in Nat
         /\ Cardinality(Enqueue(p, after)) = Cardinality(delayQueue) + (IF HasRoom THEN 1 ELSE 0)
<1> DEFINE e == [packet |-> p, due |-> clock + after]
<1>1. e \notin delayQueue
  BY DEF Awaits
<1>2. IsFiniteSet(delayQueue)
  BY DEF TypeInv, Bounded
<1>3. Enqueue(p, after) = IF HasRoom THEN delayQueue \cup {e} ELSE delayQueue
  BY DEF Enqueue
<1> HIDE DEF e
<1>4. Cardinality(delayQueue) \in Nat
  BY <1>2, FS_CardinalityType
<1> QED
  BY <1>1, <1>2, <1>3, <1>4, FS_AddElement

BalanceInv == CopiesBalance /\ HoldsBalance

LEMMA BalanceReceive ==
  ASSUME TypeInv, TypeInv', DeliveryInv, BalanceInv, Receive
  PROVE  BalanceInv'
<1> DEFINE id == Incoming.id
<1>1. pc = "select" /\ socket # <<>>
  BY DEF Receive
<1>2. PICK v \in Verdict, e \in Effects :
        /\ v.kind = e.kind
        /\ v.due = clock + e.after
        /\ verdict' = [verdict EXCEPT ![id] = v]
        /\ \/ OnForward(e)
           \/ OnDrop(e)
           \/ OnDelay(e)
           \/ OnOversizedDelay(e)
           \/ OnDuplicate(e)
  BY ReceiveShape
<1>3. /\ job = {} /\ id \in PacketIds /\ Incoming \in Packet
      /\ verdict[id].kind = "none" /\ ~Awaits(id)
  BY <1>1, IncomingIsNew, IncomingType
<1>4. /\ verdict \in [PacketIds -> Verdict] /\ stats \in [Counters -> Nat]
      /\ abandoned \in Nat /\ e.after \in Nat /\ Cardinality(delayQueue) \in Nat
  BY FS_CardinalityType DEF TypeInv, TypeOK, Bounded, Effects
<1>5. \A kind \in Kinds :
        /\ Decided(kind) \in Nat
        /\ Decided(kind)' = Decided(kind) + (IF v.kind = kind THEN 1 ELSE 0)
  <2>1. verdict'[id] = v /\ \A k \in PacketIds : k # id => verdict'[k] = verdict[k]
    BY <1>2, <1>3, <1>4
  <2> HIDE DEF id
  <2> QED
    BY <1>3, <2>1, DecidedAfter, DecidedIsFinite
<1>6. /\ Cardinality(job) = 0 /\ PendingCopies = 0
      /\ Cardinality(job') = IF job' = {} THEN 0 ELSE 1
      /\ PendingCopies' = IF \E j \in job' : j.copyAfter # {} THEN 1 ELSE 0
  <2>1. job \in Option(Job) /\ job' \in Option(Job)
    BY DEF TypeInv, TypeOK
  <2> QED
    BY <1>3, <2>1, JobCount DEF PendingCopies
<1> HIDE DEF id
<1>7. /\ stats.forwarded + stats.send_errors + Cardinality(delayQueue) + abandoned
           = Decided("forward") + Decided("duplicate") + stats.delayed + stats.duplicated
      /\ stats.delayed + stats.duplicated + stats.queue_overflows
           = Decided("delay") + Decided("duplicate")
      /\ stats.dropped = Decided("drop")
      /\ Running
  BY <1>1, <1>4, <1>6 DEF BalanceInv, CopiesBalance, HoldsBalance, Running, Counters
<1>8. CASE OnForward(e) \/ OnDuplicate(e)
  <2>1. /\ UNCHANGED <<delayQueue, stats, abandoned>>
        /\ v.kind \in {"forward", "duplicate"}
        /\ \E after \in {{}, {e.after}} :
             /\ job' = {[packet |-> Incoming, copyAfter |-> after]}
             /\ v.kind = IF after = {} THEN "forward" ELSE "duplicate"
    BY <1>2, <1>8 DEF OnForward, OnDuplicate
  <2>2. Cardinality(job') = 1 /\ PendingCopies' = IF v.kind = "duplicate" THEN 1 ELSE 0
    <3>1. PICK after \in {{}, {e.after}} :
             /\ job' = {[packet |-> Incoming, copyAfter |-> after]}
             /\ v.kind = IF after = {} THEN "forward" ELSE "duplicate"
      BY <2>1
    <3>2. [packet |-> Incoming, copyAfter |-> after].copyAfter = after
      OBVIOUS
    <3>3. /\ job' # {}
          /\ (\E j \in job' : j.copyAfter # {}) <=> after # {}
      BY <3>1, <3>2
    <3>4. Cardinality(job') = 1 /\ PendingCopies' = IF after # {} THEN 1 ELSE 0
      BY <1>6, <3>3
    <3> QED
      BY <3>1, <3>4
  <2> QED
    BY <1>4, <1>5, <1>7, <2>1, <2>2 DEF BalanceInv, CopiesBalance, HoldsBalance, Counters, Kinds
<1>9. CASE OnDrop(e)
  <2>1. /\ UNCHANGED <<delayQueue, job, abandoned>>
        /\ v.kind = "drop"
        /\ stats' = [stats EXCEPT !.dropped = @ + 1]
    BY <1>2, <1>9 DEF OnDrop, Count
  <2>2. Cardinality(job') = 0 /\ PendingCopies' = 0
    BY <1>3, <1>6, <2>1
  <2> QED
    BY <1>4, <1>5, <1>7, <2>1, <2>2 DEF BalanceInv, CopiesBalance, HoldsBalance, Counters, Kinds
<1>10. CASE OnDelay(e)
  <2>1. /\ UNCHANGED <<job, abandoned>>
        /\ v.kind = "delay"
        /\ stats' = IF HasRoom THEN [stats EXCEPT !.delayed = @ + 1]
                    ELSE [stats EXCEPT !.queue_overflows = @ + 1]
        /\ delayQueue' = Enqueue(Incoming, e.after)
    BY <1>2, <1>10 DEF OnDelay, CountEnqueue, Count
  <2>2. Cardinality(delayQueue') = Cardinality(delayQueue) + (IF HasRoom THEN 1 ELSE 0)
    BY <1>3, <1>4, <2>1, EnqueueCount DEF id
  <2>3. Cardinality(job') = 0 /\ PendingCopies' = 0
    BY <1>3, <1>6, <2>1
  <2> QED
    BY <1>4, <1>5, <1>7, <2>1, <2>2, <2>3
    DEF BalanceInv, CopiesBalance, HoldsBalance, Counters, Kinds
<1>11. CASE OnOversizedDelay(e)
  <2>1. /\ v.kind = "delay"
        /\ stats' = stats /\ delayQueue' = {} /\ job' = {} /\ ~Running'
        /\ abandoned' = abandoned + Cardinality(delayQueue)
    BY <1>2, <1>4, <1>6, <1>11 DEF OnOversizedDelay, Halt, Running
  <2>2. Cardinality(delayQueue') = 0 /\ Cardinality(job') = 0
    BY <1>6, <2>1, FS_EmptySet
  <2> QED
    BY <1>4, <1>5, <1>7, <2>1, <2>2 DEF BalanceInv, CopiesBalance, HoldsBalance, Counters, Kinds
<1> QED
  BY <1>2, <1>8, <1>9, <1>10, <1>11

LEMMA BalanceSent ==
  ASSUME TypeInv, TypeInv', DeliveryInv, BalanceInv, NEW j \in job,
         NEW outcome \in {"forwarded", "send_errors"}, Sent(j, outcome)
  PROVE  BalanceInv'
<1>1. /\ pc' = "reload" /\ job' = {} /\ verdict' = verdict /\ abandoned' = abandoned
  BY DEF Sent
<1>2. /\ stats \in [Counters -> Nat] /\ abandoned \in Nat /\ Cardinality(delayQueue) \in Nat
      /\ job \in Option(Job) /\ job' \in Option(Job)
      /\ j \in Job /\ j.packet \in Packet /\ \A after \in j.copyAfter : after \in Nat
  BY FS_CardinalityType DEF TypeInv, TypeOK, Bounded, Option, Job
<1>3. /\ Cardinality(job) = 1 /\ Cardinality(job') = 0 /\ PendingCopies' = 0
      /\ PendingCopies = IF j.copyAfter = {} THEN 0 ELSE 1
  <2>1. \A k \in job : k = j
    BY <1>2 DEF Option
  <2> QED
    BY <1>1, <1>2, <2>1, JobCount DEF PendingCopies
<1>4. Running /\ ~Awaits(j.packet.id)
  BY DEF DeliveryInv, OrderInv, LifeInv, Running
<1>5. \A kind : Decided(kind)' = Decided(kind)
  BY <1>1 DEF Decided
<1>6. \A kind : Decided(kind) \in Nat
  BY DecidedIsFinite
<1>7. /\ stats.forwarded + stats.send_errors + Cardinality(delayQueue) + 1 + abandoned
           = Decided("forward") + Decided("duplicate") + stats.delayed + stats.duplicated
      /\ stats.delayed + stats.duplicated + stats.queue_overflows + PendingCopies
           = Decided("delay") + Decided("duplicate")
      /\ stats.dropped = Decided("drop")
  BY <1>3, <1>4 DEF BalanceInv, CopiesBalance, HoldsBalance
<1>8. CASE j.copyAfter = {}
  <2>1. delayQueue' = delayQueue /\ stats' = [stats EXCEPT ![outcome] = @ + 1]
    BY <1>8 DEF Sent, Count
  <2> QED
    BY <1>1, <1>2, <1>3, <1>5, <1>6, <1>7, <1>8, <2>1
    DEF BalanceInv, CopiesBalance, HoldsBalance, Counters, Kinds
<1>9. CASE j.copyAfter # {}
  <2>1. PICK after \in j.copyAfter : delayQueue' = Enqueue(j.packet, after)
    BY <1>9 DEF Sent
  <2>2. Cardinality(delayQueue') = Cardinality(delayQueue) + (IF HasRoom THEN 1 ELSE 0)
    BY <1>2, <1>4, <2>1, EnqueueCount
  <2>3. stats' = IF HasRoom THEN [[stats EXCEPT ![outcome] = @ + 1] EXCEPT !.duplicated = @ + 1]
                 ELSE [[stats EXCEPT ![outcome] = @ + 1] EXCEPT !.queue_overflows = @ + 1]
    BY <1>9 DEF Sent, Count, CountEnqueue
  <2>4. /\ stats'.forwarded + stats'.send_errors = stats.forwarded + stats.send_errors + 1
        /\ stats'.duplicated = stats.duplicated + (IF HasRoom THEN 1 ELSE 0)
        /\ stats'.queue_overflows = stats.queue_overflows + (IF HasRoom THEN 0 ELSE 1)
        /\ stats'.delayed = stats.delayed /\ stats'.dropped = stats.dropped
    <3> DEFINE s == [stats EXCEPT ![outcome] = @ + 1]
    <3>1. /\ s \in [Counters -> Nat]
          /\ s.forwarded + s.send_errors = stats.forwarded + stats.send_errors + 1
          /\ s.duplicated = stats.duplicated /\ s.queue_overflows = stats.queue_overflows
          /\ s.delayed = stats.delayed /\ s.dropped = stats.dropped
      <4>1. CASE outcome = "forwarded"
        BY <1>2, <4>1 DEF Counters
      <4>2. CASE outcome = "send_errors"
        BY <1>2, <4>2 DEF Counters
      <4> QED
        BY <4>1, <4>2
    <3>2. stats' = IF HasRoom THEN [s EXCEPT !.duplicated = @ + 1]
                   ELSE [s EXCEPT !.queue_overflows = @ + 1]
      BY <2>3
    <3> HIDE DEF s
    <3>3. CASE HasRoom
      BY <3>1, <3>2, <3>3 DEF Counters
    <3>4. CASE ~HasRoom
      BY <3>1, <3>2, <3>4 DEF Counters
    <3> QED
      BY <3>3, <3>4
  <2>5. /\ stats.forwarded \in Nat /\ stats.send_errors \in Nat /\ stats.duplicated \in Nat
        /\ stats.queue_overflows \in Nat /\ stats.delayed \in Nat
        /\ stats'.forwarded \in Nat /\ stats'.send_errors \in Nat
    BY <1>2 DEF TypeInv, TypeOK, Counters
  <2>6. CopiesBalance'
    <3>1. /\ Decided("forward")' = Decided("forward") /\ Decided("forward") \in Nat
          /\ Decided("duplicate")' = Decided("duplicate") /\ Decided("duplicate") \in Nat
      BY <1>5, <1>6
    <3> QED
      <4> DEFINE extra == IF HasRoom THEN 1 ELSE 0
      <4>1. extra \in Nat
        OBVIOUS
      <4>2. /\ Cardinality(delayQueue') = Cardinality(delayQueue) + extra
            /\ stats'.duplicated = stats.duplicated + extra
        BY <2>2, <2>4
      <4> HIDE DEF extra
      <4>3. stats'.forwarded + stats'.send_errors + Cardinality(delayQueue') + Cardinality(job')
              + abandoned'
              = (stats.forwarded + stats.send_errors + Cardinality(delayQueue) + 1 + abandoned)
                  + extra
        BY <1>1, <1>2, <1>3, <2>4, <2>5, <4>1, <4>2
      <4> QED
        BY <1>7, <2>4, <2>5, <3>1, <4>1, <4>2, <4>3 DEF CopiesBalance
  <2>7. HoldsBalance'
    <3>1. /\ Decided("delay")' = Decided("delay") /\ Decided("delay") \in Nat
          /\ Decided("duplicate")' = Decided("duplicate") /\ Decided("duplicate") \in Nat
          /\ Decided("drop")' = Decided("drop")
      BY <1>5, <1>6
    <3> QED
      BY <1>2, <1>3, <1>7, <1>9, <2>4, <2>5, <3>1 DEF HoldsBalance
  <2> QED
    BY <2>6, <2>7 DEF BalanceInv
<1> QED
  BY <1>8, <1>9

LEMMA CountersAreNat ==
  ASSUME TypeInv
  PROVE  /\ \A c \in Counters : stats[c] \in Nat
         /\ stats.forwarded + stats.send_errors \in Nat
         /\ abandoned \in Nat
<1>1. (\A c \in Counters : stats[c] \in Nat) /\ abandoned \in Nat
  BY DEF TypeInv, TypeOK
<1>2. stats.forwarded \in Nat /\ stats.send_errors \in Nat
  BY <1>1 DEF Counters
<1> QED
  BY <1>1, <1>2

LEMMA BalanceStep ==
  TypeInv /\ TypeInv' /\ DeliveryInv /\ BalanceInv /\ [Next]_vars => BalanceInv'
<1> SUFFICES ASSUME TypeInv, TypeInv', DeliveryInv, BalanceInv, [Next]_vars PROVE BalanceInv'
  OBVIOUS
<1>1. CASE Receive
  BY <1>1, BalanceReceive
<1>2. CASE SendSucceeds \/ SendFails
  BY <1>2, BalanceSent DEF SendSucceeds, SendFails
<1>3. CASE Expire
  <2>1. PICK e \in NextExpired : /\ delayQueue' = delayQueue \ {e}
                                /\ job' = {[packet |-> e.packet, copyAfter |-> {}]}
    BY <1>3 DEF Expire
  <2>2. e \in delayQueue /\ job = {} /\ Running
    BY <1>3, <2>1 DEF Expire, NextExpired, DeliveryInv, OrderInv, Running
  <2>3. UNCHANGED <<stats, verdict, abandoned>>
    BY <1>3 DEF Expire, history
  <2>4. /\ Cardinality(delayQueue) \in Nat
        /\ Cardinality(delayQueue') = Cardinality(delayQueue) - 1
    BY <2>1, <2>2, FS_RemoveElement, FS_CardinalityType DEF TypeInv, Bounded
  <2>5. /\ Cardinality(job) = 0 /\ PendingCopies = 0
        /\ Cardinality(job') = 1 /\ PendingCopies' = 0
    <3>1. job \in Option(Job) /\ job' \in Option(Job)
      BY DEF TypeInv, TypeOK
    <3>2. job' # {} /\ ~\E j \in job' : j.copyAfter # {}
      BY <2>1
    <3> QED
      BY <2>2, <3>1, <3>2, JobCount DEF PendingCopies
  <2>6. CopiesBalance'
    <3>1. stats.forwarded + stats.send_errors \in Nat /\ abandoned \in Nat
      BY CountersAreNat
    <3> QED
      BY <2>3, <2>4, <2>5, <3>1 DEF BalanceInv, CopiesBalance, Decided
  <2>7. HoldsBalance'
    BY <2>2, <2>3, <2>5 DEF BalanceInv, HoldsBalance, Decided
  <2> QED
    BY <2>6, <2>7 DEF BalanceInv
<1>4. CASE ReceiveFails \/ Cancel
  <2>1. /\ delayQueue' = {} /\ job' = {} /\ ~Running'
        /\ abandoned' = abandoned + Cardinality(delayQueue) + Cardinality(job)
        /\ UNCHANGED <<stats, verdict>>
    BY <1>4 DEF ReceiveFails, Cancel, Halt, Running
  <2>2. /\ Cardinality(delayQueue) \in Nat /\ Cardinality(job) \in Nat /\ abandoned \in Nat
        /\ stats.forwarded + stats.send_errors \in Nat
    BY CountersAreNat, FS_CardinalityType, OptionFacts DEF TypeInv, Bounded, TypeOK
  <2>3. Cardinality(delayQueue') = 0 /\ Cardinality(job') = 0
    BY <2>1, FS_EmptySet
  <2> QED
    BY <2>1, <2>2, <2>3 DEF BalanceInv, CopiesBalance, HoldsBalance, Decided
<1>5. CASE SwapReload \/ Arrive \/ Tick \/ Publish \/ (\E o \in Observers : Load(o) \/ Release(o))
             \/ Halted \/ UNCHANGED vars
  <2>1. UNCHANGED <<stats, verdict, delayQueue, job, abandoned>>
    BY <1>5 DEF SwapReload, Arrive, Tick, Publish, PublishFlow, Load, Release, Halted, vars, history
  <2>2. Running' => Running
    BY <1>5 DEF SwapReload, Arrive, Tick, Publish, PublishFlow, Load, Release, Halted, vars, Running
  <2> QED
    BY <2>1, <2>2 DEF BalanceInv, CopiesBalance, HoldsBalance, Decided, PendingCopies
<1> QED
  BY <1>1, <1>2, <1>3, <1>4, <1>5 DEF Next, Loop, Environment

LEMMA BalanceInit == Init => BalanceInv
<1> SUFFICES ASSUME Init PROVE BalanceInv
  OBVIOUS
<1>1. \A kind : kind # "none" => Decided(kind) = 0
  <2> SUFFICES ASSUME NEW kind, kind # "none" PROVE Decided(kind) = 0
    OBVIOUS
  <2>1. {k \in PacketIds : verdict[k].kind = kind} = {}
    BY DEF Init
  <2> QED
    BY <2>1, FS_EmptySet DEF Decided
<1>2. Cardinality(delayQueue) = 0 /\ Cardinality(job) = 0 /\ abandoned = 0
  BY FS_EmptySet DEF Init
<1>3. PendingCopies = 0
  <2>1. {j \in job : j.copyAfter # {}} = {}
    BY DEF Init
  <2> QED
    BY <2>1, FS_EmptySet DEF PendingCopies
<1>4. \A c \in Counters : stats[c] = 0
  BY DEF Init
<1> QED
  BY <1>1, <1>2, <1>3, <1>4 DEF BalanceInv, CopiesBalance, HoldsBalance, Counters

LEMMA BalanceInvariant == Spec => []BalanceInv
BY BalanceInit, BalanceStep, TypeInvariant, DeliveryInvariant, PTL DEF Spec

\* Every copy that a decision asks for is sent, counted as failed, in hand,
\* waiting, or lost with the task.
THEOREM CopiesAreAccountedFor == Spec => []CopiesBalance
<1>1. BalanceInv => CopiesBalance
  BY DEF BalanceInv
<1> QED
  BY <1>1, BalanceInvariant, PTL

\* While the task runs, what was held or dropped is what was decided so.
THEOREM HoldsAreAccountedFor == Spec => []HoldsBalance
<1>1. BalanceInv => HoldsBalance
  BY DEF BalanceInv
<1> QED
  BY <1>1, BalanceInvariant, PTL

-----------------------------------------------------------------------------
(* The proxy implements PacketRelay.  A decision is a TakeIn, the end of a *)
(* send an Emit, the end of the task a GoDown; an expiry moves a packet    *)
(* from the queue into the hand and changes nothing that the relay sees.   *)

\* The sends owed to a packet, by where it is found.
Owes(Q, J, id) ==
  (IF \E e \in Q : e.packet.id = id THEN 1 ELSE 0)
    + (IF \E j \in J : j.packet.id = id
       THEN IF \E j \in J : j.copyAfter # {} THEN 2 ELSE 1
       ELSE 0)

LEMMA OwedNowValue ==
  TypeInv /\ DeliveryInv => OwedNow = [id \in PacketIds |-> Owes(delayQueue, job, id)]
<1> SUFFICES ASSUME TypeInv, DeliveryInv, NEW id \in PacketIds
             PROVE  OwedNow[id] = Owes(delayQueue, job, id)
  BY DEF OwedNow
<1>1. Waiting(id) = IF \E e \in delayQueue : e.packet.id = id THEN 1 ELSE 0
  BY CopiesOfPacket DEF Awaits
<1>2. ASSUME NEW j \in job
      PROVE  Sends(CHOOSE k \in job : TRUE) = IF \E k \in job : k.copyAfter # {} THEN 2 ELSE 1
  <2>1. j = (CHOOSE k \in job : TRUE) /\ \A k \in job : k = j
    BY DEF TypeInv, TypeOK, Option
  <2>2. \A x, y \in j.copyAfter : x = y
    BY DEF TypeInv, TypeOK, Option, Job
  <2>3. Cardinality(j.copyAfter) = IF j.copyAfter = {} THEN 0 ELSE 1
    BY <2>2, AtMostOne
  <2> QED
    BY <2>1, <2>3 DEF Sends
<1>3. OwedNow[id] = Waiting(id) + (IF \E j \in job : j.packet.id = id
                                   THEN Sends(CHOOSE j \in job : TRUE) ELSE 0)
  BY DEF OwedNow
<1> QED
  BY <1>1, <1>2, <1>3 DEF Owes

LEMMA OwedNowNext ==
  (TypeInv /\ DeliveryInv)' => (OwedNow = [id \in PacketIds |-> Owes(delayQueue, job, id)])'
BY OwedNowValue, PTL

\* At most as many packets wait as there are entries in the delay queue.
LEMMA HeldIsBounded ==
  ASSUME TypeInv, DeliveryInv, job = {}
  PROVE  Cardinality(Relay!Held) <= MaxInFlight
<1> DEFINE H == {id \in PacketIds : Awaits(id)}
           f == [e \in delayQueue |-> e.packet.id]
<1>1. Relay!Held = H
  <2>1. ASSUME NEW id \in PacketIds PROVE OwedNow[id] = IF Awaits(id) THEN 1 ELSE 0
    BY <2>1, OwedNowValue DEF Owes, Awaits
  <2> QED
    BY <2>1 DEF Relay!Held
<1>2. f \in Surjection(delayQueue, H)
  <2>1. f \in [delayQueue -> H]
    BY DEF DeliveryInv, LifeInv, Awaits
  <2>2. \A id \in H : \E e \in delayQueue : f[e] = id
    BY DEF Awaits
  <2> QED
    BY <2>1, <2>2 DEF Surjection
<1> HIDE DEF f, H
<1>3. /\ Cardinality(H) <= Cardinality(delayQueue) /\ IsFiniteSet(H)
      /\ Cardinality(delayQueue) <= MaxInFlight /\ IsFiniteSet(delayQueue)
  BY <1>2, FS_Surjection DEF TypeInv, Bounded
<1>4. Cardinality(H) \in Nat /\ Cardinality(delayQueue) \in Nat /\ MaxInFlight \in Nat
  BY <1>3, FS_CardinalityType, ProxyAssumption
<1> QED
  BY <1>1, <1>3, <1>4

\* A decision takes in the next packet, or brings the relay down with it.
LEMMA RelayReceive ==
  ASSUME TypeInv, TypeInv', DeliveryInv, DeliveryInv', Receive
  PROVE  Relay!Next
<1> DEFINE id == Incoming.id
<1>1. pc = "select" /\ socket # <<>> /\ attempts' = attempts
  BY DEF Receive
<1>2. PICK v \in Verdict, e \in Effects :
        /\ v.kind = e.kind
        /\ v.due = clock + e.after
        /\ verdict' = [verdict EXCEPT ![id] = v]
        /\ \/ OnForward(e)
           \/ OnDrop(e)
           \/ OnDelay(e)
           \/ OnOversizedDelay(e)
           \/ OnDuplicate(e)
  BY ReceiveShape
<1>3. /\ job = {} /\ id \in PacketIds /\ id = socket[1].id /\ 1 \in 1 .. Len(socket)
      /\ verdict[id].kind = "none" /\ ~Awaits(id)
  BY <1>1, IncomingIsNew DEF TypeInv, TypeOK
<1>4. /\ verdict \in [PacketIds -> Verdict] /\ v.kind # "none" /\ PacketIds \subseteq Nat
  <2>1. v.kind \in Kinds
    BY <1>2 DEF Effects
  <2> QED
    BY <2>1, ProxyAssumption DEF TypeInv, TypeOK, Kinds, PacketIds
<1>5. verdict'[id] = v /\ \A k \in PacketIds : k # id => verdict'[k] = verdict[k]
  BY <1>2, <1>3, <1>4
<1>6. /\ OwedNow = [k \in PacketIds |-> Owes(delayQueue, job, k)]
      /\ OwedNow' = [k \in PacketIds |-> Owes(delayQueue', job', k)]
  BY OwedNowValue, OwedNowNext
<1>7. CASE OnOversizedDelay(e)
  <2>1. delayQueue' = {} /\ job' = {} /\ Running /\ ~Running'
    BY <1>1, <1>7 DEF OnOversizedDelay, Halt, Running
  <2>2. OwedNow' = [k \in PacketIds |-> 0]
    BY <1>6, <2>1 DEF Owes
  <2> HIDE DEF id
  <2>3. Taken' = Taken \cup {id}
    BY <1>3, <1>4, <1>5 DEF Taken
  <2>4. Relay!IsNext(id)
    BY <1>3 DEF Relay!IsNext, Taken, DeliveryInv, OrderInv
  <2>5. Relay!GoDown
    BY <1>1, <1>3, <2>1, <2>2, <2>3, <2>4 DEF Relay!GoDown, Running
  <2> QED
    BY <2>5 DEF Relay!Next
<1>8. CASE ~OnOversizedDelay(e)
  <2>1. \A j \in job' : j.packet.id = id
    BY <1>2, <1>3, <1>8 DEF OnForward, OnDrop, OnDelay, OnDuplicate
  <2>2. \A q : q \in delayQueue' => q \in delayQueue \/ q.packet.id = id
    BY <1>2, <1>8, EnqueueAdds DEF OnForward, OnDrop, OnDelay, OnDuplicate
  <2>3. \A q \in delayQueue : q \in delayQueue'
    BY <1>2, <1>8, EnqueueAdds DEF OnForward, OnDrop, OnDelay, OnDuplicate
  <2>4. Running /\ Running'
    BY <1>1, <1>2, <1>8 DEF OnForward, OnDrop, OnDelay, OnDuplicate, Running
  <2>5. job' = {} \/ delayQueue' = delayQueue
    BY <1>2, <1>3, <1>8 DEF OnForward, OnDrop, OnDelay, OnDuplicate
  <2> HIDE DEF id
  <2>6. Taken' = Taken \cup {id}
    BY <1>3, <1>4, <1>5 DEF Taken
  <2>7. Relay!IsNext(id)
    BY <1>3 DEF Relay!IsNext, Taken, DeliveryInv, OrderInv
  <2>8. Relay!Cardinality(Relay!Held) <= MaxInFlight
    BY <1>3, HeldIsBounded DEF Relay!Cardinality, Cardinality
  <2>9. \A k \in PacketIds : k # id => Owes(delayQueue', job', k) = Owes(delayQueue, job, k)
    BY <1>3, <2>1, <2>2, <2>3 DEF Owes
  <2>10. Owes(delayQueue', job', id) \in 0 .. 2
    <3>1. CASE job' = {}
      BY <3>1 DEF Owes
    <3>2. CASE delayQueue' = delayQueue
      BY <1>3, <3>2 DEF Owes, Awaits
    <3> QED
      BY <2>5, <3>1, <3>2
  <2>11. OwedNow' = [OwedNow EXCEPT ![id] = Owes(delayQueue', job', id)]
    <3>1. id \in PacketIds
      BY <1>3
    <3> QED
      BY <1>6, <2>9, <3>1
  <2>12. Relay!TakeIn(id)
    <3>1. \E n \in 0 .. 2 : OwedNow' = [OwedNow EXCEPT ![id] = n]
      BY <2>10, <2>11
    <3>2. UNCHANGED <<attempts, Running>>
      BY <1>1, <2>4
    <3> QED
      BY <2>4, <2>6, <2>7, <2>8, <3>1, <3>2 DEF Relay!TakeIn
  <2> QED
    BY <1>3, <2>12 DEF Relay!Next
<1> QED
  BY <1>7, <1>8

\* The end of a send pays one of the sends owed to the packet; the second
\* one of a duplicate is given up when there is no room for the copy.
LEMMA RelaySent ==
  ASSUME TypeInv, TypeInv', DeliveryInv, DeliveryInv', NEW j \in job,
         NEW outcome \in {"forwarded", "send_errors"}, Sent(j, outcome)
  PROVE  Relay!Next
<1> DEFINE id == j.packet.id
<1>1. /\ pc' = "reload" /\ job' = {} /\ verdict' = verdict
      /\ attempts' = [attempts EXCEPT ![id] = @ + 1]
  BY DEF Sent
<1>2. id \in PacketIds /\ ~Awaits(id) /\ pc = "send" /\ \A k \in job : k = j
  BY DEF TypeInv, TypeOK, Option, DeliveryInv, LifeInv, OrderInv
<1>3. /\ OwedNow = [k \in PacketIds |-> Owes(delayQueue, job, k)]
      /\ OwedNow' = [k \in PacketIds |-> Owes(delayQueue', job', k)]
  BY OwedNowValue, OwedNowNext
<1>4. /\ \A q : q \in delayQueue' => q \in delayQueue \/ (q.packet.id = id /\ j.copyAfter # {})
      /\ \A q \in delayQueue : q \in delayQueue'
  <2>1. CASE j.copyAfter = {}
    BY <2>1 DEF Sent
  <2>2. CASE j.copyAfter # {}
    <3>1. PICK after \in j.copyAfter : delayQueue' = Enqueue(j.packet, after)
      BY <2>2 DEF Sent
    <3> QED
      BY <2>2, <3>1, EnqueueAdds
  <2> QED
    BY <2>1, <2>2
<1> HIDE DEF id
<1>5. Owes(delayQueue, job, id) = IF j.copyAfter # {} THEN 2 ELSE 1
  BY <1>2 DEF Owes, Awaits, id
<1>6. Owes(delayQueue', job', id) \in {0, Owes(delayQueue, job, id) - 1}
  <2>1. CASE j.copyAfter = {}
    BY <1>1, <1>2, <1>4, <1>5, <2>1 DEF Owes, Awaits
  <2>2. CASE j.copyAfter # {}
    BY <1>1, <1>5, <2>2 DEF Owes
  <2> QED
    BY <2>1, <2>2
<1>7. \A k \in PacketIds : k # id => Owes(delayQueue', job', k) = Owes(delayQueue, job, k)
  BY <1>1, <1>2, <1>4 DEF Owes, id
<1>8. OwedNow' = [OwedNow EXCEPT ![id] = Owes(delayQueue', job', id)]
  BY <1>2, <1>3, <1>7
<1>9. OwedNow[id] = Owes(delayQueue, job, id) /\ OwedNow[id] > 0
  BY <1>2, <1>3, <1>5
<1>10. Running /\ Running' /\ Taken' = Taken
  BY <1>1, <1>2 DEF Running, Taken
<1>11. Relay!Emit(id)
  BY <1>1, <1>6, <1>8, <1>9, <1>10 DEF Relay!Emit, Running
<1> QED
  BY <1>2, <1>11 DEF Relay!Next

LEMMA RelayStep ==
  TypeInv /\ TypeInv' /\ DeliveryInv /\ DeliveryInv' /\ [Next]_vars => [Relay!Next]_(Relay!vars)
<1> SUFFICES ASSUME TypeInv, TypeInv', DeliveryInv, DeliveryInv', [Next]_vars
             PROVE  Relay!Next \/ UNCHANGED Relay!vars
  OBVIOUS
<1>1. /\ OwedNow = [k \in PacketIds |-> Owes(delayQueue, job, k)]
      /\ OwedNow' = [k \in PacketIds |-> Owes(delayQueue', job', k)]
  BY OwedNowValue, OwedNowNext
<1>2. CASE Receive
  BY <1>2, RelayReceive
<1>3. CASE SendSucceeds \/ SendFails
  BY <1>3, RelaySent DEF SendSucceeds, SendFails
<1>4. CASE Expire
  <2>1. PICK e \in delayQueue : /\ delayQueue' = delayQueue \ {e}
                               /\ job' = {[packet |-> e.packet, copyAfter |-> {}]}
    BY <1>4 DEF Expire, NextExpired
  <2>2. /\ job = {} /\ verdict' = verdict /\ attempts' = attempts
        /\ Running /\ Running'
    BY <1>4 DEF Expire, history, DeliveryInv, OrderInv, Running
  <2>3. ASSUME NEW k \in PacketIds
        PROVE  Owes(delayQueue', job', k) = Owes(delayQueue, job, k)
    <3>1. (\E j \in job' : j.packet.id = k) <=> k = e.packet.id
      BY <2>1
    <3>2. ~\E j \in job' : j.copyAfter # {}
      BY <2>1
    <3>3. CASE k = e.packet.id
      <4>1. ~\E q \in delayQueue' : q.packet.id = k
        BY <2>1, <3>3 DEF DeliveryInv, LifeInv
      <4> QED
        BY <2>2, <3>1, <3>2, <3>3, <4>1 DEF Owes
    <3>4. CASE k # e.packet.id
      BY <2>1, <2>2, <3>1, <3>4 DEF Owes
    <3> QED
      BY <3>3, <3>4
  <2>4. OwedNow' = OwedNow
    BY <1>1, <2>3
  <2> QED
    BY <2>2, <2>4 DEF Relay!vars, Taken, Running
<1>5. CASE ReceiveFails \/ Cancel
  <2>1. /\ delayQueue' = {} /\ job' = {} /\ Running /\ ~Running'
        /\ UNCHANGED <<verdict, attempts>>
    BY <1>5 DEF ReceiveFails, Cancel, Halt, Running
  <2>2. OwedNow' = [k \in PacketIds |-> 0]
    BY <1>1, <2>1 DEF Owes
  <2>3. Relay!GoDown
    BY <2>1, <2>2 DEF Relay!GoDown, Taken, Running
  <2> QED
    BY <2>3 DEF Relay!Next
<1>6. CASE SwapReload \/ Arrive \/ Tick \/ Publish \/ (\E o \in Observers : Load(o) \/ Release(o))
             \/ Halted \/ UNCHANGED vars
  <2>1. UNCHANGED <<verdict, attempts, delayQueue, job>>
    BY <1>6 DEF SwapReload, Arrive, Tick, Publish, PublishFlow, Load, Release, Halted, vars, history
  <2>2. Running' = Running
    BY <1>6 DEF SwapReload, Arrive, Tick, Publish, PublishFlow, Load, Release, Halted, vars, Running
  <2> QED
    BY <1>1, <2>1, <2>2 DEF Relay!vars, Taken
<1> QED
  BY <1>2, <1>3, <1>4, <1>5, <1>6 DEF Next, Loop, Environment

LEMMA RelayInit == Init => Relay!Init
<1> SUFFICES ASSUME Init PROVE Relay!Init
  OBVIOUS
<1>1. OwedNow = [id \in PacketIds |-> 0]
  <2>1. delayQueue = {} /\ job = {}
    BY DEF Init
  <2>2. OwedNow = [id \in PacketIds |-> Owes(delayQueue, job, id)]
    BY OwedNowValue, TypeInit, DeliveryInit
  <2> QED
    BY <2>1, <2>2 DEF Owes
<1> QED
  BY <1>1 DEF Init, Relay!Init, Taken, Running

\* The data plane implements the relay of packets, for every flow, limit and
\* number of packets, and under every interleaving, failure and cancellation.
THEOREM ProxyIsRelay == Spec => ImplementsRelay
BY RelayInit, RelayStep, TypeInvariant, DeliveryInvariant, PTL DEF Spec, ImplementsRelay, Relay!Spec

-----------------------------------------------------------------------------
(* Which packets are dropped, by flows of toxics that only drop.           *)

Dropping == {"drop", "drop_seq", "gap_burst", "rate_limit"}

OnlyDrops(toxics) == \A i \in 1 .. Len(toxics) : toxics[i].type \in Dropping

\* The range that GapBurst::new makes is the configured run, clamped: also
\* of length 0, at its last number and at the largest number there is.
LEMMA GapBurstRange ==
  ASSUME NEW t \in Toxic, t.type = "gap_burst"
  PROVE  Targets(t) = t.range
<1>1. t \in GapBursts
  BY DEF Toxic, Droppers, Duplicators, JitterDelays, Reorderers, RateLimiters, DropSeqs
<1>2. /\ t.start \in 0 .. MaxSeqNum /\ t.len \in Nat /\ MaxSeqNum \in Nat
      /\ t = NewGapBurst(t.start, t.len)
  BY <1>1, ToxicsAssumption DEF GapBursts, SeqNums
<1>3. t.range = IF t.len = 0 THEN {} ELSE t.start .. MinOf(t.start + (t.len - 1), MaxSeqNum)
  BY <1>2 DEF NewGapBurst
<1> QED
  BY <1>2, <1>3 DEF Targets, SeqNums, MinOf

\* What one of them answers depends on the number only if it has targets.
LEMMA DroppingEffects ==
  ASSUME NEW t \in Toxic, t.type \in Dropping, NEW p \in Packet
  PROVE  /\ ToxicEffects(t, p) \subseteq {Forward, Drop}
         /\ p.seqnum \cap Targets(t) # {} => ToxicEffects(t, p) = {Drop}
         /\ Drop \in ToxicEffects(t, p) =>
              t.type \in {"drop", "rate_limit"} \/ p.seqnum \cap Targets(t) # {}
         /\ ToxicAfter(t, p).type = t.type
<1>1. Forward # Drop
  BY DEF Forward, Drop
<1>2. CASE t.type = "drop"
  BY <1>1, <1>2 DEF ToxicEffects, DropperEffects, Targets, ToxicAfter
<1>3. CASE t.type = "rate_limit"
  <2>1. t \in RateLimiters
    BY <1>3 DEF Toxic, Droppers, Duplicators, JitterDelays, Reorderers, DropSeqs, GapBursts
  <2>2. RateLimiterAfter(t, p).type = t.type
    BY <2>1 DEF RateLimiterAfter, RateLimiters
  <2> QED
    BY <1>1, <1>3, <2>2 DEF ToxicEffects, RateLimiterEffects, Targets, ToxicAfter
<1>4. CASE t.type = "drop_seq"
  BY <1>1, <1>4 DEF ToxicEffects, DropSeqEffects, Targets, ToxicAfter
<1>5. CASE t.type = "gap_burst"
  <2>1. Targets(t) = t.range
    BY <1>5, GapBurstRange
  <2> QED
    BY <1>1, <1>5, <2>1 DEF ToxicEffects, GapBurstEffects, ToxicAfter
<1> QED
  BY <1>2, <1>3, <1>4, <1>5 DEF Dropping

\* The first toxic that a packet is a target of, or one before it, drops it.
LEMMA DroppingDecision ==
  ASSUME NEW toxics \in Seq(Toxic), OnlyDrops(toxics), NEW p \in Packet,
         NEW d \in Decide(toxics, p)
  PROVE  /\ OnlyDrops(d.toxics)
         /\ TargetedBy(toxics, p.seqnum) => d.effect = Drop
         /\ d.effect = Drop => TargetedBy(toxics, p.seqnum) \/ Lossy(toxics)
<1>1. \A i \in 1 .. Len(toxics) :
        /\ toxics[i] \in Toxic /\ toxics[i].type \in Dropping
        /\ ToxicEffects(toxics[i], p) \subseteq {Forward, Drop}
        /\ p.seqnum \cap Targets(toxics[i]) # {} => ToxicEffects(toxics[i], p) = {Drop}
        /\ Drop \in ToxicEffects(toxics[i], p) =>
             toxics[i].type \in {"drop", "rate_limit"} \/ p.seqnum \cap Targets(toxics[i]) # {}
        /\ ToxicAfter(toxics[i], p).type = toxics[i].type
  <2>1. \A i \in 1 .. Len(toxics) : toxics[i] \in Toxic /\ toxics[i].type \in Dropping
    BY DEF OnlyDrops
  <2> QED
    BY <2>1, DroppingEffects
<1>2. Forward # Drop /\ Len(toxics) \in Nat
  BY DEF Forward, Drop
<1>3. \A n : OnlyDrops(Consulted(toxics, n, p))
  BY <1>1, <1>2 DEF Consulted, OnlyDrops
<1>4. ASSUME NEW n \in 1 .. Len(toxics), d \in StopsAt(toxics, n, p)
      PROVE  /\ OnlyDrops(d.toxics) /\ d.effect = Drop
             /\ TargetedBy(toxics, p.seqnum) \/ Lossy(toxics)
  <2>1. PICK e \in ToxicEffects(toxics[n], p) \ {Forward} :
          d = [effect |-> e, toxics |-> Consulted(toxics, n, p)]
    BY <1>4 DEF StopsAt
  <2>2. e = Drop
    BY <1>1, <2>1
  <2>3. TargetedBy(toxics, p.seqnum) \/ Lossy(toxics)
    BY <1>1, <2>1, <2>2 DEF TargetedBy, Lossy
  <2> QED
    BY <1>3, <2>1, <2>2, <2>3
<1>5. ASSUME d \in RunsThrough(toxics, p), Reaches(toxics, Len(toxics) + 1, p)
      PROVE  OnlyDrops(d.toxics) /\ d.effect # Drop /\ ~TargetedBy(toxics, p.seqnum)
  <2>1. d.effect = Forward /\ OnlyDrops(d.toxics)
    BY <1>3, <1>5 DEF RunsThrough
  <2>2. \A i \in 1 .. Len(toxics) : Forward \in ToxicEffects(toxics[i], p)
    BY <1>2, <1>5 DEF Reaches
  <2> QED
    BY <1>1, <1>2, <2>1, <2>2 DEF TargetedBy
<1> QED
  BY <1>4, <1>5 DEF Decide

DropInv ==
  /\ OnlyDrops(flow.toxics)
  /\ \A f \in reload : OnlyDrops(f.toxics)
  /\ DropsExactly

LEMMA DropReceive ==
  ASSUME TypeInv, DropInv, Receive, Protocol = "moldudp64"
  PROVE  DropInv'
<1> DEFINE id == Incoming.id
           header == Head(socket).header
<1>1. PICK d \in Decide(flow.toxics, Incoming) :
        /\ flow' = [flow EXCEPT !.toxics = d.toxics]
        /\ verdict' = [verdict EXCEPT ![id] =
                         [kind     |-> d.effect.kind,
                          due      |-> clock + d.effect.after,
                          targeted |-> TargetedBy(flow.toxics, header),
                          lossy    |-> Lossy(flow.toxics)]]
  BY DEF Receive
<1>2. /\ socket # <<>> /\ reload' = reload
      /\ Incoming \in Packet /\ id \in PacketIds
  BY IncomingType DEF Receive, cellVars
<1>3. Incoming.seqnum = header
  BY DEF Incoming, Received, Extract
<1>4. flow \in Flow /\ flow.toxics \in Seq(Toxic) /\ verdict \in [PacketIds -> Verdict]
  BY DEF TypeInv, TypeOK, Flow
<1>5. /\ OnlyDrops(d.toxics)
      /\ TargetedBy(flow.toxics, header) => d.effect = Drop
      /\ d.effect = Drop => TargetedBy(flow.toxics, header) \/ Lossy(flow.toxics)
  BY <1>2, <1>3, <1>4, DroppingDecision DEF DropInv
<1>6. d.effect \in Effects /\ (d.effect.kind = "drop" => d.effect = Drop)
  <2>1. d.effect \in Effects
    BY <1>2, <1>4, DecideType
  <2>2. d.effect \in {Forward, Drop}
    <3>1. CASE \E n \in 1 .. Len(flow.toxics) : d \in StopsAt(flow.toxics, n, Incoming)
      <4>1. PICK n \in 1 .. Len(flow.toxics) : d \in StopsAt(flow.toxics, n, Incoming)
        BY <3>1
      <4>2. flow.toxics[n] \in Toxic /\ flow.toxics[n].type \in Dropping
        BY <1>4 DEF DropInv, OnlyDrops
      <4>3. PICK e \in ToxicEffects(flow.toxics[n], Incoming) : d.effect = e
        BY <4>1 DEF StopsAt
      <4> QED
        BY <1>2, <4>2, <4>3, DroppingEffects
    <3>2. CASE d \in RunsThrough(flow.toxics, Incoming)
      BY <3>2 DEF RunsThrough
    <3> QED
      BY <3>1, <3>2 DEF Decide
  <2> QED
    BY <2>1, <2>2 DEF Forward, Drop
<1> DEFINE v == [kind     |-> d.effect.kind,
                 due      |-> clock + d.effect.after,
                 targeted |-> TargetedBy(flow.toxics, header),
                 lossy    |-> Lossy(flow.toxics)]
<1>7. /\ v.targeted => v.kind = "drop"
      /\ v.kind = "drop" => v.targeted \/ v.lossy
  <2>1. v.targeted => v.kind = "drop"
    BY <1>5 DEF Drop
  <2>2. v.kind = "drop" => v.targeted \/ v.lossy
    BY <1>5, <1>6
  <2> QED
    BY <2>1, <2>2
<1> HIDE DEF id, header, v
<1>8. verdict'[id] = v /\ \A k \in PacketIds : k # id => verdict'[k] = verdict[k]
  BY <1>1, <1>2, <1>4 DEF v
<1>9. DropsExactly'
  BY <1>7, <1>8 DEF DropInv, DropsExactly
<1>10. flow'.toxics = d.toxics
  BY <1>1, <1>4 DEF Flow
<1> QED
  BY <1>2, <1>5, <1>9, <1>10 DEF DropInv

LEMMA DropStep ==
  ASSUME Protocol = "moldudp64", \A toxics \in Scenarios : OnlyDrops(toxics)
  PROVE  TypeInv /\ DropInv /\ [Next]_vars => DropInv'
<1> SUFFICES ASSUME TypeInv, DropInv, [Next]_vars PROVE DropInv'
  OBVIOUS
<1>1. CASE Receive
  BY <1>1, DropReceive
<1>2. CASE SwapReload
  <2>1. flow' \in {flow} \cup reload /\ reload' = {} /\ verdict' = verdict
    BY <1>2 DEF SwapReload, Adopted
  <2> QED
    BY <2>1 DEF DropInv, DropsExactly
<1>3. CASE Publish
  <2>1. PICK toxics \in Scenarios : reload' = {[version |-> published + 1, toxics |-> toxics]}
    BY <1>3 DEF Publish, PublishFlow
  <2>2. \A f \in reload' : f.toxics = toxics
    BY <2>1
  <2>3. UNCHANGED <<flow, verdict>>
    BY <1>3 DEF Publish, PublishFlow, history
  <2> QED
    BY <2>2, <2>3 DEF DropInv, DropsExactly
<1>4. CASE SendSucceeds \/ SendFails
  <2>1. UNCHANGED <<flow, reload, verdict>>
    BY <1>4 DEF SendSucceeds, SendFails, Sent, cellVars
  <2> QED
    BY <2>1 DEF DropInv, DropsExactly
<1>5. CASE ReceiveFails \/ Expire \/ Arrive \/ Tick \/ Cancel
             \/ (\E o \in Observers : Load(o) \/ Release(o)) \/ Halted \/ UNCHANGED vars
  <2>1. UNCHANGED <<flow, reload, verdict>>
    BY <1>5 DEF ReceiveFails, Expire, Arrive, Tick, Cancel, Load, Release, Halted, vars, history,
                cellVars
  <2> QED
    BY <2>1 DEF DropInv, DropsExactly
<1> QED
  BY <1>1, <1>2, <1>3, <1>4, <1>5 DEF Next, Loop, Environment

\* With toxics that only drop, a packet is dropped if its number is one of
\* the targets, and else only by a loss or a rate limiter: in any order of
\* the toxics, with any targets, and across any reloads.
THEOREM TargetsAreDropped ==
  ASSUME Protocol = "moldudp64", \A toxics \in Scenarios : OnlyDrops(toxics)
  PROVE  Spec => []DropsExactly
<1>1. Init => DropInv
  BY DEF Init, DropInv, DropsExactly
<1>2. TypeInv /\ DropInv /\ [Next]_vars => DropInv'
  BY DropStep
<1>3. DropInv => DropsExactly
  BY DEF DropInv
<1> QED
  BY <1>1, <1>2, <1>3, TypeInvariant, PTL DEF Spec
=============================================================================

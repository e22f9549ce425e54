-------------------------- MODULE DeterminismProofs --------------------------
(***************************************************************************)
(* One seed, one run, proved for flows without a rate limiter: any stream  *)
(* of words, any toxics, packets, reloads and times of arrival.            *)
(***************************************************************************)
EXTENDS Determinism, Recursion, SequenceTheorems, TLAPS

\* Nothing but a rate limiter looks at the time.
LEMMA TimelessAnswer ==
  ASSUME NEW t \in Toxic, t.type # "rate_limit",
         NEW p, NEW q, p.seqnum = q.seqnum, NEW at
  PROVE  Answer(t, p, at) = Answer(t, q, at) /\ ToxicAfter(t, p) = t
<1>1. DropSeqEffects(t, p) = DropSeqEffects(t, q) /\ GapBurstEffects(t, p) = GapBurstEffects(t, q)
  BY DEF DropSeqEffects, GapBurstEffects
<1>2. Jittered(t, p, at) = Jittered(t, q, at)
  BY DEF Jittered
<1>3. t.type \in {"drop", "duplicate", "jitter", "reorder", "drop_seq", "gap_burst"}
  BY DEF Toxic, Droppers, Duplicators, JitterDelays, Reorderers, RateLimiters, DropSeqs, GapBursts
<1>4. Answer(t, p, at) = Answer(t, q, at)
  BY <1>1, <1>2, <1>3 DEF Answer
<1>5. ToxicAfter(t, p) = t
  BY DEF ToxicAfter
<1> QED
  BY <1>4, <1>5

\* So a flow without one decides alike, draws alike and does not change.
LEMMA TimelessDecision ==
  ASSUME NEW ops \in Seq(Toxic), ~HasLimiter(ops),
         NEW p, NEW q, p.seqnum = q.seqnum, NEW at
  PROVE  Decision(ops, p, at) = Decision(ops, q, at) /\ Decision(ops, p, at).toxics = ops
<1> DEFINE pos == Positions(ops, at)
<1>1. \A n \in 1 .. Len(ops) : ops[n] \in Toxic /\ ops[n].type # "rate_limit"
  BY DEF HasLimiter
<1>2. \A n \in 1 .. Len(ops) : \A c : Answer(ops[n], p, c) = Answer(ops[n], q, c)
  BY <1>1, TimelessAnswer
<1>3. \A n \in 1 .. Len(ops) : ToxicAfter(ops[n], p) = ops[n] /\ ToxicAfter(ops[n], q) = ops[n]
  BY <1>1, TimelessAnswer
<1>4. FirstStops(ops, p, at) = FirstStops(ops, q, at)
  <2> DEFINE forwards(x, n) == Answer(ops[n], x, pos[n - 1]) = Forward
  <2>1. \A n \in 1 .. Len(ops) : forwards(p, n) = forwards(q, n)
    BY <1>2
  <2>2. Len(ops) \in Nat
    OBVIOUS
  <2> HIDE DEF forwards
  <2>3. {n \in 1 .. Len(ops) : ~forwards(p, n) /\ \A m \in 1 .. (n - 1) : forwards(p, m)}
          = {n \in 1 .. Len(ops) : ~forwards(q, n) /\ \A m \in 1 .. (n - 1) : forwards(q, m)}
    BY <2>1, <2>2
  <2> QED
    BY <2>3, Zenon DEF FirstStops, forwards
<1>5. \A n : Consulted(ops, n, p) = ops /\ Consulted(ops, n, q) = ops
  BY <1>3 DEF Consulted
<1>6. CASE FirstStops(ops, p, at) = {}
  BY <1>4, <1>5, <1>6, Zenon DEF Decision, DecisionOf
<1>7. CASE FirstStops(ops, p, at) # {}
  <2> DEFINE last == CHOOSE n \in FirstStops(ops, p, at) : TRUE
  <2>1. last \in 1 .. Len(ops)
    BY <1>7 DEF FirstStops
  <2>2. Answer(ops[last], p, pos[last - 1]) = Answer(ops[last], q, pos[last - 1])
    BY <1>2, <2>1
  <2> DEFINE made(x) == DecisionOf(ops, x, at, last, Answer(ops[last], x, pos[last - 1]))
  <2>3. made(p) = made(q) /\ made(p).toxics = ops
    BY <1>5, <2>2 DEF DecisionOf
  <2>4. Decision(ops, p, at) = made(p) /\ Decision(ops, q, at) = made(q)
    BY <1>4, <1>7, Zenon DEF Decision
  <2> QED
    BY <2>3, <2>4
<1> QED
  BY <1>6, <1>7

\* Without a rate limiter so far the runs are one run.
Inv ==
  ~limited =>
    /\ toxics["first"] = toxics["again"] /\ cursor["first"] = cursor["again"]
    /\ effects["first"] = effects["again"]
    /\ toxics["first"] \in Seq(Toxic) /\ ~HasLimiter(toxics["first"])

LEMMA InitInv == Init => Inv
BY DeterminismAssumption DEF Init, Inv, Runs

LEMMA ReceiveInv == Inv /\ Receive => Inv'
<1> SUFFICES ASSUME Inv, Receive, ~limited' PROVE Inv'
  BY DEF Inv
<1>1. /\ limited' = limited
      /\ toxics["first"] = toxics["again"] /\ cursor["first"] = cursor["again"]
      /\ effects["first"] = effects["again"]
      /\ toxics["first"] \in Seq(Toxic) /\ ~HasLimiter(toxics["first"])
  BY DEF Inv, Receive
<1> DEFINE packet(seqnum, time) == [id |-> 0, seqnum |-> seqnum, received_at |-> time]
<1>2. PICK seqnum \in Headers, at \in [Runs -> 0 .. MaxClock] :
        /\ toxics' = [r \in Runs |-> Decision(toxics[r], packet(seqnum, at[r]), cursor[r]).toxics]
        /\ cursor' = [r \in Runs |-> Decision(toxics[r], packet(seqnum, at[r]), cursor[r]).cursor]
        /\ effects' = [r \in Runs |->
             Append(effects[r], Decision(toxics[r], packet(seqnum, at[r]), cursor[r]).effect)]
  BY DEF Receive
<1> DEFINE one == Decision(toxics["first"], packet(seqnum, at["first"]), cursor["first"])
           two == Decision(toxics["again"], packet(seqnum, at["again"]), cursor["again"])
<1>3. one = two /\ one.toxics = toxics["first"]
  <2>1. packet(seqnum, at["first"]).seqnum = packet(seqnum, at["again"]).seqnum
    OBVIOUS
  <2> HIDE DEF packet
  <2> QED
    BY <1>1, <2>1, TimelessDecision
<1>4. /\ toxics'["first"] = one.toxics /\ toxics'["again"] = two.toxics
      /\ cursor'["first"] = one.cursor /\ cursor'["again"] = two.cursor
      /\ effects'["first"] = Append(effects["first"], one.effect)
      /\ effects'["again"] = Append(effects["again"], two.effect)
  BY <1>2 DEF Runs
<1> HIDE DEF one, two
<1> QED
  BY <1>1, <1>3, <1>4 DEF Inv

LEMMA ReloadInv == Inv /\ Reload => Inv'
<1> SUFFICES ASSUME Inv, Reload, ~limited' PROVE Inv'
  BY DEF Inv
<1>1. PICK ops \in Scenarios : toxics' = [r \in Runs |-> ops] /\ limited' = (limited \/ HasLimiter(ops))
  BY DEF Reload
<1>2. ~limited /\ ~HasLimiter(ops) /\ ops \in Seq(Toxic)
  BY <1>1, DeterminismAssumption
<1>3. toxics'["first"] = ops /\ toxics'["again"] = ops
  BY <1>1 DEF Runs
<1> QED
  BY <1>2, <1>3 DEF Inv, Reload

\* Two runs of one seed decide the same, whenever their packets arrive and
\* however often they are reloaded, unless a flow has a rate limiter.
THEOREM SeedsReplay == Spec => []UnlimitedRunsReplay
<1>1. Inv /\ [Next]_vars => Inv'
  <2>1. Inv /\ UNCHANGED vars => Inv'
    BY DEF vars, Inv
  <2> QED
    BY <2>1, ReceiveInv, ReloadInv DEF Next
<1>2. Inv => UnlimitedRunsReplay
  BY DEF Inv, UnlimitedRunsReplay, OneSeedOneRun
<1> QED
  BY <1>1, <1>2, InitInv, PTL DEF Spec

-----------------------------------------------------------------------------
(* What a draw can come to: the numbers of gen_bool and gen_range.         *)

\* The powers of two.
LEMMA PowerDoubles ==
  /\ Power \in [0 .. WordBits -> Nat \ {0}]
  /\ Power[0] = 1
  /\ \A k \in 1 .. WordBits : Power[k] = 2 * Power[k - 1]
<1> DEFINE step == [n \in 1 .. WordBits |-> [x \in Nat \ {0} |-> 2 * x]]
<1>1. WordBits \in Nat
  BY DeterminismAssumption
<1>2. PICK g : Follows(g, WordBits, Nat \ {0}, 1, step)
  <2>1. step \in Steps(WordBits, Nat \ {0}) /\ 1 \in Nat \ {0}
    BY DEF Steps
  <2> HIDE DEF step
  <2> QED
    BY <1>1, <2>1, Recursion
<1>3. /\ g \in [0 .. WordBits -> Nat \ {0}] /\ g[0] = 1
      /\ \A k \in 1 .. WordBits : g[k] = 2 * g[k - 1]
  <2>1. /\ g \in [0 .. WordBits -> Nat \ {0}] /\ g[0] = 1
        /\ \A k \in 1 .. WordBits : g[k] = step[k][g[k - 1]]
    BY <1>2 DEF Follows
  <2>2. \A k \in 1 .. WordBits : g[k - 1] \in Nat \ {0}
    BY <1>1, <2>1
  <2>3. \A k \in 1 .. WordBits, x \in Nat \ {0} : step[k][x] = 2 * x
    OBVIOUS
  <2> HIDE DEF step
  <2> QED
    BY <2>1, <2>2, <2>3
<1>4. \E h : h = [k \in 0 .. WordBits |-> IF k = 0 THEN 1 ELSE 2 * h[k - 1]]
  <2>1. g = [k \in 0 .. WordBits |-> IF k = 0 THEN 1 ELSE 2 * g[k - 1]]
    BY <1>1, <1>3
  <2> QED
    BY <2>1
<1>5. Power = [k \in 0 .. WordBits |-> IF k = 0 THEN 1 ELSE 2 * Power[k - 1]]
  BY <1>4 DEF Power
<1>6. Power[0] = 1 /\ \A k \in 1 .. WordBits : Power[k] = 2 * Power[k - 1]
  BY <1>1, <1>5
<1>7. \A k \in 0 .. WordBits : Power[k] \in Nat \ {0}
  <2> DEFINE S == {k \in Nat : k <= WordBits => Power[k] \in Nat \ {0}}
  <2>1. 0 \in S
    BY <1>6
  <2>2. ASSUME NEW n \in Nat, n \in S PROVE n + 1 \in S
    BY <1>1, <1>6, <2>2
  <2>3. Nat \subseteq S
    <3> HIDE DEF S
    <3> QED
      BY <2>1, <2>2, Induction
  <2> QED
    BY <1>1, <2>3
<1>8. Power = [k \in 0 .. WordBits |-> Power[k]]
  BY <1>5
<1> QED
  BY <1>6, <1>7, <1>8

LEMMA WordsFacts == Words \in Nat \ {0}
BY PowerDoubles, DeterminismAssumption DEF Words

LEMMA TimesGrows ==
  ASSUME NEW n \in Nat \ {0}, NEW x \in Nat
  PROVE  n * x >= x /\ n * x \in Nat
<1>1. PICK d \in Nat : n = 1 + d
  BY n - 1 \in Nat
<1>2. (1 + d) * x = x + d * x
  OBVIOUS
<1>3. d * x \in Nat
  OBVIOUS
<1> QED
  BY <1>1, <1>2, <1>3

\* A range is scaled up to the upper half of the words: a draw of 0 is taken.
LEMMA ZoneIsNat ==
  ASSUME NEW n \in 1 .. Words
  PROVE  Zone(n) \in Nat
<1>1. WordBits \in Nat /\ Words \in Nat \ {0} /\ Words = Power[WordBits]
  BY WordsFacts, DeterminismAssumption DEF Words
<1>2. CASE n = Words
  BY <1>2 DEF Zone
<1>3. CASE n # Words
  <2> DEFINE big == {k \in 0 .. WordBits : 2 * (n * Power[k]) >= Words}
             scaled == {n * Power[k] : k \in 0 .. WordBits}
  <2>1. \A k \in 0 .. WordBits : Power[k] \in Nat /\ n * Power[k] \in Nat
    BY PowerDoubles
  <2>2. WordBits \in big
    <3>1. n * Words >= Words
      BY <1>1, TimesGrows
    <3> QED
      BY <1>1, <2>1, <3>1
  <2>3. PICK k \in big : \A j \in big : k <= j
    <3>1. big \in SUBSET Nat /\ big # {}
      BY <1>1, <2>2
    <3> HIDE DEF big
    <3> QED
      BY <3>1, LeastNat
  <2>4. n * Power[k] < Words
    <3>1. CASE k = 0
      BY <1>1, <1>3, <3>1, PowerDoubles
    <3>2. CASE k # 0
      <4>1. k - 1 \in 0 .. WordBits /\ k - 1 \notin big /\ k \in 1 .. WordBits
        BY <1>1, <2>3, <3>2
      <4>2. 2 * (n * Power[k - 1]) < Words
        BY <1>1, <2>1, <4>1
      <4>3. Power[k] = 2 * Power[k - 1] /\ Power[k - 1] \in Nat
        BY <2>1, <4>1, PowerDoubles
      <4>4. n * (2 * Power[k - 1]) = 2 * (n * Power[k - 1])
        BY <1>1, <4>3
      <4> QED
        BY <4>2, <4>3, <4>4
    <3> QED
      BY <3>1, <3>2
  <2>5. \E m \in scaled : m < Words /\ 2 * m >= Words
    BY <2>3, <2>4
  <2> DEFINE m == CHOOSE m \in scaled : m < Words /\ 2 * m >= Words
  <2>6. m \in scaled /\ 2 * m >= Words
    BY <2>5
  <2>7. Zone(n) = m - 1
    BY <1>3, Zenon DEF Zone
  <2> HIDE DEF m
  <2>8. PICK j \in 0 .. WordBits : m = n * Power[j]
    BY <2>6
  <2>9. m \in Nat
    BY <2>1, <2>8
  <2> QED
    BY <1>1, <2>6, <2>7, <2>9
<1> QED
  BY <1>2, <1>3

\* A stream that does not reject every word.
StreamOK ==
  /\ stream \in [0 .. (Period - 1) -> 0 .. (Words - 1)]
  /\ \E at \in 0 .. (Period - 1) : stream[at] = 0

\* A delay no longer than the words can tell apart.
Drawable(t) == t.type = "jitter" => t.max - t.min < Words

\* A toxic as far as its draws go: nothing is drawn for a rate limiter,
\* whatever its bucket holds.
Consultable(t) ==
  \/ t \in Toxic /\ Drawable(t)
  \/ "type" \in DOMAIN t /\ t.type = "rate_limit"

FlowOK(ops) == Len(ops) \in Nat /\ \A i \in 1 .. Len(ops) : Consultable(ops[i])

LEMMA WordFacts ==
  ASSUME StreamOK, NEW at \in Int
  PROVE  Word(at) \in 0 .. (Words - 1)
<1>1. at % Period \in 0 .. (Period - 1)
  BY DeterminismAssumption
<1> QED
  BY <1>1 DEF StreamOK, Word

\* The draw ends before it is where it began.
LEMMA RejectedFacts ==
  ASSUME StreamOK, NEW n \in 1 .. Words, NEW at \in 0 .. (Period - 1)
  PROVE  Rejected(n, at) \in 0 .. (Period - 1)
<1> DEFINE good == {k \in 0 .. (Period - 1) : Accepts(n, at + k)}
<1>1. Period \in Nat \ {0} /\ Words \in Nat \ {0} /\ n \in Nat
  BY WordsFacts, DeterminismAssumption
<1>2. good # {}
  <2>1. PICK zero \in 0 .. (Period - 1) : stream[zero] = 0
    BY DEF StreamOK
  <2> DEFINE k == IF at <= zero THEN zero - at ELSE zero - at + Period
  <2>2. k \in 0 .. (Period - 1) /\ at + k \in {zero, zero + Period}
    BY <1>1
  <2>3. (at + k) % Period = zero
    <3> HIDE DEF k
    <3>1. zero % Period = zero /\ (zero + Period) % Period = zero
      BY <1>1
    <3> QED
      BY <2>2, <3>1
  <2> HIDE DEF k
  <2>4. Word(at + k) = 0
    BY <2>1, <2>3 DEF Word
  <2>5. (0 * n) % Words = 0
    BY <1>1
  <2>6. Accepts(n, at + k)
    BY <1>1, <2>4, <2>5, ZoneIsNat DEF Accepts
  <2> QED
    BY <2>2, <2>6
<1>3. PICK k \in good : \A j \in good : k <= j
  <2>1. good \in SUBSET Nat
    BY <1>1
  <2> HIDE DEF good
  <2> QED
    BY <1>2, <2>1, LeastNat
<1>4. Accepts(n, at + k) /\ \A j \in 0 .. (k - 1) : ~Accepts(n, at + j)
  <2>1. \A j \in 0 .. (k - 1) : j \in 0 .. (Period - 1) /\ ~(k <= j)
    BY <1>1
  <2> QED
    BY <1>3, <2>1
<1>5. \E m \in 0 .. (Period - 1) : Accepts(n, at + m) /\ \A j \in 0 .. (m - 1) : ~Accepts(n, at + j)
  BY <1>4
<1> QED
  BY <1>5 DEF Rejected

LEMMA SpanFacts ==
  ASSUME NEW t, Consultable(t), t.type = "jitter"
  PROVE  t.min \in Nat /\ t.max \in Nat /\ t.min <= t.max /\ Span(t) \in 1 .. Words
<1>1. t.min \in Nat /\ t.max \in Nat /\ t.min <= t.max
  BY DEF Consultable, Toxic, Droppers, Duplicators, JitterDelays, Reorderers, RateLimiters, DropSeqs, GapBursts
<1> QED
  BY <1>1, WordsFacts DEF Consultable, Drawable, Span

LEMMA ToxicTypes ==
  ASSUME NEW t, Consultable(t)
  PROVE  /\ t.type \in {"drop", "duplicate", "jitter", "reorder", "rate_limit", "drop_seq", "gap_burst"}
         /\ t.type \in {"drop", "duplicate", "reorder"} => t.probability \in Probabilities
BY DEF Consultable, Toxic, Droppers, Duplicators, JitterDelays, Reorderers, RateLimiters, DropSeqs, GapBursts

LEMMA UsesFacts ==
  ASSUME StreamOK, NEW t, Consultable(t), NEW at \in 0 .. (Period - 1)
  PROVE  Uses(t, at) \in Nat
<1>1. CASE t.type = "jitter"
  <2>1. Rejected(Span(t), at) \in 0 .. (Period - 1)
    BY <1>1, SpanFacts, RejectedFacts
  <2>2. Uses(t, at) = Rejected(Span(t), at) + 1
    BY <1>1 DEF Uses
  <2> QED
    BY <2>1, <2>2, DeterminismAssumption
<1>2. CASE t.type # "jitter"
  BY <1>2, ToxicTypes DEF Uses
<1> QED
  BY <1>1, <1>2

\* A draw hits as gen_bool may.
LEMMA HitsIsDrawn ==
  ASSUME StreamOK, NEW probability \in Probabilities, NEW at \in Int
  PROVE  Hits(probability, at) \in Draws(probability)
<1>1. Word(at) \in Nat
  BY WordFacts, WordsFacts
<1>2. CASE probability = "never"
  <2>1. ~(2 * Word(at) < 0)
    BY <1>1
  <2>2. Hits(probability, at) = FALSE
    BY <1>2, <2>1 DEF Hits
  <2> QED
    BY <1>2, <2>2 DEF Draws
<1>3. CASE probability = "always"
  BY <1>3 DEF Hits, Draws
<1>4. CASE probability = "maybe"
  <2>1. Draws(probability) = BOOLEAN
    BY <1>4 DEF Draws
  <2>2. Hits(probability, at) \in BOOLEAN
    BY Zenon DEF Hits
  <2> QED
    BY <2>1, <2>2
<1> QED
  BY <1>2, <1>3, <1>4 DEF Probabilities

\* What the words decide is something that some draw decides.
LEMMA AnswerIsAllowed ==
  ASSUME StreamOK, NEW t, Consultable(t), NEW at \in 0 .. (Period - 1), NEW p
  PROVE  Answer(t, p, at) \in ToxicEffects(t, p)
<1>1. CASE t.type = "drop"
  <2>1. Hits(t.probability, at) \in Draws(t.probability)
    BY <1>1, ToxicTypes, HitsIsDrawn
  <2> QED
    BY <1>1, <2>1 DEF Answer, ToxicEffects, DropperEffects
<1>2. CASE t.type = "duplicate"
  <2>1. Hits(t.probability, at) \in Draws(t.probability)
    BY <1>2, ToxicTypes, HitsIsDrawn
  <2> QED
    BY <1>2, <2>1 DEF Answer, ToxicEffects, DuplicatorEffects
<1>3. CASE t.type = "reorder"
  <2>1. Hits(t.probability, at) \in Draws(t.probability)
    BY <1>3, ToxicTypes, HitsIsDrawn
  <2> QED
    BY <1>3, <2>1 DEF Answer, ToxicEffects, ReordererEffects
<1>4. CASE t.type = "jitter"
  <2> DEFINE word == Word(at + Rejected(Span(t), at))
             drawn == (word * Span(t)) \div Words
  <2>1. /\ t.min \in Nat /\ t.max \in Nat /\ t.min <= t.max
        /\ Span(t) \in Nat \ {0} /\ Span(t) = t.max - t.min + 1 /\ Words \in Nat \ {0}
    BY <1>4, SpanFacts, WordsFacts DEF Span
  <2>2. Rejected(Span(t), at) \in Int
    BY <1>4, SpanFacts, RejectedFacts
  <2>3. word \in 0 .. (Words - 1)
    BY <2>2, WordFacts
  <2>4. drawn \in 0 .. (Span(t) - 1)
    <3> HIDE DEF word
    <3> QED
      BY <2>1, <2>3
  <2> HIDE DEF drawn
  <2>5. t.min + drawn \in t.min .. t.max
    BY <2>1, <2>4
  <2>6. Answer(t, p, at) = DelayBy(t.min + drawn)
    BY <1>4 DEF Answer, Jittered, drawn
  <2>7. ToxicEffects(t, p) = JitterEffects(t)
    BY <1>4 DEF ToxicEffects
  <2> QED
    BY <2>5, <2>6, <2>7 DEF JitterEffects
<1>5. CASE t.type = "rate_limit"
  BY <1>5 DEF Answer, ToxicEffects, RateLimiterEffects
<1>6. CASE t.type = "drop_seq"
  BY <1>6 DEF Answer, ToxicEffects, DropSeqEffects
<1>7. CASE t.type = "gap_burst"
  BY <1>7 DEF Answer, ToxicEffects, GapBurstEffects
<1> QED
  BY <1>1, <1>2, <1>3, <1>4, <1>5, <1>6, <1>7, ToxicTypes

-----------------------------------------------------------------------------
(* Flow::decide with the words of one seed.                                *)

\* The cursor after each operator: a recursive function of the model.
LEMMA PositionsFacts ==
  ASSUME StreamOK, NEW ops, FlowOK(ops), NEW at \in 0 .. (Period - 1)
  PROVE  /\ Positions(ops, at) \in [0 .. Len(ops) -> 0 .. (Period - 1)]
         /\ Positions(ops, at)[0] = at
         /\ \A n \in 1 .. Len(ops) :
              Positions(ops, at)[n] =
                (Positions(ops, at)[n - 1] + Uses(ops[n], Positions(ops, at)[n - 1])) % Period
<1> DEFINE V == 0 .. (Period - 1)
           N == Len(ops)
           step == [n \in 1 .. N |-> [x \in V |-> (x + Uses(ops[n], x)) % Period]]
           pos == Positions(ops, at)
<1>1. N \in Nat /\ \A n \in 1 .. N : Consultable(ops[n])
  BY DEF FlowOK
<1>2. \A n \in 1 .. N, x \in V : (x + Uses(ops[n], x)) % Period \in V
  <2> TAKE n \in 1 .. N, x \in V
  <2>1. Uses(ops[n], x) \in Nat
    BY <1>1, UsesFacts
  <2> QED
    BY <2>1, DeterminismAssumption
<1>3. step \in Steps(N, V)
  BY <1>2 DEF Steps
<1>4. \A n \in 1 .. N, x \in V : step[n][x] = (x + Uses(ops[n], x)) % Period
  OBVIOUS
<1> HIDE DEF step
<1>5. PICK g : Follows(g, N, V, at, step)
  <2> HIDE DEF N, V
  <2>1. at \in V
    BY DEF V
  <2> QED
    BY <1>1, <1>3, <2>1, Recursion
<1>6. /\ g \in [0 .. N -> V] /\ g[0] = at
      /\ \A n \in 1 .. N : g[n] = (g[n - 1] + Uses(ops[n], g[n - 1])) % Period
  <2>1. g \in [0 .. N -> V] /\ g[0] = at /\ \A n \in 1 .. N : g[n] = step[n][g[n - 1]]
    BY <1>5 DEF Follows
  <2> HIDE DEF N, V
  <2>2. \A n \in 1 .. N : g[n - 1] \in V
    <3> TAKE n \in 1 .. N
    <3>1. n - 1 \in 0 .. N
      BY <1>1
    <3> QED
      BY <2>1, <3>1
  <2> QED
    BY <1>4, <2>1, <2>2
<1>7. \E h : h = [n \in 0 .. N |-> IF n = 0 THEN at ELSE (h[n - 1] + Uses(ops[n], h[n - 1])) % Period]
  <2>1. g = [n \in 0 .. N |-> IF n = 0 THEN at ELSE (g[n - 1] + Uses(ops[n], g[n - 1])) % Period]
    <3> HIDE DEF V
    <3> QED
      BY <1>1, <1>6
  <2> QED
    BY <2>1
<1>8. pos = [n \in 0 .. N |-> IF n = 0 THEN at ELSE (pos[n - 1] + Uses(ops[n], pos[n - 1])) % Period]
  BY <1>7 DEF Positions
<1> HIDE DEF pos
<1>9. pos[0] = at /\ \A n \in 1 .. N : pos[n] = (pos[n - 1] + Uses(ops[n], pos[n - 1])) % Period
  BY <1>1, <1>8
<1>10. \A n \in 0 .. N : pos[n] \in V
  <2> DEFINE S == {n \in Nat : n <= N => pos[n] \in V}
  <2>1. 0 \in S
    BY <1>9
  <2>2. ASSUME NEW n \in Nat, n \in S PROVE n + 1 \in S
    <3> SUFFICES ASSUME n + 1 <= N PROVE pos[n + 1] \in V
      OBVIOUS
    <3>1. pos[n] \in V /\ n + 1 \in 1 .. N
      BY <1>1, <2>2
    <3>2. pos[n + 1] = (pos[n] + Uses(ops[n + 1], pos[n])) % Period
      BY <1>9, <3>1
    <3> QED
      BY <1>2, <3>1, <3>2
  <2>3. Nat \subseteq S
    <3> HIDE DEF S
    <3> QED
      BY <2>1, <2>2, Induction
  <2> QED
    BY <1>1, <2>3
<1>11. pos = [n \in 0 .. N |-> pos[n]]
  BY <1>8
<1> QED
  BY <1>9, <1>10, <1>11 DEF pos

\* Where the loop stops, and what it has seen on its way there.
LEMMA FirstStopsFacts ==
  ASSUME NEW ops, Len(ops) \in Nat, NEW p, NEW at
  PROVE  LET answer(n) == Answer(ops[n], p, Positions(ops, at)[n - 1])
         IN  /\ FirstStops(ops, p, at) = {} => \A n \in 1 .. Len(ops) : answer(n) = Forward
             /\ \A n \in FirstStops(ops, p, at) :
                  /\ n \in 1 .. Len(ops) /\ answer(n) # Forward
                  /\ \A m \in 1 .. (n - 1) : answer(m) = Forward
<1> DEFINE answer(n) == Answer(ops[n], p, Positions(ops, at)[n - 1])
           N == Len(ops)
           other == {n \in 1 .. N : answer(n) # Forward}
<1> HIDE DEF answer
<1>1. FirstStops(ops, p, at)
        = {n \in 1 .. N : answer(n) # Forward /\ \A m \in 1 .. (n - 1) : answer(m) = Forward}
  BY Zenon DEF FirstStops, answer
<1>2. ASSUME other # {} PROVE FirstStops(ops, p, at) # {}
  <2>1. other \in SUBSET Nat
    OBVIOUS
  <2>2. PICK n \in other : \A m \in other : n <= m
    <3> HIDE DEF other
    <3> QED
      BY <1>2, <2>1, LeastNat
  <2>3. \A m \in 1 .. (n - 1) : m \in 1 .. N /\ ~(n <= m)
    BY <2>2
  <2>4. \A m \in 1 .. (n - 1) : answer(m) = Forward
    BY <2>2, <2>3
  <2> QED
    BY <1>1, <2>2, <2>4
<1>3. FirstStops(ops, p, at) = {} => \A n \in 1 .. N : answer(n) = Forward
  BY <1>2
<1> QED
  BY <1>1, <1>3 DEF answer

LEMMA EffectsAreTyped ==
  ASSUME NEW t, Consultable(t), NEW p
  PROVE  ToxicEffects(t, p) \subseteq Effects
<1>1. CASE t.type = "rate_limit"
  BY <1>1 DEF ToxicEffects, RateLimiterEffects, Effects, Kinds, Forward, Drop
<1>2. CASE t.type \in {"drop", "duplicate", "drop_seq", "gap_burst"}
  BY <1>2 DEF ToxicEffects, DropperEffects, DuplicatorEffects, DropSeqEffects, GapBurstEffects,
              Effects, Kinds, Forward, Drop, DuplicateAfter
<1>3. CASE t.type = "reorder"
  <2>1. t.hold \in Nat
    BY <1>3 DEF Consultable, Toxic, Droppers, Duplicators, JitterDelays, Reorderers, RateLimiters,
                DropSeqs, GapBursts
  <2> QED
    BY <1>3, <2>1 DEF ToxicEffects, ReordererEffects, Effects, Kinds, Forward, DelayBy
<1>4. CASE t.type = "jitter"
  BY <1>4, SpanFacts DEF ToxicEffects, JitterEffects, Effects, Kinds, DelayBy
<1> QED
  BY <1>1, <1>2, <1>3, <1>4, ToxicTypes

\* What the words decide of a packet, Flow::decide may decide.
LEMMA DecisionIsAllowed ==
  ASSUME StreamOK, NEW ops, FlowOK(ops), NEW at \in 0 .. (Period - 1), NEW p
  PROVE  LET made == Decision(ops, p, at)
         IN  /\ [effect |-> made.effect, toxics |-> made.toxics] \in Decide(ops, p)
             /\ made.cursor \in 0 .. (Period - 1)
             /\ made.effect \in Effects
             /\ \E n \in 0 .. Len(ops) : made.toxics = Consulted(ops, n, p)
<1> DEFINE N == Len(ops)
           pos == Positions(ops, at)
           answer(n) == Answer(ops[n], p, pos[n - 1])
<1>1. N \in Nat /\ pos \in [0 .. N -> 0 .. (Period - 1)]
  BY PositionsFacts DEF FlowOK
<1>2. \A n \in 1 .. N : answer(n) \in ToxicEffects(ops[n], p)
  <2> TAKE n \in 1 .. N
  <2>1. pos[n - 1] \in 0 .. (Period - 1)
    BY <1>1
  <2>2. Consultable(ops[n])
    BY DEF FlowOK
  <2> QED
    BY <2>1, <2>2, AnswerIsAllowed
<1>3. CASE FirstStops(ops, p, at) = {}
  <2>1. \A n \in 1 .. N : answer(n) = Forward
    BY <1>1, <1>3, FirstStopsFacts
  <2>2. Decision(ops, p, at) = [effect |-> Forward, toxics |-> Consulted(ops, N, p), cursor |-> pos[N]]
    BY <1>3, Zenon DEF Decision, DecisionOf
  <2>3. Reaches(ops, N + 1, p)
    <3>1. \A n \in 1 .. N : Forward \in ToxicEffects(ops[n], p)
      BY <1>2, <2>1
    <3>2. (N + 1) - 1 = N
      BY <1>1
    <3> QED
      BY <3>1, <3>2 DEF Reaches
  <2>4. [effect |-> Forward, toxics |-> Consulted(ops, N, p)] \in Decide(ops, p)
    BY <2>3 DEF Decide, RunsThrough
  <2>5. N \in 0 .. N /\ pos[N] \in 0 .. (Period - 1) /\ Forward \in Effects
    BY <1>1 DEF Forward, Effects, Kinds
  <2> HIDE DEF pos
  <2> QED
    BY <2>2, <2>4, <2>5
<1>4. CASE FirstStops(ops, p, at) # {}
  <2> DEFINE n == CHOOSE n \in FirstStops(ops, p, at) : TRUE
  <2>1. n \in FirstStops(ops, p, at)
    BY <1>4
  <2>2. Decision(ops, p, at) = [effect |-> answer(n), toxics |-> Consulted(ops, n, p), cursor |-> pos[n]]
    BY <1>4, Zenon DEF Decision, DecisionOf
  <2> HIDE DEF n
  <2>3. n \in 1 .. N /\ answer(n) # Forward /\ \A m \in 1 .. (n - 1) : answer(m) = Forward
    BY <1>1, <2>1, FirstStopsFacts
  <2>4. Reaches(ops, n, p)
    <3>1. \A m \in 1 .. (n - 1) : m \in 1 .. N
      BY <1>1, <2>3
    <3>2. \A m \in 1 .. (n - 1) : Forward \in ToxicEffects(ops[m], p)
      BY <1>2, <2>3, <3>1
    <3> QED
      BY <3>2 DEF Reaches
  <2>5. [effect |-> answer(n), toxics |-> Consulted(ops, n, p)] \in StopsAt(ops, n, p)
    BY <1>2, <2>3 DEF StopsAt
  <2>6. [effect |-> answer(n), toxics |-> Consulted(ops, n, p)] \in Decide(ops, p)
    BY <2>3, <2>4, <2>5, Zenon DEF Decide
  <2>7. n \in 0 .. N /\ pos[n] \in 0 .. (Period - 1)
    BY <1>1, <2>3
  <2>8. answer(n) \in Effects
    <3>1. Consultable(ops[n])
      BY <2>3 DEF FlowOK
    <3> QED
      BY <1>2, <2>3, <3>1, EffectsAreTyped
  <2> HIDE DEF pos, answer
  <2> QED
    BY <2>2, <2>6, <2>7, <2>8
<1> QED
  BY <1>3, <1>4

LEMMA ConsultedFacts ==
  ASSUME NEW ops, FlowOK(ops), NEW n, NEW p
  PROVE  /\ Len(Consulted(ops, n, p)) = Len(ops)
         /\ \A i \in 1 .. Len(ops) :
              Consulted(ops, n, p)[i] = IF i <= n THEN ToxicAfter(ops[i], p) ELSE ops[i]
<1> DEFINE after == Consulted(ops, n, p)
           S == {after[i] : i \in 1 .. Len(ops)}
<1>1. Len(ops) \in Nat /\ DOMAIN after = 1 .. Len(ops)
  BY DEF FlowOK, Consulted
<1>2. after = [i \in 1 .. Len(ops) |-> after[i]]
  BY DEF Consulted
<1>3. after \in Seq(S)
  <2> HIDE DEF after
  <2> QED
    BY <1>1, <1>2, SeqDef
<1>4. Len(after) = Len(ops)
  <2> HIDE DEF after, S
  <2> QED
    BY <1>1, <1>3, LenProperties
<1> QED
  BY <1>4 DEF Consulted

-----------------------------------------------------------------------------
(* Two runs of one seed: their flows differ in what the limiters hold.     *)

SameButLimiters(t, u) == t.type = u.type /\ (t.type # "rate_limit" => t = u)

Alike(ops, others) ==
  /\ Len(ops) = Len(others)
  /\ \A i \in 1 .. Len(ops) : SameButLimiters(ops[i], others[i])

\* The limiters of both flows do the same to the packets that arrive.
SameTokens(ops, others, p, q) ==
  \A i \in 1 .. Len(ops) :
    ops[i].type = "rate_limit" => (HasToken(ops[i], p) <=> HasToken(others[i], q))

LEMMA ConsultedKeeps ==
  ASSUME NEW ops, FlowOK(ops), NEW n, NEW p
  PROVE  FlowOK(Consulted(ops, n, p)) /\ Alike(ops, Consulted(ops, n, p))
<1> DEFINE after == Consulted(ops, n, p)
<1>1. /\ Len(ops) \in Nat /\ Len(after) = Len(ops)
      /\ \A i \in 1 .. Len(ops) : Consultable(ops[i])
      /\ \A i \in 1 .. Len(ops) : after[i] = IF i <= n THEN ToxicAfter(ops[i], p) ELSE ops[i]
  BY ConsultedFacts DEF FlowOK
<1>2. ASSUME NEW t, Consultable(t)
      PROVE  Consultable(ToxicAfter(t, p)) /\ SameButLimiters(t, ToxicAfter(t, p))
  <2>1. CASE t.type = "rate_limit"
    <3>1. "type" \in DOMAIN t
      BY <1>2, <2>1 DEF Consultable, Toxic, Droppers, Duplicators, JitterDelays, Reorderers,
                        RateLimiters, DropSeqs, GapBursts
    <3>2. "type" \in DOMAIN RateLimiterAfter(t, p) /\ RateLimiterAfter(t, p).type = t.type
      BY <3>1 DEF RateLimiterAfter
    <3> QED
      BY <2>1, <3>2 DEF ToxicAfter, Consultable, SameButLimiters
  <2>2. CASE t.type # "rate_limit"
    BY <1>2, <2>2 DEF ToxicAfter, SameButLimiters
  <2> QED
    BY <2>1, <2>2
<1>3. \A i \in 1 .. Len(ops) : Consultable(after[i]) /\ SameButLimiters(ops[i], after[i])
  BY <1>1, <1>2 DEF SameButLimiters
<1> HIDE DEF after
<1> QED
  BY <1>1, <1>3 DEF FlowOK, Alike, after

LEMMA AlikeIsEquivalence ==
  ASSUME NEW x, NEW y, NEW z, Alike(x, y)
  PROVE  Alike(y, x) /\ (Alike(y, z) => Alike(x, z))
BY DEF Alike, SameButLimiters

LEMMA AlikeAnswer ==
  ASSUME NEW t, NEW u, Consultable(t), SameButLimiters(t, u),
         NEW p, NEW q, p.seqnum = q.seqnum, NEW at,
         t.type = "rate_limit" => (HasToken(t, p) <=> HasToken(u, q))
  PROVE  Answer(t, p, at) = Answer(u, q, at) /\ Uses(t, at) = Uses(u, at)
<1>1. CASE t.type = "rate_limit"
  <2>1. RateLimiterEffects(t, p) = RateLimiterEffects(u, q)
    BY <1>1 DEF RateLimiterEffects
  <2> QED
    BY <1>1, <2>1 DEF Answer, Uses, SameButLimiters
<1>2. CASE t.type # "rate_limit"
  <2>1. t = u /\ t \in Toxic
    BY <1>2 DEF SameButLimiters, Consultable
  <2> QED
    BY <1>2, <2>1, TimelessAnswer
<1> QED
  BY <1>1, <1>2

\* Flows that differ in their limiters only, whose limiters do the same to a
\* packet, draw the same and decide the same.
LEMMA AlikeDecision ==
  ASSUME StreamOK, NEW ops, NEW others, FlowOK(ops), FlowOK(others), Alike(ops, others),
         NEW p, NEW q, p.seqnum = q.seqnum, SameTokens(ops, others, p, q),
         NEW at \in 0 .. (Period - 1)
  PROVE  /\ Decision(ops, p, at).effect = Decision(others, q, at).effect
         /\ Decision(ops, p, at).cursor = Decision(others, q, at).cursor
<1> DEFINE N == Len(ops)
           pos == Positions(ops, at)
           seq == Positions(others, at)
<1>1. /\ N \in Nat /\ Len(others) = N
      /\ pos \in [0 .. N -> 0 .. (Period - 1)] /\ seq \in [0 .. N -> 0 .. (Period - 1)]
      /\ pos[0] = at /\ seq[0] = at
      /\ \A n \in 1 .. N : pos[n] = (pos[n - 1] + Uses(ops[n], pos[n - 1])) % Period
      /\ \A n \in 1 .. N : seq[n] = (seq[n - 1] + Uses(others[n], seq[n - 1])) % Period
  <2>1. N \in Nat /\ Len(others) = N
    BY DEF FlowOK, Alike
  <2>2. /\ pos \in [0 .. N -> 0 .. (Period - 1)] /\ pos[0] = at
        /\ \A n \in 1 .. N : pos[n] = (pos[n - 1] + Uses(ops[n], pos[n - 1])) % Period
    BY PositionsFacts
  <2>3. /\ seq \in [0 .. Len(others) -> 0 .. (Period - 1)] /\ seq[0] = at
        /\ \A n \in 1 .. Len(others) : seq[n] = (seq[n - 1] + Uses(others[n], seq[n - 1])) % Period
    BY PositionsFacts
  <2> HIDE DEF pos, seq, N
  <2> QED
    BY <2>1, <2>2, <2>3
<1>2. \A n \in 1 .. N, c \in 0 .. (Period - 1) :
        Answer(ops[n], p, c) = Answer(others[n], q, c) /\ Uses(ops[n], c) = Uses(others[n], c)
  <2> TAKE n \in 1 .. N, c \in 0 .. (Period - 1)
  <2>1. /\ Consultable(ops[n]) /\ SameButLimiters(ops[n], others[n])
        /\ ops[n].type = "rate_limit" => (HasToken(ops[n], p) <=> HasToken(others[n], q))
    BY DEF FlowOK, Alike, SameTokens
  <2> QED
    BY <2>1, AlikeAnswer
<1>3. pos = seq
  <2> HIDE DEF pos, seq, N
  <2> DEFINE S == {n \in Nat : n <= N => pos[n] = seq[n]}
  <2>1. 0 \in S
    BY <1>1
  <2>2. ASSUME NEW n \in Nat, n \in S PROVE n + 1 \in S
    <3> SUFFICES ASSUME n + 1 <= N PROVE pos[n + 1] = seq[n + 1]
      OBVIOUS
    <3>1. pos[n] = seq[n] /\ n + 1 \in 1 .. N /\ n \in 0 .. N /\ (n + 1) - 1 = n
      BY <1>1, <2>2
    <3>2. Uses(ops[n + 1], pos[n]) = Uses(others[n + 1], pos[n])
      BY <1>1, <1>2, <3>1
    <3> QED
      BY <1>1, <3>1, <3>2
  <2>3. Nat \subseteq S
    <3> HIDE DEF S
    <3> QED
      BY <2>1, <2>2, Induction
  <2>4. \A n \in 0 .. N : pos[n] = seq[n]
    BY <1>1, <2>3
  <2> QED
    BY <1>1, <2>4
<1> HIDE DEF pos, seq
<1> DEFINE answer(n) == Answer(ops[n], p, pos[n - 1])
           other(n) == Answer(others[n], q, pos[n - 1])
<1>4. \A n \in 1 .. N : answer(n) = other(n)
  <2> TAKE n \in 1 .. N
  <2>1. pos[n - 1] \in 0 .. (Period - 1)
    <3>1. n - 1 \in 0 .. N
      BY <1>1
    <3> QED
      BY <1>1, <3>1
  <2> QED
    BY <1>2, <2>1
<1>5. FirstStops(ops, p, at) = FirstStops(others, q, at)
  <2>1. FirstStops(ops, p, at)
          = {n \in 1 .. N : ~(answer(n) = Forward) /\ \A m \in 1 .. (n - 1) : answer(m) = Forward}
    BY Zenon DEF FirstStops, pos
  <2>2. FirstStops(others, q, at)
          = {n \in 1 .. N : ~(other(n) = Forward) /\ \A m \in 1 .. (n - 1) : other(m) = Forward}
    BY <1>1, <1>3, Zenon DEF FirstStops, seq
  <2>3. \A n \in 1 .. N : \A m \in 1 .. (n - 1) : m \in 1 .. N
    BY <1>1
  <2> HIDE DEF answer, other, N
  <2> QED
    BY <1>4, <2>1, <2>2, <2>3
<1>6. CASE FirstStops(ops, p, at) = {}
  <2>1. /\ Decision(ops, p, at) = DecisionOf(ops, p, at, N, Forward)
        /\ Decision(others, q, at) = DecisionOf(others, q, at, N, Forward)
    BY <1>1, <1>5, <1>6, Zenon DEF Decision
  <2> QED
    BY <1>3, <2>1 DEF DecisionOf, pos, seq
<1>7. CASE FirstStops(ops, p, at) # {}
  <2> DEFINE last == CHOOSE n \in FirstStops(ops, p, at) : TRUE
  <2>1. last \in 1 .. N
    BY <1>7 DEF FirstStops
  <2>2. /\ Decision(ops, p, at) = DecisionOf(ops, p, at, last, answer(last))
        /\ Decision(others, q, at) = DecisionOf(others, q, at, last, other(last))
    BY <1>3, <1>5, <1>7, Zenon DEF Decision, pos, seq
  <2>3. answer(last) = other(last)
    BY <1>4, <2>1
  <2> HIDE DEF last, answer, other
  <2> QED
    BY <1>3, <2>2, <2>3 DEF DecisionOf, pos, seq
<1> QED
  BY <1>6, <1>7

-----------------------------------------------------------------------------

\* The seed, where each run is in its words, and what differs between them.
RunsInv ==
  /\ StreamOK
  /\ cursor \in [Runs -> 0 .. (Period - 1)]
  /\ effects \in [Runs -> Seq(Effects)]
  /\ \A r \in Runs : FlowOK(toxics[r])
  /\ Alike(toxics["first"], toxics["again"])

LEMMA ScenariosAreFlows ==
  ASSUME NEW ops \in Scenarios
  PROVE  FlowOK(ops) /\ Alike(ops, ops)
<1>1. ops \in Seq(Toxic) /\ \A i \in DOMAIN ops : Drawable(ops[i])
  BY DeterminismAssumption DEF Drawable
<1>2. Len(ops) \in Nat /\ DOMAIN ops = 1 .. Len(ops) /\ \A i \in 1 .. Len(ops) : ops[i] \in Toxic
  BY <1>1, LenProperties, ElementOfSeq
<1> QED
  BY <1>1, <1>2 DEF FlowOK, Consultable, Alike, SameButLimiters

LEMMA InitRuns == Init => RunsInv
<1> SUFFICES ASSUME Init PROVE RunsInv
  OBVIOUS
<1>1. PICK ops \in Scenarios : toxics = [r \in Runs |-> ops]
  BY DEF Init
<1>2. /\ \A r \in Runs : FlowOK(toxics[r])
      /\ Alike(toxics["first"], toxics["again"])
  BY <1>1, ScenariosAreFlows DEF Runs
<1>3. StreamOK
  BY DEF Init, StreamOK
<1>4. cursor \in [Runs -> 0 .. (Period - 1)]
  BY DeterminismAssumption DEF Init
<1>5. effects \in [Runs -> Seq(Effects)]
  <2>1. <<>> \in Seq(Effects)
    OBVIOUS
  <2> QED
    BY <2>1 DEF Init
<1> QED
  BY <1>2, <1>3, <1>4, <1>5 DEF RunsInv

Packet0(seqnum, time) == [id |-> 0, seqnum |-> seqnum, received_at |-> time]

\* What a run makes of the packet that both receive.
LEMMA ReceiveMakes ==
  ASSUME RunsInv, Receive
  PROVE  \E seqnum \in Headers :
           \A r \in Runs :
             LET packet == Packet0(seqnum, clock'[r])
                 made == Decision(toxics[r], packet, cursor[r])
             IN  /\ toxics'[r] = made.toxics /\ cursor'[r] = made.cursor
                 /\ effects'[r] = Append(effects[r], made.effect)
                 /\ DOMAIN cursor' = Runs /\ cursor' = [x \in Runs |-> cursor'[x]]
                 /\ effects' = [x \in Runs |-> effects'[x]]
<1>1. PICK seqnum \in Headers, at \in [Runs -> 0 .. MaxClock] :
        /\ clock' = at
        /\ toxics' = [r \in Runs |-> Decision(toxics[r], Packet0(seqnum, at[r]), cursor[r]).toxics]
        /\ cursor' = [r \in Runs |-> Decision(toxics[r], Packet0(seqnum, at[r]), cursor[r]).cursor]
        /\ effects' = [r \in Runs |->
             Append(effects[r], Decision(toxics[r], Packet0(seqnum, at[r]), cursor[r]).effect)]
  BY DEF Receive, Packet0
<1> QED
  BY <1>1

\* A packet that a run takes.
LEMMA RunStep ==
  ASSUME RunsInv, NEW r \in Runs, NEW p
  PROVE  LET made == Decision(toxics[r], p, cursor[r])
         IN  /\ made.cursor \in 0 .. (Period - 1)
             /\ made.effect \in Effects
             /\ [effect |-> made.effect, toxics |-> made.toxics] \in Decide(toxics[r], p)
             /\ FlowOK(made.toxics) /\ Alike(toxics[r], made.toxics)
<1>1. StreamOK /\ FlowOK(toxics[r]) /\ cursor[r] \in 0 .. (Period - 1)
  BY DEF RunsInv
<1>2. ASSUME NEW ops, NEW at \in 0 .. (Period - 1), FlowOK(ops)
      PROVE  LET made == Decision(ops, p, at)
             IN  /\ made.cursor \in 0 .. (Period - 1)
                 /\ made.effect \in Effects
                 /\ [effect |-> made.effect, toxics |-> made.toxics] \in Decide(ops, p)
                 /\ FlowOK(made.toxics) /\ Alike(ops, made.toxics)
  <2> DEFINE made == Decision(ops, p, at)
  <2>1. /\ [effect |-> made.effect, toxics |-> made.toxics] \in Decide(ops, p)
        /\ made.cursor \in 0 .. (Period - 1) /\ made.effect \in Effects
        /\ \E n \in 0 .. Len(ops) : made.toxics = Consulted(ops, n, p)
    BY <1>1, <1>2, DecisionIsAllowed
  <2>2. FlowOK(made.toxics) /\ Alike(ops, made.toxics)
    BY <1>2, <2>1, ConsultedKeeps
  <2> QED
    BY <2>1, <2>2
<1> QED
  BY <1>1, <1>2

LEMMA StepRuns == RunsInv /\ [Next]_vars => RunsInv'
<1> SUFFICES ASSUME RunsInv, [Next]_vars PROVE RunsInv'
  OBVIOUS
<1>1. CASE Receive
  <2>1. stream' = stream
    BY <1>1 DEF Receive
  <2>2. PICK seqnum \in Headers :
          \A r \in Runs :
            LET packet == Packet0(seqnum, clock'[r])
                made == Decision(toxics[r], packet, cursor[r])
            IN  /\ toxics'[r] = made.toxics /\ cursor'[r] = made.cursor
                /\ effects'[r] = Append(effects[r], made.effect)
                /\ DOMAIN cursor' = Runs /\ cursor' = [x \in Runs |-> cursor'[x]]
                /\ effects' = [x \in Runs |-> effects'[x]]
    BY <1>1, ReceiveMakes
  <2>3. \A r \in Runs : /\ cursor'[r] \in 0 .. (Period - 1) /\ effects'[r] \in Seq(Effects)
                        /\ FlowOK(toxics'[r]) /\ Alike(toxics[r], toxics'[r])
    <3> TAKE r \in Runs
    <3> DEFINE made == Decision(toxics[r], Packet0(seqnum, clock'[r]), cursor[r])
    <3>1. /\ made.cursor \in 0 .. (Period - 1) /\ made.effect \in Effects
          /\ FlowOK(made.toxics) /\ Alike(toxics[r], made.toxics)
      BY RunStep
    <3>2. effects[r] \in Seq(Effects)
      BY DEF RunsInv
    <3>3. toxics'[r] = made.toxics /\ cursor'[r] = made.cursor /\ effects'[r] = Append(effects[r], made.effect)
      BY <2>2
    <3> HIDE DEF made
    <3>4. effects'[r] \in Seq(Effects)
      BY <3>1, <3>2, <3>3, AppendProperties
    <3> QED
      BY <3>1, <3>3, <3>4
  <2>4. Alike(toxics'["first"], toxics'["again"])
    <3>1. "first" \in Runs /\ "again" \in Runs
      BY DEF Runs
    <3>2. /\ Alike(toxics["first"], toxics'["first"]) /\ Alike(toxics["again"], toxics'["again"])
          /\ Alike(toxics["first"], toxics["again"])
      BY <2>3, <3>1 DEF RunsInv
    <3>3. Alike(toxics'["first"], toxics["first"])
      BY <3>2, AlikeIsEquivalence
    <3>4. Alike(toxics'["first"], toxics["again"])
      BY <3>2, <3>3, AlikeIsEquivalence
    <3> QED
      BY <3>2, <3>4, AlikeIsEquivalence
  <2>5. cursor' \in [Runs -> 0 .. (Period - 1)] /\ effects' \in [Runs -> Seq(Effects)]
    <3>1. cursor' = [x \in Runs |-> cursor'[x]] /\ effects' = [x \in Runs |-> effects'[x]]
      BY <2>2 DEF Runs
    <3> QED
      BY <2>3, <3>1
  <2>6. StreamOK'
    BY <2>1 DEF RunsInv, StreamOK
  <2> QED
    BY <2>3, <2>4, <2>5, <2>6 DEF RunsInv
<1>2. CASE Reload
  <2>1. PICK ops \in Scenarios : toxics' = [r \in Runs |-> ops]
    BY <1>2 DEF Reload
  <2>2. UNCHANGED <<stream, cursor, effects>>
    BY <1>2 DEF Reload
  <2>3. /\ \A r \in Runs : FlowOK(toxics'[r])
        /\ Alike(toxics'["first"], toxics'["again"])
    BY <2>1, ScenariosAreFlows DEF Runs
  <2> QED
    BY <2>2, <2>3 DEF RunsInv, StreamOK
<1>3. CASE UNCHANGED vars
  BY <1>3 DEF vars, RunsInv, StreamOK
<1> QED
  BY <1>1, <1>2, <1>3 DEF Next

LEMMA RunsInvariance == Spec => []RunsInv
<1>1. RunsInv /\ [Next]_vars => RunsInv'
  BY StepRuns
<1> QED
  BY <1>1, InitRuns, PTL DEF Spec

\* Whatever the seed decides of a packet is something that Flow::decide may
\* decide when the PRNG answers anything: what the other modules show of the
\* proxy holds for every seed.
THEOREM SeedIsOneOfMany == Spec => SeededIsAllowed
<1> DEFINE Allowed ==
      \A r \in Runs :
        Len(effects'[r]) > Len(effects[r]) =>
          \E seqnum \in Headers :
            [effect |-> effects'[r][Len(effects'[r])], toxics |-> toxics'[r]]
              \in Decide(toxics[r], Packet0(seqnum, clock'[r]))
<1>1. ASSUME RunsInv, [Next]_vars PROVE Allowed
  <2>1. \A r \in Runs : effects[r] \in Seq(Effects) /\ Len(effects[r]) \in Nat
    BY <1>1, LenProperties DEF RunsInv
  <2>2. CASE Receive
    <3>1. PICK seqnum \in Headers :
            \A r \in Runs :
              LET packet == Packet0(seqnum, clock'[r])
                  made == Decision(toxics[r], packet, cursor[r])
              IN  /\ toxics'[r] = made.toxics /\ cursor'[r] = made.cursor
                  /\ effects'[r] = Append(effects[r], made.effect)
      BY <1>1, <2>2, ReceiveMakes
    <3> SUFFICES ASSUME NEW r \in Runs
                 PROVE  [effect |-> effects'[r][Len(effects'[r])], toxics |-> toxics'[r]]
                          \in Decide(toxics[r], Packet0(seqnum, clock'[r]))
      OBVIOUS
    <3> DEFINE made == Decision(toxics[r], Packet0(seqnum, clock'[r]), cursor[r])
    <3>2. /\ made.effect \in Effects
          /\ [effect |-> made.effect, toxics |-> made.toxics]
               \in Decide(toxics[r], Packet0(seqnum, clock'[r]))
      BY <1>1, RunStep
    <3>3. toxics'[r] = made.toxics /\ effects'[r] = Append(effects[r], made.effect)
      BY <3>1
    <3> HIDE DEF made
    <3>4. effects'[r][Len(effects'[r])] = made.effect
      BY <2>1, <3>2, <3>3, AppendProperties
    <3> QED
      BY <3>2, <3>3, <3>4
  <2>3. CASE UNCHANGED effects
    BY <2>1, <2>3
  <2> QED
    BY <1>1, <2>2, <2>3 DEF Next, Reload, vars
<1>2. RunsInv /\ [Next]_vars => [Allowed]_vars
  BY <1>1
<1> QED
  BY <1>2, RunsInvariance, PTL DEF Spec, SeededIsAllowed, Packet0

\* Two runs of one seed part company only over a packet for which a rate
\* limiter has a token in one of them and none in the other.
THEOREM OnlyTokensDiverge == Spec => OnlyLimitersDiverge
<1> DEFINE Explained ==
      \E i \in 1 .. Len(toxics["first"]), seqnum \in Headers :
        /\ toxics["first"][i].type = "rate_limit"
        /\ HasToken(toxics["first"][i], Packet0(seqnum, clock'["first"]))
             # HasToken(toxics["again"][i], Packet0(seqnum, clock'["again"]))
<1>1. ASSUME RunsInv, [Next]_vars, InStep, ~InStep' PROVE Explained
  <2>1. CASE Receive
    <3>1. PICK seqnum \in Headers :
            \A r \in Runs :
              LET packet == Packet0(seqnum, clock'[r])
                  made == Decision(toxics[r], packet, cursor[r])
              IN  /\ toxics'[r] = made.toxics /\ cursor'[r] = made.cursor
                  /\ effects'[r] = Append(effects[r], made.effect)
      BY <1>1, <2>1, ReceiveMakes
    <3> DEFINE p == Packet0(seqnum, clock'["first"])
               q == Packet0(seqnum, clock'["again"])
               ops == toxics["first"]
               others == toxics["again"]
               at == cursor["first"]
    <3>2. ASSUME SameTokens(ops, others, p, q) PROVE InStep'
      <4>1. p.seqnum = q.seqnum
        BY DEF Packet0
      <4>2. /\ StreamOK /\ FlowOK(ops) /\ FlowOK(others) /\ Alike(ops, others)
            /\ at \in 0 .. (Period - 1)
        BY <1>1 DEF RunsInv, Runs
      <4>3. /\ Decision(ops, p, at).effect = Decision(others, q, at).effect
            /\ Decision(ops, p, at).cursor = Decision(others, q, at).cursor
        <5> HIDE DEF p, q, ops, others, at
        <5> QED
          BY <3>2, <4>1, <4>2, AlikeDecision
      <4>4. cursor["again"] = at /\ effects["again"] = effects["first"]
        BY <1>1 DEF InStep, OneSeedOneRun
      <4>5. /\ cursor'["first"] = Decision(ops, p, at).cursor
            /\ effects'["first"] = Append(effects["first"], Decision(ops, p, at).effect)
        BY <3>1 DEF Runs
      <4>6. /\ cursor'["again"] = Decision(others, q, cursor["again"]).cursor
            /\ effects'["again"] = Append(effects["again"], Decision(others, q, cursor["again"]).effect)
        BY <3>1 DEF Runs
      <4> HIDE DEF p, q, ops, others, at
      <4> QED
        BY <4>3, <4>4, <4>5, <4>6 DEF InStep, OneSeedOneRun
    <3>3. ~SameTokens(ops, others, p, q)
      BY <1>1, <3>2
    <3>4. PICK i \in 1 .. Len(ops) :
            ops[i].type = "rate_limit" /\ ~(HasToken(ops[i], p) <=> HasToken(others[i], q))
      BY <3>3 DEF SameTokens
    <3>5. HasToken(ops[i], p) # HasToken(others[i], q)
      BY <3>4
    <3> QED
      BY <3>4, <3>5
  <2>2. CASE UNCHANGED <<effects, cursor>>
    BY <1>1, <2>2 DEF InStep, OneSeedOneRun
  <2> QED
    BY <1>1, <2>1, <2>2 DEF Next, Reload, vars
<1>2. RunsInv /\ [Next]_vars => [InStep /\ ~InStep' => Explained]_vars
  BY <1>1
<1> QED
  BY <1>2, RunsInvariance, PTL DEF Spec, OnlyLimitersDiverge, Packet0
=============================================================================

----------------------------- MODULE Determinism -----------------------------
(***************************************************************************)
(* One seed, two runs.  The other modules let the PRNG answer anything;    *)
(* here it is the stream of words that the seed determines, and a decision *)
(* takes as many words of it as the toxics it consults ask for             *)
(* (src/flows/flow.rs, src/scripts, rand 0.8).  Two runs of the proxy with *)
(* one seed, scenario, packets and reloads differ in when packets arrive.  *)
(***************************************************************************)
EXTENDS Toxics

CONSTANTS
  WordBits,     \* bits of a word of the PRNG, 64 in the code
  Period,       \* words after which its stream starts again
  Headers,      \* sequence numbers of packets, or none
  Scenarios,    \* the flows a scenario can build
  MaxPackets,   \* bound: packets a run takes
  MaxClock      \* bound: ticks

\* 2 ^ k.
Power[k \in 0 .. WordBits] == IF k = 0 THEN 1 ELSE 2 * Power[k - 1]

Words == Power[WordBits]

ASSUME DeterminismAssumption ==
  /\ WordBits \in Nat \ {0}
  /\ Period \in Nat \ {0}
  /\ Headers \subseteq Option(SeqNums)
  /\ Scenarios \subseteq Seq(Toxic)
  /\ \A toxics \in Scenarios : \A i \in DOMAIN toxics :
       toxics[i].type = "jitter" => toxics[i].max - toxics[i].min < Words
  /\ MaxPackets \in Nat
  /\ MaxClock \in Nat

Runs == {"first", "again"}

VARIABLES
  stream,     \* the words that the seed determines, used in a circle
  toxics,     \* the flow of each run
  cursor,     \* self.rng of each run: the next word it takes
  clock,      \* when the last packet of each run arrived
  effects,    \* history: what each run decided
  limited     \* history: some flow so far had a rate limiter

vars == <<stream, toxics, cursor, clock, effects, limited>>

-----------------------------------------------------------------------------
(* rand: gen_bool and gen_range(min ..= max).                              *)

Word(at) == stream[at % Period]

\* Mutant: the comparison is not strict.
HitsInclusive(probability, at) ==
  probability = "always" \/ 2 * Word(at) <= (IF probability = "maybe" THEN Words ELSE 0)

\* A word below the probability's share of all words is a hit; 1.0 is one
\* without a draw.
Hits(probability, at) ==
  probability = "always" \/ 2 * Word(at) < (IF probability = "maybe" THEN Words ELSE 0)

\* A word times the number of values has the value in its upper half and
\* decides by its lower half: beyond the zone the draw is repeated.
Zone(n) ==
  IF n = Words THEN 0
  ELSE (CHOOSE m \in {n * Power[k] : k \in 0 .. WordBits} : m < Words /\ 2 * m >= Words) - 1

Accepts(n, at) == (Word(at) * n) % Words <= Zone(n)

Rejected(n, at) ==
  CHOOSE k \in 0 .. (Period - 1) :
    Accepts(n, at + k) /\ \A j \in 0 .. (k - 1) : ~Accepts(n, at + j)

Span(t) == t.max - t.min + 1

-----------------------------------------------------------------------------
(* Operator::decide and Flow::decide with the PRNG they share.             *)

\* Words that a consulted toxic takes.
Uses(t, at) ==
  CASE t.type \in {"drop", "duplicate", "reorder"} -> IF t.probability = "always" THEN 0 ELSE 1
    [] t.type = "jitter" -> Rejected(Span(t), at) + 1
    [] t.type \in {"rate_limit", "drop_seq", "gap_burst"} -> 0

\* Mutant: the delay is drawn for the deadline.
JitterByClock(t, p, at) ==
  DelayBy(t.min + ((Word(at + Rejected(Span(t), at)) + p.received_at) % Span(t)))

Jittered(t, p, at) ==
  DelayBy(t.min + ((Word(at + Rejected(Span(t), at)) * Span(t)) \div Words))

Answer(t, p, at) ==
  CASE t.type = "drop"       -> IF Hits(t.probability, at) THEN Drop ELSE Forward
    [] t.type = "duplicate"  -> IF Hits(t.probability, at) THEN DuplicateAfter(0) ELSE Forward
    [] t.type = "reorder"    -> IF Hits(t.probability, at) THEN DelayBy(t.hold) ELSE Forward
    [] t.type = "jitter"     -> Jittered(t, p, at)
    [] t.type = "rate_limit" -> CHOOSE e \in RateLimiterEffects(t, p) : TRUE
    [] t.type = "drop_seq"   -> CHOOSE e \in DropSeqEffects(t, p) : TRUE
    [] t.type = "gap_burst"  -> CHOOSE e \in GapBurstEffects(t, p) : TRUE

\* The next word once n operators have been consulted.
Positions(ops, at) ==
  LET next[n \in 0 .. Len(ops)] ==
        IF n = 0 THEN at ELSE (next[n - 1] + Uses(ops[n], next[n - 1])) % Period
  IN  next

\* Where the loop ends: at the first operator that does not forward.
FirstStops(ops, p, at) ==
  LET forwards(n) == Answer(ops[n], p, Positions(ops, at)[n - 1]) = Forward
  IN  {n \in 1 .. Len(ops) : ~forwards(n) /\ \A m \in 1 .. (n - 1) : forwards(m)}

DecisionOf(ops, p, at, last, effect) ==
  [effect |-> effect, toxics |-> Consulted(ops, last, p), cursor |-> Positions(ops, at)[last]]

Decision(ops, p, at) ==
  IF FirstStops(ops, p, at) = {}
  THEN DecisionOf(ops, p, at, Len(ops), Forward)
  ELSE LET last == CHOOSE n \in FirstStops(ops, p, at) : TRUE
       IN  DecisionOf(ops, p, at, last, Answer(ops[last], p, Positions(ops, at)[last - 1]))

-----------------------------------------------------------------------------

HasLimiter(ops) == \E i \in 1 .. Len(ops) : ops[i].type = "rate_limit"

\* Word 0 is never rejected: without it the real stream would hang as well.
Init ==
  /\ stream \in [0 .. (Period - 1) -> 0 .. (Words - 1)]
  /\ \E at \in 0 .. (Period - 1) : stream[at] = 0
  /\ \E ops \in Scenarios : toxics = [r \in Runs |-> ops] /\ limited = HasLimiter(ops)
  /\ cursor = [r \in Runs |-> 0]
  /\ clock = [r \in Runs |-> 0]
  /\ effects = [r \in Runs |-> <<>>]

\* Both runs take the next packet, each when it arrives there.
Receive ==
  /\ Len(effects["first"]) < MaxPackets
  /\ \E seqnum \in Headers, at \in [Runs -> 0 .. MaxClock] :
       /\ \A r \in Runs : at[r] >= clock[r]
       /\ clock' = at
       /\ LET packet(r) == [id |-> 0, seqnum |-> seqnum, received_at |-> at[r]]
              made == [r \in Runs |-> Decision(toxics[r], packet(r), cursor[r])]
          IN  /\ toxics' = [r \in Runs |-> made[r].toxics]
              /\ cursor' = [r \in Runs |-> made[r].cursor]
              /\ effects' = [r \in Runs |-> Append(effects[r], made[r].effect)]
  /\ UNCHANGED <<stream, limited>>

\* Both runs take up the same new flow; the PRNG stays what it is.
Reload ==
  /\ \E ops \in Scenarios :
       /\ toxics' = [r \in Runs |-> ops]
       /\ limited' = (limited \/ HasLimiter(ops))
  /\ UNCHANGED <<stream, cursor, clock, effects>>

Next == Receive \/ Reload

Spec == Init /\ [][Next]_vars

-----------------------------------------------------------------------------
(* Properties.                                                             *)

\* "One seed produces an identical run" (README.md:175): whatever the times
\* of arrival, both runs decide the same.
OneSeedOneRun == effects["first"] = effects["again"]

\* That much holds as long as no flow has a rate limiter, over any number of
\* reloads: what is consulted, what is drawn for it and what comes next do
\* not depend on time.
UnlimitedRunsReplay == ~limited => OneSeedOneRun

InStep == OneSeedOneRun /\ cursor["first"] = cursor["again"]

\* With rate limiters runs part company only where a limiter has a token for
\* the packet in one of them and none in the other.  That may show first in
\* the draws alone and in a decision only later.
OnlyLimitersDiverge ==
  [][InStep /\ ~InStep' =>
       \E i \in 1 .. Len(toxics["first"]), seqnum \in Headers :
         /\ toxics["first"][i].type = "rate_limit"
         /\ LET arriving(r) == [id |-> 0, seqnum |-> seqnum, received_at |-> clock'[r]]
                token(r) == HasToken(toxics[r][i], arriving(r))
            IN  token("first") # token("again")]_vars

\* What the seed decides is among what the other modules, which know no
\* seed, let the toxics decide.
SeededIsAllowed ==
  [][\A r \in Runs :
       Len(effects'[r]) > Len(effects[r]) =>
         \E seqnum \in Headers :
           [effect |-> effects'[r][Len(effects'[r])], toxics |-> toxics'[r]]
             \in Decide(toxics[r], [id |-> 0, seqnum |-> seqnum, received_at |-> clock'[r]])]_vars

=============================================================================

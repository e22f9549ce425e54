------------------------------- MODULE Toxics -------------------------------
(***************************************************************************)
(* The seven toxics (src/scripts), the flow that consults them in scenario *)
(* order (src/flows/flow.rs) and the extractors that give a packet its     *)
(* sequence number (src/protocols/moldudp64.rs).                           *)
(*                                                                         *)
(* An Option<T> of the code is a set with at most one element: {} is None  *)
(* and {x} is Some(x).  Durations and instants are counted in clock ticks. *)
(* The PRNG is nondeterminism: an operator below gives the set of effects  *)
(* that some draw leads to.  The f64 token count is kept in parts of a     *)
(* token; rounding is an error that any refill may make.                   *)
(***************************************************************************)
EXTENDS Integers, Sequences, FiniteSets

CONSTANTS
  MaxSeqNum,     \* the largest sequence number, u64::MAX in the code
  TicksPerSec,   \* clock ticks in a second
  Grain,         \* parts of a token that a tick is worth at one packet per second
  MaxError,      \* of these, the most that f64 may be off by in one refill
  Rounding(_, _, _)   \* what it is off by, given tokens, ticks and capacity

ASSUME ToxicsAssumption ==
  /\ MaxSeqNum \in Nat
  /\ TicksPerSec \in Nat \ {0}
  /\ Grain \in Nat \ {0}
  /\ MaxError \in 0 .. Grain

SeqNums == 0 .. MaxSeqNum
Option(S) == {o \in SUBSET S : \A x, y \in o : x = y}
MinOf(a, b) == IF a <= b THEN a ELSE b

-----------------------------------------------------------------------------
(* Packets and effects.                                                    *)

\* `header` is what the MoldUDP64 header says: {} for a payload shorter
\* than the 20 byte header.
Extract(protocol, header) == IF protocol = "moldudp64" THEN header ELSE {}

\* `id` stands for the payload.
Packet == [id : Nat, seqnum : Option(SeqNums), received_at : Nat]

Forward == [kind |-> "forward", after |-> 0]
Drop    == [kind |-> "drop", after |-> 0]
DelayBy(d)        == [kind |-> "delay", after |-> d]
DuplicateAfter(d) == [kind |-> "duplicate", after |-> d]

Kinds   == {"forward", "drop", "delay", "duplicate"}
Effects == [kind : Kinds, after : Nat]

-----------------------------------------------------------------------------
(* Toxics as the constructors leave them.  A probability matters only as   *)
(* 0.0, 1.0 or anything between: gen_bool answers FALSE, TRUE or either.   *)

Probabilities == {"never", "maybe", "always"}

Draws(probability) ==
  CASE probability = "never"  -> {FALSE}
    [] probability = "always" -> {TRUE}
    [] OTHER                  -> BOOLEAN

Droppers     == [type : {"drop"}, probability : Probabilities]
Duplicators  == [type : {"duplicate"}, probability : Probabilities]
JitterDelays == {t \in [type : {"jitter"}, min : Nat, max : Nat] : t.min <= t.max}
Reorderers   == [type : {"reorder"}, probability : Probabilities, hold : Nat]
RateLimiters == [type : {"rate_limit"}, capacity : Nat, tokens : Nat,
                 last_refill : Option(Nat)]
DropSeqs     == [type : {"drop_seq"}, targets : SUBSET SeqNums]

\* Mutant: the last number is taken to be the one behind the run.
NewGapBurstInclusive(start, len) ==
  [type |-> "gap_burst", start |-> start, len |-> len,
   range |-> start .. MinOf(start + len, MaxSeqNum)]

\* The code keeps the range alone, the numbers from start on, len of them,
\* clamped at the last one; start and len are there for Targets.
NewGapBurst(start, len) ==
  [type |-> "gap_burst", start |-> start, len |-> len,
   range |-> IF len = 0 THEN {} ELSE start .. MinOf(start + (len - 1), MaxSeqNum)]

GapBursts == {t \in [type : {"gap_burst"}, start : SeqNums, len : Nat, range : SUBSET SeqNums] :
                t = NewGapBurst(t.start, t.len)}

Toxic == Droppers \cup Duplicators \cup JitterDelays \cup Reorderers
           \cup RateLimiters \cup DropSeqs \cup GapBursts

NewRateLimiter(packetsPerSec) ==
  [type |-> "rate_limit", capacity |-> packetsPerSec, tokens |-> 0, last_refill |-> {}]

-----------------------------------------------------------------------------
(* Operator::decide of each toxic: the set of effects a draw can lead to.  *)

DropperEffects(t) == {IF hit THEN Drop ELSE Forward : hit \in Draws(t.probability)}

DuplicatorEffects(t) ==
  {IF hit THEN DuplicateAfter(0) ELSE Forward : hit \in Draws(t.probability)}

\* Drawn in nanoseconds, of which a u64 holds 584 years' worth.
JitterEffects(t) == {DelayBy(d) : d \in t.min .. t.max}

ReordererEffects(t) ==
  {IF hit THEN DelayBy(t.hold) ELSE Forward : hit \in Draws(t.probability)}

DropSeqEffects(t, p) == {IF p.seqnum \cap t.targets # {} THEN Drop ELSE Forward}

GapBurstEffects(t, p) == {IF p.seqnum \cap t.range # {} THEN Drop ELSE Forward}

\* Parts that make a token.
Token == TicksPerSec * Grain

\* Every operation of f64 is off by a share of its result, which up to the
\* capacity is a share of a tick's worth; the operands determine it.
RoundingError(t, elapsed) ==
  LET error == Rounding(t.tokens, elapsed, t.capacity)
  IN  IF error \in -(MaxError * t.capacity) .. MaxError * t.capacity THEN error ELSE 0

Earned(t, elapsed) ==
  IF elapsed = 0 THEN 0 ELSE elapsed * t.capacity * Grain + RoundingError(t, elapsed)

\* saturating_duration_since: arrival times may go back.
Elapsed(t, p) ==
  LET last == CHOOSE at \in t.last_refill : TRUE
  IN  IF p.received_at >= last THEN p.received_at - last ELSE 0

\* Mutant: time without packets is saved up.
RefilledUncapped(t, p) ==
  IF t.last_refill = {} THEN t.capacity * Token ELSE t.tokens + Earned(t, Elapsed(t, p))

\* The bucket when p arrives: full on the first packet, then topped up by
\* the time since the previous one, never above capacity.
Refilled(t, p) ==
  IF t.last_refill = {}
  THEN t.capacity * Token
  ELSE MinOf(t.tokens + Earned(t, Elapsed(t, p)), t.capacity * Token)

HasToken(t, p) == Refilled(t, p) >= Token

RateLimiterEffects(t, p) == {IF HasToken(t, p) THEN Forward ELSE Drop}

\* Mutant: a refused packet pays as well.
RateLimiterAlwaysPays(t, p) ==
  [t EXCEPT !.tokens = Refilled(t, p) - Token, !.last_refill = {p.received_at}]

\* The rate limiter is the only toxic with state: a consulted one has
\* refilled and, if it forwarded, paid one token.
RateLimiterAfter(t, p) ==
  [t EXCEPT !.tokens = Refilled(t, p) - (IF HasToken(t, p) THEN Token ELSE 0),
            !.last_refill = {p.received_at}]

ToxicEffects(t, p) ==
  CASE t.type = "drop"       -> DropperEffects(t)
    [] t.type = "duplicate"  -> DuplicatorEffects(t)
    [] t.type = "jitter"     -> JitterEffects(t)
    [] t.type = "reorder"    -> ReordererEffects(t)
    [] t.type = "rate_limit" -> RateLimiterEffects(t, p)
    [] t.type = "drop_seq"   -> DropSeqEffects(t, p)
    [] OTHER                 -> GapBurstEffects(t, p)

ToxicAfter(t, p) == IF t.type = "rate_limit" THEN RateLimiterAfter(t, p) ELSE t

\* The numbers a toxic is out to drop, by its configuration.
Targets(t) ==
  CASE t.type = "drop_seq"  -> t.targets
    [] t.type = "gap_burst" -> {n \in SeqNums : t.start <= n /\ n < t.start + t.len}
    [] OTHER                -> {}

\* Toxics that drop packets of any number.
Lossy(toxics) == \E i \in 1 .. Len(toxics) : toxics[i].type \in {"drop", "rate_limit"}

TargetedBy(toxics, header) == \E i \in 1 .. Len(toxics) : header \cap Targets(toxics[i]) # {}

-----------------------------------------------------------------------------
(* Flow::decide.  The operators are consulted in order until one does not  *)
(* forward; the ones behind it are neither asked nor changed.              *)

\* The toxics of the flow once the first n of them have been consulted.
Consulted(toxics, n, p) ==
  [i \in 1 .. Len(toxics) |-> IF i <= n THEN ToxicAfter(toxics[i], p) ELSE toxics[i]]

\* The loop comes as far as the n-th operator.
Reaches(toxics, n, p) == \A i \in 1 .. (n - 1) : Forward \in ToxicEffects(toxics[i], p)

StopsAt(toxics, n, p) ==
  {[effect |-> e, toxics |-> Consulted(toxics, n, p)] :
     e \in ToxicEffects(toxics[n], p) \ {Forward}}

RunsThrough(toxics, p) ==
  {[effect |-> Forward, toxics |-> Consulted(toxics, Len(toxics), p)]}

\* The possible outcomes: the effect returned and the toxics afterwards.
Decide(toxics, p) ==
  (UNION {StopsAt(toxics, n, p) : n \in {m \in 1 .. Len(toxics) : Reaches(toxics, m, p)}})
    \cup (IF Reaches(toxics, Len(toxics) + 1, p) THEN RunsThrough(toxics, p) ELSE {})

=============================================================================

-------------------------- MODULE TokenBucketProofs --------------------------
(***************************************************************************)
(* The rate limiter, proved for every rate, every rounding and every       *)
(* sequence of arrivals, pauses and reloads (src/scripts/rate_limiter.rs). *)
(***************************************************************************)
EXTENDS TokenBucket, TLAPS

LEMMA Distributes ==
  ASSUME NEW a \in Int, NEW b \in Int, NEW c \in Int
  PROVE  a * (b + c) = a * b + a * c /\ (b + c) * a = b * a + c * a
OBVIOUS

LEMMA TimesMonotone ==
  ASSUME NEW a \in Nat, NEW b \in Nat, NEW c \in Nat, a <= b
  PROVE  a * c <= b * c /\ a * c \in Nat
<1>1. PICK d \in Nat : b = a + d
  BY b - a \in Nat
<1>2. b * c = a * c + d * c
  BY <1>1, Distributes
<1>3. d * c \in Nat /\ a * c \in Nat
  OBVIOUS
<1> QED
  BY <1>2, <1>3

LEMMA ConstantFacts ==
  /\ TicksPerSec \in Nat /\ Grain \in Nat /\ MaxError \in Nat /\ MaxError <= Grain
  /\ Token \in Nat /\ Token > 0 /\ Token = TicksPerSec * Grain
  /\ TopRate \in Nat /\ \A rate \in Rates : rate \in Nat /\ rate <= TopRate
<1>1. /\ TicksPerSec \in Nat \ {0} /\ Grain \in Nat \ {0}
      /\ MaxError \in Nat /\ MaxError <= Grain
  BY ToxicsAssumption
<1>2. TicksPerSec * Grain \in Nat /\ TicksPerSec * Grain > 0
  BY <1>1
<1> QED
  BY <1>1, <1>2, BucketAssumption DEF Token

-----------------------------------------------------------------------------
(* Refilling.                                                              *)

\* A refill adds what the time is worth but for the error, and takes nothing.
LEMMA EarnedFacts ==
  ASSUME NEW t \in RateLimiters, NEW elapsed \in Nat
  PROVE  /\ Earned(t, elapsed) \in Nat
         /\ elapsed = 0 => Earned(t, elapsed) = 0
         /\ Earned(t, elapsed) <= elapsed * (t.capacity * Grain) + t.capacity * MaxError
         /\ Earned(t, elapsed) >= elapsed * (t.capacity * Grain) - t.capacity * MaxError
<1> DEFINE cap   == t.capacity
           error == RoundingError(t, elapsed)
           most  == cap * MaxError
           worth == cap * Grain
<1>1. /\ cap \in Nat /\ Grain \in Nat /\ MaxError \in Nat /\ MaxError <= Grain
  BY ConstantFacts DEF RateLimiters
<1>2. most \in Nat /\ worth \in Nat /\ most <= worth
  <2>1. MaxError * cap <= Grain * cap /\ MaxError * cap \in Nat
    BY <1>1, TimesMonotone
  <2>2. MaxError * cap = cap * MaxError /\ Grain * cap = cap * Grain
    BY <1>1
  <2> QED
    BY <1>1, <2>1, <2>2
<1>3. error \in Int /\ error >= -most /\ error <= most
  <2>1. MaxError * cap = most
    BY <1>1
  <2>2. error \in -most .. most
    BY <1>2, <2>1 DEF RoundingError
  <2> QED
    BY <1>2, <2>2
<1>4. elapsed = 0 => Earned(t, elapsed) = 0
  BY DEF Earned
<1>5. elapsed # 0 => Earned(t, elapsed) = elapsed * worth + error
  <2>1. elapsed * cap * Grain = elapsed * worth
    BY <1>1
  <2> QED
    BY <2>1 DEF Earned
<1> HIDE DEF cap, error, most, worth
<1>6. elapsed * worth \in Nat /\ (elapsed = 0 => elapsed * worth = 0)
  BY <1>2
<1>7. elapsed # 0 => elapsed * worth >= worth
  <2>1. elapsed # 0 => 1 * worth <= elapsed * worth
    BY <1>2, TimesMonotone
  <2> QED
    BY <1>2, <2>1
<1>8. /\ Earned(t, elapsed) \in Nat
      /\ Earned(t, elapsed) <= elapsed * worth + most
      /\ Earned(t, elapsed) >= elapsed * worth - most
  <2> DEFINE x == elapsed * worth
  <2> HIDE DEF x
  <2>1. CASE elapsed = 0
    BY <1>2, <1>4, <1>6, <2>1 DEF x
  <2>2. CASE elapsed # 0
    <3>1. x \in Nat /\ x >= worth /\ Earned(t, elapsed) = x + error
      BY <1>5, <1>6, <1>7, <2>2 DEF x
    <3>2. /\ Earned(t, elapsed) \in Nat
          /\ Earned(t, elapsed) <= x + most /\ Earned(t, elapsed) >= x - most
      BY <1>2, <1>3, <3>1
    <3> QED
      BY <3>2 DEF x
  <2> QED
    BY <2>1, <2>2
<1> QED
  BY <1>4, <1>8 DEF cap, most, worth

\* What t would hold at the time if nothing were rounded from now on.
LevelOf(t, time) ==
  IF t.last_refill = {}
  THEN t.capacity * Token
  ELSE LET last == CHOOSE at \in t.last_refill : TRUE
       IN  MinOf(t.tokens + (time - last) * (t.capacity * Grain), t.capacity * Token)

\* The bucket at a time, and what a packet that arrives then finds.
LEMMA BucketFacts ==
  ASSUME NEW t \in RateLimiters, NEW time \in Nat, \A at \in t.last_refill : at <= time
  PROVE  /\ t.capacity \in Nat /\ t.tokens \in Nat
         /\ t.capacity * Token \in Nat /\ t.capacity * Grain \in Nat
         /\ LevelOf(t, time) \in Nat /\ LevelOf(t, time) <= t.capacity * Token
         /\ t.last_refill = {} => LevelOf(t, time) = t.capacity * Token
         /\ \A last \in t.last_refill :
              /\ last \in Nat /\ last <= time /\ t.last_refill = {last}
              /\ (time - last) * (t.capacity * Grain) \in Nat
              /\ LevelOf(t, time) = MinOf(t.tokens + (time - last) * (t.capacity * Grain),
                                          t.capacity * Token)
<1>1. /\ t.capacity \in Nat /\ t.tokens \in Nat /\ t.last_refill \in Option(Nat)
      /\ t.capacity * Token \in Nat /\ t.capacity * Grain \in Nat
  BY ConstantFacts DEF RateLimiters
<1>2. CASE t.last_refill = {}
  BY <1>1, <1>2 DEF LevelOf
<1>3. CASE t.last_refill # {}
  <2>1. PICK last \in Nat : t.last_refill = {last}
    BY <1>1, <1>3 DEF Option
  <2>2. last <= time
    BY <2>1
  <2>3. LevelOf(t, time) = MinOf(t.tokens + (time - last) * (t.capacity * Grain),
                                 t.capacity * Token)
    BY <1>3, <2>1 DEF LevelOf
  <2>4. (time - last) * (t.capacity * Grain) \in Nat
    BY <1>1, <2>1, <2>2
  <2>5. LevelOf(t, time) \in Nat /\ LevelOf(t, time) <= t.capacity * Token
    BY <1>1, <2>3, <2>4 DEF MinOf
  <2> QED
    BY <1>1, <2>1, <2>2, <2>3, <2>4, <2>5
<1> QED
  BY <1>2, <1>3

\* A packet finds that level, but for one error if some time has passed.
LEMMA RefilledFacts ==
  ASSUME NEW t \in RateLimiters, NEW p, p.received_at \in Nat,
         \A at \in t.last_refill : at <= p.received_at
  PROVE  /\ Refilled(t, p) \in Nat /\ Refilled(t, p) <= t.capacity * Token
         /\ t.last_refill = {} => Refilled(t, p) = t.capacity * Token
         /\ Refilled(t, p) <= LevelOf(t, p.received_at) + t.capacity * MaxError
         /\ (\A last \in t.last_refill : last = p.received_at) =>
              Refilled(t, p) = LevelOf(t, p.received_at)
         /\ \A last \in t.last_refill :
              Refilled(t, p) # t.capacity * Token =>
                /\ Refilled(t, p) >= t.tokens
                /\ Refilled(t, p) >= t.tokens + (p.received_at - last) * (t.capacity * Grain)
                                       - t.capacity * MaxError
<1> DEFINE time == p.received_at
           full == t.capacity * Token
           most == t.capacity * MaxError
<1>1. /\ t.tokens \in Nat /\ full \in Nat /\ LevelOf(t, time) \in Nat
      /\ t.last_refill = {} => LevelOf(t, time) = full
  BY BucketFacts
<1>2. most \in Nat
  BY ConstantFacts DEF RateLimiters
<1>3. CASE t.last_refill = {}
  BY <1>1, <1>2, <1>3 DEF Refilled
<1>4. CASE t.last_refill # {}
  <2>1. PICK last \in t.last_refill :
          /\ last \in Nat /\ last <= time /\ t.last_refill = {last}
          /\ (time - last) * (t.capacity * Grain) \in Nat
          /\ LevelOf(t, time) = MinOf(t.tokens + (time - last) * (t.capacity * Grain), full)
    BY <1>4, BucketFacts
  <2> DEFINE worth  == (time - last) * (t.capacity * Grain)
             earned == Earned(t, time - last)
  <2>2. Refilled(t, p) = MinOf(t.tokens + earned, full)
    BY <1>4, <2>1 DEF Refilled, Elapsed
  <2>3. time - last \in Nat
    BY <2>1
  <2>4. /\ earned \in Nat /\ earned <= worth + most /\ earned >= worth - most
        /\ last = time => earned = 0 /\ worth = 0
    <3>1. last = time => worth = 0
      BY <2>1, BucketFacts
    <3> QED
      BY <2>3, <3>1, EarnedFacts
  <2>5. /\ worth \in Nat
        /\ LevelOf(t, time) = MinOf(t.tokens + worth, full)
        /\ t.last_refill = {last}
    BY <2>1
  <2> HIDE DEF worth, earned, full, most
  <2>6. /\ Refilled(t, p) \in Nat /\ Refilled(t, p) <= full
        /\ Refilled(t, p) <= LevelOf(t, time) + most
        /\ last = time => Refilled(t, p) = LevelOf(t, time)
        /\ Refilled(t, p) # full =>
             Refilled(t, p) >= t.tokens /\ Refilled(t, p) >= t.tokens + worth - most
    BY <1>1, <1>2, <2>2, <2>4, <2>5 DEF MinOf
  <2> QED
    BY <1>4, <2>5, <2>6 DEF worth, full, most
<1> QED
  BY <1>3, <1>4

-----------------------------------------------------------------------------
(* The invariant.                                                          *)

Level == LevelOf(limiter, now)

\* What a count pays for, in parts at one packet per second.
Paid(c, time) ==
  (c.reloads * TicksPerSec + TicksPerSec + (time - c.since)) * Grain + c.refills * MaxError

\* What a full bucket and the time since are worth, but for the errors.
Due(c, time) == (TicksPerSec + (time - c.since)) * Grain - c.refills * MaxError

\* What came through and what the bucket would let through at once are paid
\* for together; the bucket holds at least what was not used of a full bucket
\* and the time since; and a refusal leaves less than a packet.
Inv ==
  /\ TypeOK
  /\ count.passed * Token + Level <= TopRate * Paid(count, now)
  /\ \A last \in limiter.last_refill :
       /\ busy.since <= last
       /\ limiter.tokens + busy.passed * Token >= limiter.capacity * Due(busy, last)
  /\ answer = "drop" => limiter.last_refill # {} /\ limiter.tokens < Token

LEMMA LevelFacts ==
  ASSUME TypeOK
  PROVE  /\ limiter.capacity \in Nat /\ limiter.capacity <= TopRate /\ limiter.tokens \in Nat
         /\ Level \in Nat /\ Level <= limiter.capacity * Token
         /\ limiter.capacity * Token \in Nat /\ limiter.capacity * Grain \in Nat
         /\ limiter.last_refill = {} => Level = limiter.capacity * Token
         /\ \A last \in limiter.last_refill :
              /\ last \in Nat /\ last <= now /\ limiter.last_refill = {last}
              /\ (now - last) * (limiter.capacity * Grain) \in Nat
              /\ Level = MinOf(limiter.tokens + (now - last) * (limiter.capacity * Grain),
                               limiter.capacity * Token)
<1>1. /\ limiter \in RateLimiters /\ now \in Nat /\ limiter.capacity <= TopRate
      /\ \A at \in limiter.last_refill : at <= now
  BY DEF TypeOK
<1> QED
  BY <1>1, BucketFacts DEF Level

LEMMA PaidType ==
  ASSUME NEW time \in Nat, NEW c \in [since : 0 .. time, passed : Nat, refills : Nat, reloads : Nat]
  PROVE  /\ Paid(c, time) \in Int /\ Due(c, time) \in Int
         /\ c.passed * Token \in Nat
         /\ c.refills * MaxError \in Nat
<1>1. /\ c.since \in Nat /\ c.passed \in Nat /\ c.refills \in Nat /\ c.reloads \in Nat
  OBVIOUS
<1> DEFINE x == c.reloads * TicksPerSec
           y == c.refills * MaxError
<1>2. /\ x \in Nat /\ y \in Nat /\ c.passed * Token \in Nat
  BY <1>1, ConstantFacts
<1> DEFINE u == x + TicksPerSec + (time - c.since)
           v == TicksPerSec + (time - c.since)
<1>3. u \in Int /\ v \in Int
  BY <1>1, <1>2, ConstantFacts
<1>4. u * Grain \in Int /\ v * Grain \in Int
  BY <1>3, ConstantFacts
<1>5. Paid(c, time) = u * Grain + y /\ Due(c, time) = v * Grain - y
  BY DEF Paid, Due
<1> HIDE DEF u, v, x
<1>6. Paid(c, time) \in Int /\ Due(c, time) \in Int
  BY <1>2, <1>4, <1>5
<1> QED
  BY <1>2, <1>6

\* A fresh limiter holds one bucket, at most one of the top rate.
LEMMA FreshFacts ==
  ASSUME NEW rate \in Rates
  PROVE  /\ NewRateLimiter(rate) \in RateLimiters
         /\ NewRateLimiter(rate).capacity = rate /\ rate \in Nat /\ rate <= TopRate
         /\ NewRateLimiter(rate).tokens = 0 /\ NewRateLimiter(rate).last_refill = {}
         /\ rate * Token \in Nat /\ rate * Token <= TopRate * Token
<1>1. rate \in Nat /\ rate <= TopRate /\ TopRate \in Nat /\ Token \in Nat
  BY ConstantFacts
<1>2. NewRateLimiter(rate) \in RateLimiters
  BY <1>1 DEF NewRateLimiter, RateLimiters, Option
<1>3. rate * Token \in Nat /\ rate * Token <= TopRate * Token
  BY <1>1, TimesMonotone
<1> QED
  BY <1>1, <1>2, <1>3 DEF NewRateLimiter

\* A count that starts has paid for one bucket.
LEMMA StartFacts ==
  ASSUME now \in Nat
  PROVE  /\ StartCount \in Count /\ StartCount.passed * Token = 0
         /\ Paid(StartCount, now) = Token
<1>1. StartCount \in Count
  BY DEF StartCount, Count
<1>2. Paid(StartCount, now) = (0 * TicksPerSec + TicksPerSec + (now - now)) * Grain + 0 * MaxError
  BY DEF Paid, StartCount
<1>3. 0 * TicksPerSec + TicksPerSec + (now - now) = TicksPerSec /\ 0 * MaxError = 0
  BY ConstantFacts
<1>4. StartCount.passed * Token = 0
  BY ConstantFacts DEF StartCount
<1> QED
  BY <1>1, <1>2, <1>3, <1>4, ConstantFacts

LEMMA InitInv == Init => Inv
<1> SUFFICES ASSUME Init PROVE Inv
  OBVIOUS
<1>1. PICK rate \in Rates : limiter = NewRateLimiter(rate)
  BY DEF Init
<1>2. /\ limiter \in RateLimiters /\ limiter.capacity = rate /\ rate \in Nat /\ rate <= TopRate
      /\ limiter.tokens = 0 /\ limiter.last_refill = {}
      /\ rate * Token \in Nat /\ rate * Token <= TopRate * Token
  BY <1>1, FreshFacts
<1>3. /\ now = 0 /\ count = StartCount /\ busy = StartCount /\ answer = "none"
      /\ StartCount \in Count /\ StartCount.passed * Token = 0 /\ Paid(StartCount, now) = Token
  BY StartFacts DEF Init
<1>4. TypeOK
  BY <1>2, <1>3 DEF TypeOK
<1>5. Level = rate * Token
  BY <1>2, <1>4, LevelFacts
<1>6. count.passed * Token + Level <= TopRate * Paid(count, now)
  BY <1>2, <1>3, <1>5
<1> QED
  BY <1>2, <1>3, <1>4, <1>6 DEF Inv

-----------------------------------------------------------------------------
(* The steps.                                                              *)

\* What an arrival does to the bucket and to the counts.
LEMMA ArriveFacts ==
  ASSUME TypeOK, Arrive
  PROVE  \E held \in Nat, passed \in {0, 1}, refilled \in {0, 1} :
           /\ held = Refilled(limiter, Arriving)
           /\ refilled = IF TimeElapsed THEN 1 ELSE 0
           /\ passed * Token <= held
           /\ limiter' = [limiter EXCEPT !.tokens = held - passed * Token, !.last_refill = {now}]
           /\ now' = now
           /\ answer' \in {"forward", "drop"}
           /\ answer' = "drop" => held < Token /\ passed = 0
           /\ count' = [count EXCEPT !.passed = @ + passed, !.refills = @ + refilled]
           /\ busy' = IF held = limiter.capacity * Token
                      THEN [StartCount EXCEPT !.passed = passed]
                      ELSE [busy EXCEPT !.passed = @ + passed, !.refills = @ + refilled]
<1> DEFINE held     == Refilled(limiter, Arriving)
           passed   == IF held >= Token THEN 1 ELSE 0
           refilled == IF TimeElapsed THEN 1 ELSE 0
<1>1. /\ held \in Nat /\ Token \in Nat
  <2>1. /\ limiter \in RateLimiters /\ now \in Nat /\ \A at \in limiter.last_refill : at <= now
        /\ Arriving.received_at = now
    BY DEF TypeOK, Arriving
  <2> QED
    BY <2>1, RefilledFacts, ConstantFacts
<1>2. passed * Token = IF held >= Token THEN Token ELSE 0
  BY <1>1
<1>3. PICK effect \in RateLimiterEffects(limiter, Arriving) :
        LET p == IF effect = Forward THEN 1 ELSE 0
        IN  /\ answer' = effect.kind
            /\ count' = [count EXCEPT !.passed = @ + p, !.refills = @ + refilled]
            /\ busy' = IF Full THEN [StartCount EXCEPT !.passed = p]
                       ELSE [busy EXCEPT !.passed = @ + p, !.refills = @ + refilled]
  BY DEF Arrive
<1>4. /\ effect = IF held >= Token THEN Forward ELSE Drop
      /\ effect.kind = IF held >= Token THEN "forward" ELSE "drop"
      /\ (IF effect = Forward THEN 1 ELSE 0) = passed
  BY <1>3 DEF RateLimiterEffects, HasToken, Forward, Drop
<1>5. Full <=> held = limiter.capacity * Token
  BY DEF Full
<1>6. /\ limiter' = [limiter EXCEPT !.tokens = held - passed * Token, !.last_refill = {now}]
      /\ now' = now
  BY <1>2 DEF Arrive, RateLimiterAfter, HasToken, Arriving
<1> HIDE DEF held
<1>7. passed \in {0, 1} /\ refilled \in {0, 1}
  OBVIOUS
<1> HIDE DEF passed, refilled
<1>8. passed * Token <= held /\ (held < Token => passed = 0)
  BY <1>1, <1>2 DEF passed
<1>9. answer' \in {"forward", "drop"} /\ (answer' = "drop" => held < Token)
  BY <1>1, <1>3, <1>4
<1>10. /\ count' = [count EXCEPT !.passed = @ + passed, !.refills = @ + refilled]
       /\ busy' = IF held = limiter.capacity * Token
                  THEN [StartCount EXCEPT !.passed = passed]
                  ELSE [busy EXCEPT !.passed = @ + passed, !.refills = @ + refilled]
  BY <1>3, <1>4, <1>5
<1> QED
  BY <1>1, <1>6, <1>7, <1>8, <1>9, <1>10 DEF held, refilled

LEMMA ArriveInv == Inv /\ Arrive => Inv'
<1> SUFFICES ASSUME Inv, Arrive PROVE Inv'
  OBVIOUS
<1>1. TypeOK
  BY DEF Inv
<1>2. PICK held \in Nat, passed \in {0, 1}, refilled \in {0, 1} :
        /\ held = Refilled(limiter, Arriving)
        /\ refilled = IF TimeElapsed THEN 1 ELSE 0
        /\ passed * Token <= held
        /\ limiter' = [limiter EXCEPT !.tokens = held - passed * Token, !.last_refill = {now}]
        /\ now' = now
        /\ answer' \in {"forward", "drop"}
        /\ answer' = "drop" => held < Token /\ passed = 0
        /\ count' = [count EXCEPT !.passed = @ + passed, !.refills = @ + refilled]
        /\ busy' = IF held = limiter.capacity * Token
                   THEN [StartCount EXCEPT !.passed = passed]
                   ELSE [busy EXCEPT !.passed = @ + passed, !.refills = @ + refilled]
  BY <1>1, ArriveFacts
<1> DEFINE cap  == limiter.capacity
           pays == passed * Token
           off  == refilled * MaxError
<1>3. /\ limiter \in RateLimiters /\ now \in Nat /\ cap <= TopRate
      /\ \A at \in limiter.last_refill : at <= now
      /\ count \in Count /\ busy \in Count
      /\ Arriving.received_at = now
  BY <1>1 DEF TypeOK, Arriving
<1>4. /\ cap \in Nat /\ limiter.tokens \in Nat /\ Level \in Nat /\ Level <= cap * Token
      /\ cap * Token \in Nat /\ cap * Grain \in Nat
      /\ limiter.last_refill = {} => Level = cap * Token
      /\ Token \in Nat /\ Grain \in Nat /\ MaxError \in Nat /\ TicksPerSec \in Nat /\ TopRate \in Nat
  BY <1>1, LevelFacts, ConstantFacts
<1>5. pays \in Nat /\ off \in Nat
  BY <1>4
<1>6. /\ held <= cap * Token
      /\ held <= Level + cap * MaxError
      /\ (\A last \in limiter.last_refill : last = now) => held = Level
      /\ limiter.last_refill = {} => held = cap * Token
  BY <1>2, <1>3, RefilledFacts DEF Level
<1>7. held <= Level + cap * off
  <2>1. CASE TimeElapsed
    BY <1>2, <1>4, <1>6, <2>1
  <2>2. CASE ~TimeElapsed
    <3>1. ASSUME NEW last \in limiter.last_refill PROVE last = now
      <4>1. last \in Nat /\ last <= now
        BY <1>1, LevelFacts
      <4> QED
        BY <1>3, <2>2, <4>1 DEF TimeElapsed
    <3> QED
      BY <1>2, <1>4, <1>5, <1>6, <2>2, <3>1
  <2> QED
    BY <2>1, <2>2
<1>8. /\ limiter' \in RateLimiters /\ limiter'.capacity = cap
      /\ limiter'.tokens = held - pays /\ limiter'.last_refill = {now}
      /\ held - pays \in Nat /\ held - pays <= cap * Token
  <2>1. held - pays \in Nat /\ held - pays <= cap * Token
    BY <1>2, <1>4, <1>5, <1>6
  <2>2. {now} \in Option(Nat)
    BY <1>3 DEF Option
  <2> HIDE DEF pays
  <2> QED
    BY <1>2, <1>3, <2>1, <2>2 DEF RateLimiters, pays
<1>9. /\ count' \in Count' /\ count'.since = count.since /\ count'.reloads = count.reloads
      /\ count'.passed = count.passed + passed /\ count'.refills = count.refills + refilled
  <2>1. /\ count'.passed = count.passed + passed /\ count'.refills = count.refills + refilled
        /\ count'.since = count.since /\ count'.reloads = count.reloads
    BY <1>2, <1>3 DEF Count
  <2>2. count.passed + passed \in Nat /\ count.refills + refilled \in Nat
    BY <1>3 DEF Count
  <2> QED
    BY <1>2, <1>3, <2>1, <2>2 DEF Count
<1>10. busy' \in Count'
  <2>1. busy.passed + passed \in Nat /\ busy.refills + refilled \in Nat /\ passed \in Nat
    BY <1>3 DEF Count
  <2>2. CASE held = cap * Token
    BY <1>2, <1>3, <2>1, <2>2 DEF Count, StartCount
  <2>3. CASE held # cap * Token
    BY <1>2, <1>3, <2>1, <2>3 DEF Count
  <2> QED
    BY <2>2, <2>3
<1>11. TypeOK'
  BY <1>2, <1>3, <1>8, <1>9, <1>10 DEF TypeOK
<1>12. count'.passed * Token + Level' <= TopRate * Paid(count', now')
  <2> DEFINE paid == Paid(count, now)
             came == count.passed * Token
  <2>1. Level' = held - pays
    <3>1. Level' = MinOf(limiter'.tokens + (now' - now) * (cap * Grain), cap * Token)
      <4>1. /\ limiter' \in RateLimiters /\ now' \in Nat /\ now \in limiter'.last_refill
            /\ \A at \in limiter'.last_refill : at <= now'
        BY <1>2, <1>3, <1>8
      <4>2. LevelOf(limiter', now') = MinOf(limiter'.tokens + (now' - now) * (limiter'.capacity * Grain),
                                            limiter'.capacity * Token)
        BY <4>1, BucketFacts
      <4> QED
        BY <1>8, <4>2 DEF Level
    <3>2. (now' - now) * (cap * Grain) = 0
      BY <1>2, <1>3, <1>4
    <3> QED
      BY <1>4, <1>8, <3>1, <3>2 DEF MinOf
  <2>2. paid \in Int /\ came \in Nat /\ count.passed \in Nat /\ count.refills \in Nat
    BY <1>3, PaidType DEF Count
  <2>3. count'.passed * Token = came + pays
    BY <1>4, <1>9, <2>2, Distributes
  <2>4. Paid(count', now') = paid + off
    <3>1. (count.refills + refilled) * MaxError = count.refills * MaxError + off
      BY <1>4, <2>2, Distributes
    <3>2. (count.reloads * TicksPerSec + TicksPerSec + (now - count.since)) * Grain \in Int
          /\ count.refills * MaxError \in Int
      <4>1. count.reloads * TicksPerSec + TicksPerSec + (now - count.since) \in Int
        BY <1>3, <1>4 DEF Count
      <4> QED
        BY <1>4, <2>2, <4>1
    <3> HIDE DEF off
    <3> QED
      BY <1>2, <1>5, <1>9, <3>1, <3>2 DEF Paid
  <2>5. TopRate * (paid + off) = TopRate * paid + TopRate * off
    BY <1>4, <1>5, <2>2, Distributes
  <2>6. cap * off <= TopRate * off /\ cap * off \in Nat /\ TopRate * off \in Nat /\ TopRate * paid \in Int
    BY <1>3, <1>4, <1>5, <2>2, TimesMonotone
  <2>7. came + Level <= TopRate * paid
    BY DEF Inv
  <2> HIDE DEF paid, came, off, pays, cap
  <2> QED
    BY <1>4, <1>5, <1>7, <2>1, <2>2, <2>3, <2>4, <2>5, <2>6, <2>7
<1>13. /\ busy'.since <= now
       /\ limiter'.tokens + busy'.passed * Token >= cap * Due(busy', now)
  <2>1. CASE held = cap * Token
    <3>1. busy'.since = now /\ busy'.passed = passed /\ busy'.refills = 0
      BY <1>2, <2>1 DEF StartCount
    <3>2. Due(busy', now) = (TicksPerSec + (now - now)) * Grain - 0 * MaxError
      BY <3>1 DEF Due
    <3>3. Due(busy', now) = Token
      BY <1>3, <3>2, ConstantFacts
    <3>4. busy'.passed * Token = pays
      BY <3>1
    <3> HIDE DEF pays, cap
    <3> QED
      BY <1>3, <1>4, <1>5, <1>8, <2>1, <3>1, <3>3, <3>4
  <2>2. CASE held # cap * Token
    <3>1. /\ busy'.since = busy.since /\ busy'.passed = busy.passed + passed
          /\ busy'.refills = busy.refills + refilled
      BY <1>2, <1>3, <2>2 DEF Count
    <3>2. PICK last \in limiter.last_refill : last \in Nat /\ last <= now
      BY <1>1, <1>6, <2>2, LevelFacts
    <3> DEFINE worth == (now - last) * (cap * Grain)
               due   == Due(busy, last)
               came  == busy.passed * Token
    <3>3. /\ busy.since \in Nat /\ busy.since <= last /\ limiter.tokens + came >= cap * due
          /\ busy.passed \in Nat /\ busy.refills \in Nat /\ busy.since <= now
      BY <1>3, <3>2 DEF Inv, Count
    <3>4. due \in Int
      <4>1. /\ TicksPerSec + (last - busy.since) \in Int /\ busy.refills * MaxError \in Int
        BY <1>4, <3>2, <3>3
      <4>2. (TicksPerSec + (last - busy.since)) * Grain \in Int
        BY <1>4, <4>1
      <4> QED
        BY <4>1, <4>2 DEF Due
    <3>5. worth \in Nat /\ held >= limiter.tokens + worth - cap * off
      <4>1. /\ (now - last) * (cap * Grain) \in Nat
            /\ held >= limiter.tokens
            /\ held >= limiter.tokens + worth - cap * MaxError
        BY <1>2, <1>3, <2>2, <3>2, RefilledFacts, BucketFacts
      <4>2. CASE TimeElapsed
        BY <1>2, <1>4, <4>1, <4>2
      <4>3. CASE ~TimeElapsed
        <5>1. now - last = 0
          BY <1>3, <3>2, <4>3 DEF TimeElapsed
        <5>2. worth = 0 /\ cap * off = 0
          BY <1>2, <1>4, <4>3, <5>1
        <5> HIDE DEF worth, off, cap
        <5> QED
          BY <1>4, <4>1, <5>2
      <4> QED
        BY <4>2, <4>3
    <3>6. busy'.passed * Token = came + pays
      BY <1>4, <3>1, <3>3, Distributes
    <3>7. Due(busy', now) = due + (now - last) * Grain - off
      <4> DEFINE span == TicksPerSec + (last - busy.since)
                 errs == busy.refills * MaxError
      <4>1. span \in Int /\ now - last \in Int /\ errs \in Int
        BY <1>3, <1>4, <3>2, <3>3
      <4>2. (span + (now - last)) * Grain = span * Grain + (now - last) * Grain
        BY <1>4, <4>1, Distributes
      <4>3. TicksPerSec + (now - busy.since) = span + (now - last)
        BY <1>3, <1>4, <3>2, <3>3
      <4>4. (busy.refills + refilled) * MaxError = errs + off
        BY <1>4, <3>3, Distributes
      <4>5. due = span * Grain - errs
        BY DEF Due
      <4>6. Due(busy', now) = (span + (now - last)) * Grain - (errs + off)
        BY <3>1, <4>3, <4>4 DEF Due
      <4>7. span * Grain \in Int /\ (now - last) * Grain \in Int
        BY <1>4, <4>1
      <4> HIDE DEF span, errs, off, due
      <4> QED
        BY <1>5, <4>1, <4>2, <4>5, <4>6, <4>7
    <3>8. cap * Due(busy', now) = cap * due + worth - cap * off
      <4>1. (now - last) * Grain \in Int /\ worth = cap * ((now - last) * Grain)
        BY <1>3, <1>4, <3>2
      <4> DEFINE gain == (now - last) * Grain
      <4> HIDE DEF gain, due, off, cap, worth
      <4>2. cap * (due + (gain - off)) = cap * due + cap * (gain - off)
        BY <1>4, <1>5, <3>4, <4>1, Distributes DEF gain
      <4>3. cap * (gain - off) = cap * gain - cap * off
        BY <1>4, <1>5, <4>1 DEF gain
      <4>4. due + gain - off = due + (gain - off)
        BY <1>5, <3>4, <4>1 DEF gain
      <4>5. cap * due \in Int /\ cap * gain \in Int /\ cap * off \in Int
        BY <1>4, <1>5, <3>4, <4>1 DEF gain
      <4> QED
        BY <3>7, <4>1, <4>2, <4>3, <4>4, <4>5 DEF gain
    <3>9. cap * due \in Int /\ cap * off \in Int /\ came \in Int
      BY <1>4, <1>5, <3>4, <3>3
    <3> HIDE DEF worth, due, came, pays, off, cap
    <3> QED
      BY <1>4, <1>5, <1>8, <3>1, <3>3, <3>5, <3>6, <3>8, <3>9
  <2> QED
    BY <2>1, <2>2
<1>14. answer' = "drop" => limiter'.last_refill # {} /\ limiter'.tokens < Token
  <2>1. passed = 0 => pays = 0
    BY <1>4
  <2> HIDE DEF pays
  <2> QED
    BY <1>2, <1>4, <1>8, <2>1
<1> QED
  BY <1>8, <1>11, <1>12, <1>13, <1>14 DEF Inv

LEMMA ReloadInv == Inv /\ Reload => Inv'
<1> SUFFICES ASSUME Inv, Reload PROVE Inv'
  OBVIOUS
<1>1. PICK rate \in Rates : limiter' = NewRateLimiter(rate)
  BY DEF Reload
<1>2. /\ limiter' \in RateLimiters /\ limiter'.capacity = rate /\ rate \in Nat /\ rate <= TopRate
      /\ limiter'.tokens = 0 /\ limiter'.last_refill = {}
      /\ rate * Token \in Nat /\ rate * Token <= TopRate * Token
  BY <1>1, FreshFacts
<1>3. /\ answer' = "none" /\ now' = now /\ busy' = busy
      /\ count' = [count EXCEPT !.reloads = @ + 1]
  BY DEF Reload
<1>4. /\ TypeOK /\ count \in Count /\ busy \in Count /\ now \in Nat
      /\ TicksPerSec \in Nat /\ Grain \in Nat /\ Token \in Nat /\ Token = TicksPerSec * Grain
      /\ TopRate \in Nat /\ TopRate * Token \in Nat
  BY ConstantFacts DEF Inv, TypeOK
<1>5. /\ count.reloads \in Nat
      /\ count'.passed = count.passed /\ count'.since = count.since
      /\ count'.refills = count.refills /\ count'.reloads = count.reloads + 1
  BY <1>3, <1>4 DEF Count
<1>6. TypeOK'
  <2>1. count' \in Count' /\ busy' \in Count'
    BY <1>3, <1>4, <1>5 DEF Count
  <2>2. limiter'.capacity <= TopRate /\ limiter'.tokens <= limiter'.capacity * Token
    BY <1>2
  <2> QED
    BY <1>2, <1>3, <1>4, <2>1, <2>2 DEF TypeOK
<1>7. Level' = rate * Token
  BY <1>2, <1>6, BucketFacts DEF Level, TypeOK
<1> DEFINE paid == Paid(count, now)
           came == count.passed * Token
<1>8. paid \in Int /\ came \in Nat
  BY <1>4, PaidType DEF Count
<1>9. Paid(count', now') = paid + Token
  <2> DEFINE x == count.reloads * TicksPerSec + TicksPerSec + (now - count.since)
             errs == count.refills * MaxError
  <2>1. (count.reloads + 1) * TicksPerSec = count.reloads * TicksPerSec + TicksPerSec
    BY <1>4, <1>5
  <2>2. x \in Int /\ errs \in Nat
    BY <1>4, <1>5, PaidType DEF Count
  <2>3. (count.reloads + 1) * TicksPerSec + TicksPerSec + (now - count.since) = x + TicksPerSec
    <3>1. count.reloads * TicksPerSec \in Nat /\ now - count.since \in Int
      BY <1>4, <1>5 DEF Count
    <3> QED
      BY <1>4, <2>1, <3>1
  <2>4. (x + TicksPerSec) * Grain = x * Grain + Token /\ x * Grain \in Int
    BY <1>4, <2>2, Distributes
  <2>5. Paid(count', now') = (x + TicksPerSec) * Grain + errs /\ paid = x * Grain + errs
    BY <1>3, <1>5, <2>3 DEF Paid
  <2> HIDE DEF x, errs, paid
  <2> QED
    BY <1>4, <2>2, <2>4, <2>5
<1>10. came + Level <= TopRate * paid
  BY DEF Inv
<1>11. Level \in Nat
  BY <1>4, LevelFacts
<1>12. count'.passed * Token + Level' <= TopRate * Paid(count', now')
  <2> HIDE DEF paid
  <2>1. TopRate * (paid + Token) = TopRate * paid + TopRate * Token /\ TopRate * paid \in Int
    BY <1>4, <1>8, Distributes
  <2>2. count'.passed * Token = came
    BY <1>5
  <2> HIDE DEF came
  <2> QED
    BY <1>2, <1>4, <1>7, <1>8, <1>9, <1>10, <1>11, <2>1, <2>2
<1> QED
  BY <1>2, <1>3, <1>6, <1>12 DEF Inv

LEMMA TickInv == Inv /\ Tick => Inv'
<1> SUFFICES ASSUME Inv, Tick PROVE Inv'
  OBVIOUS
<1> DEFINE cap  == limiter.capacity
           paid == Paid(count, now)
           came == count.passed * Token
<1>1. now' = now + 1 /\ UNCHANGED <<limiter, answer, count, busy>>
  BY DEF Tick
<1>2. /\ TypeOK /\ limiter \in RateLimiters /\ now \in Nat /\ count \in Count /\ busy \in Count
      /\ \A at \in limiter.last_refill : at \in Nat /\ at <= now
  BY LevelFacts DEF Inv, TypeOK
<1>3. /\ Grain \in Nat /\ Token \in Nat /\ TopRate \in Nat /\ TicksPerSec \in Nat
      /\ cap \in Nat /\ cap <= TopRate /\ Level \in Nat /\ limiter.tokens \in Nat
      /\ cap * Token \in Nat /\ cap * Grain \in Nat
      /\ limiter.last_refill = {} => Level = cap * Token
  BY <1>2, LevelFacts, ConstantFacts
<1>4. TypeOK'
  <2>1. count' \in Count' /\ busy' \in Count' /\ now' \in Nat
    BY <1>1, <1>2 DEF Count
  <2>2. \A at \in limiter'.last_refill : at <= now'
    BY <1>1, <1>2
  <2> QED
    BY <1>1, <1>2, <2>1, <2>2 DEF TypeOK
<1>5. Level' <= Level + cap * Grain /\ Level' \in Nat
  <2>1. /\ limiter' = limiter /\ now' \in Nat /\ \A at \in limiter.last_refill : at <= now'
        /\ Level' = LevelOf(limiter, now')
    BY <1>1, <1>2 DEF Level
  <2>2. CASE limiter.last_refill = {}
    BY <1>2, <1>3, <2>1, <2>2, BucketFacts
  <2>3. CASE limiter.last_refill # {}
    <3>1. PICK last \in limiter.last_refill : last \in Nat /\ last <= now
      BY <1>2, <2>3
    <3> DEFINE worth == (now - last) * (cap * Grain)
               later == (now' - last) * (cap * Grain)
    <3>2. Level = MinOf(limiter.tokens + worth, cap * Token) /\ worth \in Nat
      BY <1>2, <3>1, LevelFacts
    <3>3. Level' = MinOf(limiter.tokens + later, cap * Token) /\ later \in Nat
      BY <1>2, <2>1, <3>1, BucketFacts
    <3>4. later = worth + cap * Grain
      <4>1. now' - last = (now - last) + 1
        BY <1>1, <1>2, <3>1
      <4> QED
        BY <1>2, <1>3, <3>1, <4>1, Distributes
    <3> HIDE DEF worth, later, cap
    <3> QED
      BY <1>3, <3>2, <3>3, <3>4 DEF MinOf
  <2> QED
    BY <2>2, <2>3
<1>6. paid \in Int /\ came \in Nat /\ came + Level <= TopRate * paid
  BY <1>2, PaidType DEF Count, Inv
<1>7. Paid(count, now') = paid + Grain
  <2> DEFINE x == count.reloads * TicksPerSec + TicksPerSec + (now - count.since)
             errs == count.refills * MaxError
  <2>1. x \in Int /\ errs \in Nat
    <3>1. count.reloads * TicksPerSec \in Nat /\ now - count.since \in Int
      BY <1>2, <1>3 DEF Count
    <3> QED
      BY <1>2, <1>3, <3>1, PaidType DEF Count
  <2>2. count.reloads * TicksPerSec + TicksPerSec + (now' - count.since) = x + 1
    <3>1. count.reloads * TicksPerSec \in Nat /\ count.since \in Nat
      BY <1>2, <1>3 DEF Count
    <3> QED
      BY <1>1, <1>2, <1>3, <3>1
  <2>3. (x + 1) * Grain = x * Grain + Grain /\ x * Grain \in Int
    BY <1>3, <2>1, Distributes
  <2>4. Paid(count, now') = (x + 1) * Grain + errs /\ paid = x * Grain + errs
    BY <2>2 DEF Paid
  <2> HIDE DEF x, errs, paid
  <2> QED
    BY <1>3, <2>1, <2>3, <2>4
<1>8. count'.passed * Token + Level' <= TopRate * Paid(count', now')
  <2>1. Paid(count', now') = paid + Grain /\ count'.passed * Token = came
    BY <1>1, <1>7
  <2>2. TopRate * (paid + Grain) = TopRate * paid + TopRate * Grain /\ TopRate * paid \in Int
    BY <1>3, <1>6, Distributes
  <2>3. cap * Grain <= TopRate * Grain /\ TopRate * Grain \in Nat
    BY <1>3, TimesMonotone
  <2> HIDE DEF paid, came, cap
  <2> QED
    BY <1>3, <1>5, <1>6, <2>1, <2>2, <2>3
<1> QED
  BY <1>1, <1>4, <1>8 DEF Inv

LEMMA RecountInv == Inv /\ Recount => Inv'
<1> SUFFICES ASSUME Inv, Recount PROVE Inv'
  OBVIOUS
<1>1. /\ count' = StartCount /\ now' = now /\ limiter' = limiter /\ answer' = answer
      /\ busy' = busy
  BY DEF Recount
<1>2. /\ TypeOK /\ now \in Nat
      /\ StartCount \in Count /\ StartCount.passed * Token = 0 /\ Paid(StartCount, now) = Token
  BY StartFacts DEF Inv, TypeOK
<1>3. TypeOK'
  BY <1>1, <1>2 DEF TypeOK, Count
<1>4. Level' = Level
  BY <1>1 DEF Level
<1>5. Level \in Nat /\ Level <= TopRate * Token
  <2>1. /\ limiter.capacity \in Nat /\ limiter.capacity <= TopRate
        /\ Level \in Nat /\ Level <= limiter.capacity * Token
    BY <1>2, LevelFacts
  <2>2. limiter.capacity * Token <= TopRate * Token /\ limiter.capacity * Token \in Nat
        /\ TopRate * Token \in Nat
    BY <2>1, ConstantFacts, TimesMonotone
  <2> QED
    BY <2>1, <2>2
<1>6. count'.passed * Token + Level' <= TopRate * Paid(count', now')
  BY <1>1, <1>2, <1>4, <1>5
<1> QED
  BY <1>1, <1>3, <1>6 DEF Inv

LEMMA Invariance == Spec => []Inv
<1>1. Inv /\ UNCHANGED vars => Inv'
  BY DEF vars, Inv, TypeOK, Level, Count
<1>2. Inv /\ [Next]_vars => Inv'
  BY <1>1, ArriveInv, ReloadInv, TickInv, RecountInv DEF Next
<1> QED
  BY <1>2, InitInv, PTL DEF Spec

-----------------------------------------------------------------------------

\* The rate limiter never holds a negative amount of tokens or more than its
\* capacity, and never looks back before its last refill.
THEOREM BucketTypeCorrectness == Spec => []TypeOK
<1>1. Inv => TypeOK
  BY DEF Inv
<1> QED
  BY <1>1, Invariance, PTL

\* Whatever arrives when, no more than a bucket and the rate come through,
\* one more bucket for every reload, which starts a full one, and what
\* rounding adds to the refills.
THEOREM RateLimitHolds == Spec => []RateIsCapped
<1>1. Inv => RateIsCapped
  <2> SUFFICES ASSUME Inv PROVE RateIsCapped
    OBVIOUS
  <2> DEFINE paid == Paid(count, now)
             came == count.passed * Token
  <2>1. Level \in Nat /\ came + Level <= TopRate * paid
    BY LevelFacts DEF Inv
  <2>2. paid \in Int /\ came \in Nat
    BY PaidType DEF Inv, TypeOK, Count
  <2>3. TopRate * paid \in Int
    BY <2>2, ConstantFacts
  <2> HIDE DEF paid, came
  <2>4. came <= TopRate * paid
    BY <2>1, <2>2, <2>3
  <2> QED
    BY <2>4 DEF paid, came, Paid, RateIsCapped
<1> QED
  BY <1>1, Invariance, PTL

\* A packet is refused only when the bucket was used up by packets that came
\* through: refusals are free, and no time is lost but for the roundings.
THEOREM RefusalsAreJustified == Spec => []RefusalsAreDue
<1>1. Inv => RefusalsAreDue
  <2> SUFFICES ASSUME Inv, answer = "drop", NEW last \in limiter.last_refill
               PROVE  (busy.passed + 1) * Token > limiter.capacity * Due(busy, last)
    BY DEF RefusalsAreDue, Due
  <2> DEFINE due  == limiter.capacity * Due(busy, last)
             came == busy.passed * Token
  <2>1. /\ limiter.tokens \in Nat /\ limiter.tokens < Token /\ Token \in Nat
        /\ limiter.tokens + came >= due
        /\ busy \in Count /\ now \in Nat /\ busy.since <= last /\ last \in Nat
    BY LevelFacts, ConstantFacts DEF Inv, TypeOK
  <2>2. busy.passed \in Nat /\ came \in Nat /\ busy.since \in Nat /\ busy.refills \in Nat
    BY <2>1, PaidType DEF Count
  <2>3. (busy.passed + 1) * Token = came + Token
    BY <2>1, <2>2, Distributes
  <2>4. due \in Int
    <3>1. /\ TicksPerSec + (last - busy.since) \in Int /\ busy.refills * MaxError \in Int
      BY <2>1, <2>2, ConstantFacts
    <3>2. (TicksPerSec + (last - busy.since)) * Grain \in Int
      BY <3>1, ConstantFacts
    <3>3. Due(busy, last) \in Int /\ limiter.capacity \in Nat
      BY <3>1, <3>2, LevelFacts DEF Due, Inv
    <3> QED
      BY <3>3
  <2> HIDE DEF due, came
  <2>5. came + Token > due
    BY <2>1, <2>2, <2>4
  <2> QED
    BY <2>3, <2>5 DEF due
<1> QED
  BY <1>1, Invariance, PTL
=============================================================================

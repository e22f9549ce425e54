----------------------------- MODULE TokenBucket -----------------------------
(***************************************************************************)
(* The rate_limit toxic over time (src/scripts/rate_limiter.rs): packets   *)
(* that arrive when they like, and reloads that replace the bucket by a    *)
(* fresh one, perhaps of another rate (Proxy models how they come to it).  *)
(* Somebody downstream counts, from any moment on, what comes through.     *)
(***************************************************************************)
EXTENDS Toxics

CONSTANTS
  Rates,        \* packets_per_sec of the scenarios
  TopRate,      \* none of them is larger
  MaxClock,     \* bound: ticks
  MaxReloads    \* bound: reloads that one count sees

ASSUME BucketAssumption ==
  /\ TopRate \in Nat
  /\ Rates \subseteq 0 .. TopRate
  /\ MaxClock \in Nat
  /\ MaxReloads \in Nat

VARIABLES
  now,        \* Instant::now()
  limiter,    \* the rate limiter of the flow in force
  answer,     \* what it decided last, "none" for a fresh one
  count,      \* history: what an observer counts, see Count
  busy        \* history: the same since the bucket was last full

vars == <<now, limiter, answer, count, busy>>

\* Packets let through, refills that some time made and reloads, since when.
StartCount == [since |-> now, passed |-> 0, refills |-> 0, reloads |-> 0]

Init ==
  /\ now = 0
  /\ \E rate \in Rates : limiter = NewRateLimiter(rate)
  /\ answer = "none"
  /\ count = StartCount
  /\ busy = StartCount

\* The packet that arrives now.
Arriving == [id |-> 0, seqnum |-> {}, received_at |-> now]

Full == Refilled(limiter, Arriving) = limiter.capacity * Token

TimeElapsed == \E last \in limiter.last_refill : last < now

Arrive ==
  /\ \E effect \in RateLimiterEffects(limiter, Arriving) :
       LET passed   == IF effect = Forward THEN 1 ELSE 0
           refilled == IF TimeElapsed THEN 1 ELSE 0
       IN  /\ answer' = effect.kind
           /\ count' = [count EXCEPT !.passed = @ + passed, !.refills = @ + refilled]
           /\ busy' = IF Full THEN [StartCount EXCEPT !.passed = passed]
                      ELSE [busy EXCEPT !.passed = @ + passed, !.refills = @ + refilled]
  /\ limiter' = RateLimiterAfter(limiter, Arriving)
  /\ UNCHANGED now

Reload ==
  /\ count.reloads < MaxReloads
  /\ \E rate \in Rates : limiter' = NewRateLimiter(rate)
  /\ answer' = "none"
  /\ count' = [count EXCEPT !.reloads = @ + 1]
  /\ UNCHANGED <<now, busy>>

Tick ==
  /\ now < MaxClock
  /\ now' = now + 1
  /\ UNCHANGED <<limiter, answer, count, busy>>

\* The observer starts again.
Recount ==
  /\ count' = StartCount
  /\ UNCHANGED <<now, limiter, answer, busy>>

Next == Arrive \/ Reload \/ Tick \/ Recount

Spec == Init /\ [][Next]_vars

-----------------------------------------------------------------------------
(* Properties.                                                             *)

Count == [since : 0 .. now, passed : Nat, refills : Nat, reloads : Nat]

\* Type invariant.
TypeOK ==
  /\ now \in Nat
  /\ limiter \in RateLimiters
  /\ limiter.capacity <= TopRate
  /\ limiter.tokens <= limiter.capacity * Token
  /\ \A at \in limiter.last_refill : at <= now
  /\ answer \in {"none", "forward", "drop"}
  /\ count \in Count
  /\ busy \in Count

\* From any moment on, no more than one bucket and the rate come through,
\* and one more bucket for every reload since then: a pause is not saved up
\* beyond a bucket.  Only rounding can let more through, by what it adds to
\* each refill.
RateIsCapped ==
  count.passed * Token
    <= TopRate * ((count.reloads * TicksPerSec + TicksPerSec + (now - count.since)) * Grain
                    + count.refills * MaxError)

\* A packet is refused only if a bucket and the rate have been used up to
\* less than one packet since the bucket was last full: a refused packet
\* costs nothing, and no time is left unpaid however the arrivals fall but
\* for what rounding takes from each refill.
RefusalsAreDue ==
  answer = "drop" =>
    \A last \in limiter.last_refill :
      (busy.passed + 1) * Token
        > limiter.capacity * ((TicksPerSec + (last - busy.since)) * Grain
                                - busy.refills * MaxError)

=============================================================================

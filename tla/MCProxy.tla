------------------------------- MODULE MCProxy -------------------------------
(***************************************************************************)
(* Small instances of Proxy for TLC, in which f64 is exact.                *)
(***************************************************************************)
EXTENDS Proxy

Exact(tokens, elapsed, capacity) == 0

Reorder(p, hold) == [type |-> "reorder", probability |-> p, hold |-> hold]
Duplicate(p)     == [type |-> "duplicate", probability |-> p]
Loss(p)          == [type |-> "drop", probability |-> p]
Jitter(min, max) == [type |-> "jitter", min |-> min, max |-> max]

NoHeader   == {{}}
NoObserver == {}

\* Every effect in one flow, with a hold that later packets overtake; the
\* flows it may be replaced with delay every packet by 0 or 1 tick, or hold
\* it for 3 ticks, more than the delay queue of this instance takes.
MixedScenarios ==
  { <<Loss("maybe"), Reorder("maybe", 2), Duplicate("maybe")>>,
    <<Jitter(0, 1)>>,
    <<Duplicate("maybe"), Reorder("maybe", 3)>> }

OversizedScenarios == { <<Duplicate("maybe"), Reorder("maybe", 3)>> }

\* Two flows that a reload can exchange, one losing and one holding packets.
ReloadScenarios == { <<Loss("maybe")>>, <<Reorder("maybe", 1), Duplicate("maybe")>> }
=============================================================================

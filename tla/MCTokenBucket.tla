---------------------------- MODULE MCTokenBucket ----------------------------
(***************************************************************************)
(* The instance of TokenBucket for TLC.                                    *)
(***************************************************************************)
EXTENDS TokenBucket

\* Repeated roundings in one direction add up: up at the top rate, down at
\* the others, as ten refills of 0.1 make less than a token.
RoundsOff(tokens, elapsed, capacity) == IF capacity = TopRate THEN capacity ELSE -capacity
=============================================================================

---------------------------- MODULE MCDeterminism ----------------------------
(***************************************************************************)
(* Small instances of Determinism for TLC, in which f64 is exact.          *)
(***************************************************************************)
EXTENDS Determinism

Exact(tokens, elapsed, capacity) == 0

Loss(p)          == [type |-> "drop", probability |-> p]
Duplicate(p)     == [type |-> "duplicate", probability |-> p]
Reorder(p, hold) == [type |-> "reorder", probability |-> p, hold |-> hold]
Jitter(min, max) == [type |-> "jitter", min |-> min, max |-> max]
DropSeq(targets) == [type |-> "drop_seq", targets |-> targets]

AnyHeader == {{}, {1}}

\* The flow of tests/determinism.rs with three delays, which reject words; a
\* flow whose draws depend on the packet's number; and a limiter in front of
\* toxics that draw.
Mixed ==
  { <<Loss("maybe"), Duplicate("maybe"), Jitter(1, 3)>>,
    <<Reorder("never", 2), DropSeq({1}), Loss("maybe"), Reorder("always", 1)>>,
    <<NewRateLimiter(1), Loss("maybe")>>,
    <<Jitter(1, 1)>> }

Limited == { <<NewRateLimiter(1), Loss("maybe"), Duplicate("maybe")>> }
=============================================================================

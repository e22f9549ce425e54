------------------------------ MODULE Scenario ------------------------------
(***************************************************************************)
(* A scenario (src/config/scenario.rs): what main reads from a file and    *)
(* POST /reload takes as a body, and the flow and extractor built from it. *)
(*                                                                         *)
(* A Result is an Option: {} is an error.  A body is the Option of the     *)
(* scenario that toml::from_str makes of it.                               *)
(***************************************************************************)
EXTENDS Toxics

\* A scenario whose optional fields are left out: no protocol, no multicast
\* group, no operators.
DefaultScenario == [protocol |-> {}, group |-> {}, operators |-> <<>>]

\* An operator is a record of its type and the fields of its TOML table.
OperatorTypes ==
  {"drop", "duplicate", "jitter", "reorder", "rate_limit", "drop_seq", "gap_burst"}

\* The constructors reject a probability outside 0 .. 1 and an empty range
\* of jitter; every other field is right by its type.
Valid(config) ==
  CASE config.type \in {"drop", "duplicate", "reorder"} -> config.probability \in Probabilities
    [] config.type = "jitter" -> config.min <= config.max
    [] OTHER -> config.type \in OperatorTypes

Build(config) ==
  CASE config.type = "rate_limit" -> NewRateLimiter(config.packets_per_sec)
    [] config.type = "gap_burst"  -> NewGapBurst(config.start, config.len)
    [] OTHER                      -> config

\* Mutant: a bad operator is left out instead of failing the scenario.
BuildFlowLenient(scenario) ==
  LET kept == SelectSeq(scenario.operators, Valid)
  IN  {[i \in 1 .. Len(kept) |-> Build(kept[i])]}

\* One bad operator fails the whole scenario.
BuildFlow(scenario) ==
  IF \A i \in 1 .. Len(scenario.operators) : Valid(scenario.operators[i])
  THEN {[i \in 1 .. Len(scenario.operators) |-> Build(scenario.operators[i])]}
  ELSE {}

BuildExtractor(scenario) ==
  CASE scenario.protocol \in {{}, {"none"}} -> {"none"}
    [] scenario.protocol = {"moldudp64"}    -> {"moldudp64"}
    [] OTHER                                -> {}

\* main needs both.
Usable(scenario) == BuildFlow(scenario) # {} /\ BuildExtractor(scenario) # {}

\* What a reload makes of its body: the flow and nothing else of it.
ParseFlow(body) == UNION {BuildFlow(scenario) : scenario \in body}

=============================================================================

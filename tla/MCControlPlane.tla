--------------------------- MODULE MCControlPlane ---------------------------
(***************************************************************************)
(* Small instances of ControlPlane for TLC, in which f64 is exact.         *)
(***************************************************************************)
EXTENDS ControlPlane

None == {}
Exact(tokens, elapsed, capacity) == 0

Scene(protocol, operators) ==
  [DefaultScenario EXCEPT !.protocol = protocol, !.operators = operators]
In(group, scene) == [scene EXCEPT !.group = group]

DropSeqOf(seqnums) == [type |-> "drop_seq", targets |-> seqnums]
GapOf(start, len)  == [type |-> "gap_burst", start |-> start, len |-> len]
LossOf(p)          == [type |-> "drop", probability |-> p]
RateOf(rate)       == [type |-> "rate_limit", packets_per_sec |-> rate]
DuplicateOf(p)     == [type |-> "duplicate", probability |-> p]
JitterOf(min, max) == [type |-> "jitter", min |-> min, max |-> max]

AnyHeader == {{}, {1}, {2}}
Numbered  == {{1}}
NoHeader  == {{}}

Plain    == DefaultScenario
GapSeq   == Scene({"moldudp64"}, <<DropSeqOf({1})>>)
GapBurst == Scene({"moldudp64"}, <<GapOf(1, 0), GapOf(0, 1), GapOf(2, 5)>>)
LossyGap == Scene({"moldudp64"}, <<LossOf("maybe"), RateOf(1), DropSeqOf({1})>>)
Copying  == Scene({}, <<LossOf("maybe"), DuplicateOf("always")>>)

\* Not TOML, a probability out of range behind a good operator, an empty
\* range of jitter, and an unknown protocol, which a reload does not mind.
SomeBodies ==
  { {}, {GapBurst}, {LossyGap}, {Scene({}, <<GapOf(1, 1), LossOf("invalid")>>)},
    {Scene({}, <<JitterOf(1, 0)>>)}, {Scene({"itch"}, <<>>)} }
GapSeqOnly == { {GapSeq} }
NoBodies   == {}

\* No file, a flow or a protocol that cannot be built, a group of the wrong
\* family, and one that can be joined.
SomeFiles ==
  { {}, {Scene({"moldudp64"}, <<LossOf("invalid")>>)}, {Scene({"itch"}, <<>>)},
    {In({"v6"}, GapSeq)}, {In({"v4"}, GapSeq)} }
CopyFile  == { {Copying} }
PlainFile == { {Plain} }

Flows == UNION {ParseFlow(text) : text \in Files \cup Bodies}
=============================================================================

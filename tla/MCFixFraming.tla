---------------------------- MODULE MCFixFraming ----------------------------
(***************************************************************************)
(* A small instance of FixFraming for TLC: two messages that are right at  *)
(* the limits, and every stream that differs from them in one byte.        *)
(***************************************************************************)
EXTENDS FixFraming

Message(version, length, body) ==
  <<8, Equals>> \o version \o <<SOH, 9, Equals>> \o length \o <<SOH>>
    \o body \o <<1, 0, Equals, 0, 0, 7, SOH>>

\* 34=1|, and 43=Y|34=|35=|, whose header ends where the scan does and which
\* is as long as a message may be.
Short == Message(<<Other>>, <<5>>, <<3, 4, Equals, 1, SOH>>)
Long  == Message(<<4>>, <<1, 3>>,
                 <<4, 3, Equals, Yes, SOH, 3, 4, Equals, SOH, 3, 5, Equals, SOH>>)

Valid == Short \o Long

\* A body without fields, one that repeats tag 34 before an empty field and
\* one that is no field, a sequence number that does not fit, a message one
\* byte too long, a length that does not fit, a second message that is none,
\* one that is cut off, and a header that does not end.
Others ==
  { Message(<<>>, <<0>>, <<>>) \o Short,
    Message(<<>>, <<1, 2>>, <<3, 4, Equals, 1, SOH, 3, 4, Equals, 7, SOH, SOH, Other>>) \o Short,
    Message(<<>>, <<1, 2>>, <<3, 5, Equals, 8, SOH, 3, 4, Equals, 1, 0, 0, SOH>>) \o Short,
    Message(<<4>>, <<1, 4>>, [i \in 1 .. 14 |-> Other]) \o Short,
    Message(<<>>, <<1, 0, 0>>, <<SOH>>) \o Short,
    Short \o <<9, Equals, 5, SOH>> \o Short,
    Short \o SubSeq(Long, 1, 20),
    BeginString \o [i \in 1 .. MaxMessageLen |-> Other] }

Corruptions ==
  {[Valid EXCEPT ![i] = b] : i \in 1 .. Len(Valid), b \in {0, 6, 9, SOH, Equals, Other}}

SomeStreams == {Valid} \cup Others \cup Corruptions
=============================================================================

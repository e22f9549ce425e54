------------------------------ MODULE MCFixLink ------------------------------
(***************************************************************************)
(* Small instances of FixLink for TLC.                                     *)
(***************************************************************************)
EXTENDS FixLink

\* The shortest message, 8=|9=0|10=007|, of 14 bytes.
Message == <<8, Equals, SOH, 9, Equals, 0, SOH, 1, 0, Equals, 0, 0, 7, SOH>>

\* The client sends one message in two calls and the next one in a third,
\* or something that is no FIX header; the server, whose way out holds less
\* than it has to say, what never becomes a message.
SomeScripts ==
  { [client |-> <<SubSeq(Message, 1, 9), SubSeq(Message, 10, 14) \o Message>>,
     server |-> <<<<8, Equals>>>>],
    [client |-> <<BeginString \o [i \in 1 .. 13 |-> Other]>>, server |-> <<>>] }

Buffers == [client |-> 16, server |-> 1]
=============================================================================

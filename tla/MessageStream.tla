---------------------------- MODULE MessageStream ----------------------------
(***************************************************************************)
(* What one direction of a FIX connection promises, whatever the chunks,   *)
(* cancelled calls and buffers underneath: the receiver gets the messages  *)
(* that the sender completed, once each and in order.  It is told of a     *)
(* clean end only after the last of them, and of a failure before the last *)
(* of them only if the connection broke.                                   *)
(***************************************************************************)
EXTENDS Integers, Sequences

VARIABLES
  offered,    \* messages whose last byte the sender has sent
  received,   \* messages the receiver was given
  open,       \* the sender may send more
  broken,     \* the connection broke
  outcome     \* what the receiver was told of the end: "open" is nothing yet

vars == <<offered, received, open, broken, outcome>>

Init ==
  /\ offered = <<>>
  /\ received = <<>>
  /\ open = TRUE
  /\ broken = FALSE
  /\ outcome = "open"

Extends(new, old) == Len(old) <= Len(new) /\ SubSeq(new, 1, Len(old)) = old

\* Some bytes complete any number of messages.
Offer ==
  /\ open
  /\ Extends(offered', offered)
  /\ broken' \in {broken, TRUE}
  /\ UNCHANGED <<received, open, outcome>>

Finish ==
  /\ open' = FALSE
  /\ broken' \in {broken, TRUE}
  /\ UNCHANGED <<offered, received, outcome>>

Break ==
  /\ broken' = TRUE
  /\ UNCHANGED <<offered, received, open, outcome>>

Deliver ==
  /\ outcome = "open"
  /\ Len(received) < Len(offered)
  /\ received' = Append(received, offered[Len(received) + 1])
  /\ UNCHANGED <<offered, open, broken, outcome>>

EndCleanly ==
  /\ ~open
  /\ outcome \in {"open", "closed"}
  /\ received = offered
  /\ outcome' = "closed"
  /\ UNCHANGED <<offered, received, open, broken>>

Fail ==
  /\ received = offered \/ broken
  /\ outcome' = "failed"
  /\ UNCHANGED <<offered, received, open, broken>>

Next == Offer \/ Finish \/ Break \/ Deliver \/ EndCleanly \/ Fail

Spec == Init /\ [][Next]_vars
=============================================================================

----------------------------- MODULE PacketRelay -----------------------------
(***************************************************************************)
(* What the data plane promises about packets, whatever its flow is and    *)
(* however timers, arrivals, reloads and failures interleave.  Packets are *)
(* taken in one at a time and in order.  Each is owed up to two sends, of  *)
(* which the second may be given up when memory is short, and it is sent   *)
(* at most that often.  No more than Capacity packets wait besides the one *)
(* being handled.  Nothing is sent once the relay is down.                 *)
(***************************************************************************)
EXTENDS Integers, FiniteSets

CONSTANTS
  Ids,       \* packets, numbered in the order they arrive in
  Capacity   \* packets that may wait

VARIABLES
  taken,     \* packets taken in so far
  owed,      \* sends still owed to each packet
  sent,      \* sends made for each packet
  up         \* the relay is running

vars == <<taken, owed, sent, up>>

Init ==
  /\ taken = {}
  /\ owed = [id \in Ids |-> 0]
  /\ sent = [id \in Ids |-> 0]
  /\ up = TRUE

IsNext(id) == id \in Ids /\ \A k \in taken : k < id
Held == {id \in Ids : owed[id] > 0}

TakeIn(id) ==
  /\ up
  /\ IsNext(id)
  /\ Cardinality(Held) <= Capacity
  /\ taken' = taken \cup {id}
  /\ \E n \in 0 .. 2 : owed' = [owed EXCEPT ![id] = n]
  /\ UNCHANGED <<sent, up>>

Emit(id) ==
  /\ up
  /\ owed[id] > 0
  /\ sent' = [sent EXCEPT ![id] = @ + 1]
  /\ \E n \in {0, owed[id] - 1} : owed' = [owed EXCEPT ![id] = n]
  /\ UNCHANGED <<taken, up>>

\* What is still owed is lost, and so is the packet being taken in, if any.
GoDown ==
  /\ up
  /\ up' = FALSE
  /\ owed' = [id \in Ids |-> 0]
  /\ taken' \in {taken} \cup {taken \cup {id} : id \in {k \in Ids : IsNext(k)}}
  /\ UNCHANGED sent

Next == GoDown \/ \E id \in Ids : TakeIn(id) \/ Emit(id)

Spec == Init /\ [][Next]_vars
=============================================================================

---------------------------- MODULE FixLinkProofs ----------------------------
(***************************************************************************)
(* One FIX connection, proved for every script of sends, every size of the *)
(* buffers and of the caps (src/transport/tcp.rs).                         *)
(***************************************************************************)
EXTENDS FixLink, FixFramerProofs

LEMMA PeerFacts ==
  ASSUME NEW e \in Ends
  PROVE  Peer(e) \in Ends /\ Peer(e) # e /\ Peer(Peer(e)) = e
BY DEF Ends, Peer

LEMMA CapsArePositive == MaxMessageLen \in Nat /\ MaxMessageLen > 0 /\ ReadChunk \in Nat /\ ReadChunk > 0
BY FramerAssumption, LinkAssumption

\* The bytes that a read may yield.
LEMMA AvailableIsFront ==
  ASSUME TypeOK, NEW e \in Ends, NEW bytes \in Available(e)
  PROVE  /\ bytes \in Seq(Bytes) /\ Len(bytes) <= ReadChunk
         /\ SubSeq(wire[Peer(e)], Len(bytes) + 1, Len(wire[Peer(e)])) \in Seq(Bytes)
         /\ wire[Peer(e)] = bytes \o SubSeq(wire[Peer(e)], Len(bytes) + 1, Len(wire[Peer(e)]))
         /\ Len(SubSeq(wire[Peer(e)], Len(bytes) + 1, Len(wire[Peer(e)]))) <= Len(wire[Peer(e)])
<1> DEFINE w == wire[Peer(e)]
<1>1. w \in Seq(Bytes) /\ Len(w) \in Nat
  BY PeerFacts, LenProperties DEF TypeOK
<1>2. PICK size \in ReadSizes : bytes = SubSeq(w, 1, Smaller(size, Len(w)))
  BY DEF Available
<1> DEFINE n == Smaller(size, Len(w))
<1>3. n \in 0 .. Len(w) /\ n <= ReadChunk
  BY <1>1, LinkAssumption DEF Smaller
<1> HIDE DEF w, n
<1>4. /\ bytes \in Seq(Bytes) /\ Len(bytes) = n
      /\ SubSeq(w, n + 1, Len(w)) \in Seq(Bytes) /\ Len(SubSeq(w, n + 1, Len(w))) = Len(w) - n
      /\ w = bytes \o SubSeq(w, n + 1, Len(w))
  BY <1>1, <1>2, <1>3, SplitsInTwo DEF n
<1>5. Len(w) - n <= Len(w)
  BY <1>1, <1>3
<1> QED
  BY <1>3, <1>4, <1>5 DEF w

\* What one turn of the receive loop does to the receiver, given the framer
\* it asks: the bytes that it takes out are those of the message.
LEMMA FramedKeeps ==
  ASSUME TypeOK, NEW e \in Ends, NEW f \in Framers, Framed(e, f),
         reader[e] \in {"called", "reading"}
  PROVE  /\ framer' \in [Ends -> Framers]
         /\ \A o \in Ends \ {e} : framer'[o] = framer[o] /\ taken'[o] = taken[o] /\ reader'[o] = reader[o]
         /\ reader' \in [Ends -> {"idle", "called", "reading"}]
         /\ outcome' \in [Ends -> SUBSET Outcomes]
         /\ taken' \in [Ends -> Seq(Bytes)]
         /\ Len(framer'[e].buf) <= Len(f.buf)
         /\ reader'[e] = "reading" =>
              Len(framer'[e].buf) < MaxMessageLen /\ framer'[e].failed = {}
         /\ \A o \in Ends \ {e} : outcome'[o] = outcome[o]
         /\ "closed" \in outcome'[e] =>
              "closed" \in outcome[e] /\ (f.failed = {} => framer'[e].failed = {})
         /\ framer'[e].failed = {} =>
              \E raw \in Seq(Bytes) : /\ taken'[e] = taken[e] \o raw
                                      /\ f.failed = {} /\ f.buf = raw \o framer'[e].buf
<1> DEFINE next == NextMessage(f)
<1>1. /\ reader \in [Ends -> {"idle", "called", "reading"}]
      /\ framer \in [Ends -> Framers]
      /\ outcome \in [Ends -> SUBSET Outcomes]
      /\ taken \in [Ends -> Seq(Bytes)]
  BY DEF TypeOK
<1>2. framer' = [framer EXCEPT ![e] = next.framer]
  BY DEF Framed
<1>3. next.framer \in Framers /\ Len(next.framer.buf) <= Len(f.buf)
  BY NextMessageKeeps
<1>4. /\ framer' \in [Ends -> Framers] /\ framer'[e] = next.framer
      /\ \A o \in Ends \ {e} : framer'[o] = framer[o]
  BY <1>1, <1>2, <1>3
<1>5. f.buf \in Seq(Bytes) /\ next.framer.buf \in Seq(Bytes) /\ taken[e] \in Seq(Bytes)
  BY <1>1, <1>3 DEF Framers
<1>6. "none" \notin FrameErrors /\ "message" \notin FrameErrors
  BY DEF FrameErrors
<1> HIDE DEF next
<1>7. CASE next.answer = "none"
  <2>1. reader' = [reader EXCEPT ![e] = "reading"] /\ UNCHANGED <<outcome, taken>>
    BY <1>6, <1>7 DEF Framed, next
  <2>2. f.failed = {} /\ next.framer = f /\ Len(f.buf) < MaxMessageLen
    BY <1>6, <1>7, NextMessageKeeps DEF next
  <2>3. <<>> \in Seq(Bytes) /\ taken[e] \o <<>> = taken[e] /\ <<>> \o f.buf = f.buf
    BY <1>5, ConcatEmptySeq, EmptySeq
  <2>4. framer'[e].failed = {} =>
          \E raw \in Seq(Bytes) : /\ taken'[e] = taken[e] \o raw
                                  /\ f.failed = {} /\ f.buf = raw \o framer'[e].buf
    BY <1>4, <2>1, <2>2, <2>3
  <2> QED
    BY <1>1, <1>3, <1>4, <2>1, <2>2, <2>4
<1>8. CASE next.answer = "message"
  <2> DEFINE m == next.message.raw
  <2>1. /\ reader' = [reader EXCEPT ![e] = "idle"] /\ UNCHANGED outcome
        /\ taken' = [taken EXCEPT ![e] = @ \o m]
    BY <1>6, <1>8 DEF Framed, next
  <2>2. f.failed = {} /\ m \in Seq(Bytes) /\ f.buf = m \o next.framer.buf
    BY <1>6, <1>8, NextMessageKeeps DEF next
  <2>5. next.framer.failed = {}
    BY <1>6, <1>8, NextMessageKeeps DEF next
  <2>3. taken[e] \o m \in Seq(Bytes)
    BY <1>5, <2>2, ConcatProperties
  <2> HIDE DEF m
  <2>4. taken' \in [Ends -> Seq(Bytes)] /\ taken'[e] = taken[e] \o m
    BY <1>1, <2>1, <2>3
  <2> QED
    BY <1>1, <1>3, <1>4, <2>1, <2>2, <2>4, <2>5
<1>9. CASE next.answer \in FrameErrors
  <2>1. /\ reader' = [reader EXCEPT ![e] = "idle"]
        /\ outcome' = [outcome EXCEPT ![e] = {"Framing"}] /\ UNCHANGED taken
    BY <1>6, <1>9 DEF Framed, next
  <2>2. next.framer.failed = {next.answer}
    BY <1>6, <1>9, NextMessageKeeps DEF next
  <2>3. /\ outcome' \in [Ends -> SUBSET Outcomes] /\ "closed" \notin outcome'[e]
        /\ \A o \in Ends \ {e} : outcome'[o] = outcome[o]
    BY <1>1, <2>1 DEF Outcomes
  <2>4. framer'[e].failed # {}
    BY <1>4, <2>2
  <2> QED
    BY <1>1, <1>3, <1>4, <2>1, <2>3, <2>4
<1> QED
  BY <1>7, <1>8, <1>9, NextMessageKeeps DEF next

-----------------------------------------------------------------------------
(* Every action keeps the types.                                           *)

LEMMA InitTypeOK == Init => TypeOK
<1> SUFFICES ASSUME Init PROVE TypeOK
  OBVIOUS
<1>1. calls \in [Ends -> Seq(Seq(Bytes))] /\ <<>> \in Seq(Bytes) /\ Len(<<>>) = 0
  BY LinkAssumption, EmptySeq DEF Init
<1>2. framer \in [Ends -> Framers]
  <2>1. \A e \in Ends : DirectionOf(e) \in Directions
    BY DEF DirectionOf, Directions
  <2> QED
    BY <2>1, NewFramerIsEmpty DEF Init
<1>3. \A e \in Ends : Len(wire[e]) <= WireCapacity[e]
  <2>1. \A e \in Ends : WireCapacity[e] \in Nat
    BY LinkAssumption
  <2>2. \A e \in Ends : Len(wire[e]) = 0
    BY <1>1 DEF Init
  <2> QED
    BY <2>1, <2>2
<1> QED
  BY <1>1, <1>2, <1>3 DEF Init, TypeOK

LEMMA ReadTypeOK ==
  ASSUME TypeOK, NEW e \in Ends, Read(e)
  PROVE  TypeOK'
<1>1. PICK bytes \in Available(e) :
        Yields(e, bytes) /\ Framed(e, Extend(framer[e], bytes))
  BY DEF Read
<1> DEFINE p    == Peer(e)
           rest == SubSeq(wire[p], Len(bytes) + 1, Len(wire[p]))
           f    == Extend(framer[e], bytes)
<1>2. wire' = [wire EXCEPT ![p] = rest] /\ reader[e] = "reading" /\ p \in Ends
  BY <1>1, PeerFacts DEF Yields
<1>3. bytes \in Seq(Bytes) /\ rest \in Seq(Bytes) /\ Len(rest) <= Len(wire[p])
  BY AvailableIsFront
<1>4. f \in Framers
  BY <1>3, ExtendHolds DEF TypeOK
<1> HIDE DEF rest, f, p
<1>5. /\ framer' \in [Ends -> Framers]
      /\ reader' \in [Ends -> {"idle", "called", "reading"}]
      /\ outcome' \in [Ends -> SUBSET Outcomes]
      /\ taken' \in [Ends -> Seq(Bytes)]
  BY <1>1, <1>2, <1>4, FramedKeeps DEF f
<1>6. wire' \in [Ends -> Seq(Bytes)] /\ \A o \in Ends : Len(wire'[o]) <= WireCapacity[o]
  <2>1. wire \in [Ends -> Seq(Bytes)] /\ \A o \in Ends : Len(wire[o]) <= WireCapacity[o]
    BY DEF TypeOK
  <2>2. \A o \in Ends : WireCapacity[o] \in Nat /\ Len(wire[o]) \in Nat
    BY <2>1, LinkAssumption, LenProperties
  <2>3. Len(rest) \in Nat
    BY <1>3, LenProperties
  <2> QED
    BY <1>2, <1>3, <2>1, <2>2, <2>3
<1> QED
  BY <1>5, <1>6 DEF Read, TypeOK

\* What the kernel takes fits into its buffer.
LEMMA WriteTakes ==
  ASSUME TypeOK, NEW e \in Ends, Write(e)
  PROVE  \E b \in Seq(Bytes), left \in SUBSET Seq(Bytes) :
           /\ wire' = [wire EXCEPT ![e] = @ \o b] /\ wire[e] \o b \in Seq(Bytes)
           /\ Len(wire[e] \o b) <= WireCapacity[e]
           /\ sent' = [sent EXCEPT ![e] = @ \o b] /\ sent[e] \o b \in Seq(Bytes)
           /\ pending' = [pending EXCEPT ![e] = left]
<1>1. PICK bytes \in pending[e] :
        LET n == Smaller(Room(e), Len(bytes))
        IN  /\ Takes(e, SubSeq(bytes, 1, n))
            /\ pending' = [pending EXCEPT ![e] = IF n = Len(bytes) THEN {}
                                                 ELSE {SubSeq(bytes, n + 1, Len(bytes))}]
  BY DEF Write
<1> DEFINE n    == Smaller(Room(e), Len(bytes))
           b    == SubSeq(bytes, 1, n)
           left == IF n = Len(bytes) THEN {} ELSE {SubSeq(bytes, n + 1, Len(bytes))}
<1>2. /\ bytes \in Seq(Bytes) /\ Len(bytes) \in Nat
      /\ wire[e] \in Seq(Bytes) /\ Len(wire[e]) \in Nat /\ sent[e] \in Seq(Bytes)
      /\ WireCapacity[e] \in Nat /\ Len(wire[e]) <= WireCapacity[e]
  BY LinkAssumption, LenProperties DEF TypeOK
<1>3. Room(e) > 0 /\ Room(e) = WireCapacity[e] - Len(wire[e])
  BY DEF Write, Room
<1>4. n \in 0 .. Len(bytes) /\ n <= Room(e)
  BY <1>2, <1>3 DEF Smaller
<1> HIDE DEF n
<1>5. /\ b \in Seq(Bytes) /\ Len(b) = n
      /\ SubSeq(bytes, n + 1, Len(bytes)) \in Seq(Bytes)
  BY <1>2, <1>4, SplitsInTwo
<1>6. left \in SUBSET Seq(Bytes)
  BY <1>5
<1>7. /\ wire[e] \o b \in Seq(Bytes) /\ sent[e] \o b \in Seq(Bytes)
      /\ Len(wire[e] \o b) = Len(wire[e]) + Len(b)
  BY <1>2, <1>5, ConcatProperties
<1>8. Len(wire[e] \o b) <= WireCapacity[e]
  <2> HIDE DEF b
  <2>1. Len(wire[e] \o b) = Len(wire[e]) + n
    BY <1>5, <1>7
  <2> QED
    BY <1>2, <1>3, <1>4, <2>1
<1>9. /\ wire' = [wire EXCEPT ![e] = @ \o b] /\ sent' = [sent EXCEPT ![e] = @ \o b]
      /\ pending' = [pending EXCEPT ![e] = left]
  BY <1>1 DEF Takes, n
<1> QED
  BY <1>5, <1>6, <1>7, <1>8, <1>9

LEMMA NextTypeOK == TypeOK /\ [Next]_vars => TypeOK'
<1> SUFFICES ASSUME TypeOK, [Next]_vars PROVE TypeOK'
  OBVIOUS
<1>1. CASE Listen
  BY <1>1 DEF Listen, TypeOK, recvVars, sendVars
<1>2. CASE Connect
  BY <1>2 DEF Connect, TypeOK, recvVars, sendVars
<1>3. CASE Accept
  BY <1>3 DEF Accept, TypeOK, recvVars, sendVars
<1>4. CASE Break
  BY <1>4 DEF Break, TypeOK, recvVars, sendVars
<1>5. CASE Over \/ UNCHANGED vars
  BY <1>5 DEF Over, TypeOK, vars
<1>6. ASSUME NEW e \in Ends, Recv(e) PROVE TypeOK'
  BY <1>6 DEF Recv, TypeOK, sendVars
<1>7. ASSUME NEW e \in Ends, Poll(e) PROVE TypeOK'
  <2>1. reader[e] = "called" /\ framer[e] \in Framers /\ Framed(e, framer[e])
    BY <1>7 DEF Poll, Polled, TypeOK
  <2>2. /\ framer' \in [Ends -> Framers]
        /\ reader' \in [Ends -> {"idle", "called", "reading"}]
        /\ outcome' \in [Ends -> SUBSET Outcomes]
        /\ taken' \in [Ends -> Seq(Bytes)]
    BY <2>1, FramedKeeps
  <2> QED
    BY <1>7, <2>2 DEF Poll, TypeOK, sendVars
<1>8. ASSUME NEW e \in Ends, Read(e) PROVE TypeOK'
  BY <1>8, ReadTypeOK
<1>9. ASSUME NEW e \in Ends, ReadEnd(e) PROVE TypeOK'
  <2>1. outcome' \in [Ends -> SUBSET Outcomes]
    BY <1>9 DEF ReadEnd, ClosedAtBoundary, Outcomes, TypeOK
  <2> QED
    BY <1>9, <2>1 DEF ReadEnd, TypeOK, sendVars
<1>10. ASSUME NEW e \in Ends, ReadFails(e) PROVE TypeOK'
  <2>1. outcome' \in [Ends -> SUBSET Outcomes]
    BY <1>10 DEF ReadFails, Outcomes, TypeOK
  <2> QED
    BY <1>10, <2>1 DEF ReadFails, TypeOK, sendVars
<1>11. ASSUME NEW e \in Ends, CancelRecv(e) PROVE TypeOK'
  BY <1>11 DEF CancelRecv, TypeOK, sendVars
<1>12. ASSUME NEW e \in Ends, Send(e) PROVE TypeOK'
  <2>1. /\ calls[e] \in Seq(Seq(Bytes)) /\ calls[e] # <<>>
        /\ pending' = [pending EXCEPT ![e] = {Head(calls[e])}]
        /\ calls' = [calls EXCEPT ![e] = Tail(@)]
    BY <1>12 DEF Send, TypeOK
  <2>2. Head(calls[e]) \in Seq(Bytes) /\ Tail(calls[e]) \in Seq(Seq(Bytes))
    BY <2>1, HeadTailProperties
  <2>3. pending' \in [Ends -> SUBSET Seq(Bytes)] /\ calls' \in [Ends -> Seq(Seq(Bytes))]
    BY <2>1, <2>2 DEF TypeOK
  <2> QED
    BY <1>12, <2>3 DEF Send, TypeOK, recvVars
<1>13. ASSUME NEW e \in Ends, Write(e) PROVE TypeOK'
  <2>1. PICK b \in Seq(Bytes), left \in SUBSET Seq(Bytes) :
          /\ wire' = [wire EXCEPT ![e] = @ \o b] /\ wire[e] \o b \in Seq(Bytes)
          /\ Len(wire[e] \o b) <= WireCapacity[e]
          /\ sent' = [sent EXCEPT ![e] = @ \o b] /\ sent[e] \o b \in Seq(Bytes)
          /\ pending' = [pending EXCEPT ![e] = left]
    BY <1>13, WriteTakes
  <2>2. /\ wire' \in [Ends -> Seq(Bytes)] /\ sent' \in [Ends -> Seq(Bytes)]
        /\ pending' \in [Ends -> SUBSET Seq(Bytes)]
        /\ \A o \in Ends : Len(wire'[o]) <= WireCapacity[o]
    BY <2>1 DEF TypeOK
  <2>3. reset' \in BOOLEAN
    BY <1>13 DEF Write
  <2> QED
    BY <1>13, <2>2, <2>3 DEF Write, TypeOK, recvVars
<1>14. ASSUME NEW e \in Ends, WriteFails(e) PROVE TypeOK'
  <2>1. <<>> \in Seq(Seq(Bytes))
    BY EmptySeq
  <2> QED
    BY <1>14, <2>1 DEF WriteFails, TypeOK, recvVars
<1>15. ASSUME NEW e \in Ends, CancelSend(e) PROVE TypeOK'
  BY <1>15 DEF CancelSend, TypeOK, recvVars
<1>16. ASSUME NEW e \in Ends, SplitUp(e) \/ Shutdown(e) PROVE TypeOK'
  BY <1>16 DEF SplitUp, Shutdown, TypeOK, recvVars, sendVars
<1>17. ASSUME NEW e \in Ends, Drop(e) PROVE TypeOK'
  <2>1. <<>> \in Seq(Seq(Bytes))
    BY EmptySeq
  <2>2. reset' \in BOOLEAN
    BY <1>17 DEF Drop, TypeOK
  <2> QED
    BY <1>17, <2>1, <2>2 DEF Drop, TypeOK
<1> QED
  BY <1>1, <1>2, <1>3, <1>4, <1>5, <1>6, <1>7, <1>8, <1>9, <1>10, <1>11, <1>12, <1>13,
     <1>14, <1>15, <1>16, <1>17 DEF Next

\* The connection's state keeps its types, and the kernel its capacity, on
\* every path of src/transport/tcp.rs.
THEOREM LinkTypeCorrectness == Spec => []TypeOK
BY InitTypeOK, NextTypeOK, PTL DEF Spec

-----------------------------------------------------------------------------
(* The receiver's buffer.                                                  *)

LEMMA InitBounded == Init => BufferIsBounded
<1> SUFFICES ASSUME Init, NEW e \in Ends
             PROVE  /\ reader[e] = "reading" => Len(framer[e].buf) < MaxMessageLen
                    /\ Len(framer[e].buf) < MaxMessageLen + ReadChunk
  BY DEF BufferIsBounded
<1>1. DirectionOf(e) \in Directions
  BY DEF DirectionOf, Directions
<1>2. framer[e].buf = <<>>
  BY <1>1, NewFramerIsEmpty DEF Init
<1>3. Len(framer[e].buf) = 0
  BY <1>2, EmptySeq
<1> QED
  BY <1>3, CapsArePositive

\* One turn of the receive loop, from a framer that holds no more than a
\* message and a read.
LEMMA FramedBounded ==
  ASSUME TypeOK, BufferIsBounded, NEW e \in Ends, NEW f \in Framers, Framed(e, f),
         reader[e] \in {"called", "reading"}, Len(f.buf) < MaxMessageLen + ReadChunk
  PROVE  BufferIsBounded'
<1>1. /\ framer' \in [Ends -> Framers]
      /\ \A o \in Ends \ {e} : framer'[o] = framer[o] /\ reader'[o] = reader[o]
      /\ Len(framer'[e].buf) <= Len(f.buf)
      /\ reader'[e] = "reading" => Len(framer'[e].buf) < MaxMessageLen
  BY FramedKeeps
<1>2. Len(framer'[e].buf) \in Nat /\ Len(f.buf) \in Nat
  BY <1>1, LenProperties DEF Framers
<1>3. Len(framer'[e].buf) < MaxMessageLen + ReadChunk
  BY <1>1, <1>2, CapsArePositive
<1> SUFFICES ASSUME NEW o \in Ends
             PROVE  /\ reader'[o] = "reading" => Len(framer'[o].buf) < MaxMessageLen
                    /\ Len(framer'[o].buf) < MaxMessageLen + ReadChunk
  BY DEF BufferIsBounded
<1>4. CASE o = e
  BY <1>1, <1>3, <1>4
<1>5. CASE o # e
  BY <1>1, <1>5 DEF BufferIsBounded
<1> QED
  BY <1>4, <1>5

LEMMA NextBounded == TypeOK /\ BufferIsBounded /\ [Next]_vars => BufferIsBounded'
<1> SUFFICES ASSUME TypeOK, BufferIsBounded, [Next]_vars PROVE BufferIsBounded'
  OBVIOUS
<1>1. ASSUME UNCHANGED <<reader, framer>> PROVE BufferIsBounded'
  BY <1>1 DEF BufferIsBounded
<1>2. ASSUME NEW e \in Ends, Poll(e) PROVE BufferIsBounded'
  <2>1. /\ reader[e] = "called" /\ framer[e] \in Framers /\ Framed(e, framer[e])
        /\ Len(framer[e].buf) < MaxMessageLen + ReadChunk
    BY <1>2 DEF Poll, Polled, TypeOK, BufferIsBounded
  <2> QED
    BY <2>1, FramedBounded
<1>3. ASSUME NEW e \in Ends, Read(e) PROVE BufferIsBounded'
  <2>1. PICK bytes \in Available(e) :
          Yields(e, bytes) /\ Framed(e, Extend(framer[e], bytes))
    BY <1>3 DEF Read
  <2>2. reader[e] = "reading" /\ framer[e] \in Framers
    BY <2>1 DEF Yields, TypeOK
  <2>3. bytes \in Seq(Bytes) /\ Len(bytes) <= ReadChunk
    BY AvailableIsFront
  <2> DEFINE f == Extend(framer[e], bytes)
  <2>4. f \in Framers /\ Len(f.buf) <= Len(framer[e].buf) + Len(bytes)
    BY <2>2, <2>3, ExtendHolds
  <2>5. Len(framer[e].buf) < MaxMessageLen
    BY <2>2 DEF BufferIsBounded
  <2>6. Len(f.buf) \in Nat /\ Len(framer[e].buf) \in Nat /\ Len(bytes) \in Nat
    BY <2>2, <2>3, <2>4, LenProperties DEF Framers
  <2> HIDE DEF f
  <2>7. Len(f.buf) < MaxMessageLen + ReadChunk
    BY <2>3, <2>4, <2>5, <2>6, CapsArePositive
  <2> QED
    BY <2>1, <2>2, <2>4, <2>7, FramedBounded DEF f
<1>4. ASSUME NEW e \in Ends, Recv(e) PROVE BufferIsBounded'
  BY <1>4 DEF Recv, TypeOK, BufferIsBounded
<1>5. ASSUME NEW e \in Ends, ReadEnd(e) \/ ReadFails(e) \/ CancelRecv(e) \/ Drop(e)
      PROVE  BufferIsBounded'
  BY <1>5 DEF ReadEnd, ReadFails, CancelRecv, Drop, TypeOK, BufferIsBounded
<1>6. CASE Listen \/ Connect \/ Accept \/ Break \/ Over \/ UNCHANGED vars
  BY <1>1, <1>6 DEF Listen, Connect, Accept, Break, Over, vars, recvVars
<1>7. ASSUME NEW e \in Ends,
             Send(e) \/ Write(e) \/ WriteFails(e) \/ CancelSend(e) \/ SplitUp(e) \/ Shutdown(e)
      PROVE  BufferIsBounded'
  BY <1>1, <1>7 DEF Send, Write, WriteFails, CancelSend, SplitUp, Shutdown, recvVars
<1> QED
  BY <1>2, <1>3, <1>4, <1>5, <1>6, <1>7 DEF Next

\* A connection buffers at most one message and one read, and less than a
\* message while it waits, whatever the peer sends and whatever calls are
\* cancelled (recv_message over the caps of the framer).
THEOREM ConnectionIsBounded == Spec => []BufferIsBounded
<1>1. TypeOK /\ BufferIsBounded /\ [Next]_vars => (TypeOK /\ BufferIsBounded)'
  BY NextTypeOK, NextBounded
<1> QED
  BY <1>1, InitTypeOK, InitBounded, PTL DEF Spec

-----------------------------------------------------------------------------
(* Where the bytes are.                                                    *)

LEMMA InitNothingLost == Init => NothingLost
<1> SUFFICES ASSUME Init, NEW e \in Ends
             PROVE  sent[e] = taken[Peer(e)] \o framer[Peer(e)].buf \o wire[e]
  BY DEF NothingLost
<1>1. DirectionOf(Peer(e)) \in Directions /\ Peer(e) \in Ends
  BY PeerFacts DEF DirectionOf, Directions
<1>2. framer[Peer(e)].buf = <<>>
  BY <1>1, NewFramerIsEmpty DEF Init
<1>3. sent[e] = <<>> /\ taken[Peer(e)] = <<>> /\ wire[e] = <<>>
  BY <1>1 DEF Init
<1>4. <<>> \o <<>> = <<>>
  BY EmptySeq, ConcatEmptySeq
<1> QED
  BY <1>2, <1>3, <1>4

\* The bytes of one direction, seen from its receiver.
ArrivesWhole(e) ==
  framer[e].failed = {} => sent[Peer(e)] = taken[e] \o framer[e].buf \o wire[Peer(e)]

LEMMA SeenFromReceiver == NothingLost <=> \A e \in Ends : ArrivesWhole(e)
BY PeerFacts DEF NothingLost, ArrivesWhole

\* Concatenation is associative.  Named, so that a proof can say where.
Associates(a, b, c) == (a \o b) \o c = a \o (b \o c)

LEMMA BytesAssociate ==
  \A a, b, c \in Seq(Bytes) : a \o b \in Seq(Bytes) /\ Associates(a, b, c)
BY ConcatProperties, ConcatAssociative DEF Associates

\* What is read goes behind the buffer b, and a message leaves at its front.
Moves(a, b, chunk, d, raw, left) ==
  b \o chunk = raw \o left => (a \o b) \o (chunk \o d) = ((a \o raw) \o left) \o d

LEMMA BytesMove ==
  ASSUME NEW a \in Seq(Bytes), NEW b \in Seq(Bytes), NEW chunk \in Seq(Bytes),
         NEW d \in Seq(Bytes), NEW raw \in Seq(Bytes), NEW left \in Seq(Bytes)
  PROVE  Moves(a, b, chunk, d, raw, left)
<1>1. a \o b \in Seq(Bytes)
  BY BytesAssociate
<1>2. Associates(a \o b, chunk, d) /\ Associates(a, b, chunk) /\ Associates(a, raw, left)
  BY <1>1, BytesAssociate
<1> QED
  BY <1>2 DEF Associates, Moves

\* One turn of the receive loop, after a read of `bytes` or of none.
LEMMA FramedNothingLost ==
  ASSUME TypeOK, NothingLost, NEW e \in Ends, NEW f \in Framers, Framed(e, f),
         reader[e] \in {"called", "reading"}, NEW bytes \in Seq(Bytes),
         f.failed = framer[e].failed, f.failed = {} => f.buf = framer[e].buf \o bytes,
         wire' \in [Ends -> Seq(Bytes)], wire[Peer(e)] = bytes \o wire'[Peer(e)],
         wire'[e] = wire[e], sent' = sent
  PROVE  NothingLost'
<1> DEFINE p == Peer(e)
<1>1. p \in Ends /\ \A o \in Ends \ {e} : o = p /\ Peer(o) = e
  BY DEF Ends, Peer
<1>2. /\ framer' \in [Ends -> Framers]
      /\ \A o \in Ends \ {e} : framer'[o] = framer[o] /\ taken'[o] = taken[o]
      /\ framer'[e].failed = {} =>
           \E raw \in Seq(Bytes) : /\ taken'[e] = taken[e] \o raw
                                   /\ f.failed = {} /\ f.buf = raw \o framer'[e].buf
  BY FramedKeeps
<1>3. \A o \in Ends \ {e} : ArrivesWhole(o)'
  BY <1>1, <1>2, SeenFromReceiver DEF ArrivesWhole
<1>4. ASSUME framer'[e].failed = {}
      PROVE  sent'[p] = taken'[e] \o framer'[e].buf \o wire'[p]
  <2>1. PICK raw \in Seq(Bytes) : /\ taken'[e] = taken[e] \o raw
                                 /\ f.failed = {} /\ f.buf = raw \o framer'[e].buf
    BY <1>2, <1>4
  <2>2. sent[p] = (taken[e] \o framer[e].buf) \o (bytes \o wire'[p])
    BY <2>1, SeenFromReceiver DEF ArrivesWhole
  <2>3. /\ taken[e] \in Seq(Bytes) /\ framer[e].buf \in Seq(Bytes)
        /\ framer'[e].buf \in Seq(Bytes) /\ wire'[p] \in Seq(Bytes)
    BY <1>1, <1>2 DEF TypeOK, Framers
  <2>4. framer[e].buf \o bytes = raw \o framer'[e].buf
    BY <2>1
  <2>5. Moves(taken[e], framer[e].buf, bytes, wire'[p], raw, framer'[e].buf)
    BY <2>3, BytesMove
  <2> QED
    BY <2>1, <2>2, <2>4, <2>5 DEF Moves
<1> QED
  BY <1>3, <1>4, PeerFacts DEF ArrivesWhole, NothingLost

LEMMA PollNothingLost ==
  ASSUME TypeOK, NothingLost, NEW e \in Ends, Poll(e)
  PROVE  NothingLost'
<1>1. reader[e] = "called" /\ framer[e] \in Framers /\ Framed(e, framer[e])
  BY DEF Poll, Polled, TypeOK
<1>2. sent' = sent /\ wire' = wire /\ wire \in [Ends -> Seq(Bytes)] /\ Peer(e) \in Ends
  BY PeerFacts DEF Poll, sendVars, TypeOK
<1>3. <<>> \in Seq(Bytes)
  BY EmptySeq
<1>4. framer[e].buf = framer[e].buf \o <<>>
  BY <1>1, ConcatEmptySeq DEF Framers
<1>5. wire[Peer(e)] = <<>> \o wire'[Peer(e)]
  BY <1>2, ConcatEmptySeq
<1> QED
  BY <1>1, <1>2, <1>3, <1>4, <1>5, FramedNothingLost

LEMMA ReadNothingLost ==
  ASSUME TypeOK, NothingLost, NEW e \in Ends, Read(e)
  PROVE  NothingLost'
<1>1. PICK bytes \in Available(e) :
        Yields(e, bytes) /\ Framed(e, Extend(framer[e], bytes))
  BY DEF Read
<1> DEFINE p    == Peer(e)
           rest == SubSeq(wire[p], Len(bytes) + 1, Len(wire[p]))
           f    == Extend(framer[e], bytes)
<1>2. /\ wire' = [wire EXCEPT ![p] = rest] /\ reader[e] = "reading" /\ p \in Ends /\ p # e
      /\ sent' = sent /\ wire \in [Ends -> Seq(Bytes)] /\ framer[e] \in Framers
  BY <1>1, PeerFacts DEF Yields, Read, TypeOK
<1>3. bytes \in Seq(Bytes) /\ rest \in Seq(Bytes) /\ wire[p] = bytes \o rest
  BY AvailableIsFront
<1>4. /\ f \in Framers /\ f.failed = framer[e].failed
      /\ f.failed = {} => f.buf = framer[e].buf \o bytes
  BY <1>2, <1>3, ExtendHolds
<1> HIDE DEF rest
<1>5. wire' \in [Ends -> Seq(Bytes)] /\ wire'[p] = rest /\ wire'[e] = wire[e]
  BY <1>2, <1>3
<1> HIDE DEF f
<1> QED
  BY <1>1, <1>2, <1>3, <1>4, <1>5, FramedNothingLost DEF f

LEMMA WriteNothingLost ==
  ASSUME TypeOK, NothingLost, NEW e \in Ends, Write(e)
  PROVE  NothingLost'
<1>1. PICK b \in Seq(Bytes) :
        wire' = [wire EXCEPT ![e] = @ \o b] /\ sent' = [sent EXCEPT ![e] = @ \o b]
  BY WriteTakes
<1>2. UNCHANGED <<framer, taken>>
  BY DEF Write, recvVars
<1>3. wire \in [Ends -> Seq(Bytes)] /\ sent \in [Ends -> Seq(Bytes)]
  BY DEF TypeOK
<1> SUFFICES ASSUME NEW o \in Ends, framer[Peer(o)].failed = {}
             PROVE  sent'[o] = taken[Peer(o)] \o framer[Peer(o)].buf \o wire'[o]
  BY <1>2 DEF NothingLost
<1>4. sent[o] = taken[Peer(o)] \o framer[Peer(o)].buf \o wire[o]
  BY DEF NothingLost
<1>5. CASE o # e
  BY <1>1, <1>3, <1>4, <1>5
<1>6. CASE o = e
  <2>1. /\ taken[Peer(e)] \in Seq(Bytes) /\ framer[Peer(e)].buf \in Seq(Bytes)
        /\ wire[e] \in Seq(Bytes)
    BY <1>3, PeerFacts DEF TypeOK, Framers
  <2>2. sent'[e] = taken[Peer(e)] \o framer[Peer(e)].buf \o wire[e] \o b
    BY <1>1, <1>3, <1>4, <1>6
  <2>3. wire'[e] = wire[e] \o b
    BY <1>1, <1>3
  <2> QED
    <3>1. taken[Peer(e)] \o framer[Peer(e)].buf \in Seq(Bytes)
      BY <2>1, BytesAssociate
    <3>2. Associates(taken[Peer(e)] \o framer[Peer(e)].buf, wire[e], b)
      BY <2>1, <3>1, BytesAssociate
    <3> QED
      BY <1>6, <2>2, <2>3, <3>2 DEF Associates
<1> QED
  BY <1>5, <1>6

LEMMA NextNothingLost == TypeOK /\ NothingLost /\ [Next]_vars => NothingLost'
<1> SUFFICES ASSUME TypeOK, NothingLost, [Next]_vars PROVE NothingLost'
  OBVIOUS
<1>1. ASSUME UNCHANGED <<sent, taken, framer, wire>> PROVE NothingLost'
  BY <1>1 DEF NothingLost
<1>2. CASE Listen \/ Connect \/ Accept \/ Break \/ Over \/ UNCHANGED vars
  BY <1>1, <1>2 DEF Listen, Connect, Accept, Break, Over, vars, recvVars, sendVars
<1>3. ASSUME NEW e \in Ends,
             Recv(e) \/ ReadEnd(e) \/ ReadFails(e) \/ CancelRecv(e) \/ Send(e)
             \/ WriteFails(e) \/ CancelSend(e) \/ SplitUp(e) \/ Shutdown(e) \/ Drop(e)
      PROVE  NothingLost'
  BY <1>1, <1>3 DEF Recv, ReadEnd, ReadFails, CancelRecv, Send, WriteFails, CancelSend,
     SplitUp, Shutdown, Drop, recvVars, sendVars
<1> QED
  BY <1>2, <1>3, PollNothingLost, ReadNothingLost, WriteNothingLost DEF Next

\* Between the sender's send_raw and the receiver's recv_message no byte is
\* lost, doubled or moved, in any chunking, by any cancelled call and by
\* split, which hands the framer over.
THEOREM BytesArriveOnceInOrder == Spec => []NothingLost
<1>1. TypeOK /\ NothingLost /\ [Next]_vars => (TypeOK /\ NothingLost)'
  BY NextTypeOK, NextNothingLost
<1> QED
  BY <1>1, InitTypeOK, InitNothingLost, PTL DEF Spec
-----------------------------------------------------------------------------
(* The clean end of a stream.                                              *)

\* A side that is closed has nothing in progress; a receiver that waits has
\* not failed; and after a clean end nothing is left anywhere.
EndInv ==
  \A e \in Ends :
    /\ fin[e] => pending[e] = {}
    /\ reader[e] = "reading" => framer[e].failed = {}
    /\ "closed" \in outcome[e] =>
         /\ fin[Peer(e)] /\ wire[Peer(e)] = <<>>
         /\ framer[e].buf = <<>> /\ framer[e].failed = {}

LEMMA InitEndInv == Init => EndInv
BY DEF Init, EndInv

\* One turn of the receive loop, if what it is given to look at is nothing.
LEMMA FramedEndInv ==
  ASSUME TypeOK, EndInv, NEW e \in Ends, NEW f \in Framers, Framed(e, f),
         reader[e] \in {"called", "reading"},
         "closed" \in outcome[e] =>
           f.buf = <<>> /\ f.failed = {} /\ wire'[Peer(e)] = <<>>,
         wire'[e] = wire[e], UNCHANGED <<fin, pending>>
  PROVE  EndInv'
<1>1. /\ framer' \in [Ends -> Framers]
      /\ \A o \in Ends \ {e} : /\ framer'[o] = framer[o] /\ reader'[o] = reader[o]
                               /\ outcome'[o] = outcome[o]
      /\ Len(framer'[e].buf) <= Len(f.buf)
      /\ reader'[e] = "reading" => framer'[e].failed = {}
      /\ "closed" \in outcome'[e] =>
           "closed" \in outcome[e] /\ (f.failed = {} => framer'[e].failed = {})
  BY FramedKeeps
<1>2. f.buf = <<>> => framer'[e].buf = <<>>
  <2>1. framer'[e].buf \in Seq(Bytes) /\ Len(<<>>) = 0
    BY <1>1, EmptySeq DEF Framers
  <2>2. framer'[e].buf # <<>> => Len(framer'[e].buf) \in Nat \ {0}
    BY <2>1, EmptySeq
  <2>3. f.buf = <<>> => Len(f.buf) = 0
    BY <2>1
  <2> QED
    BY <1>1, <2>2, <2>3
<1>3. \A o \in Ends \ {e} : Peer(o) = e
  BY DEF Ends, Peer
<1> SUFFICES ASSUME NEW o \in Ends
             PROVE  /\ fin[o] => pending[o] = {}
                    /\ reader'[o] = "reading" => framer'[o].failed = {}
                    /\ "closed" \in outcome'[o] =>
                         /\ fin[Peer(o)] /\ wire'[Peer(o)] = <<>>
                         /\ framer'[o].buf = <<>> /\ framer'[o].failed = {}
  BY DEF EndInv
<1>4. CASE o = e
  BY <1>1, <1>2, <1>4 DEF EndInv
<1>5. CASE o # e
  BY <1>1, <1>3, <1>5 DEF EndInv
<1> QED
  BY <1>4, <1>5

LEMMA NextEndInv == TypeOK /\ EndInv /\ [Next]_vars => EndInv'
<1> SUFFICES ASSUME TypeOK, EndInv, [Next]_vars PROVE EndInv'
  OBVIOUS
<1>1. CASE Listen \/ Connect \/ Accept \/ Break \/ Over \/ UNCHANGED vars
  BY <1>1 DEF EndInv, Listen, Connect, Accept, Break, Over, vars, recvVars, sendVars
<1>2. ASSUME NEW e \in Ends, Recv(e) \/ CancelRecv(e) \/ SplitUp(e) PROVE EndInv'
  BY <1>2 DEF EndInv, Recv, CancelRecv, SplitUp, TypeOK, recvVars, sendVars
<1>3. ASSUME NEW e \in Ends, Poll(e) PROVE EndInv'
  <2>1. /\ reader[e] = "called" /\ framer[e] \in Framers /\ Framed(e, framer[e])
        /\ UNCHANGED <<wire, fin, pending>>
    BY <1>3 DEF Poll, Polled, TypeOK, sendVars
  <2>2. "closed" \in outcome[e] =>
          framer[e].buf = <<>> /\ framer[e].failed = {} /\ wire'[Peer(e)] = <<>>
    BY <2>1 DEF EndInv
  <2> QED
    BY <2>1, <2>2, FramedEndInv
<1>4. ASSUME NEW e \in Ends, Read(e) PROVE EndInv'
  <2>1. PICK bytes \in Available(e) :
          Yields(e, bytes) /\ Framed(e, Extend(framer[e], bytes))
    BY <1>4 DEF Read
  <2> DEFINE f == Extend(framer[e], bytes)
  <2>2. /\ reader[e] = "reading" /\ framer[e] \in Framers /\ bytes # <<>>
        /\ UNCHANGED <<fin, pending>> /\ wire'[e] = wire[e]
    BY <1>4, <2>1, PeerFacts DEF Yields, Read, TypeOK
  <2>3. bytes \in Seq(Bytes) /\ f \in Framers
    BY <2>2, AvailableIsFront, ExtendHolds
  <2>4. wire[Peer(e)] # <<>>
    <3>1. \E rest \in Seq(Bytes) : wire[Peer(e)] = bytes \o rest
      BY AvailableIsFront
    <3> QED
      BY <2>2, <2>3, <3>1, ConcatEqualIffEmpty, EmptySeq
  <2>5. "closed" \notin outcome[e]
    BY <2>4 DEF EndInv
  <2> QED
    BY <2>1, <2>2, <2>3, <2>5, FramedEndInv
<1>5. ASSUME NEW e \in Ends, ReadEnd(e) PROVE EndInv'
  <2>1. /\ reader[e] = "reading" /\ fin[Peer(e)] /\ wire[Peer(e)] = <<>>
        /\ reader' = [reader EXCEPT ![e] = "idle"]
        /\ outcome' = [outcome EXCEPT ![e] = {ClosedAtBoundary(framer[e])}]
        /\ UNCHANGED <<framer, wire, fin, pending>>
    BY <1>5 DEF ReadEnd, sendVars
  <2>2. framer[e].failed = {}
    BY <2>1 DEF EndInv
  <2>3. "closed" \in outcome'[e] => framer[e].buf = <<>>
    BY <2>1 DEF ClosedAtBoundary, TypeOK
  <2> SUFFICES ASSUME NEW o \in Ends
               PROVE  /\ fin[o] => pending[o] = {}
                      /\ reader'[o] = "reading" => framer[o].failed = {}
                      /\ "closed" \in outcome'[o] =>
                           /\ fin[Peer(o)] /\ wire[Peer(o)] = <<>>
                           /\ framer[o].buf = <<>> /\ framer[o].failed = {}
    BY <2>1 DEF EndInv
  <2> QED
    BY <2>1, <2>2, <2>3 DEF EndInv, TypeOK
<1>6. ASSUME NEW e \in Ends, ReadFails(e) PROVE EndInv'
  BY <1>6 DEF EndInv, ReadFails, TypeOK, sendVars
<1>7. ASSUME NEW e \in Ends, Send(e) PROVE EndInv'
  BY <1>7 DEF EndInv, Send, TypeOK, recvVars
<1>8. ASSUME NEW e \in Ends, WriteFails(e) \/ CancelSend(e) PROVE EndInv'
  <2>1. CASE WriteFails(e)
    BY <2>1 DEF EndInv, WriteFails, TypeOK, recvVars
  <2>2. CASE CancelSend(e)
    BY <2>2 DEF EndInv, CancelSend, TypeOK, recvVars
  <2> QED
    BY <1>8, <2>1, <2>2
<1>9. ASSUME NEW e \in Ends, Write(e) PROVE EndInv'
  <2>1. pending[e] # {} /\ UNCHANGED <<fin, reader, framer, outcome>>
    BY <1>9 DEF Write, recvVars
  <2>2. ~fin[e]
    BY <2>1 DEF EndInv
  <2>3. \A o \in Ends \ {e} : wire'[o] = wire[o] /\ pending'[o] = pending[o]
    BY <1>9, WriteTakes DEF TypeOK
  <2>4. \A o \in Ends : "closed" \in outcome[o] => Peer(o) \in Ends \ {e}
    BY <2>2, PeerFacts DEF EndInv
  <2> QED
    BY <2>1, <2>2, <2>3, <2>4 DEF EndInv
<1>10. ASSUME NEW e \in Ends, Shutdown(e) PROVE EndInv'
  BY <1>10 DEF EndInv, Shutdown, TypeOK, recvVars, sendVars
<1>11. ASSUME NEW e \in Ends, Drop(e) PROVE EndInv'
  BY <1>11 DEF EndInv, Drop, TypeOK
<1> QED
  BY <1>1, <1>2, <1>3, <1>4, <1>5, <1>6, <1>7, <1>8, <1>9, <1>10, <1>11 DEF Next

\* A clean end is the end: when recv_message says Ok(None), the peer has
\* closed its side and every byte that it sent has come out as part of a
\* message (closed_at_boundary).
THEOREM CleanEndsAreComplete == Spec => []CleanEndIsComplete
<1>1. TypeOK /\ NothingLost /\ EndInv => CleanEndIsComplete
  <2> SUFFICES ASSUME TypeOK, NothingLost, EndInv, NEW e \in Ends, "closed" \in outcome[e]
               PROVE  fin[Peer(e)] /\ taken[e] = sent[Peer(e)]
    BY DEF CleanEndIsComplete
  <2>1. /\ fin[Peer(e)] /\ wire[Peer(e)] = <<>>
        /\ framer[e].buf = <<>> /\ framer[e].failed = {}
    BY DEF EndInv
  <2>2. sent[Peer(e)] = taken[e] \o <<>> \o <<>>
    BY <2>1, SeenFromReceiver DEF ArrivesWhole
  <2>3. taken[e] \in Seq(Bytes)
    BY DEF TypeOK
  <2> QED
    BY <2>1, <2>2, <2>3, ConcatEmptySeq
<1>2. TypeOK /\ EndInv /\ [Next]_vars => (TypeOK /\ EndInv)'
  BY NextTypeOK, NextEndInv
<1> QED
  BY <1>1, <1>2, InitTypeOK, InitEndInv, BytesArriveOnceInOrder, PTL DEF Spec

-----------------------------------------------------------------------------
(* The messages of one direction.                                          *)

\* What the receiver took is its messages, however the stream goes on.
TookTheMessages(e) ==
  \A more \in Seq(Bytes) : Cut(taken[e] \o more) = Raws(received[e]) \o Cut(more)

\* A stream that was given up has no further message, however it goes on.
GaveUpRightly(e) ==
  framer[e].failed # {} =>
    \A more \in Seq(Bytes) : Cut(sent[Peer(e)] \o more) = Raws(received[e])

\* A receiver that waits has looked at what it holds.
HasLooked(e) == framer[e].failed = {} /\ Layout(framer[e].buf) = Incomplete

\* What the outcome says of the stream.
OutcomeIsTrue(e) ==
  /\ outcome[e] \in {{}} \cup {{o} : o \in Outcomes}
  /\ outcome[e] \in {{"closed"}, {"truncated"}} =>
       /\ fin[Peer(e)] /\ wire[Peer(e)] = <<>> /\ HasLooked(e)
       /\ framer[e].buf = <<>> <=> outcome[e] = {"closed"}
  /\ outcome[e] = {"Framing"} => framer[e].failed # {}
  /\ outcome[e] = {"Io"} => reader[e] = "idle"

StreamInv ==
  /\ received \in [Ends -> Seq(Messages)]
  /\ offered \in [Ends -> Seq(Seq(Bytes))]
  /\ \A e \in Ends :
       /\ offered[e] = Cut(sent[e])
       /\ TookTheMessages(e)
       /\ GaveUpRightly(e)
       /\ reader[e] = "reading" => HasLooked(e)
       /\ OutcomeIsTrue(e)

LEMMA NothingIsIncomplete == Cut(<<>>) = <<>> /\ Raws(<<>>) = <<>>
<1>1. <<>> \in Seq(Bytes) /\ Len(<<>>) = 0 /\ <<>> \in Seq(Messages)
  BY EmptySeq
<1>2. ASSUME NEW s \in Seq(Bytes), s = <<>> PROVE Cut(s) = <<>>
  <2>1. Layout(s).status = "frame" => Layout(s).len \in 1 .. Len(s)
    BY LayoutSees DEF Incomplete
  <2>2. Len(s) = 0
    BY <1>1, <1>2
  <2>3. Layout(s).status # "frame"
    BY <2>1, <2>2
  <2> QED
    BY <2>3, CutIsLayout
<1>3. Raws(<<>>) \in Seq(Seq(Bytes)) /\ Len(Raws(<<>>)) = 0
  BY <1>1, RawsOf
<1> QED
  BY <1>1, <1>2, <1>3, EmptySeq

LEMMA InitStreamInv == Init => StreamInv
<1> SUFFICES ASSUME Init PROVE StreamInv
  OBVIOUS
<1>1. <<>> \in Seq(Bytes) /\ <<>> \in Seq(Messages) /\ <<>> \in Seq(Seq(Bytes))
  BY EmptySeq
<1>2. received \in [Ends -> Seq(Messages)] /\ offered \in [Ends -> Seq(Seq(Bytes))]
  BY <1>1 DEF Init
<1>3. ASSUME NEW e \in Ends
      PROVE  /\ sent[e] = <<>> /\ taken[e] = <<>> /\ received[e] = <<>> /\ offered[e] = <<>>
             /\ reader[e] = "idle" /\ outcome[e] = {} /\ framer[e].failed = {}
  <2>1. DirectionOf(e) \in Directions
    BY DEF DirectionOf, Directions
  <2> QED
    BY <2>1, NewFramerIsEmpty DEF Init
<1>4. ASSUME NEW more \in Seq(Bytes) PROVE Cut(<<>> \o more) = <<>> \o Cut(more)
  <2>1. <<>> \o more = more
    BY ConcatEmptySeq
  <2>2. Cut(more) \in Seq(Seq(Bytes))
    BY CutIsLayout
  <2> QED
    BY <2>1, <2>2, ConcatEmptySeq
<1>5. ASSUME NEW e \in Ends
      PROVE  offered[e] = Cut(sent[e]) /\ TookTheMessages(e) /\ GaveUpRightly(e)
  BY <1>3, <1>4, NothingIsIncomplete DEF TookTheMessages, GaveUpRightly
<1>6. ASSUME NEW e \in Ends
      PROVE  reader[e] # "reading" /\ OutcomeIsTrue(e)
  BY <1>3 DEF OutcomeIsTrue
<1> QED
  BY <1>2, <1>5, <1>6 DEF StreamInv

\* The three things that a turn of the receive loop may do.
WaitsForMore(e, f) ==
  /\ f.failed = {} /\ Layout(f.buf) = Incomplete
  /\ framer'[e] = f /\ reader'[e] = "reading"
  /\ UNCHANGED <<outcome, taken, received>>

TakesMessage(e, f, m) ==
  /\ f.failed = {} /\ Layout(f.buf).status = "frame"
  /\ framer'[e].failed = {} /\ framer'[e].buf \in Seq(Bytes)
  /\ m.raw \in Seq(Bytes) /\ f.buf = m.raw \o framer'[e].buf
  /\ reader'[e] = "idle"
  /\ taken' = [taken EXCEPT ![e] = @ \o m.raw]
  /\ received' = [received EXCEPT ![e] = Append(@, m)]
  /\ UNCHANGED outcome

GivesUp(e, f) ==
  /\ framer'[e].failed # {}
  /\ f.failed = {} => \A more \in Seq(Bytes) : Cut(f.buf \o more) = <<>>
  /\ reader'[e] = "idle"
  /\ outcome' = [outcome EXCEPT ![e] = {"Framing"}]
  /\ UNCHANGED <<taken, received>>

LEMMA FramedDoes ==
  ASSUME TypeOK, NEW e \in Ends, NEW f \in Framers, Framed(e, f)
  PROVE  /\ \A o \in Ends \ {e} : framer'[o] = framer[o] /\ reader'[o] = reader[o]
         /\ \/ WaitsForMore(e, f)
            \/ \E m \in Messages : TakesMessage(e, f, m)
            \/ GivesUp(e, f)
<1> DEFINE next == NextMessage(f)
<1>1. /\ reader \in [Ends -> {"idle", "called", "reading"}]
      /\ framer \in [Ends -> Framers]
      /\ framer' = [framer EXCEPT ![e] = next.framer]
      /\ next.framer \in Framers
  BY NextMessageKeeps DEF TypeOK, Framed
<1>2. framer'[e] = next.framer /\ \A o \in Ends \ {e} : framer'[o] = framer[o]
  BY <1>1
<1>3. "none" \notin FrameErrors /\ "message" \notin FrameErrors
  BY DEF FrameErrors
<1>4. <<>> \in Seq(Bytes)
  BY EmptySeq
<1>5. /\ next.answer = "none" => f.failed = {} /\ next.framer = f
      /\ next.answer = "message" =>
           /\ f.failed = {} /\ next.framer.failed = {} /\ next.message.raw \in Seq(Bytes)
           /\ f.buf = next.message.raw \o next.framer.buf
      /\ next.answer \in FrameErrors => next.framer.failed # {}
      /\ next.answer \in {"none", "message"} \cup FrameErrors
  BY <1>3, NextMessageKeeps
<1>6. ASSUME f.failed = {}, NEW more \in Seq(Bytes)
      PROVE  /\ next.answer = "none" => Layout(f.buf) = Incomplete
             /\ next.answer = "message" =>
                  Layout(f.buf).status = "frame" /\ next.message = MessageAt(f, Layout(f.buf))
             /\ next.answer \in FrameErrors => Cut(f.buf \o more) = <<>>
  BY <1>3, <1>6, NextMessageCuts
<1> HIDE DEF next
<1>7. CASE next.answer = "none"
  <2>1. reader' = [reader EXCEPT ![e] = "reading"] /\ UNCHANGED <<outcome, taken, received>>
    BY <1>3, <1>7 DEF Framed, next
  <2>2. WaitsForMore(e, f)
    BY <1>1, <1>2, <1>4, <1>5, <1>6, <1>7, <2>1 DEF WaitsForMore
  <2> QED
    BY <1>1, <1>2, <2>1, <2>2
<1>8. CASE next.answer = "message"
  <2>1. /\ reader' = [reader EXCEPT ![e] = "idle"] /\ UNCHANGED outcome
        /\ taken' = [taken EXCEPT ![e] = @ \o next.message.raw]
        /\ received' = [received EXCEPT ![e] = Append(@, next.message)]
    BY <1>3, <1>8 DEF Framed, next
  <2>2. Layout(f.buf).status = "frame" /\ next.message = MessageAt(f, Layout(f.buf))
    BY <1>4, <1>5, <1>6, <1>8
  <2>3. next.message \in Messages
    BY <2>2, MessagesAreBytes
  <2>4. next.framer.buf \in Seq(Bytes)
    BY <1>1 DEF Framers
  <2>5. TakesMessage(e, f, next.message)
    BY <1>1, <1>2, <1>5, <1>8, <2>1, <2>2, <2>4 DEF TakesMessage
  <2> QED
    BY <1>1, <1>2, <2>1, <2>3, <2>5
<1>9. CASE next.answer \in FrameErrors
  <2>1. /\ reader' = [reader EXCEPT ![e] = "idle"]
        /\ outcome' = [outcome EXCEPT ![e] = {"Framing"}] /\ UNCHANGED <<taken, received>>
    BY <1>3, <1>9 DEF Framed, next
  <2>2. GivesUp(e, f)
    BY <1>1, <1>2, <1>5, <1>6, <1>9, <2>1 DEF GivesUp
  <2> QED
    BY <1>1, <1>2, <2>1, <2>2
<1> QED
  BY <1>5, <1>7, <1>8, <1>9

\* A turn of the receive loop asks the framer about bytes that were sent.
Asks(e, f) ==
  /\ f.failed = framer[e].failed
  /\ f.failed = {} => sent[Peer(e)] = (taken[e] \o f.buf) \o wire'[Peer(e)]
  /\ outcome[e] \in {{"closed"}, {"truncated"}} => f = framer[e] /\ wire' = wire
  /\ reader[e] # "idle"

\* A receiver takes a message only if it was told of no end before.
LEMMA TakesBeforeTheEnd ==
  ASSUME StreamInv, NEW e \in Ends, NEW f \in Framers, Asks(e, f), NEW m, TakesMessage(e, f, m)
  PROVE  outcome[e] = {}
<1>1. OutcomeIsTrue(e)
  BY DEF StreamInv
<1>2. f.failed = {} /\ Layout(f.buf) # Incomplete
  BY DEF TakesMessage, Incomplete
<1>3. outcome[e] # {"Framing"} /\ outcome[e] # {"Io"}
  BY <1>1, <1>2 DEF OutcomeIsTrue, Asks
<1>4. outcome[e] \notin {{"closed"}, {"truncated"}}
  BY <1>1, <1>2 DEF OutcomeIsTrue, Asks, HasLooked
<1> QED
  BY <1>1, <1>3, <1>4 DEF OutcomeIsTrue, Outcomes

LEMMA TakesTheNext ==
  ASSUME TypeOK, StreamInv, NEW e \in Ends, NEW f \in Framers, NEW m \in Messages,
         TakesMessage(e, f, m)
  PROVE  TookTheMessages(e)' /\ received' \in [Ends -> Seq(Messages)]
<1>1. /\ taken[e] \in Seq(Bytes) /\ received[e] \in Seq(Messages) /\ m.raw \in Seq(Bytes)
      /\ taken'[e] = taken[e] \o m.raw /\ received'[e] = Append(received[e], m)
      /\ TookTheMessages(e)
  BY DEF TypeOK, StreamInv, TakesMessage
<1>2. Raws(received[e]) \in Seq(Seq(Bytes)) /\ Raws(received'[e]) = Raws(received[e]) \o <<m.raw>>
  BY <1>1, RawsOf
<1>3. <<m.raw>> \in Seq(Seq(Bytes))
  BY <1>1
<1>4. ASSUME NEW more \in Seq(Bytes)
      PROVE  Cut(taken'[e] \o more) = Raws(received'[e]) \o Cut(more)
  <2>1. m.raw \o more \in Seq(Bytes) /\ taken'[e] \o more = taken[e] \o (m.raw \o more)
    <3>1. m.raw \o more \in Seq(Bytes)
      BY <1>1, ConcatProperties
    <3>2. (taken[e] \o m.raw) \o more = taken[e] \o (m.raw \o more)
      BY <1>1, Associate
    <3> QED
      BY <1>1, <3>1, <3>2
  <2>2. Cut(taken'[e] \o more) = Raws(received[e]) \o Cut(m.raw \o more)
    BY <1>1, <2>1 DEF TookTheMessages
  <2>3. Cut(m.raw \o more) = <<m.raw>> \o Cut(more)
    BY MessageIsCut
  <2>4. Cut(more) \in Seq(Seq(Bytes))
    BY CutIsLayout
  <2>5. (Raws(received[e]) \o <<m.raw>>) \o Cut(more) = Raws(received[e]) \o (<<m.raw>> \o Cut(more))
    BY <1>2, <1>3, <2>4, Associate
  <2> QED
    BY <1>2, <2>2, <2>3, <2>5
<1>5. received' \in [Ends -> Seq(Messages)]
  <2>1. Append(received[e], m) \in Seq(Messages)
    BY <1>1, AppendProperties
  <2> QED
    BY <2>1 DEF StreamInv, TakesMessage
<1> QED
  BY <1>4, <1>5 DEF TookTheMessages

\* Once the framer finds no message in what it holds, whatever follows, all
\* messages of the stream were taken.
LEMMA GivesUpRightly ==
  ASSUME TypeOK, StreamInv, NEW e \in Ends, NEW f \in Framers, Asks(e, f), GivesUp(e, f),
         wire' \in [Ends -> Seq(Bytes)], sent' = sent
  PROVE  GaveUpRightly(e)'
<1>1. /\ taken[e] \in Seq(Bytes) /\ received[e] \in Seq(Messages) /\ f.buf \in Seq(Bytes)
      /\ wire'[Peer(e)] \in Seq(Bytes) /\ TookTheMessages(e) /\ GaveUpRightly(e)
  BY PeerFacts DEF TypeOK, StreamInv, Framers
<1>2. received' = received
  BY DEF GivesUp
<1> SUFFICES ASSUME NEW more \in Seq(Bytes)
             PROVE  Cut(sent[Peer(e)] \o more) = Raws(received[e])
  BY <1>2 DEF GaveUpRightly
<1>3. CASE f.failed # {}
  BY <1>1, <1>3 DEF Asks, GaveUpRightly
<1>4. CASE f.failed = {}
  <2> DEFINE w == wire'[Peer(e)]
  <2>1. sent[Peer(e)] = (taken[e] \o f.buf) \o w
    BY <1>4 DEF Asks
  <2>2. Cut(f.buf \o (w \o more)) = <<>>
    <3>1. w \o more \in Seq(Bytes)
      BY <1>1, ConcatProperties
    <3> QED
      BY <1>4, <3>1 DEF GivesUp
  <2> HIDE DEF w
  <2>3. w \in Seq(Bytes) /\ w \o more \in Seq(Bytes) /\ taken[e] \o f.buf \in Seq(Bytes)
        /\ f.buf \o (w \o more) \in Seq(Bytes)
    BY <1>1, ConcatProperties DEF w
  <2>4. sent[Peer(e)] \o more = taken[e] \o (f.buf \o (w \o more))
    <3>1. ((taken[e] \o f.buf) \o w) \o more = (taken[e] \o f.buf) \o (w \o more)
      BY <2>3, Associate
    <3>2. (taken[e] \o f.buf) \o (w \o more) = taken[e] \o (f.buf \o (w \o more))
      <4>1. taken[e] \in Seq(Bytes) /\ f.buf \in Seq(Bytes)
        BY <1>1
      <4> QED
        BY <2>3, <4>1, Associate
    <3> QED
      BY <2>1, <3>1, <3>2
  <2>5. Raws(received[e]) \o <<>> = Raws(received[e])
    <3>1. Raws(received[e]) \in Seq(Seq(Bytes))
      BY <1>1, RawsOf
    <3> QED
      BY <3>1, ConcatEmptySeq
  <2>6. Cut(taken[e] \o (f.buf \o (w \o more))) = Raws(received[e]) \o Cut(f.buf \o (w \o more))
    BY <1>1, <2>3 DEF TookTheMessages
  <2> QED
    BY <2>2, <2>4, <2>5, <2>6
<1> QED
  BY <1>3, <1>4

LEMMA FramedStreamInv ==
  ASSUME TypeOK, StreamInv, NEW e \in Ends, NEW f \in Framers, Asks(e, f), Framed(e, f),
         wire' \in [Ends -> Seq(Bytes)], wire'[e] = wire[e], UNCHANGED <<sent, offered, fin>>
  PROVE  StreamInv'
<1>1. /\ \A o \in Ends \ {e} : framer'[o] = framer[o] /\ reader'[o] = reader[o]
      /\ \/ WaitsForMore(e, f)
         \/ \E m \in Messages : TakesMessage(e, f, m)
         \/ GivesUp(e, f)
  BY FramedDoes
<1>2. /\ outcome \in [Ends -> SUBSET Outcomes] /\ taken \in [Ends -> Seq(Bytes)]
      /\ received \in [Ends -> Seq(Messages)] /\ offered' \in [Ends -> Seq(Seq(Bytes))]
      /\ \A o \in Ends : offered'[o] = Cut(sent'[o])
  BY DEF TypeOK, StreamInv
<1>3. TookTheMessages(e) /\ GaveUpRightly(e) /\ OutcomeIsTrue(e)
  BY DEF StreamInv
<1>4. ASSUME \A o \in Ends \ {e} : /\ taken'[o] = taken[o] /\ received'[o] = received[o]
                                   /\ outcome'[o] = outcome[o],
             NEW o \in Ends \ {e}
      PROVE  /\ TookTheMessages(o)' /\ GaveUpRightly(o)'
             /\ reader'[o] = "reading" => HasLooked(o)'
             /\ OutcomeIsTrue(o)'
  <2>1. Peer(o) = e
    BY DEF Ends, Peer
  <2>2. /\ TookTheMessages(o) /\ GaveUpRightly(o) /\ OutcomeIsTrue(o)
        /\ reader[o] = "reading" => HasLooked(o)
    BY DEF StreamInv
  <2>3. TookTheMessages(o)' /\ GaveUpRightly(o)'
    BY <1>1, <1>4, <2>2 DEF TookTheMessages, GaveUpRightly
  <2>4. HasLooked(o)' <=> HasLooked(o)
    BY <1>1 DEF HasLooked
  <2>5. OutcomeIsTrue(o)'
    BY <1>1, <1>4, <2>1, <2>2, <2>4 DEF OutcomeIsTrue
  <2> QED
    BY <1>1, <2>2, <2>3, <2>4, <2>5
<1>5. CASE WaitsForMore(e, f)
  <2>1. /\ f.failed = {} /\ framer'[e] = f /\ reader'[e] = "reading"
        /\ UNCHANGED <<outcome, taken, received>> /\ HasLooked(e)'
    BY <1>5 DEF WaitsForMore, HasLooked
  <2>2. TookTheMessages(e)' /\ GaveUpRightly(e)'
    BY <1>3, <2>1 DEF TookTheMessages, GaveUpRightly
  <2>3. OutcomeIsTrue(e)'
    BY <1>3, <2>1 DEF OutcomeIsTrue, Asks
  <2> QED
    BY <1>2, <1>4, <2>1, <2>2, <2>3 DEF StreamInv
<1>6. ASSUME NEW m \in Messages, TakesMessage(e, f, m) PROVE StreamInv'
  <2>1. /\ framer'[e].failed = {} /\ reader'[e] = "idle" /\ outcome' = outcome
        /\ taken' = [taken EXCEPT ![e] = @ \o m.raw]
        /\ received' = [received EXCEPT ![e] = Append(@, m)]
    BY <1>6 DEF TakesMessage
  <2>2. TookTheMessages(e)' /\ received' \in [Ends -> Seq(Messages)]
    BY <1>6, TakesTheNext
  <2>3. outcome'[e] = {}
    BY <1>6, <2>1, TakesBeforeTheEnd
  <2>4. GaveUpRightly(e)' /\ OutcomeIsTrue(e)'
    BY <2>1, <2>3 DEF GaveUpRightly, OutcomeIsTrue
  <2> QED
    BY <1>2, <1>4, <2>1, <2>2, <2>4 DEF StreamInv
<1>7. CASE GivesUp(e, f)
  <2>1. /\ framer'[e].failed # {} /\ reader'[e] = "idle"
        /\ outcome' = [outcome EXCEPT ![e] = {"Framing"}]
        /\ UNCHANGED <<taken, received>>
    BY <1>7 DEF GivesUp
  <2>2. outcome'[e] = {"Framing"} /\ \A o \in Ends \ {e} : outcome'[o] = outcome[o]
    BY <1>2, <2>1
  <2>3. GaveUpRightly(e)'
    BY <1>7, GivesUpRightly
  <2>4. TookTheMessages(e)' /\ OutcomeIsTrue(e)'
    BY <1>3, <2>1, <2>2 DEF TookTheMessages, OutcomeIsTrue, Outcomes
  <2> QED
    BY <1>2, <1>4, <2>1, <2>2, <2>3, <2>4 DEF StreamInv
<1> QED
  BY <1>1, <1>5, <1>6, <1>7

LEMMA PollStreamInv ==
  ASSUME TypeOK, NothingLost, StreamInv, NEW e \in Ends, Poll(e)
  PROVE  StreamInv' /\ Framed(e, framer[e]) /\ Asks(e, framer[e])
<1>1. /\ reader[e] = "called" /\ framer[e] \in Framers /\ Framed(e, framer[e])
      /\ UNCHANGED <<wire, sent, offered, fin>> /\ wire \in [Ends -> Seq(Bytes)]
  BY DEF Poll, Polled, TypeOK, sendVars
<1>2. Asks(e, framer[e])
  BY <1>1, SeenFromReceiver DEF Asks, ArrivesWhole
<1> QED
  BY <1>1, <1>2, FramedStreamInv

LEMMA ReadStreamInv ==
  ASSUME TypeOK, NothingLost, StreamInv, NEW e \in Ends, Read(e)
  PROVE  StreamInv' /\ \E f \in Framers : Framed(e, f) /\ Asks(e, f)
<1>1. PICK bytes \in Available(e) :
        Yields(e, bytes) /\ Framed(e, Extend(framer[e], bytes))
  BY DEF Read
<1> DEFINE p    == Peer(e)
           rest == SubSeq(wire[p], Len(bytes) + 1, Len(wire[p]))
           f    == Extend(framer[e], bytes)
<1>2. /\ wire' = [wire EXCEPT ![p] = rest] /\ reader[e] = "reading" /\ p \in Ends /\ p # e
      /\ UNCHANGED <<sent, offered, fin>> /\ wire \in [Ends -> Seq(Bytes)]
      /\ framer[e] \in Framers /\ taken[e] \in Seq(Bytes) /\ bytes # <<>>
  BY <1>1, PeerFacts DEF Yields, Read, TypeOK
<1>3. bytes \in Seq(Bytes) /\ rest \in Seq(Bytes) /\ wire[p] = bytes \o rest
  BY AvailableIsFront
<1>4. /\ f \in Framers /\ f.failed = framer[e].failed
      /\ f.failed = {} => f.buf = framer[e].buf \o bytes
  BY <1>2, <1>3, ExtendHolds
<1> HIDE DEF rest, f
<1>5. wire' \in [Ends -> Seq(Bytes)] /\ wire'[p] = rest /\ wire'[e] = wire[e]
  BY <1>2, <1>3
<1>6. wire[p] # <<>>
  BY <1>2, <1>3, ConcatEqualIffEmpty, EmptySeq
<1>7. outcome[e] \notin {{"closed"}, {"truncated"}}
  BY <1>6 DEF StreamInv, OutcomeIsTrue
<1>8. ASSUME f.failed = {} PROVE sent[p] = (taken[e] \o f.buf) \o wire'[p]
  <2>1. sent[p] = (taken[e] \o framer[e].buf) \o (bytes \o rest) /\ framer[e].buf \in Seq(Bytes)
    BY <1>2, <1>3, <1>4, <1>8, SeenFromReceiver DEF ArrivesWhole, Framers
  <2> DEFINE b == framer[e].buf
  <2>2. ((taken[e] \o b) \o bytes) \o rest = (taken[e] \o b) \o (bytes \o rest)
    <3>1. taken[e] \o b \in Seq(Bytes)
      BY <1>2, <2>1, ConcatProperties
    <3> HIDE DEF b
    <3> QED
      BY <1>3, <3>1, Associate
  <2>3. (taken[e] \o b) \o bytes = taken[e] \o (b \o bytes)
    BY <1>2, <1>3, <2>1, Associate
  <2>4. f.buf = b \o bytes
    BY <1>4, <1>8
  <2> QED
    BY <1>5, <2>1, <2>2, <2>3, <2>4
<1>9. Asks(e, f)
  BY <1>2, <1>4, <1>7, <1>8 DEF Asks
<1>10. Framed(e, f)
  BY <1>1 DEF f
<1> QED
  BY <1>2, <1>4, <1>5, <1>9, <1>10, FramedStreamInv

\* What an action that moves no byte leaves to be shown.
LEMMA QuietStreamInv ==
  ASSUME StreamInv, UNCHANGED <<framer, taken, received, sent, offered, wire>>,
         \A e \in Ends : fin[e] => fin'[e],
         \A e \in Ends : reader'[e] = "reading" => reader[e] = "reading",
         \A e \in Ends : outcome'[e] = outcome[e] \/ OutcomeIsTrue(e)',
         \A e \in Ends : outcome[e] = {"Io"} => reader'[e] = "idle"
  PROVE  StreamInv'
<1> SUFFICES ASSUME NEW e \in Ends
             PROVE  /\ offered'[e] = Cut(sent'[e])
                    /\ TookTheMessages(e)' /\ GaveUpRightly(e)'
                    /\ reader'[e] = "reading" => HasLooked(e)'
                    /\ OutcomeIsTrue(e)'
  BY DEF StreamInv
<1>1. /\ offered[e] = Cut(sent[e]) /\ TookTheMessages(e) /\ GaveUpRightly(e) /\ OutcomeIsTrue(e)
      /\ reader[e] = "reading" => HasLooked(e)
  BY DEF StreamInv
<1>2. HasLooked(e)' <=> HasLooked(e)
  BY DEF HasLooked
<1>3. OutcomeIsTrue(e)'
  BY <1>1, <1>2, PeerFacts DEF OutcomeIsTrue
<1> QED
  BY <1>1, <1>2, <1>3 DEF TookTheMessages, GaveUpRightly

LEMMA WriteStreamInv ==
  ASSUME TypeOK, EndInv, StreamInv, NEW p \in Ends, Write(p)
  PROVE  StreamInv' /\ IsPrefixOf(offered[p], offered'[p])
<1>1. PICK b \in Seq(Bytes) : /\ wire' = [wire EXCEPT ![p] = @ \o b]
                              /\ sent' = [sent EXCEPT ![p] = @ \o b]
                              /\ offered' = [offered EXCEPT ![p] = Cut(sent[p] \o b)]
  <2>1. PICK bytes \in pending[p] : Takes(p, SubSeq(bytes, 1, Smaller(Room(p), Len(bytes))))
    BY DEF Write
  <2>2. bytes \in Seq(Bytes) /\ Len(bytes) \in Nat /\ Len(wire[p]) \in Nat
        /\ WireCapacity[p] \in Nat
    BY LinkAssumption, LenProperties DEF TypeOK
  <2>3. Room(p) > 0 /\ Room(p) \in Int
    BY <2>2 DEF Write, Room
  <2>4. Smaller(Room(p), Len(bytes)) \in 0 .. Len(bytes)
    BY <2>2, <2>3 DEF Smaller
  <2>5. SubSeq(bytes, 1, Smaller(Room(p), Len(bytes))) \in Seq(Bytes)
    BY <2>2, <2>4, SplitsInTwo
  <2> QED
    BY <2>1, <2>5 DEF Takes
<1>2. /\ UNCHANGED <<reader, framer, outcome, taken, received, fin>>
      /\ pending[p] # {} /\ ~fin[p]
  BY DEF Write, recvVars, EndInv
<1>3. /\ wire \in [Ends -> Seq(Bytes)] /\ sent \in [Ends -> Seq(Bytes)]
      /\ offered \in [Ends -> Seq(Seq(Bytes))] /\ \A e \in Ends : offered[e] = Cut(sent[e])
  BY DEF TypeOK, StreamInv
<1>4. sent[p] \o b \in Seq(Bytes) /\ Cut(sent[p] \o b) \in Seq(Seq(Bytes))
  <2>1. sent[p] \o b \in Seq(Bytes)
    BY <1>3, ConcatProperties
  <2> QED
    BY <2>1, CutIsLayout
<1>5. /\ offered' \in [Ends -> Seq(Seq(Bytes))] /\ offered'[p] = Cut(sent[p] \o b)
      /\ \A e \in Ends : offered'[e] = Cut(sent'[e])
  BY <1>1, <1>3, <1>4
<1>6. IsPrefixOf(offered[p], offered'[p])
  BY <1>3, <1>5, CutGrows
<1>7. ASSUME NEW e \in Ends
      PROVE  /\ TookTheMessages(e)' /\ GaveUpRightly(e)' /\ OutcomeIsTrue(e)'
             /\ reader'[e] = "reading" => HasLooked(e)'
  <2>1. /\ TookTheMessages(e) /\ GaveUpRightly(e) /\ OutcomeIsTrue(e)
        /\ reader[e] = "reading" => HasLooked(e)
    BY DEF StreamInv
  <2>2. TookTheMessages(e)' /\ (HasLooked(e)' <=> HasLooked(e))
    BY <1>2, <2>1 DEF TookTheMessages, HasLooked
  <2>3. OutcomeIsTrue(e)'
    <3>1. fin[Peer(e)] => wire'[Peer(e)] = wire[Peer(e)]
      BY <1>1, <1>2, <1>3, PeerFacts
    <3> QED
      BY <1>2, <2>1, <2>2, <3>1 DEF OutcomeIsTrue
  <2>4. GaveUpRightly(e)'
    <3>1. CASE Peer(e) # p
      BY <1>1, <1>2, <1>3, <2>1, <3>1, PeerFacts DEF GaveUpRightly
    <3>2. CASE Peer(e) = p
      <4> SUFFICES ASSUME framer[e].failed # {}, NEW more \in Seq(Bytes)
                   PROVE  Cut(sent'[p] \o more) = Raws(received[e])
        BY <1>2, <3>2 DEF GaveUpRightly
      <4>1. b \o more \in Seq(Bytes)
        BY ConcatProperties
      <4>2. (sent[p] \o b) \o more = sent[p] \o (b \o more)
        <5>1. sent[p] \in Seq(Bytes)
          BY <1>3
        <5> QED
          BY <5>1, Associate
      <4>3. Cut(sent[p] \o (b \o more)) = Raws(received[e])
        BY <2>1, <3>2, <4>1 DEF GaveUpRightly
      <4> QED
        BY <1>1, <1>3, <4>2, <4>3
    <3> QED
      BY <3>1, <3>2
  <2> QED
    BY <1>2, <2>1, <2>2, <2>3, <2>4
<1> QED
  BY <1>2, <1>5, <1>6, <1>7 DEF StreamInv

LEMMA ReadEndStreamInv ==
  ASSUME TypeOK, StreamInv, NEW e \in Ends, ReadEnd(e)
  PROVE  StreamInv'
<1>1. /\ reader[e] = "reading" /\ fin[Peer(e)] /\ wire[Peer(e)] = <<>>
      /\ reader' = [reader EXCEPT ![e] = "idle"]
      /\ outcome' = [outcome EXCEPT ![e] = {ClosedAtBoundary(framer[e])}]
      /\ UNCHANGED <<framer, taken, received, sent, offered, wire, fin>>
      /\ reader \in [Ends -> {"idle", "called", "reading"}]
      /\ outcome \in [Ends -> SUBSET Outcomes]
  BY DEF ReadEnd, sendVars, TypeOK
<1>2. HasLooked(e)'
  BY <1>1 DEF StreamInv, HasLooked
<1>3. OutcomeIsTrue(e)'
  BY <1>1, <1>2 DEF OutcomeIsTrue, ClosedAtBoundary, Outcomes
<1>4. \A o \in Ends : outcome'[o] = outcome[o] \/ OutcomeIsTrue(o)'
  BY <1>1, <1>3
<1>5. \A o \in Ends : /\ reader'[o] = "reading" => reader[o] = "reading"
                      /\ outcome[o] = {"Io"} => reader'[o] = "idle"
  BY <1>1 DEF StreamInv, OutcomeIsTrue
<1> QED
  BY <1>1, <1>4, <1>5, QuietStreamInv

LEMMA ReadFailsStreamInv ==
  ASSUME TypeOK, StreamInv, NEW e \in Ends, ReadFails(e)
  PROVE  StreamInv'
<1>1. /\ reader' = [reader EXCEPT ![e] = "idle"]
      /\ outcome' = [outcome EXCEPT ![e] = {"Io"}]
      /\ UNCHANGED <<framer, taken, received, sent, offered, wire, fin>>
      /\ reader \in [Ends -> {"idle", "called", "reading"}]
      /\ outcome \in [Ends -> SUBSET Outcomes]
  BY DEF ReadFails, sendVars, TypeOK
<1>2. OutcomeIsTrue(e)'
  BY <1>1 DEF OutcomeIsTrue, Outcomes
<1>3. \A o \in Ends : outcome'[o] = outcome[o] \/ OutcomeIsTrue(o)'
  BY <1>1, <1>2
<1>4. \A o \in Ends : /\ reader'[o] = "reading" => reader[o] = "reading"
                      /\ outcome[o] = {"Io"} => reader'[o] = "idle"
  BY <1>1 DEF StreamInv, OutcomeIsTrue
<1> QED
  BY <1>1, <1>3, <1>4, QuietStreamInv

LEMMA NextStreamInv ==
  ASSUME TypeOK, NothingLost, EndInv, StreamInv, [Next]_vars
  PROVE  StreamInv'
<1>1. \A e \in Ends : outcome[e] = {"Io"} => reader[e] = "idle"
  BY DEF StreamInv, OutcomeIsTrue
<1>2. /\ reader \in [Ends -> {"idle", "called", "reading"}] /\ fin \in [Ends -> BOOLEAN]
  BY DEF TypeOK
<1>3. CASE Listen \/ Connect \/ Accept \/ Break \/ Over \/ UNCHANGED vars
  <2>1. UNCHANGED <<framer, taken, received, sent, offered, wire, fin, reader, outcome>>
    BY <1>3 DEF Listen, Connect, Accept, Break, Over, vars, recvVars, sendVars
  <2> QED
    BY <1>1, <2>1, QuietStreamInv
<1>4. ASSUME NEW e \in Ends, Send(e) \/ WriteFails(e) \/ CancelSend(e) \/ SplitUp(e) \/ Shutdown(e)
      PROVE  StreamInv'
  <2>1. /\ UNCHANGED <<framer, taken, received, sent, offered, wire, reader, outcome>>
        /\ \A o \in Ends : fin[o] => fin'[o]
    BY <1>2, <1>4 DEF Send, WriteFails, CancelSend, SplitUp, Shutdown, recvVars, sendVars
  <2> QED
    BY <1>1, <2>1, QuietStreamInv
<1>5. ASSUME NEW e \in Ends, Recv(e) \/ CancelRecv(e) \/ Drop(e)
      PROVE  StreamInv'
  <2>1. /\ UNCHANGED <<framer, taken, received, sent, offered, wire, outcome>>
        /\ \A o \in Ends : fin[o] => fin'[o]
    BY <1>2, <1>5 DEF Recv, CancelRecv, Drop, sendVars
  <2>2. \A o \in Ends : reader'[o] = "reading" => reader[o] = "reading"
    BY <1>2, <1>5 DEF Recv, CancelRecv, Drop
  <2>3. \A o \in Ends : outcome[o] = {"Io"} => reader'[o] = "idle"
    BY <1>1, <1>2, <1>5 DEF Recv, CancelRecv, Drop
  <2> QED
    BY <2>1, <2>2, <2>3, QuietStreamInv
<1> QED
  BY <1>3, <1>4, <1>5, PollStreamInv, ReadStreamInv, WriteStreamInv, ReadEndStreamInv,
     ReadFailsStreamInv DEF Next

\* The concatenation of byte strings is one.
LEMMA FlatIsBytes ==
  ASSUME NEW parts \in Seq(Seq(Bytes))
  PROVE  Flat(parts) \in Seq(Bytes)
<1> DEFINE N        == Len(parts)
           step     == [i \in 1 .. N |-> [s \in Seq(Bytes) |-> s \o parts[i]]]
           Right(g) == [n \in 0 .. N |-> IF n = 0 THEN <<>> ELSE g[n - 1] \o parts[n]]
           flat     == CHOOSE g : g = Right(g)
<1>1. N \in Nat /\ <<>> \in Seq(Bytes)
  BY LenProperties, EmptySeq
<1>2. \A n \in 1 .. N : parts[n] \in Seq(Bytes)
  BY ElementOfSeq
<1>3. step \in Steps(N, Seq(Bytes))
  <2>1. \A i \in 1 .. N, s \in Seq(Bytes) : s \o parts[i] \in Seq(Bytes)
    BY <1>2, ConcatProperties
  <2> QED
    BY <2>1 DEF Steps
<1>4. PICK g : Follows(g, N, Seq(Bytes), <<>>, step)
  <2> HIDE DEF N, step
  <2> QED
    BY <1>1, <1>3, Recursion
<1>5. /\ g \in [0 .. N -> Seq(Bytes)] /\ g[0] = <<>>
      /\ \A n \in 1 .. N : g[n] = g[n - 1] \o parts[n]
  <2>1. /\ g \in [0 .. N -> Seq(Bytes)] /\ g[0] = <<>>
        /\ \A n \in 1 .. N : g[n] = step[n][g[n - 1]]
    BY <1>4 DEF Follows
  <2>2. ASSUME NEW n \in 1 .. N PROVE step[n][g[n - 1]] = g[n - 1] \o parts[n]
    <3>1. n - 1 \in 0 .. N
      BY <1>1
    <3>2. g[n - 1] \in Seq(Bytes)
      BY <2>1, <3>1
    <3> QED
      BY <3>2
  <2> HIDE DEF step
  <2> QED
    BY <2>1, <2>2
<1>6. g = Right(g)
  BY <1>5
<1>7. flat = Right(flat)
  <2> HIDE DEF Right
  <2> QED
    BY <1>6
<1>8. Flat(parts) = flat[N]
  BY DEF Flat
<1> HIDE DEF flat
<1> DEFINE S == {n \in Nat : n <= N => flat[n] \in Seq(Bytes)}
<1>9. 0 \in S
  BY <1>1, <1>7
<1>10. ASSUME NEW n \in Nat, n \in S PROVE n + 1 \in S
  <2> SUFFICES ASSUME n + 1 <= N PROVE flat[n + 1] \in Seq(Bytes)
    OBVIOUS
  <2>1. n + 1 \in 1 .. N /\ (n + 1) - 1 = n /\ n <= N
    BY <1>1
  <2>2. flat[n + 1] = flat[n] \o parts[n + 1]
    <3>1. n + 1 \in 0 .. N /\ n + 1 # 0
      BY <2>1
    <3>2. flat[n + 1] = Right(flat)[n + 1]
      <4> HIDE DEF Right
      <4> QED
        BY <1>7
    <3>3. Right(flat)[n + 1] = flat[(n + 1) - 1] \o parts[n + 1]
      BY <3>1
    <3> QED
      BY <2>1, <3>2, <3>3
  <2>3. flat[n] \in Seq(Bytes) /\ parts[n + 1] \in Seq(Bytes)
    BY <1>2, <1>10, <2>1
  <2> QED
    BY <2>2, <2>3, ConcatProperties
<1>11. N \in S
  <2> HIDE DEF S
  <2> QED
    BY <1>1, <1>9, <1>10, Induction
<1> QED
  BY <1>1, <1>8, <1>11

LEMMA PromisedIsBytes ==
  ASSUME TypeOK, NEW e \in Ends
  PROVE  \E more \in Seq(Bytes) : Promised(e) = sent[e] \o more
<1> DEFINE now   == IF pending[e] = {} THEN <<>> ELSE CHOOSE b \in pending[e] : TRUE
           later == Flat(calls[e])
<1>1. sent[e] \in Seq(Bytes) /\ now \in Seq(Bytes)
  BY EmptySeq DEF TypeOK
<1>2. later \in Seq(Bytes)
  BY FlatIsBytes DEF TypeOK
<1>3. Promised(e) = (sent[e] \o now) \o later
  BY DEF Promised
<1> HIDE DEF now, later
<1>4. now \o later \in Seq(Bytes) /\ (sent[e] \o now) \o later = sent[e] \o (now \o later)
  BY <1>1, <1>2, <1>3, ConcatProperties, Associate
<1> QED
  BY <1>3, <1>4

\* The receiver is told of an incomplete message only if there is one, and
\* a stream is given up only if it holds no further message, in what the peer
\* has sent and in what it may still send (closed_at_boundary, next_message).
THEOREM FailedEnds == Spec => []FailedEndsAreRight
<1>1. ASSUME TypeOK, NothingLost, StreamInv PROVE FailedEndsAreRight
  <2> SUFFICES ASSUME NEW e \in Ends
               PROVE  /\ "truncated" \in outcome[e] =>
                           /\ fin[Peer(e)] /\ taken[e] # sent[Peer(e)]
                           /\ Raws(received[e]) = offered[Peer(e)]
                      /\ "Framing" \in outcome[e] =>
                           Raws(received[e]) = Cut(Promised(Peer(e)))
    BY DEF FailedEndsAreRight
  <2> DEFINE p == Peer(e)
             b == framer[e].buf
  <2>1. /\ OutcomeIsTrue(e) /\ TookTheMessages(e) /\ GaveUpRightly(e)
        /\ p \in Ends /\ offered[p] = Cut(sent[p])
    BY <1>1, PeerFacts DEF StreamInv
  <2>2. taken[e] \in Seq(Bytes) /\ b \in Seq(Bytes) /\ sent[p] \in Seq(Bytes)
        /\ received[e] \in Seq(Messages)
    BY <1>1, <2>1 DEF TypeOK, Framers, StreamInv
  <2>3. ASSUME "truncated" \in outcome[e]
        PROVE  fin[p] /\ taken[e] # sent[p] /\ Raws(received[e]) = offered[p]
    <3>1. outcome[e] = {"truncated"}
      BY <2>1, <2>3 DEF OutcomeIsTrue
    <3>2. fin[p] /\ wire[p] = <<>> /\ HasLooked(e) /\ b # <<>>
      BY <2>1, <3>1 DEF OutcomeIsTrue
    <3>3. sent[p] = taken[e] \o b
      <4>1. sent[p] = (taken[e] \o b) \o <<>>
        BY <1>1, <3>2, SeenFromReceiver DEF ArrivesWhole, HasLooked
      <4>2. taken[e] \o b \in Seq(Bytes)
        BY <2>2, ConcatProperties
      <4> QED
        BY <4>1, <4>2, ConcatEmptySeq
    <3>4. taken[e] # sent[p]
      <4>1. Len(sent[p]) = Len(taken[e]) + Len(b) /\ Len(taken[e]) \in Nat
        BY <2>2, <3>3, ConcatProperties, LenProperties
      <4>2. Len(b) \in Nat \ {0}
        BY <2>2, <3>2, EmptySeq, LenProperties
      <4> HIDE DEF b, p
      <4> QED
        BY <4>1, <4>2
    <3>5. Cut(sent[p]) = Raws(received[e]) \o Cut(b)
      BY <2>1, <2>2, <3>3 DEF TookTheMessages
    <3>6. Cut(b) = <<>>
      <4>1. Layout(b).status # "frame"
        BY <3>2 DEF HasLooked, Incomplete
      <4> HIDE DEF b
      <4> QED
        BY <2>2, <4>1, CutIsLayout
    <3>7. Raws(received[e]) \o <<>> = Raws(received[e])
      BY <2>2, RawsOf, ConcatEmptySeq
    <3> QED
      BY <2>1, <3>2, <3>4, <3>5, <3>6, <3>7
  <2>4. ASSUME "Framing" \in outcome[e] PROVE Raws(received[e]) = Cut(Promised(p))
    <3>1. framer[e].failed # {}
      BY <2>1, <2>4 DEF OutcomeIsTrue
    <3>2. PICK more \in Seq(Bytes) : Promised(p) = sent[p] \o more
      BY <1>1, <2>1, PromisedIsBytes
    <3> QED
      BY <2>1, <3>1, <3>2 DEF GaveUpRightly
  <2> QED
    BY <2>3, <2>4
<1>2. TypeOK /\ NothingLost /\ EndInv /\ StreamInv /\ [Next]_vars
        => (TypeOK /\ NothingLost /\ EndInv /\ StreamInv)'
  BY NextTypeOK, NextNothingLost, NextEndInv, NextStreamInv
<1>3. Init => TypeOK /\ NothingLost /\ EndInv /\ StreamInv
  BY InitTypeOK, InitNothingLost, InitEndInv, InitStreamInv
<1> QED
  BY <1>1, <1>2, <1>3, PTL DEF Spec

-----------------------------------------------------------------------------
(* The refinement.                                                         *)

\* The stream to e; ToServer and ToClient are the two of them.
StreamTo(e) == INSTANCE MessageStream
                 WITH offered <- offered[Peer(e)], received <- Raws(received[e]),
                      open <- ~fin[Peer(e)], broken <- reset, outcome <- Told(e)

\* All messages of a stream: those taken, and those of the bytes to come.
ReceivedFirst ==
  \A e \in Ends : framer[e].failed = {} =>
    offered[Peer(e)] = Raws(received[e]) \o Cut(framer[e].buf \o wire[Peer(e)])

LEMMA OfferedIsReceivedFirst == TypeOK /\ NothingLost /\ StreamInv => ReceivedFirst
<1> SUFFICES ASSUME TypeOK, NothingLost, StreamInv, NEW e \in Ends, framer[e].failed = {}
             PROVE  offered[Peer(e)] = Raws(received[e]) \o Cut(framer[e].buf \o wire[Peer(e)])
  BY DEF ReceivedFirst
<1> DEFINE b == framer[e].buf
           w == wire[Peer(e)]
<1>1. /\ taken[e] \in Seq(Bytes) /\ b \in Seq(Bytes) /\ w \in Seq(Bytes)
      /\ sent[Peer(e)] = (taken[e] \o b) \o w /\ TookTheMessages(e)
      /\ offered[Peer(e)] = Cut(sent[Peer(e)])
  BY PeerFacts, SeenFromReceiver DEF TypeOK, Framers, StreamInv, ArrivesWhole
<1> HIDE DEF b, w
<1>2. b \o w \in Seq(Bytes) /\ sent[Peer(e)] = taken[e] \o (b \o w)
  BY <1>1, ConcatProperties, Associate
<1> QED
  BY <1>1, <1>2 DEF TookTheMessages, b, w

\* The steps of the stream, in the variables of the connection.
LEMMA StreamSteps ==
  ASSUME NEW e \in Ends,
         \/ UNCHANGED <<offered[Peer(e)], received[e], fin[Peer(e)], reset, outcome[e]>>
         \/ /\ ~fin[Peer(e)] /\ IsPrefixOf(offered[Peer(e)], offered'[Peer(e)])
            /\ reset' \in {reset, TRUE}
            /\ UNCHANGED <<received[e], fin[Peer(e)], outcome[e]>>
         \/ /\ fin'[Peer(e)] /\ reset' \in {reset, TRUE}
            /\ UNCHANGED <<offered[Peer(e)], received[e], outcome[e]>>
         \/ /\ reset' = TRUE
            /\ UNCHANGED <<offered[Peer(e)], received[e], fin[Peer(e)], outcome[e]>>
         \/ /\ outcome[e] = {} /\ Len(Raws(received[e])) < Len(offered[Peer(e)])
            /\ Raws(received'[e]) =
                 Append(Raws(received[e]), offered[Peer(e)][Len(Raws(received[e])) + 1])
            /\ UNCHANGED <<offered[Peer(e)], fin[Peer(e)], reset, outcome[e]>>
         \/ /\ fin[Peer(e)] /\ outcome[e] \in {{}, {"closed"}}
            /\ Raws(received[e]) = offered[Peer(e)] /\ outcome'[e] = {"closed"}
            /\ UNCHANGED <<offered[Peer(e)], received[e], fin[Peer(e)], reset>>
         \/ /\ Raws(received[e]) = offered[Peer(e)] \/ reset
            /\ outcome'[e] \notin {{}, {"closed"}}
            /\ UNCHANGED <<offered[Peer(e)], received[e], fin[Peer(e)], reset>>
  PROVE  [StreamTo(e)!Next]_(StreamTo(e)!vars)
<1>1. Peer(e)' = Peer(e)
  BY DEF Peer
<1> QED
  BY <1>1 DEF StreamTo!Next, StreamTo!vars, StreamTo!Offer, StreamTo!Finish, StreamTo!Break,
     StreamTo!Deliver, StreamTo!EndCleanly, StreamTo!Fail, StreamTo!Extends, IsPrefixOf, Told, Raws

LEMMA StreamsAre ==
  /\ StreamTo("server")!Init <=> ToServer!Init
  /\ StreamTo("client")!Init <=> ToClient!Init
  /\ [StreamTo("server")!Next]_(StreamTo("server")!vars) <=> [ToServer!Next]_(ToServer!vars)
  /\ [StreamTo("client")!Next]_(StreamTo("client")!vars) <=> [ToClient!Next]_(ToClient!vars)
<1>1. Peer("server") = "client" /\ Peer("client") = "server"
  BY DEF Peer
<1>2. /\ StreamTo("server")!Init <=> ToServer!Init
      /\ StreamTo("client")!Init <=> ToClient!Init
  BY <1>1 DEF StreamTo!Init, ToServer!Init, ToClient!Init
<1>3. [StreamTo("server")!Next]_(StreamTo("server")!vars) <=> [ToServer!Next]_(ToServer!vars)
  BY <1>1 DEF StreamTo!vars, StreamTo!Next, StreamTo!Offer, StreamTo!Finish, StreamTo!Break,
     StreamTo!Deliver, StreamTo!EndCleanly, StreamTo!Fail, StreamTo!Extends,
     ToServer!vars, ToServer!Next, ToServer!Offer, ToServer!Finish, ToServer!Break,
     ToServer!Deliver, ToServer!EndCleanly, ToServer!Fail, ToServer!Extends, Peer
<1>4. [StreamTo("client")!Next]_(StreamTo("client")!vars) <=> [ToClient!Next]_(ToClient!vars)
  BY <1>1 DEF StreamTo!vars, StreamTo!Next, StreamTo!Offer, StreamTo!Finish, StreamTo!Break,
     StreamTo!Deliver, StreamTo!EndCleanly, StreamTo!Fail, StreamTo!Extends,
     ToClient!vars, ToClient!Next, ToClient!Offer, ToClient!Finish, ToClient!Break,
     ToClient!Deliver, ToClient!EndCleanly, ToClient!Fail, ToClient!Extends, Peer
<1> QED
  BY <1>2, <1>3, <1>4

StreamStep(e) == [StreamTo(e)!Next]_(StreamTo(e)!vars)

\* A turn of the receive loop delivers the next message, gives the stream up
\* after its last one, or changes nothing that the stream knows of.
LEMMA FramedIsAStep ==
  ASSUME TypeOK, StreamInv, NEW e \in Ends, NEW f \in Framers, Asks(e, f), Framed(e, f),
         TypeOK', StreamInv', ReceivedFirst', UNCHANGED <<offered, fin, reset>>
  PROVE  StreamStep(e)
<1>1. /\ received[e] \in Seq(Messages) /\ outcome \in [Ends -> SUBSET Outcomes]
      /\ received \in [Ends -> Seq(Messages)]
  BY DEF TypeOK, StreamInv
<1>2. CASE WaitsForMore(e, f)
  BY <1>2, StreamSteps DEF WaitsForMore, StreamStep
<1>3. ASSUME NEW m \in Messages, TakesMessage(e, f, m) PROVE StreamStep(e)
  <2> DEFINE old == Raws(received[e])
             new == Raws(received'[e])
             all == offered[Peer(e)]
  <2>1. outcome[e] = {}
    BY <1>3, TakesBeforeTheEnd
  <2>2. /\ UNCHANGED outcome /\ received'[e] = Append(received[e], m)
        /\ framer'[e].failed = {} /\ framer'[e].buf \in Seq(Bytes) /\ m.raw \in Seq(Bytes)
    BY <1>1, <1>3 DEF TakesMessage
  <2>3. all = new \o Cut(framer'[e].buf \o wire'[Peer(e)])
    BY <2>2 DEF ReceivedFirst, Peer
  <2>4. /\ old \in Seq(Seq(Bytes)) /\ new = old \o <<m.raw>> /\ Len(old) \in Nat
    BY <1>1, <2>2, RawsOf, LenProperties
  <2>5. Cut(framer'[e].buf \o wire'[Peer(e)]) \in Seq(Seq(Bytes))
    <3>1. wire'[Peer(e)] \in Seq(Bytes)
      BY PeerFacts DEF TypeOK
    <3>2. framer'[e].buf \o wire'[Peer(e)] \in Seq(Bytes)
      BY <2>2, <3>1, ConcatProperties
    <3> QED
      BY <3>2, CutIsLayout
  <2> HIDE DEF old, new, all
  <2>6. new = Append(old, m.raw) /\ new \in Seq(Seq(Bytes)) /\ Len(new) = Len(old) + 1
        /\ new[Len(old) + 1] = m.raw
    <3>1. <<m.raw>> \in Seq(Seq(Bytes)) /\ Len(<<m.raw>>) = 1 /\ <<m.raw>>[1] = m.raw
      BY <2>2
    <3>2. Append(old, m.raw) = old \o <<m.raw>>
      BY <2>2, <2>4, AppendIsConcat
    <3> QED
      BY <2>2, <2>4, <3>2, AppendProperties
  <2>7. IsPrefixOf(new, all)
    BY <2>3, <2>5, <2>6, PrefixOfConcat
  <2>8. all \in Seq(Seq(Bytes)) /\ Len(all) \in Nat
    <3>1. all \in Seq(Seq(Bytes))
      BY <2>3, <2>5, <2>6, ConcatProperties
    <3> QED
      BY <3>1, LenProperties
  <2>9. Len(old) < Len(all) /\ all[Len(old) + 1] = m.raw
    <3>1. Len(new) <= Len(all) /\ new = SubSeq(all, 1, Len(new))
      BY <2>7 DEF IsPrefixOf
    <3>2. Len(old) + 1 \in 1 .. Len(new) /\ Len(new) \in 0 .. Len(all)
      BY <2>4, <2>6, <2>8, <3>1
    <3>3. SubSeq(all, 1, Len(new))[Len(old) + 1] = all[Len(old) + 1]
      BY <2>8, <3>2, SubSeqFacts
    <3> QED
      BY <2>4, <2>6, <2>8, <3>1, <3>3
  <2> QED
    BY <2>1, <2>2, <2>6, <2>9, StreamSteps DEF StreamStep, old, new, all
<1>4. CASE GivesUp(e, f)
  <2>1. outcome'[e] = {"Framing"} /\ UNCHANGED received /\ framer'[e].failed # {}
    BY <1>1, <1>4 DEF GivesUp
  <2>2. Raws(received[e]) = offered[Peer(e)]
    <3>1. GaveUpRightly(e)' /\ offered'[Peer(e)] = Cut(sent'[Peer(e)]) /\ sent'[Peer(e)] \in Seq(Bytes)
      BY PeerFacts DEF StreamInv, TypeOK
    <3>2. Cut(sent'[Peer(e)] \o <<>>) = Raws(received'[e])
      BY <2>1, <3>1, EmptySeq DEF GaveUpRightly, Peer
    <3> QED
      BY <2>1, <3>1, <3>2, ConcatEmptySeq
  <2> QED
    BY <2>1, <2>2, StreamSteps DEF StreamStep
<1> QED
  BY <1>2, <1>3, <1>4, FramedDoes

\* The turns of the other receiver are none of the stream's.
LEMMA FramedElsewhere ==
  ASSUME TypeOK, StreamInv, NEW a \in Ends, NEW f \in Framers, Framed(a, f), NEW e \in Ends \ {a},
         UNCHANGED <<offered, fin, reset>>
  PROVE  StreamStep(e)
<1>1. outcome'[e] = outcome[e] /\ received'[e] = received[e]
  <2>1. outcome \in [Ends -> SUBSET Outcomes] /\ received \in [Ends -> Seq(Messages)]
    BY DEF TypeOK, StreamInv
  <2>2. CASE WaitsForMore(a, f)
    BY <2>2 DEF WaitsForMore
  <2>3. ASSUME NEW m \in Messages, TakesMessage(a, f, m)
        PROVE  outcome'[e] = outcome[e] /\ received'[e] = received[e]
    BY <2>1, <2>3 DEF TakesMessage
  <2>4. CASE GivesUp(a, f)
    BY <2>1, <2>4 DEF GivesUp
  <2> QED
    BY <2>2, <2>3, <2>4, FramedDoes
<1> QED
  BY <1>1, StreamSteps DEF StreamStep

LEMMA ReadEndIsAStep ==
  ASSUME TypeOK, NothingLost, StreamInv, NEW a \in Ends, ReadEnd(a), NEW e \in Ends
  PROVE  StreamStep(e)
<1>1. /\ reader[a] = "reading" /\ fin[Peer(a)] /\ wire[Peer(a)] = <<>>
      /\ outcome' = [outcome EXCEPT ![a] = {ClosedAtBoundary(framer[a])}]
      /\ outcome \in [Ends -> SUBSET Outcomes]
      /\ UNCHANGED <<offered, received, fin, reset>>
  BY DEF ReadEnd, sendVars, TypeOK
<1>2. CASE e # a
  BY <1>1, <1>2, StreamSteps DEF StreamStep
<1>3. CASE e = a
  <2>1. HasLooked(a) /\ OutcomeIsTrue(a) /\ framer[a].buf \in Seq(Bytes)
        /\ received[a] \in Seq(Messages)
    BY <1>1 DEF StreamInv, TypeOK, Framers
  <2>2. Raws(received[a]) = offered[Peer(a)]
    <3>1. offered[Peer(a)] = Raws(received[a]) \o Cut(framer[a].buf \o <<>>)
      BY <1>1, <2>1, OfferedIsReceivedFirst DEF HasLooked, ReceivedFirst
    <3>2. framer[a].buf \o <<>> = framer[a].buf
      BY <2>1, ConcatEmptySeq
    <3>3. Cut(framer[a].buf) = <<>>
      <4>1. Layout(framer[a].buf).status # "frame"
        BY <2>1 DEF HasLooked, Incomplete
      <4> QED
        BY <2>1, <4>1, CutIsLayout
    <3>4. Raws(received[a]) \o <<>> = Raws(received[a])
      BY <2>1, RawsOf, ConcatEmptySeq
    <3> QED
      BY <3>1, <3>2, <3>3, <3>4
  <2>3. outcome'[a] = {ClosedAtBoundary(framer[a])}
    BY <1>1
  <2>4. CASE framer[a].buf = <<>>
    <3>1. outcome'[a] = {"closed"}
      BY <2>3, <2>4 DEF ClosedAtBoundary
    <3>2. outcome[a] \in {{}, {"closed"}}
      <4>1. outcome[a] # {"Framing"} /\ outcome[a] # {"Io"} /\ outcome[a] # {"truncated"}
        BY <1>1, <2>1, <2>4 DEF OutcomeIsTrue, HasLooked
      <4> QED
        BY <2>1, <4>1 DEF OutcomeIsTrue, Outcomes
    <3> QED
      BY <1>1, <1>3, <2>2, <3>1, <3>2, StreamSteps DEF StreamStep
  <2>5. CASE framer[a].buf # <<>>
    <3>1. outcome'[a] = {"truncated"}
      BY <2>3, <2>5 DEF ClosedAtBoundary
    <3> QED
      BY <1>1, <1>3, <2>2, <3>1, StreamSteps DEF StreamStep
  <2> QED
    BY <2>4, <2>5
<1> QED
  BY <1>2, <1>3

LEMMA SendsAreSteps ==
  ASSUME TypeOK, EndInv, StreamInv, NEW a \in Ends, NEW e \in Ends,
         Write(a) \/ Shutdown(a) \/ Drop(a) \/ ReadFails(a)
  PROVE  StreamStep(e)
<1>1. /\ offered \in [Ends -> Seq(Seq(Bytes))] /\ fin \in [Ends -> BOOLEAN] /\ reset \in BOOLEAN
      /\ outcome \in [Ends -> SUBSET Outcomes] /\ Peer(e) \in Ends
      /\ e # Peer(e) /\ (a = e \/ a = Peer(e))
  BY DEF TypeOK, StreamInv, Ends, Peer
<1>2. CASE Write(a)
  <2>1. /\ UNCHANGED <<received, fin, outcome>> /\ ~fin[a] /\ reset' \in {reset, TRUE}
        /\ IsPrefixOf(offered[a], offered'[a])
    BY <1>1, <1>2, WriteStreamInv DEF Write, recvVars, EndInv
  <2>2. CASE a = Peer(e)
    BY <1>1, <2>1, <2>2, StreamSteps DEF StreamStep
  <2>3. CASE a = e
    <3>1. offered'[Peer(e)] = offered[Peer(e)]
      BY <1>1, <1>2, <2>3 DEF Write, Takes
    <3>2. reset' = reset \/ reset' = TRUE
      BY <2>1
    <3> QED
      BY <2>1, <3>1, <3>2, StreamSteps DEF StreamStep
  <2> QED
    BY <1>1, <2>2, <2>3
<1>3. CASE Shutdown(a)
  <2>1. /\ UNCHANGED <<received, offered, reset, outcome>>
        /\ fin' = [fin EXCEPT ![a] = TRUE]
    BY <1>3 DEF Shutdown, recvVars, sendVars
  <2>2. fin'[Peer(e)] \/ fin'[Peer(e)] = fin[Peer(e)]
    BY <1>1, <2>1
  <2> QED
    BY <2>1, <2>2, StreamSteps DEF StreamStep
<1>4. CASE Drop(a)
  <2>1. /\ UNCHANGED <<received, offered, outcome>> /\ reset' \in {reset, TRUE}
        /\ fin' = [fin EXCEPT ![a] = TRUE]
    BY <1>1, <1>4 DEF Drop
  <2>2. fin'[Peer(e)] \/ fin'[Peer(e)] = fin[Peer(e)]
    BY <1>1, <2>1
  <2>3. reset' = reset \/ reset' = TRUE
    BY <2>1
  <2> QED
    BY <2>1, <2>2, <2>3, StreamSteps DEF StreamStep
<1>5. CASE ReadFails(a)
  <2>1. reset /\ UNCHANGED <<received, offered, fin, reset>>
        /\ outcome' = [outcome EXCEPT ![a] = {"Io"}]
    BY <1>5 DEF ReadFails, sendVars
  <2>2. outcome'[e] = outcome[e] \/ outcome'[e] = {"Io"}
    BY <1>1, <2>1
  <2> QED
    BY <2>1, <2>2, StreamSteps DEF StreamStep
<1> QED
  BY <1>2, <1>3, <1>4, <1>5

LEMMA NextIsAStep ==
  ASSUME TypeOK, NothingLost, EndInv, StreamInv, TypeOK', StreamInv', ReceivedFirst',
         [Next]_vars, NEW e \in Ends
  PROVE  StreamStep(e)
<1>1. ASSUME UNCHANGED <<offered, received, fin, reset, outcome>> PROVE StreamStep(e)
  BY <1>1, StreamSteps DEF StreamStep
<1>2. CASE Listen \/ Connect \/ Accept \/ Over \/ UNCHANGED vars
  BY <1>1, <1>2 DEF Listen, Connect, Accept, Over, vars, recvVars, sendVars
<1>3. CASE Break
  <2>1. reset' = TRUE /\ UNCHANGED <<offered, received, fin, outcome>>
    BY <1>3 DEF Break, recvVars, sendVars
  <2> QED
    BY <2>1, StreamSteps DEF StreamStep
<1>4. ASSUME NEW a \in Ends, Recv(a) \/ CancelRecv(a) \/ Send(a) \/ WriteFails(a) \/ CancelSend(a)
                             \/ SplitUp(a)
      PROVE  StreamStep(e)
  BY <1>1, <1>4 DEF Recv, CancelRecv, Send, WriteFails, CancelSend, SplitUp, recvVars, sendVars
<1>5. ASSUME NEW a \in Ends, Poll(a) PROVE StreamStep(e)
  <2>1. /\ Framed(a, framer[a]) /\ Asks(a, framer[a]) /\ framer[a] \in Framers
        /\ UNCHANGED <<offered, fin, reset>>
    BY <1>5, PollStreamInv DEF Poll, sendVars, TypeOK
  <2> QED
    BY <2>1, FramedIsAStep, FramedElsewhere
<1>6. ASSUME NEW a \in Ends, Read(a) PROVE StreamStep(e)
  <2>1. PICK f \in Framers : Framed(a, f) /\ Asks(a, f)
    BY <1>6, ReadStreamInv
  <2>2. UNCHANGED <<offered, fin, reset>>
    BY <1>6 DEF Read
  <2> QED
    BY <2>1, <2>2, FramedIsAStep, FramedElsewhere
<1> QED
  BY <1>2, <1>3, <1>4, <1>5, <1>6, ReadEndIsAStep, SendsAreSteps DEF Next

LEMMA InitIsAnInit == Init => \A e \in Ends : StreamTo(e)!Init
<1> SUFFICES ASSUME Init, NEW e \in Ends PROVE StreamTo(e)!Init
  OBVIOUS
<1>1. /\ offered[Peer(e)] = <<>> /\ received[e] = <<>> /\ ~fin[Peer(e)] /\ reset = FALSE
      /\ outcome[e] = {}
  BY PeerFacts DEF Init
<1> QED
  BY <1>1, NothingIsIncomplete DEF StreamTo!Init, Told

\* Each direction of a connection is a stream of messages: what recv_message
\* yields are the messages that the peer's bytes complete, once each and in
\* order, with Ok(None) only after the last of a closed stream, and an error
\* before the last one only if the connection broke.
THEOREM ConnectionIsTwoStreams == Spec => ImplementsStream
<1> DEFINE IInv == TypeOK /\ NothingLost /\ EndInv /\ StreamInv
<1>1. Init => IInv
  BY InitTypeOK, InitNothingLost, InitEndInv, InitStreamInv
<1>2. IInv /\ [Next]_vars => IInv'
  BY NextTypeOK, NextNothingLost, NextEndInv, NextStreamInv
<1>3. Init => ToServer!Init /\ ToClient!Init
  BY InitIsAnInit, StreamsAre DEF Ends
<1>4. IInv => ReceivedFirst
  BY OfferedIsReceivedFirst
<1>5. IInv /\ IInv' /\ ReceivedFirst' /\ [Next]_vars => [ToServer!Next]_(ToServer!vars) /\ [ToClient!Next]_(ToClient!vars)
  <2>1. "server" \in Ends /\ "client" \in Ends
    BY DEF Ends
  <2> QED
    BY <2>1, NextIsAStep, StreamsAre DEF StreamStep
<1> QED
  BY <1>1, <1>2, <1>3, <1>4, <1>5, PTL DEF Spec, ImplementsStream, ToServer!Spec, ToClient!Spec
=============================================================================

----------------------------- MODULE FixGrammar -----------------------------
(***************************************************************************)
(* The messages of a byte stream, by a grammar that knows of no chunks, no *)
(* buffer and no scanning: what the framer is held against.  It models no  *)
(* code; the grammar is the one that the doc comments of                   *)
(* src/protocols/fix.rs describe:                                          *)
(*   8=<value>|9=<n>|<n bytes>10=<ddd>|                                    *)
(* with both header fields inside the scan window and the whole inside the *)
(* size cap.                                                               *)
(***************************************************************************)
EXTENDS FixFramer

Free(s, byte) == \A i \in 1 .. Len(s) : s[i] # byte

\* 10 ^ i.
Tens[i \in 0 .. MaxMessageLen] == IF i = 0 THEN 1 ELSE 10 * Tens[i - 1]

\* The decimal digits s, leading zeros allowed, say the number n.
Says(s, n) ==
  /\ s # <<>>
  /\ n \in 0 .. Smaller(MaxNumber, Tens[Len(s)] - 1)
  /\ \A i \in 1 .. Len(s) : s[Len(s) + 1 - i] = (n \div Tens[i - 1]) % 10

\* m is a message whose header fields end at offsets a and b.
Splits(m, a, b) ==
  LET to == Len(m) - TailLen
  IN  /\ 2 <= a /\ a + 3 <= b /\ b < MaxHeaderScan /\ b < to + 1
      /\ SubSeq(m, 1, 2) = BeginString /\ Free(SubSeq(m, 1, a), SOH) /\ m[a + 1] = SOH
      /\ SubSeq(m, a + 2, a + 3) = BodyLength /\ m[b + 1] = SOH
      /\ Says(SubSeq(m, a + 4, b), to - (b + 1))
      /\ SubSeq(m, to + 1, to + 3) = CheckSum
      /\ \A i \in 4 .. 6 : m[to + i] \in Digits
      /\ m[Len(m)] = SOH

SOHs(m) == {o \in 0 .. Smaller(Len(m), MaxHeaderScan) - 1 : m[o + 1] = SOH}

IsMessage(m) == Len(m) <= MaxMessageLen /\ \E a, b \in SOHs(m) : Splits(m, a, b)

\* Where a message that begins at offset o ends.
MessageEnds(bytes, o) ==
  {n \in (o + 1) .. Smaller(Len(bytes), o + MaxMessageLen) :
     bytes[n] = SOH /\ IsMessage(SubSeq(bytes, o + 1, n))}

\* The messages at the front of a byte string, cut one after the other.
Cut(bytes) ==
  LET from[o \in 0 .. Len(bytes)] ==
        LET ends == MessageEnds(bytes, o)
        IN  IF ends = {} THEN <<>> ELSE <<SubSeq(bytes, o + 1, Least(ends))>> \o from[Least(ends)]
  IN  from[0]

Raws(msgs) == [i \in 1 .. Len(msgs) |-> msgs[i].raw]
IsPrefixOf(s, t) == Len(s) <= Len(t) /\ s = SubSeq(t, 1, Len(s))

\* Where the last field of the body with this tag has its value.
LastField(m, tag) ==
  LET body == (Least({o \in SOHs(m) : \E a \in SOHs(m) : Splits(m, a, o)}) + 1)
                .. (Len(m) - TailLen - 1)
      starts == {o \in body : /\ m[o] = SOH
                              /\ SubSeq(m, o + 1, o + 3) = tag \o <<Equals>>
                              /\ o + 3 <= Len(m) - TailLen}
  IN  IF starts = {} THEN {}
      ELSE LET o == CHOOSE o \in starts : \A x \in starts : x <= o
               end == Least({n \in (o + 3) .. (Len(m) - TailLen) : m[n + 1] = SOH
                                                  \/ n = Len(m) - TailLen})
           IN  {<<o + 3, end>>}
=============================================================================

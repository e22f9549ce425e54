--------------------------- MODULE FixFramerProofs ---------------------------
(***************************************************************************)
(* What the framer does to any buffer, proved for every size of buffer,    *)
(* message and number (src/protocols/fix.rs).                              *)
(***************************************************************************)
EXTENDS FixGrammar, Recursion, SequenceTheorems, TLAPS

\* A set of offsets has a least one, so Least finds it.
LEMMA LeastIsIn ==
  ASSUME NEW S \in SUBSET Nat, S # {}
  PROVE  Least(S) \in S /\ \A y \in S : Least(S) <= y
<1>1. \E x \in S : \A y \in S : x <= y
  BY LeastNat
<1> QED
  BY <1>1 DEF Least

\* A number that was parsed is a natural number.
LEMMA ParsedIsNat ==
  ASSUME NEW bytes
  PROVE  ParseDigits(bytes) \subseteq Nat
BY FramerAssumption DEF ParseDigits

\* A scan that finds nothing has seen less than a full window, and one that
\* finds something has found it in the buffer, inside the window.
LEMMA ScanSohSees ==
  ASSUME NEW buf \in Seq(Bytes), NEW from \in Nat
  PROVE  LET soh == ScanSoh(buf, from)
         IN  \/ soh = Incomplete /\ Len(buf) < MaxHeaderScan
             \/ soh.status = "failed" /\ soh.error \in FrameErrors
             \/ /\ soh.status = "found"
                /\ soh.at \in from .. (Len(buf) - 1)
                /\ buf[soh.at + 1] = SOH
<1> DEFINE hits == {o \in from .. (Smaller(Len(buf), MaxHeaderScan) - 1) : buf[o + 1] = SOH}
<1>1. hits \in SUBSET Nat /\ \A o \in hits : o \in from .. (Len(buf) - 1) /\ buf[o + 1] = SOH
  BY FramerAssumption DEF Smaller
<1>2. CASE hits # {}
  <2>1. ScanSoh(buf, from) = Found(Least(hits))
    BY <1>2 DEF ScanSoh
  <2>2. Least(hits) \in hits
    BY <1>1, <1>2, LeastIsIn
  <2> QED
    BY <1>1, <2>1, <2>2 DEF Found
<1>3. CASE hits = {}
  BY <1>3, FramerAssumption DEF ScanSoh, Failure, Incomplete, FrameErrors
<1> QED
  BY <1>2, <1>3

\* The answer of BodyLayout: wait only for less than a message, and cut only
\* what is there.
LEMMA BodyLayoutSees ==
  ASSUME NEW buf \in Seq(Bytes), NEW from \in Nat, NEW to \in Nat
  PROVE  LET layout == BodyLayout(buf, from, to)
         IN  \/ layout = Incomplete /\ Len(buf) < MaxMessageLen
             \/ layout.status = "failed" /\ layout.error \in FrameErrors
             \/ layout.status = "frame" /\ layout.len \in 1 .. Len(buf)
BY FramerAssumption DEF BodyLayout, Failure, Incomplete, Frame, FrameErrors, TailLen

\* The same of the whole layout.
LEMMA LayoutSees ==
  ASSUME NEW buf \in Seq(Bytes)
  PROVE  LET layout == Layout(buf)
         IN  \/ layout = Incomplete /\ Len(buf) < MaxMessageLen
             \/ layout.status = "failed" /\ layout.error \in FrameErrors
             \/ layout.status = "frame" /\ layout.len \in 1 .. Len(buf)
<1> DEFINE begin  == ScanSoh(buf, 0)
           start  == begin.at + 1
           soh    == ScanSoh(buf, start)
           number == ParseDigits(SubSeq(buf, start + 3, soh.at))
<1>1. CASE ~StartsWithPrefixOf(buf, BeginString)
  BY <1>1 DEF Layout, Failure, FrameErrors
<1>2. CASE StartsWithPrefixOf(buf, BeginString) /\ begin.status # "found"
  <2>1. Layout(buf) = begin
    BY <1>2 DEF Layout
  <2> QED
    BY <1>2, <2>1, ScanSohSees, FramerAssumption
<1>3. CASE StartsWithPrefixOf(buf, BeginString) /\ begin.status = "found"
  <2>1. start \in Nat
    BY <1>3, ScanSohSees DEF Incomplete
  <2>2. Layout(buf) = LengthLayout(buf, start)
    BY <1>3 DEF Layout
  <2>3. CASE ~StartsWithPrefixOf(SubSeq(buf, start + 1, Len(buf)), BodyLength)
    BY <2>2, <2>3 DEF LengthLayout, Failure, FrameErrors
  <2>4. CASE StartsWithPrefixOf(SubSeq(buf, start + 1, Len(buf)), BodyLength)
    <3>1. CASE soh.status # "found"
      <4>1. Layout(buf) = soh
        BY <2>2, <2>4, <3>1 DEF LengthLayout
      <4> QED
        BY <2>1, <3>1, <4>1, ScanSohSees, FramerAssumption
    <3>2. CASE soh.status = "found" /\ number = {}
      BY <2>2, <2>4, <3>2 DEF LengthLayout, Failure, FrameErrors
    <3>3. CASE soh.status = "found" /\ number # {}
      <4>1. soh.at \in Nat
        BY <2>1, <3>3, ScanSohSees DEF Incomplete
      <4>2. Least(number) \in Nat
        BY <3>3, ParsedIsNat, LeastIsIn
      <4>3. Layout(buf) = BodyLayout(buf, soh.at + 1, soh.at + 1 + Least(number))
        BY <2>2, <2>4, <3>3 DEF LengthLayout
      <4> QED
        BY <4>1, <4>2, <4>3, BodyLayoutSees
    <3> QED
      BY <3>1, <3>2, <3>3
  <2> QED
    BY <2>3, <2>4
<1> QED
  BY <1>1, <1>2, <1>3

-----------------------------------------------------------------------------
(* What was decided about a buffer stays decided when more bytes arrive:   *)
(* where the chunks of a stream end does not matter.                       *)

LEMMA LeastIsUnique ==
  ASSUME NEW S \in SUBSET Nat, NEW T \in SUBSET Nat, S # {}, S \subseteq T,
         \A x \in S, y \in T \ S : x <= y
  PROVE  Least(T) = Least(S)
<1>1. Least(S) \in S /\ \A y \in S : Least(S) <= y
  BY LeastIsIn
<1>2. Least(T) \in T /\ \A y \in T : Least(T) <= y
  BY LeastIsIn
<1>3. Least(S) <= Least(T)
  BY <1>1, <1>2
<1>4. Least(T) <= Least(S)
  BY <1>1, <1>2
<1>5. Least(S) \in Nat /\ Least(T) \in Nat
  BY <1>1, <1>2
<1> QED
  BY <1>3, <1>4, <1>5

LEMMA ConcatKeeps ==
  ASSUME NEW buf \in Seq(Bytes), NEW more \in Seq(Bytes)
  PROVE  /\ buf \o more \in Seq(Bytes)
         /\ Len(buf \o more) >= Len(buf)
         /\ \A i \in 1 .. Len(buf) : (buf \o more)[i] = buf[i]
         /\ \A m \in 1 .. (Len(buf) + 1), n \in 0 .. Len(buf) :
              SubSeq(buf \o more, m, n) = SubSeq(buf, m, n)
<1>1. /\ buf \o more \in Seq(Bytes)
      /\ Len(buf \o more) = Len(buf) + Len(more)
      /\ \A i \in 1 .. Len(buf) : (buf \o more)[i] = buf[i]
  BY ConcatProperties
<1>2. ASSUME NEW m \in 1 .. (Len(buf) + 1), NEW n \in 0 .. Len(buf)
      PROVE  SubSeq(buf \o more, m, n) = SubSeq(buf, m, n)
  <2>1. \A i \in m .. n : (buf \o more)[i] \in Bytes /\ buf[i] \in Bytes
    BY <1>1
  <2>2. m \in Int /\ n \in Int
    OBVIOUS
  <2>3. /\ SubSeq(buf \o more, m, n) \in Seq(Bytes)
        /\ Len(SubSeq(buf \o more, m, n)) = IF m <= n THEN n - m + 1 ELSE 0
        /\ \A i \in 1 .. n - m + 1 : SubSeq(buf \o more, m, n)[i] = (buf \o more)[m + i - 1]
    BY <2>1, <2>2, SubSeqProperties
  <2>4. /\ SubSeq(buf, m, n) \in Seq(Bytes)
        /\ Len(SubSeq(buf, m, n)) = IF m <= n THEN n - m + 1 ELSE 0
        /\ \A i \in 1 .. n - m + 1 : SubSeq(buf, m, n)[i] = buf[m + i - 1]
    BY <2>1, <2>2, SubSeqProperties
  <2>5. \A i \in 1 .. Len(SubSeq(buf, m, n)) : SubSeq(buf \o more, m, n)[i] = SubSeq(buf, m, n)[i]
    BY <1>1, <2>3, <2>4
  <2> QED
    BY <2>3, <2>4, <2>5, SeqEqual
<1> QED
  BY <1>1, <1>2, LenProperties

LEMMA ScanSohStable ==
  ASSUME NEW buf \in Seq(Bytes), NEW more \in Seq(Bytes), NEW from \in Nat,
         ScanSoh(buf, from) # Incomplete
  PROVE  ScanSoh(buf \o more, from) = ScanSoh(buf, from)
<1> DEFINE all == buf \o more
           hits(b) == {o \in from .. (Smaller(Len(b), MaxHeaderScan) - 1) : b[o + 1] = SOH}
<1>1. /\ all \in Seq(Bytes) /\ Len(all) \in Nat /\ Len(buf) \in Nat /\ Len(all) >= Len(buf)
      /\ \A i \in 1 .. Len(buf) : all[i] = buf[i]
  BY ConcatKeeps, LenProperties
<1>2. hits(buf) \in SUBSET Nat /\ hits(all) \in SUBSET Nat
  BY <1>1, FramerAssumption DEF Smaller
<1>3. hits(buf) \subseteq hits(all)
  BY <1>1, FramerAssumption DEF Smaller
<1>4. \A x \in hits(buf), y \in hits(all) \ hits(buf) : x <= y
  BY <1>1, FramerAssumption DEF Smaller
<1>5. CASE hits(buf) # {}
  <2>1. Least(hits(all)) = Least(hits(buf))
    BY <1>2, <1>3, <1>4, <1>5, LeastIsUnique
  <2>2. hits(all) # {}
    BY <1>3, <1>5
  <2>3. ScanSoh(all, from) = Found(Least(hits(all)))
    BY <2>2 DEF ScanSoh
  <2>4. ScanSoh(buf, from) = Found(Least(hits(buf)))
    BY <1>5 DEF ScanSoh
  <2> QED
    BY <2>1, <2>3, <2>4
<1>6. CASE hits(buf) = {}
  <2>1. Len(buf) >= MaxHeaderScan
    BY <1>6 DEF ScanSoh
  <2>2. hits(all) = {}
    BY <1>1, <1>6, <2>1, FramerAssumption DEF Smaller
  <2>3. Len(all) >= MaxHeaderScan
    BY <1>1, <2>1, FramerAssumption
  <2>4. ScanSoh(all, from) = Failure("HeaderTooLong")
    BY <2>2, <2>3 DEF ScanSoh
  <2>5. ScanSoh(buf, from) = Failure("HeaderTooLong")
    BY <1>6, <2>1 DEF ScanSoh
  <2> QED
    BY <2>4, <2>5
<1> QED
  BY <1>5, <1>6

LEMMA BodyLayoutStable ==
  ASSUME NEW buf \in Seq(Bytes), NEW more \in Seq(Bytes), NEW from \in Nat, NEW to \in Nat,
         BodyLayout(buf, from, to) # Incomplete
  PROVE  BodyLayout(buf \o more, from, to) = BodyLayout(buf, from, to)
<1>1. CASE to + TailLen > MaxMessageLen
  BY <1>1 DEF BodyLayout
<1>2. CASE ~(to + TailLen > MaxMessageLen)
  <2>1. ~(Len(buf) < to + TailLen)
    BY <1>2 DEF BodyLayout
  <2>2. to + 1 \in 1 .. (Len(buf) + 1) /\ to + TailLen \in 0 .. Len(buf)
    BY <2>1, LenProperties DEF TailLen
  <2>3. SubSeq(buf \o more, to + 1, to + TailLen) = SubSeq(buf, to + 1, to + TailLen)
    BY <2>2, ConcatKeeps
  <2>4. Len(buf) \in Nat /\ Len(buf \o more) \in Nat /\ Len(buf \o more) >= Len(buf)
    BY ConcatKeeps, LenProperties
  <2>5. ~(Len(buf \o more) < to + TailLen)
    BY <2>1, <2>4 DEF TailLen
  <2> QED
    BY <1>2, <2>1, <2>3, <2>5 DEF BodyLayout
<1> QED
  BY <1>1, <1>2

\* A prefix of two bytes that was seen is still there, one that was missed
\* is still missed.
LEMMA PrefixStable ==
  ASSUME NEW buf \in Seq(Bytes), NEW more \in Seq(Bytes), NEW prefix \in Seq(Bytes),
         Len(prefix) = 2
  PROVE  /\ ~StartsWithPrefixOf(buf, prefix) => ~StartsWithPrefixOf(buf \o more, prefix)
         /\ StartsWithPrefixOf(buf, prefix) /\ Len(buf) >= 2
              => StartsWithPrefixOf(buf \o more, prefix)
<1>1. /\ Len(buf \o more) \in Nat /\ Len(buf) \in Nat /\ Len(buf \o more) >= Len(buf)
      /\ \A i \in 1 .. Len(buf) : (buf \o more)[i] = buf[i]
  BY ConcatKeeps, LenProperties
<1> QED
  BY <1>1 DEF StartsWithPrefixOf, Smaller

\* The field that begins at `start` and the bytes behind it.
LEMMA RestOfConcat ==
  ASSUME NEW buf \in Seq(Bytes), NEW more \in Seq(Bytes), NEW start \in 0 .. Len(buf)
  PROVE  /\ SubSeq(buf, start + 1, Len(buf)) \in Seq(Bytes)
         /\ Len(SubSeq(buf, start + 1, Len(buf))) = Len(buf) - start
         /\ \A i \in 1 .. (Len(buf) - start) :
              SubSeq(buf, start + 1, Len(buf))[i] = buf[start + i]
         /\ SubSeq(buf \o more, start + 1, Len(buf \o more))
              = SubSeq(buf, start + 1, Len(buf)) \o more
<1> DEFINE all  == buf \o more
           rest == SubSeq(buf, start + 1, Len(buf))
           tail == SubSeq(all, start + 1, Len(all))
<1>1. Len(buf) \in Nat /\ Len(more) \in Nat
  BY LenProperties
<1>2. /\ all \in Seq(Bytes)
      /\ Len(all) = Len(buf) + Len(more)
      /\ \A i \in 1 .. Len(buf) + Len(more) :
           all[i] = IF i <= Len(buf) THEN buf[i] ELSE more[i - Len(buf)]
  BY ConcatProperties
<1>3. /\ rest \in Seq(Bytes)
      /\ Len(rest) = IF start + 1 <= Len(buf) THEN Len(buf) - (start + 1) + 1 ELSE 0
      /\ \A i \in 1 .. Len(buf) - (start + 1) + 1 : rest[i] = buf[start + 1 + i - 1]
  <2>1. \A i \in start + 1 .. Len(buf) : buf[i] \in Bytes
    BY <1>1
  <2> QED
    BY <1>1, <2>1, SubSeqProperties
<1>4. /\ tail \in Seq(Bytes)
      /\ Len(tail) = IF start + 1 <= Len(all) THEN Len(all) - (start + 1) + 1 ELSE 0
      /\ \A i \in 1 .. Len(all) - (start + 1) + 1 : tail[i] = all[start + 1 + i - 1]
  <2>1. \A i \in start + 1 .. Len(all) : all[i] \in Bytes
    BY <1>1, <1>2
  <2> QED
    BY <1>1, <1>2, <2>1, SubSeqProperties
<1>5. /\ Len(rest) = Len(buf) - start
      /\ \A i \in 1 .. Len(buf) - start : rest[i] = buf[start + i]
  BY <1>1, <1>3
<1>6. /\ Len(tail) = Len(rest) + Len(more)
      /\ \A i \in 1 .. Len(rest) + Len(more) : tail[i] = all[start + i]
  <2>1. Len(all) - start = Len(rest) + Len(more) /\ start + 1 <= Len(all) + 1
    BY <1>1, <1>2, <1>5
  <2>2. Len(tail) = Len(all) - start
    BY <1>1, <1>2, <1>4, <2>1
  <2>3. ASSUME NEW i \in 1 .. Len(rest) + Len(more)
        PROVE  tail[i] = all[start + i]
    <3>1. i \in 1 .. Len(all) - (start + 1) + 1
      BY <1>1, <1>2, <2>1
    <3>2. start + 1 + i - 1 = start + i
      BY <3>1
    <3> QED
      BY <1>4, <3>1, <3>2
  <2> QED
    BY <2>1, <2>2, <2>3
<1>7. /\ rest \o more \in Seq(Bytes)
      /\ Len(rest \o more) = Len(rest) + Len(more)
      /\ \A i \in 1 .. Len(rest) + Len(more) :
           (rest \o more)[i] = IF i <= Len(rest) THEN rest[i] ELSE more[i - Len(rest)]
  BY <1>3, ConcatProperties
<1>8. \A i \in 1 .. Len(tail) : tail[i] = (rest \o more)[i]
  BY <1>1, <1>2, <1>5, <1>6, <1>7
<1>9. tail = rest \o more
  BY <1>4, <1>6, <1>7, <1>8, SeqEqual
<1> QED
  BY <1>3, <1>5, <1>9

\* A SOH at or behind `start`, where a BodyLength field begins: two bytes of
\* the field at least are there.
LEMMA LengthFieldIsThere ==
  ASSUME NEW buf \in Seq(Bytes), NEW start \in 0 .. Len(buf),
         NEW at \in start .. (Len(buf) - 1), buf[at + 1] = SOH,
         StartsWithPrefixOf(SubSeq(buf, start + 1, Len(buf)), BodyLength)
  PROVE  start + 2 <= Len(buf)
<1> DEFINE rest == SubSeq(buf, start + 1, Len(buf))
<1>1. Len(buf) \in Nat /\ Len(BodyLength) = 2 /\ BodyLength[1] = 9
  BY LenProperties DEF BodyLength
<1>2. /\ Len(rest) = Len(buf) - start
      /\ \A i \in 1 .. (Len(buf) - start) : rest[i] = buf[start + i]
  BY RestOfConcat
<1>3. 1 \in 1 .. (Len(buf) - start) /\ 1 \in 1 .. Smaller(Len(rest), Len(BodyLength))
  BY <1>1, <1>2 DEF Smaller
<1>4. rest[1] = 9
  BY <1>1, <1>3 DEF StartsWithPrefixOf
<1>5. buf[start + 1] = 9
  BY <1>2, <1>3, <1>4
<1>6. at # start
  BY <1>5 DEF SOH
<1> QED
  BY <1>1, <1>6

\* Whatever follows a buffer in which a message or a failure was found: the
\* message is found again, and the failure too, though perhaps another one.
THEOREM LayoutStable ==
  ASSUME NEW buf \in Seq(Bytes), NEW more \in Seq(Bytes),
         Layout(buf) # Incomplete
  PROVE  \/ Layout(buf \o more) = Layout(buf)
         \/ Layout(buf).status = "failed" /\ Layout(buf \o more).status = "failed"
<1> DEFINE all    == buf \o more
           begin  == ScanSoh(buf, 0)
           start  == begin.at + 1
           soh    == ScanSoh(buf, start)
           rest   == SubSeq(buf, start + 1, Len(buf))
           number == ParseDigits(SubSeq(buf, start + 3, soh.at))
<1>0. Len(buf) \in Nat
  BY LenProperties
<1>1. /\ all \in Seq(Bytes) /\ Len(buf) \in Nat
      /\ BeginString \in Seq(Bytes) /\ Len(BeginString) = 2 /\ BeginString[1] = 8
      /\ BodyLength \in Seq(Bytes) /\ Len(BodyLength) = 2 /\ BodyLength[1] = 9
  BY ConcatKeeps, LenProperties DEF BeginString, BodyLength, Equals, Bytes
<1>2. CASE ~StartsWithPrefixOf(buf, BeginString)
  <2>1. ~StartsWithPrefixOf(all, BeginString)
    BY <1>1, <1>2, PrefixStable
  <2> QED
    BY <1>2, <2>1 DEF Layout
<1>3. CASE StartsWithPrefixOf(buf, BeginString) /\ begin.status # "found"
  <2>1. Layout(buf) = begin
    BY <1>3 DEF Layout
  <2>2. begin # Incomplete
    BY <2>1
  <2>3. ScanSoh(all, 0) = begin
    BY <2>2, ScanSohStable
  <2>4. begin.status = "failed"
    BY <1>3, <2>2, ScanSohSees
  <2>5. Layout(all) = begin \/ Layout(all) = Failure("NotFixStream")
    BY <1>3, <2>3 DEF Layout
  <2> QED
    BY <2>1, <2>4, <2>5 DEF Failure
<1>4. CASE StartsWithPrefixOf(buf, BeginString) /\ begin.status = "found"
  <2>1. begin # Incomplete /\ begin.at \in 0 .. (Len(buf) - 1) /\ buf[begin.at + 1] = SOH
    BY <1>4, ScanSohSees DEF Incomplete
  <2>2. start \in 0 .. Len(buf) /\ start \in Nat
    BY <1>1, <2>1
  <2>3. StartsWithPrefixOf(all, BeginString)
    <3>1. Len(buf) >= 1
      BY <1>1, <2>1
    <3>2. 1 \in 1 .. Smaller(Len(buf), Len(BeginString))
      BY <1>1, <3>1 DEF Smaller
    <3>3. buf[1] = 8
      BY <1>1, <1>4, <3>2 DEF StartsWithPrefixOf
    <3>4. begin.at # 0
      BY <2>1, <3>3 DEF SOH
    <3>5. Len(buf) >= 2
      BY <1>1, <2>1, <3>4
    <3> QED
      BY <1>1, <1>4, <3>5, PrefixStable
  <2>4. ScanSoh(all, 0) = begin
    BY <2>1, ScanSohStable
  <2>5. Layout(buf) = LengthLayout(buf, start) /\ Layout(all) = LengthLayout(all, start)
    BY <1>4, <2>3, <2>4 DEF Layout
  <2>6. /\ rest \in Seq(Bytes) /\ Len(rest) = Len(buf) - start
        /\ \A i \in 1 .. Len(buf) - start : rest[i] = buf[start + i]
        /\ SubSeq(all, start + 1, Len(all)) = rest \o more
    BY <2>2, RestOfConcat, ZenonT(40)
  <2>7. CASE ~StartsWithPrefixOf(rest, BodyLength)
    <3>1. ~StartsWithPrefixOf(rest \o more, BodyLength)
      BY <1>1, <2>6, <2>7, PrefixStable
    <3> QED
      BY <2>5, <2>6, <2>7, <3>1 DEF LengthLayout
  <2>8. CASE StartsWithPrefixOf(rest, BodyLength) /\ soh.status # "found"
    <3>1. Layout(buf) = soh
      BY <2>5, <2>8 DEF LengthLayout
    <3>2. soh # Incomplete
      BY <3>1
    <3>3. ScanSoh(all, start) = soh
      BY <2>2, <3>2, ScanSohStable
    <3>4. soh.status = "failed"
      BY <2>2, <2>8, <3>2, ScanSohSees
    <3>5. Layout(all) = soh \/ Layout(all) = Failure("BadBodyLength")
      BY <2>5, <2>8, <3>3 DEF LengthLayout
    <3> QED
      BY <3>1, <3>4, <3>5 DEF Failure
  <2>9. CASE StartsWithPrefixOf(rest, BodyLength) /\ soh.status = "found"
    <3>1. soh # Incomplete /\ soh.at \in start .. (Len(buf) - 1) /\ buf[soh.at + 1] = SOH
      BY <2>2, <2>9, ScanSohSees DEF Incomplete
    <3>2. ScanSoh(all, start) = soh
      BY <2>2, <3>1, ScanSohStable
    <3>3. start + 2 <= Len(buf) /\ Len(rest) >= 2
      <4>1. start + 2 <= Len(buf)
        BY <2>2, <2>9, <3>1, LengthFieldIsThere
      <4> HIDE DEF start, rest
      <4> QED
        BY <1>1, <2>2, <2>6, <4>1
    <3>4. StartsWithPrefixOf(rest \o more, BodyLength)
      BY <1>1, <2>6, <2>9, <3>3, PrefixStable
    <3>5. SubSeq(all, start + 3, soh.at) = SubSeq(buf, start + 3, soh.at)
      <4>1. start + 3 \in 1 .. (Len(buf) + 1) /\ soh.at \in 0 .. Len(buf)
        <5> HIDE DEF start, soh
        <5> QED
          BY <1>1, <2>2, <3>1, <3>3
      <4>2. \A m \in 1 .. (Len(buf) + 1), n \in 0 .. Len(buf) :
              SubSeq(all, m, n) = SubSeq(buf, m, n)
        BY ConcatKeeps
      <4> HIDE DEF start, soh, all
      <4> QED
        BY <4>1, <4>2
    <3>6. CASE number = {}
      BY <2>5, <2>6, <2>9, <3>2, <3>4, <3>5, <3>6, ZenonT(40) DEF LengthLayout
    <3>7. CASE number # {}
      <4> DEFINE from == soh.at + 1
                 to   == soh.at + 1 + Least(number)
      <4>1. from \in Nat /\ to \in Nat
        <5>1. number \in SUBSET Nat
          BY ParsedIsNat
        <5>2. Least(number) \in Nat
          BY <3>7, <5>1, LeastIsIn
        <5> HIDE DEF number
        <5> QED
          BY <2>2, <3>1, <5>2
      <4>2. Layout(buf) = BodyLayout(buf, from, to)
        BY <2>5, <2>9, <3>7 DEF LengthLayout
      <4>3. Layout(all) = BodyLayout(all, from, to)
        BY <2>5, <2>6, <2>9, <3>2, <3>4, <3>5, <3>7, ZenonT(40) DEF LengthLayout
      <4> QED
        BY <4>1, <4>2, <4>3, BodyLayoutStable
    <3> QED
      BY <3>6, <3>7
  <2> QED
    BY <2>7, <2>8, <2>9
<1> QED
  BY <1>2, <1>3, <1>4

-----------------------------------------------------------------------------
(* What a call does to the bytes that the framer holds.                    *)

LEMMA SplitsInTwo ==
  ASSUME NEW s \in Seq(Bytes), NEW n \in 0 .. Len(s)
  PROVE  /\ SubSeq(s, 1, n) \in Seq(Bytes) /\ Len(SubSeq(s, 1, n)) = n
         /\ SubSeq(s, n + 1, Len(s)) \in Seq(Bytes)
         /\ Len(SubSeq(s, n + 1, Len(s))) = Len(s) - n
         /\ s = SubSeq(s, 1, n) \o SubSeq(s, n + 1, Len(s))
<1>1. Len(s) \in Nat /\ \A i \in 1 .. Len(s) : s[i] \in Bytes
  BY LenProperties, ElementOfSeq
<1>2. SubSeq(s, 1, n) \in Seq(Bytes) /\ Len(SubSeq(s, 1, n)) = n
  <2>1. n \in Int /\ \A i \in 1 .. n : s[i] \in Bytes
    BY <1>1
  <2>2. Len(SubSeq(s, 1, n)) = IF 1 <= n THEN n - 1 + 1 ELSE 0
    BY <2>1, SubSeqProperties
  <2>3. SubSeq(s, 1, n) \in Seq(Bytes)
    BY <2>1, SubSeqProperties
  <2> QED
    BY <1>1, <2>2, <2>3
<1>3. /\ SubSeq(s, n + 1, Len(s)) \in Seq(Bytes)
      /\ Len(SubSeq(s, n + 1, Len(s))) = Len(s) - n
  BY RestOfConcat
<1>4. SubSeq(s, 1, n) \o SubSeq(s, n + 1, Len(s)) = SubSeq(s, 1, Len(s))
  <2>1. 1 \in 1 .. Len(s) + 1 /\ n \in 1 - 1 .. Len(s) /\ Len(s) \in n .. Len(s)
    BY <1>1
  <2> QED
    BY <2>1, ConcatAdjacentSubSeq
<1>5. SubSeq(s, 1, Len(s)) = s
  BY SubSeqFull
<1> QED
  BY <1>2, <1>3, <1>4, <1>5

LEMMA NewFramerIsEmpty ==
  ASSUME NEW direction \in Directions
  PROVE  /\ NewFramer(direction) \in Framers
         /\ NewFramer(direction).buf = <<>> /\ NewFramer(direction).failed = {}
<1>1. {} \in Failures /\ <<>> \in Seq(Bytes)
  BY EmptySeq DEF Failures
<1> QED
  BY <1>1 DEF NewFramer, Framers

\* Bytes that are fed are held, unless the framer has failed.
LEMMA ExtendHolds ==
  ASSUME NEW f \in Framers, NEW chunk \in Seq(Bytes)
  PROVE  /\ Extend(f, chunk) \in Framers
         /\ Extend(f, chunk).failed = f.failed
         /\ f.failed = {} => Extend(f, chunk).buf = f.buf \o chunk
         /\ Len(Extend(f, chunk).buf) <= Len(f.buf) + Len(chunk)
<1>1. /\ f.buf \in Seq(Bytes) /\ f.buf \o chunk \in Seq(Bytes)
      /\ Len(f.buf \o chunk) = Len(f.buf) + Len(chunk)
      /\ Len(f.buf) \in Nat /\ Len(chunk) \in Nat
  BY ConcatProperties, LenProperties DEF Framers
<1>2. CASE f.failed # {}
  BY <1>1, <1>2 DEF Extend
<1>3. CASE f.failed = {}
  <2>1. Extend(f, chunk) = [f EXCEPT !.buf = f.buf \o chunk]
    BY <1>3 DEF Extend
  <2>2. /\ Extend(f, chunk) \in Framers
        /\ Extend(f, chunk).failed = f.failed
        /\ Extend(f, chunk).buf = f.buf \o chunk
    BY <1>1, <2>1 DEF Framers
  <2> QED
    BY <1>1, <2>2
<1> QED
  BY <1>2, <1>3

\* next_message moves bytes out of the buffer only as the message that it
\* yields, or throws all of them away and fails for good; it asks for more
\* only while it holds less than a message of the largest size.
THEOREM NextMessageKeeps ==
  ASSUME NEW f \in Framers
  PROVE  LET next == NextMessage(f)
         IN  /\ next.framer \in Framers
             /\ Len(next.framer.buf) <= Len(f.buf)
             /\ \/ /\ next.answer = "none"
                   /\ f.failed = {} /\ next.framer = f /\ Len(f.buf) < MaxMessageLen
                \/ /\ next.answer = "message"
                   /\ f.failed = {} /\ next.framer.failed = {}
                   /\ next.message.raw \in Seq(Bytes)
                   /\ f.buf = next.message.raw \o next.framer.buf
                   /\ Len(next.framer.buf) < Len(f.buf)
                \/ /\ next.answer \in FrameErrors
                   /\ next.framer.failed = {next.answer}
                   /\ f.failed \in {{}, {next.answer}}
                   /\ f.failed = {} => next.framer.buf = <<>>
<1> DEFINE next   == NextMessage(f)
           layout == Layout(f.buf)
<1>1. /\ f.buf \in Seq(Bytes) /\ Len(f.buf) \in Nat /\ f.direction \in Directions
      /\ f.failed \in Failures
      /\ <<>> \in Seq(Bytes) /\ Len(<<>>) = 0
  BY LenProperties, EmptySeq DEF Framers
<1>2. CASE f.failed # {}
  <2>1. PICK e \in FrameErrors : f.failed = {e}
    BY <1>1, <1>2 DEF Failures
  <2>2. next.framer = f /\ next.answer = CHOOSE x \in f.failed : TRUE
    BY <1>2 DEF NextMessage
  <2>3. next.answer = e
    BY <2>1, <2>2
  <2>4. next.framer.failed = {next.answer} /\ next.answer \in FrameErrors
    BY <2>1, <2>2, <2>3
  <2>5. Len(next.framer.buf) <= Len(f.buf)
    BY <1>1, <2>2
  <2> HIDE DEF next
  <2> QED
    BY <1>2, <2>2, <2>3, <2>4, <2>5 DEF next
<1>3. CASE f.failed = {}
  <2>1. CASE layout = Incomplete /\ Len(f.buf) < MaxMessageLen
    <3>1. next = [answer |-> "none", framer |-> f]
      BY <1>3, <2>1 DEF NextMessage, Incomplete
    <3> QED
      BY <1>1, <1>3, <2>1, <3>1
  <2>2. CASE layout.status = "failed" /\ layout.error \in FrameErrors
    <3>1. next = WithFailure(f, layout.error)
      BY <1>3, <2>2 DEF NextMessage
    <3> DEFINE rest == [f EXCEPT !.buf = <<>>, !.failed = {layout.error}]
    <3>2. next.answer = layout.error /\ next.framer = rest
      BY <3>1 DEF WithFailure
    <3>3. rest \in Framers /\ rest.buf = <<>> /\ rest.failed = {layout.error}
      <4>1. {layout.error} \in Failures
        BY <2>2 DEF Failures
      <4> QED
        BY <1>1, <4>1 DEF Framers
    <3> QED
      BY <1>1, <1>3, <2>2, <3>2, <3>3
  <2>3. CASE layout.status = "frame" /\ layout.len \in 1 .. Len(f.buf)
    <3> DEFINE tail == SubSeq(f.buf, layout.len + 1, Len(f.buf))
               rest == [f EXCEPT !.buf = tail]
    <3>1. next = WithMessage(f, layout)
      BY <1>3, <2>3 DEF NextMessage
    <3>2. /\ next.answer = "message" /\ next.framer = rest
          /\ next.message.raw = SubSeq(f.buf, 1, layout.len)
      BY <3>1 DEF WithMessage, MessageAt
    <3>3. layout.len \in 0 .. Len(f.buf)
      BY <2>3
    <3>4. /\ SubSeq(f.buf, 1, layout.len) \in Seq(Bytes) /\ tail \in Seq(Bytes)
          /\ Len(tail) = Len(f.buf) - layout.len
          /\ f.buf = SubSeq(f.buf, 1, layout.len) \o tail
      BY <1>1, <3>3, SplitsInTwo
    <3>5. rest \in Framers /\ rest.buf = tail /\ rest.failed = {}
      BY <1>1, <1>3, <3>4 DEF Framers
    <3>6. Len(tail) < Len(f.buf) /\ Len(tail) <= Len(f.buf)
      <4> HIDE DEF tail, layout
      <4> QED
        BY <1>1, <2>3, <3>4
    <3> HIDE DEF tail, rest
    <3> QED
      BY <1>3, <3>2, <3>4, <3>5, <3>6
  <2> QED
    BY <1>1, <2>1, <2>2, <2>3, LayoutSees
<1> QED
  BY <1>2, <1>3

-----------------------------------------------------------------------------
(* The numbers of the headers: what the framer computes digit by digit is  *)
(* what the digits say.                                                    *)

LEMMA TensFacts ==
  /\ \A i \in 0 .. MaxMessageLen : Tens[i] \in Nat \ {0}
  /\ Tens[0] = 1
  /\ \A i \in 1 .. MaxMessageLen : Tens[i] = 10 * Tens[i - 1]
<1> DEFINE N == MaxMessageLen
           V == Nat \ {0}
           step == [n \in 1 .. N |-> [x \in V |-> 10 * x]]
<1>1. N \in Nat
  BY FramerAssumption
<1>2. step \in Steps(N, V) /\ 1 \in V
  BY DEF Steps
<1>3. \A n \in 1 .. N, x \in V : step[n][x] = 10 * x
  OBVIOUS
<1> HIDE DEF step
<1>4. PICK g : Follows(g, N, V, 1, step)
  <2> HIDE DEF N, V
  <2> QED
    BY <1>1, <1>2, Recursion
<1>5. g \in [0 .. N -> V] /\ g[0] = 1 /\ \A n \in 1 .. N : g[n] = 10 * g[n - 1]
  <2> HIDE DEF N, V
  <2>1. g \in [0 .. N -> V] /\ g[0] = 1 /\ \A n \in 1 .. N : g[n] = step[n][g[n - 1]]
    BY <1>4 DEF Follows
  <2>2. \A n \in 1 .. N : g[n - 1] \in V
    <3> TAKE n \in 1 .. N
    <3>1. n - 1 \in 0 .. N
      BY <1>1
    <3> QED
      BY <2>1, <3>1
  <2> QED
    BY <1>3, <2>1, <2>2
<1>6. \E h : h = [i \in 0 .. N |-> IF i = 0 THEN 1 ELSE 10 * h[i - 1]]
  <2>1. g = [i \in 0 .. N |-> IF i = 0 THEN 1 ELSE 10 * g[i - 1]]
    <3> HIDE DEF V
    <3> QED
      BY <1>1, <1>5
  <2> QED
    BY <2>1
<1>7. Tens = [i \in 0 .. N |-> IF i = 0 THEN 1 ELSE 10 * Tens[i - 1]]
  BY <1>6 DEF Tens
<1>8. Tens[0] = 1 /\ \A i \in 1 .. N : Tens[i] = 10 * Tens[i - 1]
  <2> HIDE DEF N
  <2> QED
    BY <1>1, <1>7
<1>9. \A i \in 0 .. N : Tens[i] \in V
  <2> DEFINE S == {i \in Nat : i <= N => Tens[i] \in V}
  <2>1. 0 \in S
    BY <1>8
  <2>2. ASSUME NEW n \in Nat, n \in S PROVE n + 1 \in S
    BY <1>1, <1>8, <2>2
  <2>3. Nat \subseteq S
    <3> HIDE DEF S
    <3> QED
      BY <2>1, <2>2, Induction
  <2> QED
    BY <1>1, <2>3
<1> QED
  BY <1>8, <1>9

\* What ParseDigits has computed after each digit.
Values(bytes) ==
  LET value[n \in 0 .. Len(bytes)] == IF n = 0 THEN 0 ELSE 10 * value[n - 1] + bytes[n]
  IN  value

AllDigits(s) == \A i \in 1 .. Len(s) : s[i] \in Digits

LEMMA ValuesFacts ==
  ASSUME NEW s, Len(s) \in Nat, AllDigits(s)
  PROVE  /\ \A n \in 0 .. Len(s) : Values(s)[n] \in Nat
         /\ Values(s)[0] = 0
         /\ \A n \in 1 .. Len(s) : Values(s)[n] = 10 * Values(s)[n - 1] + s[n]
<1> DEFINE N == Len(s)
           step == [n \in 1 .. N |-> [x \in Nat |-> 10 * x + s[n]]]
           value == Values(s)
<1>1. N \in Nat /\ \A n \in 1 .. N : s[n] \in Nat
  BY DEF AllDigits, Digits
<1>2. step \in Steps(N, Nat)
  BY <1>1 DEF Steps
<1>3. \A n \in 1 .. N, x \in Nat : step[n][x] = 10 * x + s[n]
  OBVIOUS
<1> HIDE DEF step
<1>4. PICK g : Follows(g, N, Nat, 0, step)
  <2>1. 0 \in Nat
    OBVIOUS
  <2> HIDE DEF N
  <2> QED
    BY <1>1, <1>2, <2>1, Recursion
<1>5. g \in [0 .. N -> Nat] /\ g[0] = 0 /\ \A n \in 1 .. N : g[n] = 10 * g[n - 1] + s[n]
  <2> HIDE DEF N
  <2>1. g \in [0 .. N -> Nat] /\ g[0] = 0 /\ \A n \in 1 .. N : g[n] = step[n][g[n - 1]]
    BY <1>4 DEF Follows
  <2>2. \A n \in 1 .. N : g[n - 1] \in Nat
    <3> TAKE n \in 1 .. N
    <3>1. n - 1 \in 0 .. N
      BY <1>1
    <3> QED
      BY <2>1, <3>1
  <2> QED
    BY <1>3, <2>1, <2>2
<1>6. \E h : h = [n \in 0 .. N |-> IF n = 0 THEN 0 ELSE 10 * h[n - 1] + s[n]]
  <2>1. g = [n \in 0 .. N |-> IF n = 0 THEN 0 ELSE 10 * g[n - 1] + s[n]]
    BY <1>1, <1>5
  <2> QED
    BY <2>1
<1>7. value = [n \in 0 .. N |-> IF n = 0 THEN 0 ELSE 10 * value[n - 1] + s[n]]
  BY <1>6 DEF Values
<1> HIDE DEF value
<1>8. value[0] = 0 /\ \A n \in 1 .. N : value[n] = 10 * value[n - 1] + s[n]
  BY <1>1, <1>7
<1>9. \A n \in 0 .. N : value[n] \in Nat
  <2> DEFINE S == {n \in Nat : n <= N => value[n] \in Nat}
  <2>1. 0 \in S
    BY <1>8
  <2>2. ASSUME NEW n \in Nat, n \in S PROVE n + 1 \in S
    <3> SUFFICES ASSUME n + 1 <= N PROVE value[n + 1] \in Nat
      OBVIOUS
    <3>1. value[n] \in Nat /\ n + 1 \in 1 .. N /\ (n + 1) - 1 = n
      BY <1>1, <2>2
    <3> QED
      BY <1>1, <1>8, <3>1
  <2>3. Nat \subseteq S
    <3> HIDE DEF S
    <3> QED
      BY <2>1, <2>2, Induction
  <2> QED
    BY <1>1, <2>3
<1> QED
  BY <1>8, <1>9 DEF value

LEMMA DivDiv ==
  ASSUME NEW x \in Nat, NEW t \in Nat \ {0}
  PROVE  (x \div t) \div 10 = x \div (10 * t) /\ x \div t \in Nat
OBVIOUS

LEMMA TenParts ==
  ASSUME NEW v \in Nat, NEW d \in Digits
  PROVE  (10 * v + d) \div 10 = v /\ (10 * v + d) % 10 = d
BY DEF Digits

\* ParseDigits reads the numbers that the grammar says.
LEMMA SaysIsParsed ==
  ASSUME NEW s \in Seq(Bytes), Len(s) <= MaxMessageLen, NEW n
  PROVE  Says(s, n) <=> n \in ParseDigits(s)
<1> DEFINE L == Len(s)
           value == Values(s)
<1>1. /\ L \in Nat /\ L <= MaxMessageLen /\ MaxMessageLen \in Nat /\ MaxNumber \in Nat
      /\ \A i \in 0 .. L : Tens[i] \in Nat \ {0}
      /\ Tens[0] = 1
      /\ \A i \in 1 .. L : Tens[i] = 10 * Tens[i - 1]
  BY FramerAssumption, TensFacts, LenProperties
<1>2. ParseDigits(s) = IF s # <<>> /\ AllDigits(s) THEN {value[L]} \cap (0 .. MaxNumber) ELSE {}
  BY DEF ParseDigits, Values, AllDigits
<1>3. ASSUME AllDigits(s)
      PROVE  /\ \A i \in 0 .. L : value[i] \in Nat
             /\ value[0] = 0
             /\ \A i \in 1 .. L : s[i] \in Digits /\ value[i] = 10 * value[i - 1] + s[i]
  BY <1>1, <1>3, ValuesFacts DEF AllDigits
<1> HIDE DEF L, value
<1>4. ASSUME n \in ParseDigits(s) PROVE Says(s, n)
  <2>1. s # <<>> /\ AllDigits(s) /\ n = value[L] /\ n \in 0 .. MaxNumber /\ n \in Nat
    BY <1>1, <1>2, <1>4
  <2>2. /\ \A i \in 0 .. L : value[i] \in Nat
        /\ value[0] = 0
        /\ \A i \in 1 .. L : s[i] \in Digits /\ value[i] = 10 * value[i - 1] + s[i]
    BY <1>3, <2>1
  <2>3. \A j \in 0 .. L : n \div Tens[j] = value[L - j]
    <3> DEFINE S == {j \in Nat : j <= L => n \div Tens[j] = value[L - j]}
    <3>1. 0 \in S
      BY <1>1, <2>1
    <3>2. ASSUME NEW j \in Nat, j \in S PROVE j + 1 \in S
      <4> SUFFICES ASSUME j + 1 <= L PROVE n \div Tens[j + 1] = value[L - (j + 1)]
        OBVIOUS
      <4>1. n \div Tens[j] = value[L - j] /\ Tens[j] \in Nat \ {0} /\ Tens[j + 1] = 10 * Tens[j]
        <5>1. j \in 0 .. L /\ j + 1 \in 1 .. L /\ (j + 1) - 1 = j
          BY <1>1
        <5> QED
          BY <1>1, <3>2, <5>1
      <4>2. n \div Tens[j + 1] = value[L - j] \div 10
        <5>1. (n \div Tens[j]) \div 10 = n \div (10 * Tens[j])
          BY <2>1, <4>1, DivDiv
        <5> QED
          BY <4>1, <5>1
      <4>3. L - j \in 1 .. L /\ (L - j) - 1 = L - (j + 1) /\ L - (j + 1) \in 0 .. L
        BY <1>1
      <4>4. value[L - j] = 10 * value[L - (j + 1)] + s[L - j] /\ s[L - j] \in Digits
        BY <2>2, <4>3
      <4>5. value[L - (j + 1)] \in Nat
        BY <2>2, <4>3
      <4> QED
        BY <4>2, <4>4, <4>5, TenParts
    <3>3. Nat \subseteq S
      <4> HIDE DEF S
      <4> QED
        BY <3>1, <3>2, Induction
    <3> QED
      BY <1>1, <3>3
  <2>4. n < Tens[L]
    <3>1. n \div Tens[L] = 0 /\ Tens[L] \in Nat \ {0}
      <4>1. L \in 0 .. L /\ L - L = 0
        BY <1>1
      <4> QED
        BY <1>1, <2>2, <2>3, <4>1
    <3> QED
      BY <2>1, <3>1
  <2>5. \A i \in 1 .. L : s[L + 1 - i] = (n \div Tens[i - 1]) % 10
    <3> TAKE i \in 1 .. L
    <3>1. i - 1 \in 0 .. L /\ L - (i - 1) = L + 1 - i /\ L + 1 - i \in 1 .. L /\ (L + 1 - i) - 1 \in 0 .. L
      BY <1>1
    <3>2. n \div Tens[i - 1] = value[L + 1 - i]
      BY <2>3, <3>1
    <3>3. /\ value[L + 1 - i] = 10 * value[(L + 1 - i) - 1] + s[L + 1 - i] /\ s[L + 1 - i] \in Digits
          /\ value[(L + 1 - i) - 1] \in Nat
      BY <2>2, <3>1
    <3> QED
      BY <3>2, <3>3, TenParts
  <2>6. n \in 0 .. Smaller(MaxNumber, Tens[L] - 1)
    <3>1. Tens[L] \in Nat
      BY <1>1
    <3> QED
      BY <1>1, <2>1, <2>4, <3>1 DEF Smaller
  <2> QED
    BY <2>1, <2>5, <2>6 DEF Says, L
<1>5. ASSUME Says(s, n) PROVE n \in ParseDigits(s)
  <2>1. /\ s # <<>> /\ n \in 0 .. Smaller(MaxNumber, Tens[L] - 1)
        /\ \A i \in 1 .. L : s[L + 1 - i] = (n \div Tens[i - 1]) % 10
    BY <1>5 DEF Says, L
  <2>2. n \in Nat /\ n <= MaxNumber /\ n < Tens[L]
    <3>1. Tens[L] \in Nat
      BY <1>1
    <3> QED
      BY <1>1, <2>1, <3>1 DEF Smaller
  <2>3. AllDigits(s)
    <3> SUFFICES ASSUME NEW i \in 1 .. L PROVE s[i] \in Digits
      BY DEF AllDigits, L
    <3>1. L + 1 - i \in 1 .. L /\ L + 1 - (L + 1 - i) = i /\ (L + 1 - i) - 1 \in 0 .. L
      BY <1>1
    <3>2. s[i] = (n \div Tens[(L + 1 - i) - 1]) % 10 /\ Tens[(L + 1 - i) - 1] \in Nat \ {0}
      BY <1>1, <2>1, <3>1
    <3>3. n \div Tens[(L + 1 - i) - 1] \in Nat
      BY <2>2, <3>2, DivDiv
    <3>4. \A q \in Nat : q % 10 \in Digits
      BY DEF Digits
    <3> QED
      BY <3>2, <3>3, <3>4
  <2>4. /\ \A i \in 0 .. L : value[i] \in Nat
        /\ value[0] = 0
        /\ \A i \in 1 .. L : s[i] \in Digits /\ value[i] = 10 * value[i - 1] + s[i]
    BY <1>3, <2>3
  <2>5. \A j \in 0 .. L : n \div Tens[L - j] = value[j]
    <3> DEFINE S == {j \in Nat : j <= L => n \div Tens[L - j] = value[j]}
    <3>1. 0 \in S
      <4>1. L - 0 = L /\ Tens[L] \in Nat \ {0}
        BY <1>1
      <4>2. n \div Tens[L] = 0
        BY <2>2, <4>1
      <4> QED
        BY <2>4, <4>1, <4>2
    <3>2. ASSUME NEW j \in Nat, j \in S PROVE j + 1 \in S
      <4> SUFFICES ASSUME j + 1 <= L PROVE n \div Tens[L - (j + 1)] = value[j + 1]
        OBVIOUS
      <4> DEFINE k == L - (j + 1)
                 y == n \div Tens[k]
      <4>1. k \in 0 .. L /\ k + 1 \in 1 .. L /\ (k + 1) - 1 = k /\ L - j = k + 1 /\ j + 1 \in 1 .. L
            /\ L + 1 - (k + 1) = j + 1 /\ (j + 1) - 1 = j /\ j <= L
        BY <1>1
      <4>2. Tens[k] \in Nat \ {0} /\ Tens[k + 1] = 10 * Tens[k]
        BY <1>1, <4>1
      <4>3. y \in Nat /\ y \div 10 = n \div Tens[k + 1]
        BY <2>2, <4>2, DivDiv
      <4>4. y \div 10 = value[j]
        BY <3>2, <4>1, <4>3
      <4>5. y % 10 = s[j + 1]
        BY <2>1, <4>1
      <4>6. value[j + 1] = 10 * value[j] + s[j + 1]
        BY <2>4, <4>1
      <4> HIDE DEF y
      <4>7. y = 10 * (y \div 10) + (y % 10)
        BY <4>3
      <4> QED
        BY <4>4, <4>5, <4>6, <4>7 DEF y
    <3>3. Nat \subseteq S
      <4> HIDE DEF S
      <4> QED
        BY <3>1, <3>2, Induction
    <3> QED
      BY <1>1, <3>3
  <2>6. n = value[L]
    <3>1. L \in 0 .. L /\ L - L = 0
      BY <1>1
    <3>2. n \div 1 = value[L]
      BY <1>1, <2>5, <3>1
    <3> QED
      BY <2>2, <3>2
  <2> QED
    BY <1>2, <2>1, <2>2, <2>3, <2>6
<1> QED
  BY <1>4, <1>5

-----------------------------------------------------------------------------
(* Where the framer finds a message is where the grammar has one.          *)

LEMMA LeastIs ==
  ASSUME NEW S \in SUBSET Nat, NEW x \in S, \A y \in S : x <= y
  PROVE  Least(S) = x
<1>1. Least(S) \in S /\ \A y \in S : Least(S) <= y
  BY LeastIsIn
<1>2. Least(S) \in Nat /\ x \in Nat /\ Least(S) <= x /\ x <= Least(S)
  BY <1>1
<1> QED
  BY <1>2

LEMMA SubSeqFacts ==
  ASSUME NEW s \in Seq(Bytes), NEW m \in 1 .. Len(s) + 1, NEW n \in 0 .. Len(s)
  PROVE  /\ SubSeq(s, m, n) \in Seq(Bytes)
         /\ Len(SubSeq(s, m, n)) = IF m <= n THEN n - m + 1 ELSE 0
         /\ \A i \in 1 .. n - m + 1 : SubSeq(s, m, n)[i] = s[m + i - 1]
<1>1. Len(s) \in Nat /\ \A i \in 1 .. Len(s) : s[i] \in Bytes
  BY LenProperties, ElementOfSeq
<1>2. m \in Int /\ n \in Int /\ \A i \in m .. n : s[i] \in Bytes
  BY <1>1
<1> QED
  BY <1>2, SubSeqProperties

\* The front of a byte string, and what is cut out of it.
LEMMA FrontFacts ==
  ASSUME NEW s \in Seq(Bytes), NEW k \in 0 .. Len(s)
  PROVE  LET front == SubSeq(s, 1, k)
         IN  /\ front \in Seq(Bytes) /\ Len(front) = k
             /\ \A i \in 1 .. k : front[i] = s[i]
             /\ \A m \in 1 .. k + 1, n \in 0 .. k : SubSeq(front, m, n) = SubSeq(s, m, n)
<1> DEFINE front == SubSeq(s, 1, k)
           rest  == SubSeq(s, k + 1, Len(s))
<1>1. front \in Seq(Bytes) /\ Len(front) = k /\ rest \in Seq(Bytes) /\ s = front \o rest
  BY SplitsInTwo
<1> HIDE DEF front, rest
<1>2. /\ \A i \in 1 .. Len(front) : (front \o rest)[i] = front[i]
      /\ \A m \in 1 .. Len(front) + 1, n \in 0 .. Len(front) :
           SubSeq(front \o rest, m, n) = SubSeq(front, m, n)
  BY <1>1, ConcatKeeps
<1> QED
  BY <1>1, <1>2 DEF front

\* A scan finds the first SOH, inside the window.
LEMMA ScanSohIs ==
  ASSUME NEW buf \in Seq(Bytes), NEW from \in Nat, NEW x
  PROVE  ScanSoh(buf, from) = Found(x)
           <=> /\ x \in from .. (Smaller(Len(buf), MaxHeaderScan) - 1)
               /\ buf[x + 1] = SOH
               /\ \A o \in from .. (x - 1) : buf[o + 1] # SOH
<1> DEFINE hits == {o \in from .. (Smaller(Len(buf), MaxHeaderScan) - 1) : buf[o + 1] = SOH}
<1>1. hits \in SUBSET Nat /\ Smaller(Len(buf), MaxHeaderScan) \in Int
  BY FramerAssumption, LenProperties DEF Smaller
<1>2. ASSUME ScanSoh(buf, from) = Found(x)
      PROVE  x \in hits /\ \A o \in from .. (x - 1) : buf[o + 1] # SOH
  <2>1. hits # {}
    BY <1>2 DEF ScanSoh, Found, Failure, Incomplete
  <2>2. x = Least(hits)
    BY <1>2, <2>1 DEF ScanSoh, Found
  <2>3. x \in hits /\ \A y \in hits : x <= y
    BY <1>1, <2>1, <2>2, LeastIsIn
  <2>4. \A o \in from .. (x - 1) : o \in from .. (Smaller(Len(buf), MaxHeaderScan) - 1) /\ ~(x <= o)
    BY <1>1, <2>3
  <2> QED
    BY <2>3, <2>4
<1>3. ASSUME x \in hits, \A o \in from .. (x - 1) : buf[o + 1] # SOH
      PROVE  ScanSoh(buf, from) = Found(x)
  <2>1. \A y \in hits : x <= y
    BY <1>1, <1>3
  <2>2. Least(hits) = x
    BY <1>1, <1>3, <2>1, LeastIs
  <2> QED
    BY <1>3, <2>2 DEF ScanSoh
<1> QED
  BY <1>2, <1>3

LEMMA ParsedFacts ==
  ASSUME NEW s, NEW n \in ParseDigits(s)
  PROVE  /\ AllDigits(s) /\ s # <<>> /\ n \in Nat
         /\ ParseDigits(s) = {n} /\ Least(ParseDigits(s)) = n
<1>1. ParseDigits(s) = IF s # <<>> /\ AllDigits(s) THEN {Values(s)[Len(s)]} \cap (0 .. MaxNumber) ELSE {}
  BY DEF ParseDigits, Values, AllDigits
<1>2. AllDigits(s) /\ s # <<>> /\ n \in Nat /\ ParseDigits(s) = {n}
  BY <1>1, FramerAssumption
<1>3. Least({n}) = n
  BY <1>2, LeastIs
<1> QED
  BY <1>2, <1>3

LEMMA ConstantStrings ==
  /\ BeginString \in Seq(Bytes) /\ Len(BeginString) = 2 /\ BeginString[1] = 8 /\ BeginString[2] = Equals
  /\ BodyLength \in Seq(Bytes) /\ Len(BodyLength) = 2 /\ BodyLength[1] = 9 /\ BodyLength[2] = Equals
  /\ CheckSum \in Seq(Bytes) /\ Len(CheckSum) = 3
  /\ SOH \notin Digits /\ SOH # Equals /\ SOH # 8 /\ SOH # 9
BY DEF BeginString, BodyLength, CheckSum, Equals, Bytes, SOH, Digits

\* Two bytes, at the front or anywhere in a byte string.
LEMMA TwoBytes ==
  ASSUME NEW s \in Seq(Bytes), NEW o \in Nat, o + 2 <= Len(s),
         NEW prefix \in Seq(Bytes), Len(prefix) = 2
  PROVE  /\ SubSeq(s, o + 1, o + 2) = prefix <=> s[o + 1] = prefix[1] /\ s[o + 2] = prefix[2]
         /\ StartsWithPrefixOf(SubSeq(s, o + 1, Len(s)), prefix)
              <=> s[o + 1] = prefix[1] /\ s[o + 2] = prefix[2]
         /\ o = 0 => (StartsWithPrefixOf(s, prefix) <=> s[1] = prefix[1] /\ s[2] = prefix[2])
<1>0. Len(s) \in Nat
  BY LenProperties
<1>1. /\ SubSeq(s, o + 1, o + 2) \in Seq(Bytes) /\ Len(SubSeq(s, o + 1, o + 2)) = 2
      /\ SubSeq(s, o + 1, o + 2)[1] = s[o + 1] /\ SubSeq(s, o + 1, o + 2)[2] = s[o + 2]
  <2>1. o + 1 \in 1 .. Len(s) + 1 /\ o + 2 \in 0 .. Len(s) /\ o + 1 <= o + 2
        /\ (o + 2) - (o + 1) + 1 = 2 /\ (o + 1) + 1 - 1 = o + 1 /\ (o + 1) + 2 - 1 = o + 2
    BY <1>0
  <2>2. 1 \in 1 .. 2 /\ 2 \in 1 .. 2
    OBVIOUS
  <2> QED
    BY <2>1, <2>2, SubSeqFacts
<1>2. SubSeq(s, o + 1, o + 2) = prefix <=> s[o + 1] = prefix[1] /\ s[o + 2] = prefix[2]
  <2>1. ASSUME s[o + 1] = prefix[1], s[o + 2] = prefix[2] PROVE SubSeq(s, o + 1, o + 2) = prefix
    <3>1. \A i \in 1 .. 2 : SubSeq(s, o + 1, o + 2)[i] = prefix[i]
      BY <1>1, <2>1
    <3> HIDE DEF Bytes
    <3> QED
      BY <1>1, <3>1, SeqEqual
  <2> QED
    BY <1>1, <2>1
<1>3. ASSUME NEW t \in Seq(Bytes), Len(t) >= 2
      PROVE  StartsWithPrefixOf(t, prefix) <=> t[1] = prefix[1] /\ t[2] = prefix[2]
  <2>1. Smaller(Len(t), Len(prefix)) = 2
    BY <1>3, LenProperties DEF Smaller
  <2>2. 1 .. 2 = {1, 2}
    OBVIOUS
  <2> QED
    BY <2>1, <2>2 DEF StartsWithPrefixOf
<1>4. /\ SubSeq(s, o + 1, Len(s)) \in Seq(Bytes) /\ Len(SubSeq(s, o + 1, Len(s))) = Len(s) - o
      /\ \A i \in 1 .. (Len(s) - o) : SubSeq(s, o + 1, Len(s))[i] = s[o + i]
  <2>1. o \in 0 .. Len(s)
    BY <1>0
  <2> QED
    BY <2>1, RestOfConcat
<1>5. 1 \in 1 .. (Len(s) - o) /\ 2 \in 1 .. (Len(s) - o) /\ Len(s) - o >= 2
  BY <1>0
<1> DEFINE rest == SubSeq(s, o + 1, Len(s))
<1>6. rest \in Seq(Bytes) /\ Len(rest) >= 2 /\ rest[1] = s[o + 1] /\ rest[2] = s[o + 2]
  BY <1>4, <1>5
<1>7. StartsWithPrefixOf(rest, prefix) <=> rest[1] = prefix[1] /\ rest[2] = prefix[2]
  <2> HIDE DEF rest
  <2> QED
    BY <1>3, <1>6
<1>8. o = 0 => (StartsWithPrefixOf(s, prefix) <=> s[1] = prefix[1] /\ s[2] = prefix[2])
  BY <1>0, <1>3
<1> QED
  BY <1>2, <1>6, <1>7, <1>8

LEMMA TailIs ==
  ASSUME NEW s \in Seq(Bytes), NEW to \in Nat, to + TailLen <= Len(s)
  PROVE  IsCheckSumField(SubSeq(s, to + 1, to + TailLen))
           <=> /\ SubSeq(s, to + 1, to + 3) = CheckSum
               /\ \A i \in 4 .. 6 : s[to + i] \in Digits
               /\ s[to + TailLen] = SOH
<1> DEFINE tail == SubSeq(s, to + 1, to + TailLen)
<1>0. Len(s) \in Nat /\ TailLen = 7
  BY LenProperties DEF TailLen
<1>1. /\ tail \in Seq(Bytes) /\ Len(tail) = 7
      /\ \A i \in 1 .. 7 : tail[i] = s[to + i]
  <2>1. /\ to + 1 \in 1 .. Len(s) + 1 /\ to + TailLen \in 0 .. Len(s)
        /\ to + 1 <= to + TailLen /\ (to + TailLen) - (to + 1) + 1 = 7
        /\ \A i \in 1 .. 7 : (to + 1) + i - 1 = to + i
    BY <1>0
  <2>2. /\ tail \in Seq(Bytes)
        /\ Len(tail) = IF to + 1 <= to + TailLen THEN (to + TailLen) - (to + 1) + 1 ELSE 0
        /\ \A i \in 1 .. (to + TailLen) - (to + 1) + 1 : tail[i] = s[(to + 1) + i - 1]
    BY <2>1, SubSeqFacts
  <2> HIDE DEF tail
  <2> QED
    BY <2>1, <2>2
<1>2. SubSeq(tail, 1, 3) = SubSeq(s, to + 1, to + 3)
  <2>1. /\ SubSeq(tail, 1, 3) \in Seq(Bytes) /\ Len(SubSeq(tail, 1, 3)) = 3
        /\ \A i \in 1 .. 3 : SubSeq(tail, 1, 3)[i] = tail[i]
    <3>1. 3 \in 0 .. Len(tail)
      BY <1>1
    <3> HIDE DEF tail
    <3> QED
      BY <1>1, <3>1, FrontFacts
  <2>2. /\ SubSeq(s, to + 1, to + 3) \in Seq(Bytes) /\ Len(SubSeq(s, to + 1, to + 3)) = 3
        /\ \A i \in 1 .. 3 : SubSeq(s, to + 1, to + 3)[i] = s[to + i]
    <3>1. /\ to + 1 \in 1 .. Len(s) + 1 /\ to + 3 \in 0 .. Len(s)
          /\ to + 1 <= to + 3 /\ (to + 3) - (to + 1) + 1 = 3
          /\ \A i \in 1 .. 3 : (to + 1) + i - 1 = to + i
      BY <1>0
    <3> QED
      BY <3>1, SubSeqFacts
  <2> HIDE DEF tail
  <2>3. \A i \in 1 .. 3 : tail[i] = s[to + i]
    <3>1. \A i \in 1 .. 3 : i \in 1 .. 7
      OBVIOUS
    <3> QED
      BY <1>1, <3>1
  <2>4. \A i \in 1 .. 3 : SubSeq(tail, 1, 3)[i] = SubSeq(s, to + 1, to + 3)[i]
    BY <2>1, <2>2, <2>3
  <2> HIDE DEF Bytes
  <2> QED
    BY <2>1, <2>2, <2>4, SeqEqual
<1> HIDE DEF tail
<1>3. (\A i \in 4 .. 6 : tail[i] = s[to + i]) /\ tail[7] = s[to + 7]
  BY <1>1
<1> QED
  BY <1>0, <1>2, <1>3 DEF IsCheckSumField, tail

\* A message at the front of s whose header fields end at a and b and whose
\* body ends at `to`.
Shape(s, a, b, to) ==
  /\ a \in Nat /\ b \in Nat /\ to \in Nat
  /\ 2 <= a /\ a + 3 <= b /\ b < MaxHeaderScan /\ b < to + 1
  /\ to + TailLen <= Len(s) /\ to + TailLen <= MaxMessageLen
  /\ s[1] = 8 /\ s[2] = Equals /\ s[a + 1] = SOH /\ \A i \in 1 .. a : s[i] # SOH
  /\ s[a + 2] = 9 /\ s[a + 3] = Equals /\ s[b + 1] = SOH
  /\ to - (b + 1) \in ParseDigits(SubSeq(s, a + 4, b))
  /\ IsCheckSumField(SubSeq(s, to + 1, to + TailLen))

\* The grammar and the shape.
LEMMA SplitsShape ==
  ASSUME NEW m \in Seq(Bytes), Len(m) <= MaxMessageLen, NEW a \in Nat, NEW b \in Nat
  PROVE  Splits(m, a, b) <=> Shape(m, a, b, Len(m) - TailLen)
<1> DEFINE to == Len(m) - TailLen
           digits == SubSeq(m, a + 4, b)
           sizes == 2 <= a /\ a + 3 <= b /\ b < MaxHeaderScan /\ b < to + 1
<1>0. Len(m) \in Nat /\ TailLen = 7 /\ MaxMessageLen \in Nat /\ MaxHeaderScan \in Nat
  BY FramerAssumption, LenProperties DEF TailLen
<1>1. (Splits(m, a, b) => sizes) /\ (Shape(m, a, b, to) => sizes)
  BY DEF Splits, Shape
<1>2. CASE sizes
  <2>1. /\ to \in Nat /\ to + TailLen = Len(m) /\ a + 3 <= to /\ b + 1 <= Len(m) /\ a + 4 <= Len(m)
        /\ a <= Len(m) /\ to - (b + 1) \in Int /\ 0 + 2 <= Len(m) /\ 0 + 1 = 1 /\ 0 + 2 = 2
        /\ (a + 1) + 2 <= Len(m) /\ (a + 1) + 1 = a + 2 /\ (a + 1) + 2 = a + 3
    BY <1>0, <1>2
  <2>2. SubSeq(m, 1, 2) = BeginString <=> m[1] = 8 /\ m[2] = Equals
    <3>1. SubSeq(m, 0 + 1, 0 + 2) = BeginString <=> m[0 + 1] = BeginString[1] /\ m[0 + 2] = BeginString[2]
      BY <2>1, ConstantStrings, TwoBytes
    <3> QED
      BY <2>1, <3>1, ConstantStrings
  <2>3. SubSeq(m, a + 2, a + 3) = BodyLength <=> m[a + 2] = 9 /\ m[a + 3] = Equals
    <3>1. a + 1 \in Nat
      OBVIOUS
    <3>2. SubSeq(m, (a + 1) + 1, (a + 1) + 2) = BodyLength
            <=> m[(a + 1) + 1] = BodyLength[1] /\ m[(a + 1) + 2] = BodyLength[2]
      BY <2>1, <3>1, ConstantStrings, TwoBytes
    <3> QED
      BY <2>1, <3>2, ConstantStrings
  <2>4. Free(SubSeq(m, 1, a), SOH) <=> \A i \in 1 .. a : m[i] # SOH
    <3>1. a \in 0 .. Len(m)
      BY <1>0, <2>1
    <3>2. Len(SubSeq(m, 1, a)) = a /\ \A i \in 1 .. a : SubSeq(m, 1, a)[i] = m[i]
      BY <3>1, FrontFacts
    <3> QED
      BY <3>2 DEF Free
  <2>5. Says(digits, to - (b + 1)) <=> to - (b + 1) \in ParseDigits(digits)
    <3>1. digits \in Seq(Bytes) /\ Len(digits) <= MaxMessageLen
      <4>1. a + 4 \in 1 .. Len(m) + 1 /\ b \in 0 .. Len(m)
        BY <1>0, <2>1
      <4>2. digits \in Seq(Bytes) /\ Len(digits) = IF a + 4 <= b THEN b - (a + 4) + 1 ELSE 0
        BY <4>1, SubSeqFacts
      <4> HIDE DEF digits
      <4> QED
        BY <1>0, <4>1, <4>2
    <3> HIDE DEF digits
    <3> QED
      BY <3>1, SaysIsParsed
  <2>6. IsCheckSumField(SubSeq(m, to + 1, to + TailLen))
          <=> /\ SubSeq(m, to + 1, to + 3) = CheckSum
              /\ \A i \in 4 .. 6 : m[to + i] \in Digits
              /\ m[to + TailLen] = SOH
    <3>1. to \in Nat /\ to + TailLen <= Len(m)
      BY <1>0, <2>1
    <3> HIDE DEF to
    <3> QED
      BY <3>1, TailIs
  <2>7. to + TailLen <= Len(m) /\ to + TailLen <= MaxMessageLen /\ m[to + TailLen] = m[Len(m)]
    BY <1>0, <2>1
  <2>8. Splits(m, a, b)
          <=> /\ sizes /\ SubSeq(m, 1, 2) = BeginString /\ Free(SubSeq(m, 1, a), SOH) /\ m[a + 1] = SOH
              /\ SubSeq(m, a + 2, a + 3) = BodyLength /\ m[b + 1] = SOH
              /\ Says(digits, to - (b + 1))
              /\ SubSeq(m, to + 1, to + 3) = CheckSum
              /\ \A i \in 4 .. 6 : m[to + i] \in Digits
              /\ m[Len(m)] = SOH
    BY Zenon DEF Splits
  <2>9. Shape(m, a, b, to)
          <=> /\ to \in Nat /\ sizes
              /\ to + TailLen <= Len(m) /\ to + TailLen <= MaxMessageLen
              /\ m[1] = 8 /\ m[2] = Equals /\ m[a + 1] = SOH /\ \A i \in 1 .. a : m[i] # SOH
              /\ m[a + 2] = 9 /\ m[a + 3] = Equals /\ m[b + 1] = SOH
              /\ to - (b + 1) \in ParseDigits(digits)
              /\ IsCheckSumField(SubSeq(m, to + 1, to + TailLen))
    BY Zenon DEF Shape
  <2> HIDE DEF to, digits, sizes
  <2> QED
    BY <1>2, <2>1, <2>2, <2>3, <2>4, <2>5, <2>6, <2>7, <2>8, <2>9, Zenon DEF to
<1> QED
  BY <1>1, <1>2

\* The shape and the framer.
LEMMA ShapeIsFramed ==
  ASSUME NEW s \in Seq(Bytes), NEW a, NEW b, NEW to, Shape(s, a, b, to)
  PROVE  Layout(s) = Frame(b + 1, to)
<1>0. /\ a \in Nat /\ b \in Nat /\ to \in Nat /\ Len(s) \in Nat /\ TailLen = 7
      /\ MaxMessageLen \in Nat /\ MaxHeaderScan \in Nat
      /\ 2 <= a /\ a + 3 <= b /\ b < MaxHeaderScan /\ b < to + 1
      /\ to + TailLen <= Len(s) /\ to + TailLen <= MaxMessageLen
  BY FramerAssumption, LenProperties DEF Shape, TailLen
<1>1. StartsWithPrefixOf(s, BeginString)
  <2>1. 0 + 2 <= Len(s) /\ 0 + 1 = 1 /\ 0 + 2 = 2
    BY <1>0
  <2>2. s[1] = BeginString[1] /\ s[2] = BeginString[2]
    BY ConstantStrings DEF Shape
  <2> QED
    BY <2>1, <2>2, ConstantStrings, TwoBytes
<1>2. ScanSoh(s, 0) = Found(a)
  <2>1. a \in 0 .. (Smaller(Len(s), MaxHeaderScan) - 1)
    BY <1>0 DEF Smaller
  <2>2. s[a + 1] = SOH
    BY DEF Shape
  <2>3. \A o \in 0 .. (a - 1) : s[o + 1] # SOH
    <3> TAKE o \in 0 .. (a - 1)
    <3>1. o + 1 \in 1 .. a
      BY <1>0
    <3> QED
      BY <3>1 DEF Shape
  <2> QED
    BY <2>1, <2>2, <2>3, ScanSohIs
<1> DEFINE start == a + 1
           digits == SubSeq(s, start + 3, b)
           rest == SubSeq(s, start + 1, Len(s))
<1>3. StartsWithPrefixOf(rest, BodyLength)
  <2>1. start \in Nat /\ start + 2 <= Len(s) /\ start + 1 = a + 2 /\ start + 2 = a + 3
    BY <1>0
  <2>2. s[start + 1] = BodyLength[1] /\ s[start + 2] = BodyLength[2]
    BY <2>1, ConstantStrings DEF Shape
  <2> HIDE DEF start
  <2> QED
    BY <2>1, <2>2, ConstantStrings, TwoBytes
<1>4. digits = SubSeq(s, a + 4, b) /\ to - (b + 1) \in ParseDigits(digits)
  <2>1. start + 3 = a + 4
    BY <1>0
  <2> QED
    BY <2>1 DEF Shape
<1>5. ScanSoh(s, start) = Found(b)
  <2>1. b \in start .. (Smaller(Len(s), MaxHeaderScan) - 1) /\ start \in Nat
    BY <1>0 DEF Smaller
  <2>2. s[b + 1] = SOH
    BY DEF Shape
  <2>3. \A o \in start .. (b - 1) : s[o + 1] # SOH
    <3> TAKE o \in start .. (b - 1)
    <3>1. CASE o \in {a + 1, a + 2}
      <4>1. o + 1 \in {a + 2, a + 3}
        BY <1>0, <3>1
      <4> QED
        BY <4>1, ConstantStrings DEF Shape
    <3>2. CASE o \notin {a + 1, a + 2}
      <4> DEFINE i == o - (a + 2)
      <4>1. /\ i \in 1 .. b - (a + 4) + 1 /\ a + 4 + i - 1 = o + 1
            /\ a + 4 \in 1 .. Len(s) + 1 /\ b \in 0 .. Len(s) /\ a + 4 <= b
        BY <1>0, <3>2
      <4>2. Len(digits) = b - (a + 4) + 1 /\ digits[i] = s[o + 1]
        <5> HIDE DEF i, digits
        <5> QED
          BY <1>4, <4>1, SubSeqFacts
      <4>3. AllDigits(digits)
        BY <1>4, ParsedFacts
      <4> QED
        BY <4>1, <4>2, <4>3, ConstantStrings DEF AllDigits
    <3> QED
      BY <3>1, <3>2
  <2> HIDE DEF start
  <2> QED
    BY <2>1, <2>2, <2>3, ScanSohIs
<1>6. ParseDigits(digits) # {} /\ Least(ParseDigits(digits)) = to - (b + 1)
  BY <1>4, ParsedFacts
<1>7. BodyLayout(s, b + 1, to) = Frame(b + 1, to)
  <2>1. ~(to + TailLen > MaxMessageLen) /\ ~(Len(s) < to + TailLen)
    BY <1>0
  <2> QED
    BY <2>1 DEF BodyLayout, Shape
<1>8. Layout(s) = LengthLayout(s, start)
  BY <1>1, <1>2 DEF Layout, Found
<1>9. LengthLayout(s, start) = BodyLayout(s, b + 1, b + 1 + Least(ParseDigits(digits)))
  BY <1>3, <1>5, <1>6 DEF LengthLayout, Found
<1>10. b + 1 + (to - (b + 1)) = to
  BY <1>0
<1> QED
  BY <1>6, <1>7, <1>8, <1>9, <1>10

LEMMA FramedIsShape ==
  ASSUME NEW s \in Seq(Bytes), Layout(s).status = "frame"
  PROVE  \E a \in Nat, b \in Nat, to \in Nat : Shape(s, a, b, to) /\ Layout(s) = Frame(b + 1, to)
<1> DEFINE begin  == ScanSoh(s, 0)
           a      == begin.at
           start  == a + 1
           rest   == SubSeq(s, start + 1, Len(s))
           soh    == ScanSoh(s, start)
           b      == soh.at
           digits == SubSeq(s, start + 3, b)
           n      == Least(ParseDigits(digits))
           to     == b + 1 + n
<1>0. /\ Len(s) \in Nat /\ TailLen = 7 /\ MaxMessageLen \in Nat /\ MaxHeaderScan \in Nat
      /\ Smaller(Len(s), MaxHeaderScan) \in Nat
      /\ Smaller(Len(s), MaxHeaderScan) <= Len(s) /\ Smaller(Len(s), MaxHeaderScan) <= MaxHeaderScan
  BY FramerAssumption, LenProperties DEF TailLen, Smaller
<1>1. StartsWithPrefixOf(s, BeginString) /\ begin.status = "found"
  <2>1. begin.status \in {"found", "failed", "incomplete"}
    BY ScanSohSees DEF Incomplete
  <2> QED
    BY <2>1 DEF Layout, Failure
<1>2. Layout(s) = LengthLayout(s, start)
  BY <1>1 DEF Layout
<1>3. begin = Found(a)
  BY <1>1 DEF ScanSoh, Found, Failure, Incomplete
<1>4. /\ a \in 0 .. (Smaller(Len(s), MaxHeaderScan) - 1) /\ s[a + 1] = SOH
      /\ \A o \in 0 .. (a - 1) : s[o + 1] # SOH
  <2> HIDE DEF a
  <2> QED
    BY <1>3, ScanSohIs
<1> HIDE DEF a
<1>5. /\ StartsWithPrefixOf(rest, BodyLength) /\ soh.status = "found"
      /\ ParseDigits(digits) # {} /\ Layout(s) = BodyLayout(s, b + 1, to)
  <2>1. start \in Nat
    BY <1>0, <1>4
  <2>2. soh.status \in {"found", "failed", "incomplete"}
    BY <2>1, ScanSohSees DEF Incomplete
  <2> QED
    BY <1>2, <2>2 DEF LengthLayout, Failure
<1>6. soh = Found(b)
  BY <1>5 DEF ScanSoh, Found, Failure, Incomplete
<1>7. /\ b \in start .. (Smaller(Len(s), MaxHeaderScan) - 1) /\ s[b + 1] = SOH
      /\ \A o \in start .. (b - 1) : s[o + 1] # SOH
  <2>1. start \in Nat
    BY <1>0, <1>4
  <2> HIDE DEF b, start
  <2> QED
    BY <1>6, <2>1, ScanSohIs
<1> HIDE DEF b
<1>8. n \in ParseDigits(digits) /\ n \in Nat
  BY <1>5, ParsedIsNat, LeastIsIn
<1> HIDE DEF n
<1>9. /\ a \in Nat /\ b \in Nat /\ to \in Nat /\ a + 1 <= b /\ b < MaxHeaderScan /\ b < to + 1
      /\ b + 1 <= Len(s) /\ start = a + 1 /\ start \in Nat /\ to - (b + 1) = n
  BY <1>0, <1>4, <1>7, <1>8
<1>10. /\ to + TailLen <= MaxMessageLen /\ to + TailLen <= Len(s)
       /\ IsCheckSumField(SubSeq(s, to + 1, to + TailLen))
       /\ Layout(s) = Frame(b + 1, to)
  <2>1. /\ ~(to + TailLen > MaxMessageLen) /\ ~(Len(s) < to + TailLen)
        /\ IsCheckSumField(SubSeq(s, to + 1, to + TailLen))
        /\ Layout(s) = Frame(b + 1, to)
    <3> HIDE DEF to
    <3> QED
      BY <1>5 DEF BodyLayout, Failure, Incomplete
  <2> QED
    BY <1>0, <1>9, <2>1
<1> HIDE DEF to
<1>11. 2 <= a /\ s[1] = 8 /\ s[2] = Equals
  <2>1. 0 + 2 <= Len(s) /\ 0 + 1 = 1 /\ 0 + 2 = 2
    BY <1>0, <1>9, <1>10
  <2>2. s[1] = 8 /\ s[2] = Equals
    BY <1>1, <2>1, ConstantStrings, TwoBytes
  <2>3. a # 0 /\ a # 1
    BY <1>4, <2>2, ConstantStrings
  <2> QED
    BY <1>9, <2>2, <2>3
<1>12. s[a + 2] = 9 /\ s[a + 3] = Equals /\ a + 3 <= b
  <2>1. start + 2 <= Len(s) /\ start + 1 = a + 2 /\ start + 2 = a + 3
    BY <1>0, <1>9, <1>10
  <2>2. s[a + 2] = 9 /\ s[a + 3] = Equals
    <3>1. StartsWithPrefixOf(SubSeq(s, start + 1, Len(s)), BodyLength) /\ start \in Nat
      BY <1>5, <1>9
    <3> HIDE DEF start, rest
    <3>2. s[start + 1] = BodyLength[1] /\ s[start + 2] = BodyLength[2]
      BY <2>1, <3>1, ConstantStrings, TwoBytes
    <3> QED
      BY <2>1, <3>2, ConstantStrings
  <2>3. b # a + 1 /\ b # a + 2
    <3>1. (a + 1) + 1 = a + 2 /\ (a + 2) + 1 = a + 3
      BY <1>9
    <3> QED
      BY <1>7, <2>2, <3>1, ConstantStrings
  <2> QED
    BY <1>9, <2>2, <2>3
<1>13. \A i \in 1 .. a : s[i] # SOH
  <2> TAKE i \in 1 .. a
  <2>1. i - 1 \in 0 .. (a - 1) /\ (i - 1) + 1 = i
    BY <1>9
  <2>2. s[(i - 1) + 1] # SOH
    BY <1>4, <2>1
  <2> QED
    BY <2>1, <2>2
<1>14. to - (b + 1) \in ParseDigits(SubSeq(s, a + 4, b))
  <2>1. start + 3 = a + 4
    BY <1>9
  <2> QED
    BY <1>8, <1>9, <2>1
<1>15. Shape(s, a, b, to)
  BY <1>4, <1>7, <1>9, <1>10, <1>11, <1>12, <1>13, <1>14 DEF Shape
<1> QED
  BY <1>9, <1>10, <1>15

\* A message at the front of a byte string is one whatever follows it.
LEMMA ShapeOfFront ==
  ASSUME NEW s \in Seq(Bytes), NEW a, NEW b, NEW to, Shape(s, a, b, to)
  PROVE  LET front == SubSeq(s, 1, to + TailLen)
         IN  /\ front \in Seq(Bytes) /\ Len(front) = to + TailLen
             /\ Shape(front, a, b, to)
<1> DEFINE k == to + TailLen
           front == SubSeq(s, 1, k)
<1>0. /\ a \in Nat /\ b \in Nat /\ to \in Nat /\ Len(s) \in Nat /\ TailLen = 7
      /\ 2 <= a /\ a + 3 <= b /\ b < to + 1 /\ k <= Len(s)
  BY LenProperties DEF Shape, TailLen
<1>1. k \in 0 .. Len(s)
  BY <1>0
<1>2. /\ front \in Seq(Bytes) /\ Len(front) = k
      /\ \A i \in 1 .. k : front[i] = s[i]
      /\ \A m \in 1 .. k + 1, n \in 0 .. k : SubSeq(front, m, n) = SubSeq(s, m, n)
  <2> HIDE DEF k
  <2> QED
    BY <1>1, FrontFacts
<1> HIDE DEF front
<1>3. /\ front[1] = s[1] /\ front[2] = s[2] /\ front[a + 1] = s[a + 1]
      /\ \A i \in 1 .. a : front[i] = s[i]
      /\ front[a + 2] = s[a + 2] /\ front[a + 3] = s[a + 3] /\ front[b + 1] = s[b + 1]
  BY <1>0, <1>2
<1>4. /\ SubSeq(front, a + 4, b) = SubSeq(s, a + 4, b)
      /\ SubSeq(front, to + 1, to + TailLen) = SubSeq(s, to + 1, to + TailLen)
  BY <1>0, <1>2
<1>5. k <= Len(front)
  BY <1>0, <1>2
<1>6. Shape(front, a, b, to)
  BY <1>3, <1>4, <1>5 DEF Shape
<1> QED
  BY <1>2, <1>6 DEF front

\* A message of the grammar has the shape, from its first byte to its last.
LEMMA IsMessageIs ==
  ASSUME NEW m \in Seq(Bytes)
  PROVE  IsMessage(m) <=> \E a \in Nat, b \in Nat : Shape(m, a, b, Len(m) - TailLen)
<1>0. Len(m) \in Nat /\ TailLen = 7 /\ MaxMessageLen \in Nat /\ MaxHeaderScan \in Nat
  BY FramerAssumption, LenProperties DEF TailLen
<1>1. ASSUME IsMessage(m) PROVE \E a \in Nat, b \in Nat : Shape(m, a, b, Len(m) - TailLen)
  <2>1. PICK a \in SOHs(m), b \in SOHs(m) : Splits(m, a, b)
    BY <1>1 DEF IsMessage
  <2>2. Len(m) <= MaxMessageLen /\ a \in Nat /\ b \in Nat
    BY <1>1 DEF IsMessage, SOHs
  <2> QED
    BY <2>1, <2>2, SplitsShape
<1>2. ASSUME NEW a \in Nat, NEW b \in Nat, Shape(m, a, b, Len(m) - TailLen) PROVE IsMessage(m)
  <2> DEFINE to == Len(m) - TailLen
  <2>1. /\ Len(m) <= MaxMessageLen /\ a < b /\ b < MaxHeaderScan /\ b < to + 1
        /\ m[a + 1] = SOH /\ m[b + 1] = SOH
    BY <1>0, <1>2 DEF Shape
  <2>2. a \in SOHs(m) /\ b \in SOHs(m)
    BY <1>0, <2>1 DEF SOHs, Smaller
  <2>3. Splits(m, a, b)
    BY <1>2, <2>1, SplitsShape
  <2> QED
    BY <2>1, <2>2, <2>3 DEF IsMessage
<1> QED
  BY <1>1, <1>2

\* The grammar has a message at the front of a byte string exactly where the
\* framer finds one (layout).
THEOREM EndsAreLayout ==
  ASSUME NEW buf \in Seq(Bytes)
  PROVE  MessageEnds(buf, 0) = IF Layout(buf).status = "frame" THEN {Layout(buf).len} ELSE {}
<1>0. Len(buf) \in Nat /\ TailLen = 7 /\ MaxMessageLen \in Nat
  BY FramerAssumption, LenProperties DEF TailLen
<1>1. ASSUME NEW n \in MessageEnds(buf, 0)
      PROVE  Layout(buf).status = "frame" /\ Layout(buf).len = n
  <2> DEFINE m == SubSeq(buf, 1, n)
             more == SubSeq(buf, n + 1, Len(buf))
  <2>1. n \in 1 .. Len(buf) /\ IsMessage(m)
    BY <1>0 DEF MessageEnds, Smaller
  <2>2. m \in Seq(Bytes) /\ Len(m) = n /\ more \in Seq(Bytes) /\ buf = m \o more
    BY <2>1, SplitsInTwo
  <2> HIDE DEF m, more
  <2>3. PICK a \in Nat, b \in Nat : Shape(m, a, b, n - TailLen)
    BY <2>1, <2>2, IsMessageIs
  <2>4. Layout(m) = Frame(b + 1, n - TailLen)
    BY <2>2, <2>3, ShapeIsFramed
  <2>5. Layout(buf) = Layout(m)
    <3>1. Layout(m) # Incomplete /\ Layout(m).status # "failed"
      BY <2>4 DEF Frame, Incomplete
    <3> QED
      BY <2>2, <3>1, LayoutStable
  <2>6. n - TailLen + TailLen = n
    BY <1>0, <2>1
  <2> QED
    BY <2>4, <2>5, <2>6 DEF Frame
<1>2. ASSUME Layout(buf).status = "frame"
      PROVE  Layout(buf).len \in MessageEnds(buf, 0)
  <2>1. PICK a \in Nat, b \in Nat, to \in Nat :
          Shape(buf, a, b, to) /\ Layout(buf) = Frame(b + 1, to)
    BY <1>2, FramedIsShape
  <2> DEFINE n == to + TailLen
             m == SubSeq(buf, 1, n)
  <2>2. m \in Seq(Bytes) /\ Len(m) = n /\ Shape(m, a, b, to)
    BY <2>1, ShapeOfFront
  <2>3. Layout(buf).len = n /\ n - TailLen = to /\ 0 + 1 = 1
        /\ n \in 1 .. Smaller(Len(buf), 0 + MaxMessageLen)
    <3>1. to + TailLen <= Len(buf) /\ to + TailLen <= MaxMessageLen
      BY <2>1 DEF Shape
    <3> QED
      BY <1>0, <2>1, <3>1 DEF Frame, Smaller
  <2>4. IsMessage(m)
    <3> HIDE DEF m, n
    <3> QED
      BY <2>2, <2>3, IsMessageIs
  <2>5. buf[n] = SOH
    BY <2>1, TailIs DEF Shape
  <2> QED
    BY <2>3, <2>4, <2>5 DEF MessageEnds
<1> QED
  BY <1>1, <1>2

\* A piece of a piece.
LEMMA PieceOfRest ==
  ASSUME NEW s \in Seq(Bytes), NEW o \in 0 .. Len(s), NEW i \in Nat, NEW j \in Nat, o + j <= Len(s)
  PROVE  SubSeq(SubSeq(s, o + 1, Len(s)), i + 1, j) = SubSeq(s, o + i + 1, o + j)
<1> DEFINE rest == SubSeq(s, o + 1, Len(s))
           left  == SubSeq(rest, i + 1, j)
           right == SubSeq(s, o + i + 1, o + j)
<1>0. Len(s) \in Nat
  BY LenProperties
<1>1. /\ rest \in Seq(Bytes) /\ Len(rest) = Len(s) - o
      /\ \A k \in 1 .. (Len(s) - o) : rest[k] = s[o + k]
  BY RestOfConcat
<1> HIDE DEF rest
<1>2. CASE i >= j
  <2>1. ~(i + 1 <= j) /\ ~(o + i + 1 <= o + j)
    BY <1>0, <1>2
  <2>2. left = <<>> /\ right = <<>>
    BY <2>1, SubSeqEmpty
  <2> QED
    BY <2>2 DEF rest
<1>3. CASE i < j
  <2>1. /\ i + 1 \in 1 .. Len(rest) + 1 /\ j \in 0 .. Len(rest) /\ i + 1 <= j
        /\ o + i + 1 \in 1 .. Len(s) + 1 /\ o + j \in 0 .. Len(s) /\ o + i + 1 <= o + j
        /\ j - (i + 1) + 1 = j - i /\ (o + j) - (o + i + 1) + 1 = j - i
    BY <1>0, <1>1, <1>3
  <2>2. /\ left \in Seq(Bytes) /\ Len(left) = j - i
        /\ \A k \in 1 .. j - i : left[k] = rest[(i + 1) + k - 1]
    <3>1. /\ left \in Seq(Bytes)
          /\ Len(left) = IF i + 1 <= j THEN j - (i + 1) + 1 ELSE 0
          /\ \A k \in 1 .. j - (i + 1) + 1 : left[k] = rest[(i + 1) + k - 1]
      BY <1>1, <2>1, SubSeqFacts
    <3> HIDE DEF left
    <3> QED
      BY <2>1, <3>1
  <2>3. /\ right \in Seq(Bytes) /\ Len(right) = j - i
        /\ \A k \in 1 .. j - i : right[k] = s[(o + i + 1) + k - 1]
    BY <2>1, SubSeqFacts
  <2> HIDE DEF left, right
  <2>4. \A k \in 1 .. j - i : left[k] = right[k]
    <3> TAKE k \in 1 .. j - i
    <3>1. (i + 1) + k - 1 = i + k /\ (o + i + 1) + k - 1 = o + (i + k) /\ i + k \in 1 .. (Len(s) - o)
      BY <1>0, <1>3
    <3> QED
      BY <1>1, <2>2, <2>3, <3>1
  <2> HIDE DEF Bytes
  <2>5. left = right
    BY <2>2, <2>3, <2>4, SeqEqual
  <2> QED
    BY <2>5 DEF left, right, rest
<1> QED
  BY <1>0, <1>2, <1>3

\* Whether a message ends somewhere does not depend on what is before it.
LEMMA EndsOfRest ==
  ASSUME NEW s \in Seq(Bytes), NEW o \in 0 .. Len(s), NEW k \in 0 .. (Len(s) - o)
  PROVE  LET rest == SubSeq(s, o + 1, Len(s))
         IN  \A n \in Int : n \in MessageEnds(rest, k) <=> o + n \in MessageEnds(s, o + k)
<1> DEFINE rest == SubSeq(s, o + 1, Len(s))
<1>0. Len(s) \in Nat /\ MaxMessageLen \in Nat
  BY FramerAssumption, LenProperties
<1>1. /\ rest \in Seq(Bytes) /\ Len(rest) = Len(s) - o
      /\ \A i \in 1 .. (Len(s) - o) : rest[i] = s[o + i]
  BY RestOfConcat
<1> SUFFICES ASSUME NEW n \in Int
             PROVE  n \in MessageEnds(rest, k) <=> o + n \in MessageEnds(s, o + k)
  OBVIOUS
<1>2. n \in (k + 1) .. Smaller(Len(rest), k + MaxMessageLen)
        <=> o + n \in (o + k + 1) .. Smaller(Len(s), o + k + MaxMessageLen)
  BY <1>0, <1>1 DEF Smaller
<1>3. CASE n \in (k + 1) .. Smaller(Len(rest), k + MaxMessageLen)
  <2>1. n \in 1 .. (Len(s) - o) /\ k \in Nat /\ n \in Nat /\ o + n <= Len(s)
    BY <1>0, <1>1, <1>3 DEF Smaller
  <2>2. SubSeq(rest, k + 1, n) = SubSeq(s, o + k + 1, o + n)
    BY <2>1, PieceOfRest
  <2>3. rest[n] = s[o + n]
    BY <1>1, <2>1
  <2> QED
    BY <1>2, <1>3, <2>2, <2>3 DEF MessageEnds
<1>4. CASE n \notin (k + 1) .. Smaller(Len(rest), k + MaxMessageLen)
  BY <1>2, <1>4 DEF MessageEnds
<1> QED
  BY <1>3, <1>4

LEMMA EndsAreBehind ==
  ASSUME NEW s \in Seq(Bytes), NEW o \in Nat
  PROVE  /\ MessageEnds(s, o) \subseteq (o + 1) .. Len(s)
         /\ MessageEnds(s, o) # {} => Least(MessageEnds(s, o)) \in (o + 1) .. Len(s)
<1>1. MessageEnds(s, o) \subseteq (o + 1) .. Len(s)
  BY FramerAssumption, LenProperties DEF MessageEnds, Smaller
<1>2. MessageEnds(s, o) \in SUBSET Nat
  BY <1>1, LenProperties
<1> QED
  BY <1>1, <1>2, LeastIsIn

-----------------------------------------------------------------------------
(* The messages that the grammar cuts are those that the framer finds.     *)

\* The function that Cut takes the value at 0 of.
CutFrom(bytes) ==
  LET from[o \in 0 .. Len(bytes)] ==
        LET ends == MessageEnds(bytes, o)
        IN  IF ends = {} THEN <<>> ELSE <<SubSeq(bytes, o + 1, Least(ends))>> \o from[Least(ends)]
  IN  from

\* What it is at offset o when it is h further on.
CutStep(bytes, h, o) ==
  IF MessageEnds(bytes, o) = {} THEN <<>>
  ELSE <<SubSeq(bytes, o + 1, Least(MessageEnds(bytes, o)))>> \o h[Least(MessageEnds(bytes, o))]

LEMMA CutFromUnfolds ==
  ASSUME NEW s \in Seq(Bytes)
  PROVE  CutFrom(s) = [o \in 0 .. Len(s) |-> CutStep(s, CutFrom(s), o)]
<1> DEFINE L == Len(s)
           S == {k \in Nat : k <= L + 1 =>
                   \E h : /\ h = [o \in 0 .. L |-> h[o]]
                          /\ \A o \in 0 .. L : o + k > L => h[o] = CutStep(s, h, o)}
<1>0. L \in Nat
  BY LenProperties
<1> HIDE DEF L
<1>1. 0 \in S
  <2> DEFINE h == [o \in 0 .. L |-> <<>>]
  <2>1. h = [o \in 0 .. L |-> h[o]] /\ \A o \in 0 .. L : ~(o + 0 > L)
    BY <1>0
  <2> QED
    BY <2>1
<1>2. ASSUME NEW k \in Nat, k \in S PROVE k + 1 \in S
  <2> SUFFICES ASSUME k + 1 <= L + 1
               PROVE  \E h : /\ h = [o \in 0 .. L |-> h[o]]
                             /\ \A o \in 0 .. L : o + (k + 1) > L => h[o] = CutStep(s, h, o)
    OBVIOUS
  <2>1. PICK g : /\ g = [o \in 0 .. L |-> g[o]]
                 /\ \A o \in 0 .. L : o + k > L => g[o] = CutStep(s, g, o)
    BY <1>0, <1>2
  <2> DEFINE h == [o \in 0 .. L |-> IF o + k = L THEN CutStep(s, g, o) ELSE g[o]]
  <2>2. h = [o \in 0 .. L |-> h[o]]
    OBVIOUS
  <2>3. \A o \in 0 .. L : o + k > L => h[o] = g[o]
    BY <1>0
  <2>4. \A o \in 0 .. L : o + k = L => h[o] = CutStep(s, g, o)
    OBVIOUS
  <2> HIDE DEF h
  <2>5. ASSUME NEW o \in 0 .. L, o + (k + 1) > L PROVE h[o] = CutStep(s, h, o)
    <3>1. h[o] = CutStep(s, g, o)
      <4>1. CASE o + k = L
        BY <2>4, <4>1
      <4>2. CASE o + k > L
        BY <2>1, <2>3, <4>2
      <4> QED
        BY <1>0, <2>5, <4>1, <4>2
    <3>2. CASE MessageEnds(s, o) = {}
      BY <3>1, <3>2 DEF CutStep
    <3>3. CASE MessageEnds(s, o) # {}
      <4> DEFINE n == Least(MessageEnds(s, o))
      <4>1. n \in (o + 1) .. L
        BY <3>3, EndsAreBehind DEF L
      <4> HIDE DEF n
      <4>2. n \in 0 .. L /\ n + k > L
        BY <1>0, <2>5, <4>1
      <4>3. h[n] = g[n]
        BY <2>3, <4>2
      <4> QED
        BY <3>1, <4>3 DEF CutStep, n
    <3> QED
      BY <3>2, <3>3
  <2> QED
    BY <2>2, <2>5
<1>3. L + 1 \in S
  <2> HIDE DEF S
  <2>1. Nat \subseteq S
    BY <1>1, <1>2, Induction
  <2> QED
    BY <1>0, <2>1
<1>4. PICK h : h = [o \in 0 .. L |-> h[o]] /\ \A o \in 0 .. L : o + (L + 1) > L => h[o] = CutStep(s, h, o)
  BY <1>0, <1>3
<1>5. \A o \in 0 .. L : o + (L + 1) > L
  BY <1>0
<1>6. h = [o \in 0 .. L |-> CutStep(s, h, o)]
  <2>1. \A o \in 0 .. L : h[o] = CutStep(s, h, o)
    BY <1>4, <1>5
  <2> QED
    BY <1>4, <2>1
<1>7. CutFrom(s) = CHOOSE from : from = [o \in 0 .. L |-> CutStep(s, from, o)]
  BY DEF CutFrom, CutStep, L
<1> QED
  BY <1>6, <1>7 DEF L

LEMMA CutFromIs ==
  ASSUME NEW s \in Seq(Bytes), NEW o \in 0 .. Len(s)
  PROVE  CutFrom(s)[o] = CutStep(s, CutFrom(s), o)
BY CutFromUnfolds

LEMMA CutIs ==
  ASSUME NEW s
  PROVE  Cut(s) = CutFrom(s)[0]
BY DEF Cut, CutFrom

\* The messages from an offset on are those of the rest.
LEMMA CutOfRest ==
  ASSUME NEW s \in Seq(Bytes), NEW o \in 0 .. Len(s)
  PROVE  CutFrom(s)[o] = Cut(SubSeq(s, o + 1, Len(s)))
<1> DEFINE rest == SubSeq(s, o + 1, Len(s))
           S == {k \in 0 .. Len(rest) : CutFrom(s)[o + k] = CutFrom(rest)[k]}
<1>1. rest \in Seq(Bytes) /\ Len(rest) = Len(s) - o /\ Len(rest) \in Nat /\ Len(s) \in Nat
  <2>1. rest \in Seq(Bytes) /\ Len(rest) = Len(s) - o
    BY RestOfConcat
  <2> QED
    BY <2>1, LenProperties
<1> HIDE DEF rest
<1>2. ASSUME NEW k \in 0 .. Len(rest), \A x \in (k + 1) .. Len(rest) : x \in S
      PROVE  k \in S
  <2>0. /\ k \in Nat /\ o + k \in 0 .. Len(s) /\ k \in 0 .. (Len(s) - o) /\ o + k \in Nat
        /\ \A x \in (k + 1) .. Len(rest) : CutFrom(s)[o + x] = CutFrom(rest)[x]
    BY <1>1, <1>2
  <2> SUFFICES CutFrom(s)[o + k] = CutFrom(rest)[k]
    OBVIOUS
  <2> HIDE DEF S
  <2>1. /\ CutFrom(s)[o + k] = CutStep(s, CutFrom(s), o + k)
        /\ CutFrom(rest)[k] = CutStep(rest, CutFrom(rest), k)
    BY <1>1, <2>0, CutFromIs
  <2> DEFINE ends == MessageEnds(rest, k)
             all  == MessageEnds(s, o + k)
             n    == Least(ends)
  <2>2. \A x \in Int : x \in ends <=> o + x \in all
    BY <2>0, EndsOfRest DEF rest
  <2>3. ends \in SUBSET Nat /\ all \in SUBSET Nat
    <3>1. ends \subseteq (k + 1) .. Len(rest) /\ all \subseteq (o + k + 1) .. Len(s)
      BY <1>1, <2>0, EndsAreBehind
    <3> HIDE DEF ends, all
    <3> QED
      BY <1>1, <2>0, <3>1
  <2>4. ends # {} => n \in (k + 1) .. Len(rest)
    BY <1>1, <2>0, EndsAreBehind
  <2>5. \A y \in all : y - o \in ends /\ y - o \in Int /\ o + (y - o) = y
    <3> TAKE y \in all
    <3>1. y \in Nat
      BY <2>3
    <3>2. y - o \in Int /\ o + (y - o) = y
      BY <3>1
    <3> HIDE DEF ends, all
    <3> QED
      BY <2>2, <3>2
  <2>6. CASE ends = {}
    <3>1. all = {}
      BY <2>5, <2>6
    <3> QED
      BY <2>1, <2>6, <3>1 DEF CutStep
  <2>7. CASE ends # {}
    <3> HIDE DEF ends, all
    <3>1. n \in ends /\ (\A y \in ends : n <= y)
      BY <2>3, <2>7, LeastIsIn
    <3>2. n \in Nat
      BY <2>3, <3>1
    <3> HIDE DEF n
    <3>3. o + n \in all /\ \A y \in all : o + n <= y
      <4>1. o + n \in all
        BY <2>2, <3>1, <3>2
      <4>2. ASSUME NEW y \in all PROVE o + n <= y
        <5>1. n <= y - o /\ y \in Nat
          BY <2>3, <2>5, <3>1
        <5> QED
          BY <3>2, <5>1
      <4> QED
        BY <4>1, <4>2
    <3>4. Least(all) = o + n
      BY <2>3, <3>3, LeastIs
    <3>5. n \in (k + 1) .. Len(rest)
      BY <2>4, <2>7
    <3>6. SubSeq(rest, k + 1, n) = SubSeq(s, o + k + 1, o + n)
      <4>1. o + n <= Len(s)
        BY <1>1, <2>0, <3>5
      <4> QED
        BY <2>0, <3>2, <4>1, PieceOfRest DEF rest
    <3>7. CutFrom(s)[o + n] = CutFrom(rest)[n]
      BY <2>0, <3>5
    <3>8. CutStep(s, CutFrom(s), o + k) = <<SubSeq(s, o + k + 1, o + n)>> \o CutFrom(s)[o + n]
      BY <3>3, <3>4 DEF CutStep, all
    <3>9. CutStep(rest, CutFrom(rest), k) = <<SubSeq(rest, k + 1, n)>> \o CutFrom(rest)[n]
      BY <2>7 DEF CutStep, n, ends
    <3> QED
      BY <2>1, <3>6, <3>7, <3>8, <3>9
  <2> QED
    BY <2>6, <2>7
<1>3. 0 \in S
  <2>1. 0 .. Len(rest) \subseteq S
    <3> HIDE DEF S
    <3> QED
      BY <1>1, <1>2, Descent
  <2> QED
    BY <1>1, <2>1
<1>4. o + 0 = o
  OBVIOUS
<1> QED
  BY <1>1, <1>3, <1>4, CutIs DEF rest

\* Cut returns byte strings.
LEMMA CutIsTyped ==
  ASSUME NEW s \in Seq(Bytes)
  PROVE  Cut(s) \in Seq(Seq(Bytes))
<1> DEFINE S == {o \in 0 .. Len(s) : CutFrom(s)[o] \in Seq(Seq(Bytes))}
<1>0. Len(s) \in Nat
  BY LenProperties
<1>1. ASSUME NEW o \in 0 .. Len(s), \A x \in (o + 1) .. Len(s) : x \in S
      PROVE  o \in S
  <2>1. CASE MessageEnds(s, o) = {}
    <3>1. CutFrom(s)[o] = <<>>
      BY <2>1, CutFromIs DEF CutStep
    <3>2. <<>> \in Seq(Seq(Bytes))
      BY EmptySeq
    <3> QED
      BY <3>1, <3>2
  <2>2. CASE MessageEnds(s, o) # {}
    <3> DEFINE n == Least(MessageEnds(s, o))
               m == SubSeq(s, o + 1, n)
    <3>1. n \in (o + 1) .. Len(s)
      BY <2>2, EndsAreBehind
    <3>2. CutFrom(s)[o] = <<m>> \o CutFrom(s)[n]
      BY <2>2, CutFromIs DEF CutStep
    <3> HIDE DEF n
    <3>3. CutFrom(s)[n] \in Seq(Seq(Bytes))
      BY <1>1, <3>1
    <3>4. m \in Seq(Bytes)
      <4>1. o + 1 \in 1 .. Len(s) + 1 /\ n \in 0 .. Len(s)
        BY <1>0, <3>1
      <4> QED
        BY <4>1, SubSeqFacts
    <3> HIDE DEF m
    <3>5. <<m>> \in Seq(Seq(Bytes))
      BY <3>4
    <3>6. <<m>> \o CutFrom(s)[n] \in Seq(Seq(Bytes))
      BY <3>3, <3>5, ConcatProperties
    <3> QED
      BY <3>2, <3>6
  <2> QED
    BY <2>1, <2>2
<1>2. 0 \in S
  <2>1. 0 .. Len(s) \subseteq S
    <3> HIDE DEF S
    <3> QED
      BY <1>0, <1>1, Descent
  <2> QED
    BY <1>0, <2>1
<1> QED
  BY <1>2, CutIs

\* The messages of a byte string: none where the framer finds none, else the
\* one it finds and those of the rest.
THEOREM CutIsLayout ==
  ASSUME NEW s \in Seq(Bytes)
  PROVE  /\ Cut(s) \in Seq(Seq(Bytes))
         /\ Layout(s).status # "frame" => Cut(s) = <<>>
         /\ Layout(s).status = "frame" =>
              Cut(s) = <<SubSeq(s, 1, Layout(s).len)>>
                         \o Cut(SubSeq(s, Layout(s).len + 1, Len(s)))
<1>0. Len(s) \in Nat /\ 0 \in 0 .. Len(s)
  BY LenProperties
<1>1. Cut(s) = CutStep(s, CutFrom(s), 0)
  BY <1>0, CutIs, CutFromIs
<1>2. CASE Layout(s).status # "frame"
  <2>1. MessageEnds(s, 0) = {}
    BY <1>2, EndsAreLayout
  <2> QED
    BY <1>1, <1>2, <2>1, CutIsTyped DEF CutStep
<1>3. CASE Layout(s).status = "frame"
  <2> DEFINE n == Layout(s).len
  <2>1. MessageEnds(s, 0) = {n}
    BY <1>3, EndsAreLayout
  <2>2. n \in 1 .. Len(s)
    BY <1>0, <2>1, EndsAreBehind
  <2> HIDE DEF n
  <2>3. Least({n}) = n
    BY <2>2, LeastIs
  <2>4. CutStep(s, CutFrom(s), 0) = <<SubSeq(s, 1, n)>> \o CutFrom(s)[n]
    <3>1. MessageEnds(s, 0) # {} /\ Least(MessageEnds(s, 0)) = n
      BY <2>1, <2>3, Zenon
    <3>2. 0 + 1 = 1
      OBVIOUS
    <3> QED
      BY <3>1, <3>2, Zenon DEF CutStep
  <2>5. CutFrom(s)[n] = Cut(SubSeq(s, n + 1, Len(s)))
    BY <1>0, <2>2, CutOfRest
  <2> QED
    BY <1>1, <1>3, <2>4, <2>5, CutIsTyped DEF n
<1> QED
  BY <1>2, <1>3

-----------------------------------------------------------------------------
(* What one call does to the messages of the stream.                       *)

\* One call and the messages of everything that the framer holds or will hold:
\* it takes the first of them away, or it fails and there are none.
THEOREM NextMessageCuts ==
  ASSUME NEW f \in Framers, f.failed = {}, NEW more \in Seq(Bytes)
  PROVE  LET next == NextMessage(f)
         IN  \/ next.answer = "none" /\ Layout(f.buf) = Incomplete /\ Cut(f.buf) = <<>>
             \/ /\ next.answer = "message" /\ Layout(f.buf).status = "frame"
                /\ next.message = MessageAt(f, Layout(f.buf))
                /\ Cut(f.buf \o more) = <<next.message.raw>> \o Cut(next.framer.buf \o more)
             \/ next.answer \in FrameErrors /\ Cut(f.buf \o more) = <<>>
<1> DEFINE next   == NextMessage(f)
           layout == Layout(f.buf)
           buf    == f.buf
           all    == buf \o more
<1>1. /\ buf \in Seq(Bytes) /\ Len(buf) \in Nat /\ Len(more) \in Nat
      /\ all \in Seq(Bytes) /\ Len(all) = Len(buf) + Len(more)
  BY ConcatProperties, LenProperties DEF Framers
<1>2. CASE layout = Incomplete /\ Len(buf) < MaxMessageLen
  <2>1. next.answer = "none"
    BY <1>2 DEF NextMessage, Incomplete
  <2>2. layout.status # "frame"
    BY <1>2 DEF Incomplete
  <2>3. Cut(buf) = <<>>
    BY <1>1, <2>2, CutIsLayout
  <2> QED
    BY <1>2, <2>1, <2>3
<1>3. CASE layout.status = "failed" /\ layout.error \in FrameErrors
  <2>1. next.answer = layout.error
    BY <1>3 DEF NextMessage, WithFailure
  <2>2. Layout(all).status = "failed"
    <3>1. layout # Incomplete
      BY <1>3 DEF Incomplete
    <3> QED
      BY <1>1, <1>3, <3>1, LayoutStable
  <2>3. Cut(all) = <<>>
    <3>1. Layout(all).status # "frame"
      BY <2>2
    <3> HIDE DEF all
    <3> QED
      BY <1>1, <3>1, CutIsLayout
  <2> QED
    BY <1>3, <2>1, <2>3
<1>4. CASE layout.status = "frame" /\ layout.len \in 1 .. Len(buf)
  <2> DEFINE n    == layout.len
             raw  == SubSeq(buf, 1, n)
             tail == SubSeq(buf, n + 1, Len(buf))
  <2>1. /\ next.answer = "message" /\ next.message = MessageAt(f, layout)
        /\ next.message.raw = raw /\ next.framer.buf = tail
    <3>1. next = WithMessage(f, layout)
      BY <1>4 DEF NextMessage
    <3>2. /\ next.answer = "message" /\ next.message = MessageAt(f, layout)
          /\ next.framer = [f EXCEPT !.buf = tail]
      BY <3>1 DEF WithMessage
    <3>3. next.message.raw = raw
      <4>1. MessageAt(f, layout).raw = raw
        BY DEF MessageAt
      <4> QED
        BY <3>2, <4>1
    <3> HIDE DEF next, tail
    <3>4. next.framer.buf = tail
      BY <3>2 DEF Framers
    <3> QED
      BY <3>2, <3>3, <3>4
  <2>2. Layout(all) = layout
    <3>1. layout # Incomplete /\ layout.status # "failed"
      BY <1>4 DEF Incomplete
    <3> QED
      BY <1>1, <3>1, LayoutStable
  <2>3. Cut(all) = <<SubSeq(all, 1, n)>> \o Cut(SubSeq(all, n + 1, Len(all)))
    <3> HIDE DEF all
    <3> QED
      BY <1>1, <1>4, <2>2, CutIsLayout
  <2>4. n \in 0 .. Len(buf) /\ 1 \in 1 .. Len(buf) + 1
    BY <1>1, <1>4
  <2>5. SubSeq(all, 1, n) = raw
    BY <1>1, <2>4, ConcatKeeps
  <2>6. SubSeq(all, n + 1, Len(all)) = tail \o more
    BY <1>1, <2>4, RestOfConcat
  <2> HIDE DEF all, raw, tail, n, next
  <2> QED
    BY <1>4, <2>1, <2>3, <2>5, <2>6 DEF all, next
<1> QED
  BY <1>1, <1>2, <1>3, <1>4, LayoutSees

-----------------------------------------------------------------------------
(* The header of a message.                                                *)

SessionTags == {<<3, 4>>, <<3, 5>>, <<4, 3>>}

\* A field with this tag begins at offset o of a body that ends at `to`.
Begins(m, to, tag, o) ==
  /\ m[o] = SOH
  /\ SubSeq(m, o + 1, o + 3) = tag \o <<Equals>>
  /\ o + 3 <= to

LEMMA SessionTagFacts ==
  ASSUME NEW tag \in SessionTags
  PROVE  /\ tag \in Seq(Bytes) /\ Len(tag) = 2 /\ tag[1] \in Digits /\ tag[2] \in Digits
         /\ tag \o <<Equals>> \in Seq(Bytes) /\ Len(tag \o <<Equals>>) = 3
         /\ (tag \o <<Equals>>)[1] = tag[1] /\ (tag \o <<Equals>>)[2] = tag[2]
         /\ (tag \o <<Equals>>)[3] = Equals
<1>1. tag \in Seq(Bytes) /\ Len(tag) = 2 /\ tag[1] \in Digits /\ tag[2] \in Digits
  <2>1. 3 \in Bytes /\ 4 \in Bytes /\ 5 \in Bytes /\ {3, 4, 5} \subseteq Digits
    BY DEF Bytes, Digits
  <2> HIDE DEF Bytes, Digits
  <2>2. CASE tag = <<3, 4>>
    BY <2>1, <2>2
  <2>3. CASE tag = <<3, 5>>
    BY <2>1, <2>3
  <2>4. CASE tag = <<4, 3>>
    BY <2>1, <2>4
  <2> QED
    BY <2>2, <2>3, <2>4 DEF SessionTags
<1>2. <<Equals>> \in Seq(Bytes) /\ Len(<<Equals>>) = 1 /\ <<Equals>>[1] = Equals
  BY DEF Equals, Bytes
<1> DEFINE all == tag \o <<Equals>>
<1>3. /\ all \in Seq(Bytes) /\ Len(all) = 2 + 1
      /\ \A i \in 1 .. 2 + 1 : all[i] = IF i <= 2 THEN tag[i] ELSE <<Equals>>[i - 2]
  BY <1>1, <1>2, ConcatProperties
<1> HIDE DEF all
<1>4. Len(all) = 3 /\ all[1] = tag[1] /\ all[2] = tag[2] /\ all[3] = <<Equals>>[1]
  BY <1>3
<1> QED
  BY <1>1, <1>2, <1>3, <1>4 DEF all

LEMMA BeginsIs ==
  ASSUME NEW m \in Seq(Bytes), NEW to \in Nat, to < Len(m), NEW tag \in SessionTags, NEW o \in Nat
  PROVE  Begins(m, to, tag, o)
           <=> /\ o + 3 <= to /\ m[o] = SOH
               /\ m[o + 1] = tag[1] /\ m[o + 2] = tag[2] /\ m[o + 3] = Equals
<1> DEFINE piece == SubSeq(m, o + 1, o + 3)
           want  == tag \o <<Equals>>
<1>1. CASE o + 3 <= to
  <2>1. /\ o + 1 \in 1 .. Len(m) + 1 /\ o + 3 \in 0 .. Len(m) /\ o + 1 <= o + 3
        /\ (o + 3) - (o + 1) + 1 = 3
        /\ (o + 1) + 1 - 1 = o + 1 /\ (o + 1) + 2 - 1 = o + 2 /\ (o + 1) + 3 - 1 = o + 3
    BY <1>1, LenProperties
  <2>2. /\ piece \in Seq(Bytes) /\ Len(piece) = 3
        /\ \A i \in 1 .. 3 : piece[i] = m[(o + 1) + i - 1]
    <3>1. /\ piece \in Seq(Bytes)
          /\ Len(piece) = IF o + 1 <= o + 3 THEN (o + 3) - (o + 1) + 1 ELSE 0
          /\ \A i \in 1 .. (o + 3) - (o + 1) + 1 : piece[i] = m[(o + 1) + i - 1]
      BY <2>1, SubSeqFacts
    <3> HIDE DEF piece
    <3> QED
      BY <2>1, <3>1
  <2> HIDE DEF piece
  <2>3. piece[1] = m[o + 1] /\ piece[2] = m[o + 2] /\ piece[3] = m[o + 3]
    <3>1. 1 \in 1 .. 3 /\ 2 \in 1 .. 3 /\ 3 \in 1 .. 3
      OBVIOUS
    <3> QED
      BY <2>1, <2>2, <3>1
  <2>4. /\ want \in Seq(Bytes) /\ Len(want) = 3
        /\ want[1] = tag[1] /\ want[2] = tag[2] /\ want[3] = Equals
    BY SessionTagFacts
  <2> HIDE DEF want
  <2>5. piece = want <=> piece[1] = want[1] /\ piece[2] = want[2] /\ piece[3] = want[3]
    <3>1. ASSUME piece[1] = want[1], piece[2] = want[2], piece[3] = want[3] PROVE piece = want
      <4>1. \A i \in 1 .. 3 : piece[i] = want[i]
        <5>1. 1 .. 3 = {1, 2, 3}
          OBVIOUS
        <5> QED
          BY <3>1, <5>1
      <4> HIDE DEF Bytes
      <4> QED
        BY <2>2, <2>4, <4>1, SeqEqual
    <3> QED
      BY <3>1
  <2> QED
    BY <1>1, <2>3, <2>4, <2>5 DEF Begins, piece, want
<1>2. CASE ~(o + 3 <= to)
  BY <1>2 DEF Begins
<1> QED
  BY <1>1, <1>2

\* Where a field ends, and what it means that none of its bytes is a SOH.
LEMMA FieldEndFacts ==
  ASSUME NEW m, NEW o \in Nat, NEW to \in Nat, o < to
  PROVE  /\ FieldEnd(m, o, to) \in o .. to
         /\ \A k \in o .. to :
              (\A x \in o .. (k - 1) : m[x + 1] # SOH) => k <= FieldEnd(m, o, to)
<1> DEFINE hits == {x \in o .. (to - 1) : m[x + 1] = SOH} \cup {to}
<1>1. hits \in SUBSET Nat /\ hits \subseteq o .. to /\ hits # {}
  OBVIOUS
<1>2. FieldEnd(m, o, to) = Least(hits)
  BY DEF FieldEnd
<1>3. Least(hits) \in hits
  BY <1>1, LeastIsIn
<1>4. FieldEnd(m, o, to) \in o .. to
        /\ (FieldEnd(m, o, to) = to \/ m[FieldEnd(m, o, to) + 1] = SOH)
  BY <1>1, <1>2, <1>3
<1> QED
  BY <1>4

\* The tag that the code reads off a field is what the field begins with.
LEMMA TagIsRead ==
  ASSUME NEW m \in Seq(Bytes), NEW to \in Nat, to < Len(m), NEW tag \in SessionTags,
         NEW o \in Nat, o < to, m[o] = SOH
  PROVE  LET end  == FieldEnd(m, o, to)
             seps == Separators(m, o, end)
         IN  /\ Begins(m, to, tag, o) <=> seps # {} /\ SubSeq(m, o + 1, Least(seps)) = tag
             /\ Begins(m, to, tag, o) => Least(seps) = o + 2
             /\ seps # {} => Least(seps) \in Nat /\ Least(seps) < end
<1> DEFINE end  == FieldEnd(m, o, to)
           seps == Separators(m, o, end)
           eq   == Least(seps)
<1>0. Len(m) \in Nat /\ Equals \notin Digits /\ SOH \notin Digits /\ SOH # Equals
  BY LenProperties DEF Equals, SOH, Digits
<1>1. end \in o .. to
  BY FieldEndFacts
<1>2. seps \in SUBSET Nat /\ \A x \in seps : x \in o .. (end - 1) /\ m[x + 1] = Equals
  BY <1>1 DEF Separators
<1>3. ASSUME Begins(m, to, tag, o)
      PROVE  seps # {} /\ eq = o + 2 /\ SubSeq(m, o + 1, o + 2) = tag
  <2>1. o + 3 <= to /\ m[o + 1] = tag[1] /\ m[o + 2] = tag[2] /\ m[o + 3] = Equals
    BY <1>3, BeginsIs
  <2>2. m[o + 1] \in Digits /\ m[o + 2] \in Digits
    BY <2>1, SessionTagFacts
  <2>3. \A x \in o .. (o + 3 - 1) : m[x + 1] # SOH
    <3> TAKE x \in o .. (o + 3 - 1)
    <3>1. x = o \/ x = o + 1 \/ x = o + 2
      OBVIOUS
    <3>2. (o + 1) + 1 = o + 2 /\ (o + 2) + 1 = o + 3
      OBVIOUS
    <3> QED
      BY <1>0, <2>1, <2>2, <3>1, <3>2
  <2>4. o + 3 <= end
    <3>1. o + 3 \in o .. to
      BY <2>1
    <3> QED
      BY <2>3, <3>1, FieldEndFacts
  <2>5. o + 2 \in seps
    <3>1. o + 2 \in o .. (end - 1) /\ (o + 2) + 1 = o + 3
      BY <1>1, <2>4
    <3> HIDE DEF end
    <3> QED
      BY <2>1, <3>1 DEF Separators
  <2>6. \A y \in seps : o + 2 <= y
    <3> TAKE y \in seps
    <3>1. y \in Nat /\ o <= y /\ m[y + 1] = Equals
      BY <1>1, <1>2
    <3>2. y # o /\ y # o + 1
      <4>1. (o + 1) + 1 = o + 2
        OBVIOUS
      <4> QED
        BY <1>0, <2>2, <3>1, <4>1
    <3> QED
      BY <3>1, <3>2
  <2>7. eq = o + 2
    <3> HIDE DEF seps
    <3> QED
      BY <1>2, <2>5, <2>6, LeastIs
  <2>8. SubSeq(m, o + 1, o + 2) = tag
    <3>1. o + 2 <= Len(m)
      BY <1>0, <2>1
    <3> QED
      BY <2>1, <3>1, SessionTagFacts, TwoBytes
  <2> QED
    BY <2>5, <2>7, <2>8
<1>4. seps # {} => eq \in seps
  <2> HIDE DEF seps
  <2> QED
    BY <1>2, LeastIsIn
<1>5. ASSUME seps # {}, SubSeq(m, o + 1, eq) = tag
      PROVE  Begins(m, to, tag, o)
  <2>1. eq \in o .. (end - 1) /\ m[eq + 1] = Equals
    BY <1>2, <1>4, <1>5
  <2> HIDE DEF eq
  <2>2. o + 1 \in 1 .. Len(m) + 1 /\ eq \in 0 .. Len(m)
    BY <1>0, <1>1, <2>1
  <2>3. Len(tag) = IF o + 1 <= eq THEN eq - (o + 1) + 1 ELSE 0
    BY <1>5, <2>2, SubSeqFacts
  <2>4. eq = o + 2
    BY <1>1, <2>1, <2>3, SessionTagFacts
  <2>5. o + 3 <= to /\ o + 2 <= Len(m) /\ eq + 1 = o + 3
    BY <1>0, <1>1, <2>1, <2>4
  <2>6. m[o + 1] = tag[1] /\ m[o + 2] = tag[2]
    BY <1>5, <2>4, <2>5, SessionTagFacts, TwoBytes
  <2> QED
    BY <2>1, <2>5, <2>6, BeginsIs
<1>6. seps # {} => eq \in Nat /\ eq < end
  BY <1>1, <1>2, <1>4
<1> QED
  BY <1>3, <1>5, <1>6

\* Where the fields with this tag begin that begin before n.
Starts(m, from, to, tag, n) == {o \in from .. (n - 1) : Begins(m, to, tag, o)}

LastOf(S) == CHOOSE o \in S : \A x \in S : x <= o

\* Where the last of them has its value.
FieldAt(m, from, to, tag, n) ==
  IF Starts(m, from, to, tag, n) = {} THEN {}
  ELSE LET o == LastOf(Starts(m, from, to, tag, n)) IN {<<o + 3, FieldEnd(m, o, to)>>}

Value(m, at) == SubSeq(m, at[1] + 1, at[2])

Headers == [msg_seq_num : SUBSET Nat, msg_type : SUBSET (Nat \X Nat), poss_dup : BOOLEAN]

\* h says of each tag what the last of the fields says that begin before n.
TellsTheLast(m, from, to, h, n) ==
  /\ h \in Headers
  /\ h.msg_seq_num = {x \in Nat : \E at \in FieldAt(m, from, to, <<3, 4>>, n) :
                                    x \in ParseDigits(Value(m, at))}
  /\ h.msg_type = FieldAt(m, from, to, <<3, 5>>, n)
  /\ h.poss_dup <=> \E at \in FieldAt(m, from, to, <<4, 3>>, n) : Value(m, at) = <<Yes>>

LEMMA FieldAtSteps ==
  ASSUME NEW m, NEW from \in Nat, NEW to \in Nat, NEW tag, NEW o \in from .. (to - 1)
  PROVE  FieldAt(m, from, to, tag, o + 1) =
           IF Begins(m, to, tag, o) THEN {<<o + 3, FieldEnd(m, o, to)>>}
           ELSE FieldAt(m, from, to, tag, o)
<1> DEFINE new == Starts(m, from, to, tag, o + 1)
           old == Starts(m, from, to, tag, o)
<1>1. CASE Begins(m, to, tag, o)
  <2>1. o \in new /\ \A x \in new : x <= o /\ x \in Nat
    BY <1>1 DEF Starts
  <2> HIDE DEF new
  <2>2. LastOf(new) \in new /\ \A x \in new : x <= LastOf(new)
    BY <2>1 DEF LastOf
  <2>3. LastOf(new) = o
    <3> DEFINE last == LastOf(new)
    <3>1. last \in Nat /\ last <= o /\ o <= last /\ o \in Nat
      BY <2>1, <2>2
    <3> HIDE DEF last
    <3>2. last = o
      BY <3>1
    <3> QED
      BY <3>2 DEF last
  <2> QED
    BY <1>1, <2>1, <2>3 DEF FieldAt, new
<1>2. CASE ~Begins(m, to, tag, o)
  <2>1. new = old
    BY <1>2 DEF Starts
  <2> QED
    BY <1>2, <2>1 DEF FieldAt
<1> QED
  BY <1>1, <1>2

\* One field read keeps what the header tells.
LEMMA WithFieldTells ==
  ASSUME NEW m \in Seq(Bytes), NEW from \in Nat, NEW to \in Nat, to < Len(m),
         NEW o \in from .. (to - 1), m[o] = SOH,
         NEW h, TellsTheLast(m, from, to, h, o)
  PROVE  TellsTheLast(m, from, to, WithField(h, m, o, FieldEnd(m, o, to)), o + 1)
<1> DEFINE end   == FieldEnd(m, o, to)
           seps  == Separators(m, o, end)
           eq    == Least(seps)
           read  == SubSeq(m, o + 1, eq)
           value == SubSeq(m, eq + 2, end)
           new   == WithField(h, m, o, end)
           At(tag, n) == FieldAt(m, from, to, tag, n)
<1>0. o \in Nat /\ o < to /\ end \in Nat
  <2>1. o \in Nat /\ o < to
    OBVIOUS
  <2> QED
    BY <2>1, FieldEndFacts
<1>1. \A tag \in SessionTags :
        /\ Begins(m, to, tag, o) <=> seps # {} /\ read = tag
        /\ Begins(m, to, tag, o) => eq = o + 2
        /\ seps # {} => eq \in Nat
  BY <1>0, TagIsRead
<1>2. \A tag \in SessionTags :
        At(tag, o + 1) = IF seps # {} /\ read = tag THEN {<<o + 3, end>>} ELSE At(tag, o)
  <2> TAKE tag \in SessionTags
  <2>1. At(tag, o + 1) = IF Begins(m, to, tag, o) THEN {<<o + 3, end>>} ELSE At(tag, o)
    BY FieldAtSteps
  <2> QED
    BY <1>1, <2>1
<1>3. <<3, 4>> \in SessionTags /\ <<3, 5>> \in SessionTags /\ <<4, 3>> \in SessionTags
      /\ <<3, 4>> # <<3, 5>> /\ <<3, 4>> # <<4, 3>> /\ <<3, 5>> # <<4, 3>>
  BY DEF SessionTags
<1>4. /\ h \in Headers
      /\ h.msg_seq_num = {x \in Nat : \E at \in At(<<3, 4>>, o) : x \in ParseDigits(Value(m, at))}
      /\ h.msg_type = At(<<3, 5>>, o)
      /\ h.poss_dup <=> \E at \in At(<<4, 3>>, o) : Value(m, at) = <<Yes>>
  BY DEF TellsTheLast
<1>5. SUFFICES /\ new \in Headers
               /\ new.msg_seq_num = {x \in Nat : \E at \in At(<<3, 4>>, o + 1) :
                                                   x \in ParseDigits(Value(m, at))}
               /\ new.msg_type = At(<<3, 5>>, o + 1)
               /\ new.poss_dup <=> \E at \in At(<<4, 3>>, o + 1) : Value(m, at) = <<Yes>>
  BY DEF TellsTheLast
<1>6. new = IF seps = {} THEN h ELSE Lift(h, read, value, <<eq + 1, end>>)
  BY DEF WithField
<1>7. ASSUME NEW tag \in SessionTags, seps # {}, read = tag
      PROVE  eq + 1 = o + 3 /\ eq + 2 = (o + 3) + 1 /\ value = Value(m, <<o + 3, end>>)
  <2>1. eq = o + 2
    BY <1>1, <1>7
  <2>2. eq + 1 = o + 3 /\ eq + 2 = (o + 3) + 1
    BY <1>0, <2>1
  <2> QED
    BY <2>2 DEF Value
<1> HIDE DEF seps, eq, read, value, end, new, At
<1>8. CASE seps = {} \/ read \notin SessionTags
  <2>1. new = h
    BY <1>3, <1>6, <1>8 DEF Lift
  <2>2. \A tag \in SessionTags : At(tag, o + 1) = At(tag, o)
    BY <1>2, <1>8
  <2> QED
    BY <1>3, <1>4, <2>1, <2>2
<1>9. CASE seps # {} /\ read = <<3, 4>>
  <2>1. new = [h EXCEPT !.msg_seq_num = ParseDigits(value)]
    BY <1>6, <1>9 DEF Lift
  <2>2. /\ At(<<3, 4>>, o + 1) = {<<o + 3, end>>}
        /\ At(<<3, 5>>, o + 1) = At(<<3, 5>>, o) /\ At(<<4, 3>>, o + 1) = At(<<4, 3>>, o)
    BY <1>2, <1>3, <1>9
  <2>3. value = Value(m, <<o + 3, end>>) /\ ParseDigits(value) \subseteq Nat
    BY <1>3, <1>7, <1>9, ParsedIsNat
  <2>4. /\ new \in Headers /\ new.msg_seq_num = ParseDigits(value)
        /\ new.msg_type = h.msg_type /\ new.poss_dup = h.poss_dup
    BY <1>4, <2>1, <2>3 DEF Headers
  <2>5. ParseDigits(value) = {x \in Nat : \E at \in At(<<3, 4>>, o + 1) :
                                            x \in ParseDigits(Value(m, at))}
    BY <2>2, <2>3
  <2> QED
    BY <1>4, <2>2, <2>4, <2>5
<1>10. CASE seps # {} /\ read = <<3, 5>>
  <2>1. new = [h EXCEPT !.msg_type = {<<eq + 1, end>>}]
    BY <1>3, <1>6, <1>10 DEF Lift
  <2>2. /\ At(<<3, 5>>, o + 1) = {<<o + 3, end>>}
        /\ At(<<3, 4>>, o + 1) = At(<<3, 4>>, o) /\ At(<<4, 3>>, o + 1) = At(<<4, 3>>, o)
    BY <1>2, <1>3, <1>10
  <2>3. eq + 1 = o + 3 /\ <<o + 3, end>> \in Nat \X Nat
    BY <1>0, <1>3, <1>7, <1>10
  <2>4. /\ new \in Headers /\ new.msg_type = {<<o + 3, end>>}
        /\ new.msg_seq_num = h.msg_seq_num /\ new.poss_dup = h.poss_dup
    BY <1>4, <2>1, <2>3 DEF Headers
  <2> QED
    BY <1>4, <2>2, <2>4
<1>11. CASE seps # {} /\ read = <<4, 3>>
  <2>1. new = [h EXCEPT !.poss_dup = (value = <<Yes>>)]
    BY <1>3, <1>6, <1>11 DEF Lift
  <2>2. /\ At(<<4, 3>>, o + 1) = {<<o + 3, end>>}
        /\ At(<<3, 4>>, o + 1) = At(<<3, 4>>, o) /\ At(<<3, 5>>, o + 1) = At(<<3, 5>>, o)
    BY <1>2, <1>3, <1>11
  <2>3. value = Value(m, <<o + 3, end>>)
    BY <1>3, <1>7, <1>11
  <2>4. /\ new \in Headers /\ new.poss_dup = (value = <<Yes>>)
        /\ new.msg_seq_num = h.msg_seq_num /\ new.msg_type = h.msg_type
    BY <1>4, <2>1 DEF Headers
  <2> QED
    BY <1>4, <2>2, <2>3, <2>4
<1> QED
  BY <1>8, <1>9, <1>10, <1>11 DEF SessionTags

\* The function that ParseHeader takes the value at `to` of.
HeaderAfter(raw, from, to) ==
  LET after[n \in from .. to] ==
        IF n = from THEN NoFields
        ELSE IF n - 1 = from \/ raw[n - 1] = SOH
             THEN WithField(after[n - 1], raw, n - 1, FieldEnd(raw, n - 1, to))
             ELSE after[n - 1]
  IN  after

\* Reading on by one byte.
ReadOn(raw, from, to, o, h) ==
  IF o = from \/ raw[o] = SOH THEN WithField(h, raw, o, FieldEnd(raw, o, to)) ELSE h

LEMMA WithFieldIsTyped ==
  ASSUME NEW h \in Headers, NEW m, NEW o \in Nat, NEW to \in Nat, o < to
  PROVE  WithField(h, m, o, FieldEnd(m, o, to)) \in Headers
<1> DEFINE end   == FieldEnd(m, o, to)
           seps  == Separators(m, o, end)
           eq    == Least(seps)
           read  == SubSeq(m, o + 1, eq)
           value == SubSeq(m, eq + 2, end)
<1>1. end \in Nat
  <2>1. end \in o .. to
    BY FieldEndFacts
  <2> HIDE DEF end
  <2> QED
    BY <2>1
<1>2. seps # {} => eq + 1 \in Nat
  <2>1. seps \in SUBSET Nat
    BY DEF Separators
  <2> HIDE DEF seps
  <2>2. seps # {} => eq \in Nat
    BY <2>1, LeastIsIn
  <2> QED
    BY <2>2
<1>3. WithField(h, m, o, end) = IF seps = {} THEN h ELSE Lift(h, read, value, <<eq + 1, end>>)
  BY DEF WithField
<1>4. ParseDigits(value) \in SUBSET Nat
  BY ParsedIsNat
<1> HIDE DEF seps, eq, read, value, end
<1>5. seps # {} => Lift(h, read, value, <<eq + 1, end>>) \in Headers
  <2> SUFFICES ASSUME seps # {} PROVE Lift(h, read, value, <<eq + 1, end>>) \in Headers
    OBVIOUS
  <2>1. <<eq + 1, end>> \in Nat \X Nat
    BY <1>1, <1>2
  <2> DEFINE range == <<eq + 1, end>>
  <2> HIDE DEF range
  <2>2. \/ Lift(h, read, value, range) = [h EXCEPT !.msg_seq_num = ParseDigits(value)]
        \/ Lift(h, read, value, range) = [h EXCEPT !.msg_type = {range}]
        \/ Lift(h, read, value, range) = [h EXCEPT !.poss_dup = (value = <<Yes>>)]
        \/ Lift(h, read, value, range) = h
    BY DEF Lift
  <2>3. {range} \in SUBSET (Nat \X Nat)
    BY <2>1 DEF range
  <2>4. [h EXCEPT !.msg_seq_num = ParseDigits(value)] \in Headers
    BY <1>4 DEF Headers
  <2>5. [h EXCEPT !.msg_type = {range}] \in Headers
    BY <2>3 DEF Headers
  <2>6. [h EXCEPT !.poss_dup = (value = <<Yes>>)] \in Headers
    <3> DEFINE yes == value = <<Yes>>
    <3>1. yes \in BOOLEAN
      OBVIOUS
    <3> HIDE DEF yes
    <3>2. [h EXCEPT !.poss_dup = yes] \in Headers
      BY <3>1 DEF Headers
    <3> QED
      BY <3>2 DEF yes
  <2>7. Lift(h, read, value, range) \in Headers
    BY <2>2, <2>4, <2>5, <2>6
  <2> QED
    BY <2>7 DEF range
<1> QED
  BY <1>3, <1>5 DEF end

LEMMA HeaderAfterUnfolds ==
  ASSUME NEW m, NEW from \in Nat, NEW to \in Nat, from <= to
  PROVE  /\ ParseHeader(m, from, to) = HeaderAfter(m, from, to)[to]
         /\ HeaderAfter(m, from, to)[from] = NoFields
         /\ \A o \in from .. (to - 1) :
              HeaderAfter(m, from, to)[o + 1] = ReadOn(m, from, to, o, HeaderAfter(m, from, to)[o])
<1> DEFINE N == to - from
           step == [i \in 1 .. N |-> [h \in Headers |-> ReadOn(m, from, to, from + i - 1, h)]]
           Right(g) == [n \in from .. to |->
                          IF n = from THEN NoFields ELSE ReadOn(m, from, to, n - 1, g[n - 1])]
<1>1. N \in Nat /\ NoFields \in Headers
  BY DEF NoFields, Headers
<1>2. step \in Steps(N, Headers)
  <2>1. ASSUME NEW i \in 1 .. N, NEW h \in Headers
        PROVE  ReadOn(m, from, to, from + i - 1, h) \in Headers
    <3>1. from + i - 1 \in Nat /\ from + i - 1 < to
      OBVIOUS
    <3> QED
      BY <3>1, WithFieldIsTyped DEF ReadOn
  <2> QED
    BY <2>1 DEF Steps
<1>3. PICK g : Follows(g, N, Headers, NoFields, step)
  <2> HIDE DEF N, step
  <2> QED
    BY <1>1, <1>2, Recursion
<1> DEFINE h == [n \in from .. to |-> g[n - from]]
<1>4. h = Right(h)
  <2>1. /\ g \in [0 .. N -> Headers] /\ g[0] = NoFields
        /\ \A i \in 1 .. N : g[i] = step[i][g[i - 1]]
    BY <1>3 DEF Follows
  <2>2. ASSUME NEW n \in from .. to PROVE g[n - from] = Right(h)[n]
    <3>1. CASE n = from
      <4>1. n - from = 0
        BY <3>1
      <4> QED
        BY <2>1, <3>1, <4>1
    <3>2. CASE n # from
      <4> DEFINE i == n - from
      <4>1. /\ i \in 1 .. N /\ i - 1 \in 0 .. N /\ from + i - 1 = n - 1
            /\ n - 1 \in from .. to /\ (n - 1) - from = i - 1
        BY <3>2
      <4>2. h[n - 1] = g[i - 1] /\ g[i - 1] \in Headers
        BY <2>1, <4>1
      <4>3. step[i][g[i - 1]] = ReadOn(m, from, to, n - 1, g[i - 1])
        BY <4>1, <4>2
      <4> HIDE DEF i, h, step, N
      <4>4. g[i] = ReadOn(m, from, to, n - 1, h[n - 1])
        BY <2>1, <4>1, <4>2, <4>3
      <4> QED
        BY <3>2, <4>4 DEF i
    <3> QED
      BY <3>1, <3>2
  <2> HIDE DEF Right
  <2>3. h = [n \in from .. to |-> Right(h)[n]]
    BY <2>2
  <2>4. Right(h) = [n \in from .. to |-> Right(h)[n]]
    BY DEF Right
  <2> QED
    BY <2>3, <2>4
<1>5. HeaderAfter(m, from, to) = CHOOSE after : after = Right(after)
  BY DEF HeaderAfter, ReadOn
<1>6. HeaderAfter(m, from, to) = Right(HeaderAfter(m, from, to))
  <2> HIDE DEF Right, h
  <2> QED
    BY <1>4, <1>5
<1>7. ParseHeader(m, from, to) = HeaderAfter(m, from, to)[to]
  BY DEF ParseHeader, HeaderAfter
<1>8. HeaderAfter(m, from, to)[from] = NoFields
  BY <1>6
<1>9. ASSUME NEW o \in from .. (to - 1)
      PROVE  HeaderAfter(m, from, to)[o + 1] = ReadOn(m, from, to, o, HeaderAfter(m, from, to)[o])
  <2>1. o + 1 \in from .. to /\ o + 1 # from /\ (o + 1) - 1 = o
    OBVIOUS
  <2> QED
    BY <1>6, <2>1
<1> QED
  BY <1>7, <1>8, <1>9

LEMMA ReadOnTells ==
  ASSUME NEW m \in Seq(Bytes), NEW from \in Nat, NEW to \in Nat, to < Len(m), m[from] = SOH,
         NEW o \in from .. (to - 1), NEW h, TellsTheLast(m, from, to, h, o)
  PROVE  TellsTheLast(m, from, to, ReadOn(m, from, to, o, h), o + 1)
<1>1. CASE m[o] = SOH
  <2>1. ReadOn(m, from, to, o, h) = WithField(h, m, o, FieldEnd(m, o, to))
    BY <1>1 DEF ReadOn
  <2> QED
    BY <1>1, <2>1, WithFieldTells
<1>2. CASE m[o] # SOH
  <2>1. ReadOn(m, from, to, o, h) = h
    BY <1>2 DEF ReadOn
  <2>2. \A tag \in SessionTags : FieldAt(m, from, to, tag, o + 1) = FieldAt(m, from, to, tag, o)
    <3> TAKE tag \in SessionTags
    <3>1. ~Begins(m, to, tag, o)
      BY <1>2 DEF Begins
    <3> QED
      BY <3>1, FieldAtSteps
  <2> QED
    BY <2>1, <2>2 DEF TellsTheLast, SessionTags
<1> QED
  BY <1>1, <1>2

\* What parse_header returns: of each tag what the last field of the body says.
LEMMA HeaderTells ==
  ASSUME NEW m \in Seq(Bytes), NEW from \in Nat, NEW to \in Nat, from <= to, to < Len(m),
         m[from] = SOH
  PROVE  TellsTheLast(m, from, to, ParseHeader(m, from, to), to)
<1> DEFINE after == HeaderAfter(m, from, to)
           S == {k \in Nat : from + k <= to => TellsTheLast(m, from, to, after[from + k], from + k)}
<1>1. 0 \in S
  <2>1. from + 0 = from /\ after[from] = NoFields
    BY HeaderAfterUnfolds
  <2>2. \A tag : Starts(m, from, to, tag, from) = {}
    BY DEF Starts
  <2>3. \A tag : FieldAt(m, from, to, tag, from) = {}
    BY <2>2 DEF FieldAt
  <2>4. TellsTheLast(m, from, to, NoFields, from)
    BY <2>3 DEF TellsTheLast, NoFields, Headers
  <2> QED
    BY <2>1, <2>4
<1>2. ASSUME NEW k \in Nat, k \in S PROVE k + 1 \in S
  <2> SUFFICES ASSUME from + (k + 1) <= to
               PROVE  TellsTheLast(m, from, to, after[from + (k + 1)], from + (k + 1))
    OBVIOUS
  <2> DEFINE o == from + k
  <2>1. o \in from .. (to - 1) /\ from + (k + 1) = o + 1 /\ TellsTheLast(m, from, to, after[o], o)
    BY <1>2
  <2> HIDE DEF o, S
  <2>2. after[o + 1] = ReadOn(m, from, to, o, after[o])
    BY <2>1, HeaderAfterUnfolds
  <2> HIDE DEF after
  <2> QED
    BY <2>1, <2>2, ReadOnTells
<1>3. to - from \in S
  <2> HIDE DEF S
  <2>1. Nat \subseteq S
    BY <1>1, <1>2, Induction
  <2> QED
    BY <2>1
<1>4. from + (to - from) = to
  OBVIOUS
<1> QED
  BY <1>3, <1>4, HeaderAfterUnfolds

LEMMA LastIsIn ==
  ASSUME NEW N \in Nat, NEW S \in SUBSET (0 .. N), S # {}
  PROVE  LastOf(S) \in S
<1> DEFINE T == {N - x : x \in S}
<1>1. T \in SUBSET Nat /\ T # {}
  <2>1. \A x \in S : N - x \in Nat
    <3> TAKE x \in S
    <3>1. x \in 0 .. N
      OBVIOUS
    <3> QED
      BY <3>1
  <2> QED
    BY <2>1
<1> HIDE DEF T
<1>2. PICK d \in T : \A y \in T : d <= y
  BY <1>1, LeastNat
<1>3. PICK l \in S : d = N - l
  BY DEF T
<1>4. \A x \in S : N - l <= N - x
  BY <1>2, <1>3 DEF T
<1>5. \A x \in S : x <= l
  <2> TAKE x \in S
  <2>1. x \in 0 .. N /\ l \in 0 .. N /\ N - l <= N - x
    BY <1>4
  <2> QED
    BY <2>1
<1> QED
  BY <1>5 DEF LastOf

\* The value of a field is a byte string no longer than the message.
LEMMA ValueIsThere ==
  ASSUME NEW m \in Seq(Bytes), NEW from \in Nat, NEW to \in Nat, to < Len(m), NEW tag,
         NEW at \in FieldAt(m, from, to, tag, to)
  PROVE  Value(m, at) \in Seq(Bytes) /\ Len(Value(m, at)) <= Len(m)
<1> DEFINE starts == Starts(m, from, to, tag, to)
           o == LastOf(starts)
           end == FieldEnd(m, o, to)
<1>1. at = <<o + 3, end>> /\ starts # {}
  BY DEF FieldAt
<1>2. o \in starts
  <2>1. starts \in SUBSET (0 .. to)
    BY DEF Starts
  <2> HIDE DEF starts
  <2> QED
    BY <1>1, <2>1, LastIsIn
<1>3. o \in Nat /\ o < to /\ o + 3 <= to
  <2>1. \A x \in starts : x \in Nat /\ x < to /\ x + 3 <= to
    BY DEF Starts, Begins
  <2> HIDE DEF o, starts
  <2> QED
    BY <1>2, <2>1
<1> HIDE DEF o
<1>4. end \in o .. to
  BY <1>3, FieldEndFacts
<1> HIDE DEF end
<1>5. Len(m) \in Nat /\ (o + 3) + 1 \in 1 .. Len(m) + 1 /\ end \in 0 .. Len(m)
  BY <1>3, <1>4, LenProperties
<1>6. Value(m, at) = SubSeq(m, (o + 3) + 1, end)
  BY <1>1 DEF Value
<1>7. /\ SubSeq(m, (o + 3) + 1, end) \in Seq(Bytes)
      /\ Len(SubSeq(m, (o + 3) + 1, end)) = IF (o + 3) + 1 <= end THEN end - ((o + 3) + 1) + 1 ELSE 0
  BY <1>5, SubSeqFacts
<1> QED
  BY <1>3, <1>5, <1>6, <1>7

\* The last field of a tag, as the grammar has it, is the one that the code
\* keeps.
LEMMA LastFieldIs ==
  ASSUME NEW m \in Seq(Bytes), NEW a, NEW b, Shape(m, a, b, Len(m) - TailLen),
         NEW tag \in SessionTags
  PROVE  LastField(m, tag) = FieldAt(m, b + 1, Len(m) - TailLen, tag, Len(m) - TailLen)
<1> DEFINE to     == Len(m) - TailLen
           splits == {o \in SOHs(m) : \E x \in SOHs(m) : Splits(m, x, o)}
           body   == (Least(splits) + 1) .. (to - 1)
           starts == {o \in body : /\ m[o] = SOH
                                   /\ SubSeq(m, o + 1, o + 3) = tag \o <<Equals>>
                                   /\ o + 3 <= to}
           EndOf(o) == Least({n \in (o + 3) .. to : m[n + 1] = SOH \/ n = to})
<1>0. /\ Len(m) \in Nat /\ TailLen = 7 /\ MaxMessageLen \in Nat /\ to \in Nat
      /\ a \in Nat /\ b \in Nat /\ Len(m) <= MaxMessageLen /\ to < Len(m)
      /\ a < b /\ b < MaxHeaderScan /\ b < to + 1 /\ MaxHeaderScan \in Nat
      /\ m[a + 1] = SOH /\ m[b + 1] = SOH
  BY FramerAssumption, LenProperties DEF Shape, TailLen
<1>1. Least(splits) = b
  <2>1. a \in SOHs(m) /\ b \in SOHs(m)
    BY <1>0 DEF SOHs, Smaller
  <2>2. SOHs(m) \subseteq Nat
    BY DEF SOHs
  <2>3. b \in splits
    BY <1>0, <2>1, SplitsShape
  <2>4. ASSUME NEW o \in splits PROVE o = b
    <3>1. PICK x \in SOHs(m) : Splits(m, x, o)
      OBVIOUS
    <3>2. Shape(m, x, o, to) /\ o \in Nat
      BY <1>0, <2>2, <3>1, SplitsShape
    <3>3. Layout(m) = Frame(o + 1, to) /\ Layout(m) = Frame(b + 1, to)
      BY <3>2, ShapeIsFramed
    <3>4. o + 1 = b + 1
      BY <3>3 DEF Frame
    <3> QED
      BY <1>0, <3>2, <3>4
  <2>5. splits = {b}
    <3> HIDE DEF splits
    <3> QED
      BY <2>3, <2>4
  <2>6. Least({b}) = b
    BY <1>0, LeastIs
  <2> HIDE DEF splits
  <2> QED
    BY <2>5, <2>6
<1> HIDE DEF splits
<1>2. starts = Starts(m, b + 1, to, tag, to)
  BY <1>1 DEF Starts, Begins
<1>3. ASSUME NEW o \in starts PROVE EndOf(o) = FieldEnd(m, o, to)
  <2>1. o \in Nat /\ o <= to - 1 /\ Begins(m, to, tag, o)
    <3>1. o \in (b + 1) .. (to - 1)
      BY <1>1
    <3>2. Begins(m, to, tag, o)
      BY DEF Begins
    <3> HIDE DEF to, starts
    <3> QED
      BY <1>0, <3>1, <3>2
  <2>2. /\ o + 3 <= to /\ m[o] = SOH
        /\ m[o + 1] = tag[1] /\ m[o + 2] = tag[2] /\ m[o + 3] = Equals
    BY <1>0, <2>1, BeginsIs
  <2>3. m[o + 1] # SOH /\ m[o + 2] # SOH /\ m[o + 3] # SOH
    BY <2>2, SessionTagFacts, ConstantStrings
  <2>4. ASSUME NEW n \in o .. (to - 1), m[n + 1] = SOH PROVE n \in (o + 3) .. to
    <3>1. (o + 1) + 1 = o + 2 /\ (o + 2) + 1 = o + 3
      BY <2>1
    <3>2. n # o /\ n # o + 1 /\ n # o + 2
      BY <2>3, <2>4, <3>1
    <3> QED
      BY <1>0, <2>1, <3>2
  <2> HIDE DEF to, starts
  <2>5. {n \in (o + 3) .. to : m[n + 1] = SOH \/ n = to}
          = {n \in o .. (to - 1) : m[n + 1] = SOH} \cup {to}
    <3>1. to \in Nat /\ to \in (o + 3) .. to
      BY <1>0, <2>1, <2>2
    <3>2. \A n \in (o + 3) .. to : n = to \/ n \in o .. (to - 1)
      BY <2>1, <3>1
    <3> QED
      BY <2>4, <3>1, <3>2
  <2> QED
    BY <2>5 DEF FieldEnd
<1>4. LastField(m, tag) =
        IF starts = {} THEN {}
        ELSE LET o == CHOOSE o \in starts : \A x \in starts : x <= o IN {<<o + 3, EndOf(o)>>}
  BY DEF LastField, splits
<1>5. CASE starts = {}
  BY <1>2, <1>4, <1>5 DEF FieldAt
<1>6. CASE starts # {}
  <2> DEFINE o == LastOf(starts)
  <2>1. o \in starts
    <3>1. starts \subseteq 0 .. to
      <4>1. starts \subseteq (b + 1) .. (to - 1)
        BY <1>2 DEF Starts
      <4> HIDE DEF starts, to
      <4> QED
        BY <1>0, <4>1
    <3> HIDE DEF starts, to
    <3> QED
      BY <1>0, <1>6, <3>1, LastIsIn
  <2>2. LastField(m, tag) = {<<o + 3, EndOf(o)>>}
    <3> HIDE DEF starts, EndOf
    <3> QED
      BY <1>4, <1>6 DEF LastOf
  <2>3. EndOf(o) = FieldEnd(m, o, to)
    <3> HIDE DEF o, EndOf, starts
    <3> QED
      BY <1>3, <2>1
  <2> HIDE DEF starts, EndOf
  <2> QED
    BY <1>2, <1>6, <2>2, <2>3 DEF FieldAt
<1> QED
  BY <1>5, <1>6

\* The header of a message that the framer yields says what the last field of
\* each tag of its body says (parse_header).
THEOREM HeaderIsOfTheBody ==
  ASSUME NEW f \in Framers, Layout(f.buf).status = "frame"
  PROVE  LET m == MessageAt(f, Layout(f.buf))
         IN  /\ m.header.msg_seq_num =
                  {n \in 0 .. MaxNumber : \E at \in LastField(m.raw, <<3, 4>>) :
                                            Says(Value(m.raw, at), n)}
             /\ m.header.msg_type = LastField(m.raw, <<3, 5>>)
             /\ m.header.poss_dup <=> \E at \in LastField(m.raw, <<4, 3>>) :
                                        Value(m.raw, at) = <<Yes>>
<1> DEFINE layout == Layout(f.buf)
           raw    == SubSeq(f.buf, 1, layout.len)
           header == ParseHeader(raw, layout.from, layout.to)
<1>1. f.buf \in Seq(Bytes)
  BY DEF Framers
<1>2. PICK a \in Nat, b \in Nat, to \in Nat :
        Shape(f.buf, a, b, to) /\ layout = Frame(b + 1, to)
  BY <1>1, FramedIsShape
<1>3. layout.len = to + TailLen /\ layout.from = b + 1 /\ layout.to = to
  BY <1>2 DEF Frame
<1>4. raw \in Seq(Bytes) /\ Len(raw) = to + TailLen /\ Shape(raw, a, b, to)
  <2>1. raw = SubSeq(f.buf, 1, to + TailLen)
    BY <1>3
  <2> HIDE DEF raw
  <2> QED
    BY <1>1, <1>2, <2>1, ShapeOfFront
<1>5. MessageAt(f, layout).raw = raw /\ MessageAt(f, layout).header = header
  BY DEF MessageAt
<1>6. header = ParseHeader(raw, b + 1, to)
  BY <1>3
<1> HIDE DEF raw, header
<1>7. Len(raw) - TailLen = to /\ to < Len(raw) /\ b + 1 <= to /\ raw[b + 1] = SOH /\ b + 1 \in Nat
      /\ Len(raw) <= MaxMessageLen /\ TailLen = 7
  <2>1. to - (b + 1) \in Nat /\ raw[b + 1] = SOH /\ to + TailLen <= MaxMessageLen
    BY <1>4, ParsedIsNat DEF Shape
  <2>2. TailLen = 7 /\ Len(raw) = to + TailLen
    BY <1>4 DEF TailLen
  <2>3. Len(raw) - TailLen = to /\ to < Len(raw) /\ b + 1 <= to /\ b + 1 \in Nat
    BY <2>1, <2>2
  <2> QED
    BY <2>1, <2>2, <2>3
<1>8. TellsTheLast(raw, b + 1, to, header, to)
  BY <1>4, <1>6, <1>7, HeaderTells
<1>9. \A tag \in SessionTags : LastField(raw, tag) = FieldAt(raw, b + 1, to, tag, to)
  <2>1. Shape(raw, a, b, Len(raw) - TailLen)
    BY <1>4, <1>7
  <2> QED
    BY <1>4, <1>7, <2>1, LastFieldIs
<1>10. <<3, 4>> \in SessionTags /\ <<3, 5>> \in SessionTags /\ <<4, 3>> \in SessionTags
  BY DEF SessionTags
<1>11. ASSUME NEW at \in FieldAt(raw, b + 1, to, <<3, 4>>, to), NEW n
       PROVE  n \in ParseDigits(Value(raw, at)) <=> n \in 0 .. MaxNumber /\ Says(Value(raw, at), n)
  <2>1. Value(raw, at) \in Seq(Bytes) /\ Len(Value(raw, at)) <= Len(raw)
    BY <1>4, <1>7, ValueIsThere
  <2>2. Len(Value(raw, at)) <= MaxMessageLen
    <3>1. Len(raw) \in Nat /\ Len(Value(raw, at)) \in Nat /\ MaxMessageLen \in Nat
      BY <1>4, <2>1, LenProperties, FramerAssumption
    <3> QED
      BY <1>7, <2>1, <3>1
  <2>3. Says(Value(raw, at), n) <=> n \in ParseDigits(Value(raw, at))
    BY <2>1, <2>2, SaysIsParsed
  <2>4. n \in ParseDigits(Value(raw, at)) => n \in 0 .. MaxNumber
    BY DEF ParseDigits
  <2> QED
    BY <2>3, <2>4
<1> QED
  BY <1>5, <1>8, <1>9, <1>10, <1>11 DEF TellsTheLast

-----------------------------------------------------------------------------
(* The messages that a framer yielded.                                     *)

\* What a framer that finds a message yields.
Messages == {MessageAt(f, Layout(f.buf)) : f \in {g \in Framers : Layout(g.buf).status = "frame"}}

LEMMA MessagesAreBytes ==
  ASSUME NEW f \in Framers, Layout(f.buf).status = "frame"
  PROVE  LET m == MessageAt(f, Layout(f.buf))
         IN  m \in Messages /\ m.raw \in Seq(Bytes) /\ m.direction = f.direction
<1> DEFINE layout == Layout(f.buf)
<1>1. f.buf \in Seq(Bytes) /\ layout.len \in 1 .. Len(f.buf)
  <2>1. f.buf \in Seq(Bytes)
    BY DEF Framers
  <2> QED
    BY <2>1, LayoutSees DEF Incomplete
<1>2. SubSeq(f.buf, 1, layout.len) \in Seq(Bytes)
  BY <1>1, SplitsInTwo
<1>3. /\ MessageAt(f, layout).raw = SubSeq(f.buf, 1, layout.len)
      /\ MessageAt(f, layout).direction = f.direction
  BY DEF MessageAt
<1> QED
  BY <1>2, <1>3 DEF Messages

LEMMA RawsOf ==
  ASSUME NEW msgs \in Seq(Messages)
  PROVE  /\ Raws(msgs) \in Seq(Seq(Bytes)) /\ Len(Raws(msgs)) = Len(msgs)
         /\ \A m \in Messages : Raws(Append(msgs, m)) = Raws(msgs) \o <<m.raw>>
<1>1. Len(msgs) \in Nat /\ \A i \in 1 .. Len(msgs) : msgs[i] \in Messages
  BY LenProperties, ElementOfSeq
<1>2. \A m \in Messages : m.raw \in Seq(Bytes)
  BY MessagesAreBytes DEF Messages
<1>3. Raws(msgs) \in Seq(Seq(Bytes)) /\ Len(Raws(msgs)) = Len(msgs)
  <2>1. \A i \in 1 .. Len(msgs) : msgs[i].raw \in Seq(Bytes)
    BY <1>1, <1>2
  <2> QED
    BY <1>1, <2>1, IsASeq DEF Raws
<1>4. ASSUME NEW m \in Messages PROVE Raws(Append(msgs, m)) = Raws(msgs) \o <<m.raw>>
  <2> DEFINE more == Append(msgs, m)
             n    == Len(msgs)
  <2>1. /\ Len(more) = n + 1 /\ more[n + 1] = m
        /\ \A i \in 1 .. n : more[i] = msgs[i]
    BY AppendProperties
  <2>2. Raws(msgs) \o <<m.raw>> = Append(Raws(msgs), m.raw)
    BY <1>2, <1>3, AppendIsConcat
  <2> DEFINE left  == Raws(more)
             right == Append(Raws(msgs), m.raw)
  <2>3. /\ right \in Seq(Seq(Bytes)) /\ Len(right) = n + 1 /\ right[n + 1] = m.raw
        /\ \A i \in 1 .. n : right[i] = Raws(msgs)[i]
    <3>1. m.raw \in Seq(Bytes)
      BY <1>2
    <3> QED
      BY <1>3, <3>1, AppendProperties
  <2>4. left = [i \in 1 .. n + 1 |-> more[i].raw]
    BY <2>1 DEF Raws
  <2>5. right = [i \in 1 .. n + 1 |-> right[i]]
    BY <2>3
  <2>6. \A i \in 1 .. n + 1 : more[i].raw = right[i]
    <3> TAKE i \in 1 .. n + 1
    <3>1. CASE i = n + 1
      BY <2>1, <2>3, <3>1
    <3>2. CASE i \in 1 .. n
      <4>1. Raws(msgs)[i] = msgs[i].raw
        BY <3>2 DEF Raws
      <4> HIDE DEF right, more
      <4> QED
        BY <2>1, <2>3, <3>2, <4>1
    <3> HIDE DEF right, more
    <3>3. i = n + 1 \/ i \in 1 .. n
      BY <1>1
    <3> QED
      BY <3>1, <3>2, <3>3
  <2> HIDE DEF right, left, more
  <2>7. left = right
    BY <2>4, <2>5, <2>6
  <2> QED
    BY <2>2, <2>7 DEF left, right, more
<1> QED
  BY <1>3, <1>4

\* Concatenation is associative, of bytes and of messages.
LEMMA Associate ==
  /\ \A a, b, c \in Seq(Bytes) : (a \o b) \o c = a \o (b \o c)
  /\ \A a, b, c \in Seq(Seq(Bytes)) : (a \o b) \o c = a \o (b \o c)
<1>1. ASSUME NEW a \in Seq(Bytes), NEW b \in Seq(Bytes), NEW c \in Seq(Bytes)
      PROVE  (a \o b) \o c = a \o (b \o c)
  BY ConcatAssociative
<1>2. ASSUME NEW a \in Seq(Seq(Bytes)), NEW b \in Seq(Seq(Bytes)), NEW c \in Seq(Seq(Bytes))
      PROVE  (a \o b) \o c = a \o (b \o c)
  BY ConcatAssociative
<1> QED
  BY <1>1, <1>2

\* The front of a concatenation.
LEMMA PrefixOfConcat ==
  ASSUME NEW S, NEW s \in Seq(S), NEW t \in Seq(S)
  PROVE  IsPrefixOf(s, s \o t)
<1> DEFINE all   == s \o t
           front == SubSeq(all, 1, Len(s))
<1>1. /\ all \in Seq(S) /\ Len(all) = Len(s) + Len(t) /\ Len(s) \in Nat /\ Len(t) \in Nat
      /\ \A i \in 1 .. Len(s) : all[i] = s[i]
  <2>1. /\ all \in Seq(S) /\ Len(all) = Len(s) + Len(t)
        /\ \A i \in 1 .. Len(s) + Len(t) : all[i] = IF i <= Len(s) THEN s[i] ELSE t[i - Len(s)]
    BY ConcatProperties
  <2> HIDE DEF all
  <2> QED
    BY <2>1, LenProperties
<1> HIDE DEF all
<1>2. /\ front \in Seq(S) /\ Len(front) = Len(s)
      /\ \A i \in 1 .. Len(s) : front[i] = s[i]
  <2>1. /\ 1 \in Int /\ Len(s) \in Int /\ \A i \in 1 .. Len(s) : all[i] \in S
    BY <1>1, ElementOfSeq
  <2>2. /\ front \in Seq(S)
        /\ Len(front) = IF 1 <= Len(s) THEN Len(s) - 1 + 1 ELSE 0
        /\ \A i \in 1 .. Len(s) - 1 + 1 : front[i] = all[1 + i - 1]
    BY <2>1, SubSeqProperties
  <2> HIDE DEF front
  <2>3. Len(front) = Len(s) /\ \A i \in 1 .. Len(s) : i \in 1 .. Len(s) - 1 + 1 /\ 1 + i - 1 = i
    BY <1>1, <2>2
  <2> QED
    BY <1>1, <2>2, <2>3
<1> HIDE DEF front
<1>3. front = s
  BY <1>2, SeqEqual
<1>4. Len(s) <= Len(all)
  BY <1>1
<1> QED
  BY <1>3, <1>4 DEF IsPrefixOf, front, all

\* What was yielded is one message of the grammar, whatever follows it.
LEMMA MessageIsCut ==
  ASSUME NEW m \in Messages, NEW more \in Seq(Bytes)
  PROVE  Cut(m.raw \o more) = <<m.raw>> \o Cut(more)
<1>1. PICK f \in Framers : Layout(f.buf).status = "frame" /\ m = MessageAt(f, Layout(f.buf))
  BY DEF Messages
<1> DEFINE layout == Layout(f.buf)
           raw == SubSeq(f.buf, 1, layout.len)
           all == raw \o more
<1>2. f.buf \in Seq(Bytes)
  BY DEF Framers
<1>3. PICK a \in Nat, b \in Nat, to \in Nat :
        Shape(f.buf, a, b, to) /\ layout = Frame(b + 1, to)
  BY <1>1, <1>2, FramedIsShape
<1>4. layout.len = to + TailLen
  BY <1>3 DEF Frame
<1>5. raw \in Seq(Bytes) /\ Len(raw) = to + TailLen /\ Shape(raw, a, b, to)
  <2>1. raw = SubSeq(f.buf, 1, to + TailLen)
    BY <1>4
  <2> HIDE DEF raw
  <2> QED
    BY <1>2, <1>3, <2>1, ShapeOfFront
<1>6. m.raw = raw
  BY <1>1 DEF MessageAt
<1> HIDE DEF raw, layout
<1>7. Layout(raw) = Frame(b + 1, to)
  BY <1>5, ShapeIsFramed
<1>8. Layout(all) = Layout(raw)
  <2>1. Layout(raw) # Incomplete /\ Layout(raw).status # "failed"
    BY <1>7 DEF Frame, Incomplete
  <2> QED
    BY <1>5, <2>1, LayoutStable
<1>9. Layout(all).status = "frame" /\ Layout(all).len = Len(raw)
  BY <1>5, <1>7, <1>8 DEF Frame
<1>10. all \in Seq(Bytes) /\ Len(raw) \in 0 .. Len(raw)
  BY <1>5, ConcatProperties, LenProperties
<1>11. SubSeq(all, 1, Len(raw)) = raw
  <2>1. 1 \in 1 .. Len(raw) + 1
    BY <1>5, LenProperties
  <2>2. SubSeq(all, 1, Len(raw)) = SubSeq(raw, 1, Len(raw))
    BY <1>5, <1>10, <2>1, ConcatKeeps
  <2> QED
    BY <1>5, <2>2, SubSeqFull
<1>12. SubSeq(all, Len(raw) + 1, Len(all)) = more
  <2>1. SubSeq(all, Len(raw) + 1, Len(all)) = SubSeq(raw, Len(raw) + 1, Len(raw)) \o more
    BY <1>5, <1>10, RestOfConcat
  <2>2. SubSeq(raw, Len(raw) + 1, Len(raw)) = <<>>
    <3>1. ~(Len(raw) + 1 <= Len(raw)) /\ Len(raw) \in Int
      BY <1>5, LenProperties
    <3> QED
      BY <3>1, SubSeqEmpty
  <2>3. <<>> \o more = more
    BY ConcatEmptySeq
  <2> QED
    BY <2>1, <2>2, <2>3
<1>13. Cut(all) = <<SubSeq(all, 1, Len(raw))>> \o Cut(SubSeq(all, Len(raw) + 1, Len(all)))
  <2> HIDE DEF all
  <2> QED
    BY <1>9, <1>10, CutIsLayout
<1> QED
  BY <1>6, <1>11, <1>12, <1>13

\* More bytes complete more messages and change none of those there were.
THEOREM CutGrows ==
  ASSUME NEW s \in Seq(Bytes), NEW t \in Seq(Bytes)
  PROVE  IsPrefixOf(Cut(s), Cut(s \o t))
<1> DEFINE Grows(x) == \E more \in Seq(Seq(Bytes)) : Cut(x \o t) = Cut(x) \o more
           S == {k \in Nat : \A x \in Seq(Bytes) : Len(x) <= k => Grows(x)}
<1>1. ASSUME NEW x \in Seq(Bytes), Layout(x).status # "frame" PROVE Grows(x)
  <2>1. Cut(x) = <<>>
    BY <1>1, CutIsLayout
  <2>2. x \o t \in Seq(Bytes)
    BY ConcatProperties
  <2>3. Cut(x \o t) \in Seq(Seq(Bytes)) /\ <<>> \o Cut(x \o t) = Cut(x \o t)
    BY <2>2, CutIsLayout, ConcatEmptySeq
  <2> QED
    BY <2>1, <2>3
<1>2. 0 \in S
  <2> SUFFICES ASSUME NEW x \in Seq(Bytes), Len(x) <= 0 PROVE Grows(x)
    OBVIOUS
  <2>1. x = <<>>
    BY EmptySeq, LenProperties
  <2>2. Layout(x).status # "frame"
    <3>1. Layout(x).status = "frame" => Layout(x).len \in 1 .. Len(x)
      BY LayoutSees DEF Incomplete
    <3> QED
      BY <3>1
  <2> QED
    BY <1>1, <2>2
<1>3. ASSUME NEW k \in Nat, k \in S PROVE k + 1 \in S
  <2>1. ASSUME NEW x \in Seq(Bytes), Len(x) <= k + 1, Layout(x).status = "frame"
        PROVE  Grows(x)
    <3> DEFINE n    == Layout(x).len
               raw  == SubSeq(x, 1, n)
               rest == SubSeq(x, n + 1, Len(x))
               f    == [buf |-> x, direction |-> "UpstreamToClient", failed |-> {}]
               m    == MessageAt(f, Layout(x))
    <3>1. n \in 1 .. Len(x) /\ Len(x) \in Nat
      BY <2>1, LayoutSees, LenProperties DEF Incomplete
    <3>2. /\ raw \in Seq(Bytes) /\ rest \in Seq(Bytes) /\ x = raw \o rest
          /\ Len(rest) = Len(x) - n
      <4>1. n \in 0 .. Len(x)
        BY <3>1
      <4> HIDE DEF n
      <4> QED
        BY <4>1, SplitsInTwo
    <3>3. Len(rest) <= k
      <4> HIDE DEF n, rest
      <4> QED
        BY <2>1, <3>1, <3>2
    <3>4. PICK more \in Seq(Seq(Bytes)) : Cut(rest \o t) = Cut(rest) \o more
      <4> HIDE DEF rest
      <4> QED
        BY <1>3, <3>2, <3>3
    <3>5. m \in Messages /\ m.raw = raw
      <4>1. f \in Framers /\ f.buf = x
        BY DEF Framers, Directions, Failures
      <4>2. m.raw = raw
        BY DEF MessageAt
      <4> HIDE DEF f
      <4> QED
        BY <2>1, <4>1, <4>2 DEF Messages
    <3> HIDE DEF m, raw, rest, n
    <3>6. /\ Cut(raw \o rest) = <<raw>> \o Cut(rest)
          /\ Cut(raw \o (rest \o t)) = <<raw>> \o Cut(rest \o t)
      <4>1. rest \o t \in Seq(Bytes)
        BY <3>2, ConcatProperties
      <4> QED
        BY <3>2, <3>5, <4>1, MessageIsCut
    <3>7. x \o t = raw \o (rest \o t)
      BY <3>2, Associate
    <3>8. <<raw>> \o (Cut(rest) \o more) = (<<raw>> \o Cut(rest)) \o more
      <4>1. <<raw>> \in Seq(Seq(Bytes))
        BY <3>2
      <4>2. Cut(rest) \in Seq(Seq(Bytes))
        BY <3>2, CutIsLayout
      <4> QED
        BY <4>1, <4>2, Associate
    <3>9. Cut(x \o t) = Cut(x) \o more
      BY <3>2, <3>4, <3>6, <3>7, <3>8
    <3> QED
      BY <3>9
  <2>2. \A x \in Seq(Bytes) : Len(x) <= k + 1 => Grows(x)
    <3> HIDE DEF Grows
    <3> QED
      BY <1>1, <2>1
  <2>3. k + 1 \in Nat
    OBVIOUS
  <2> QED
    BY <2>2, <2>3
<1>4. Grows(s)
  <2>1. Nat \subseteq S
    <3> HIDE DEF S
    <3> QED
      BY <1>2, <1>3, Induction
  <2>2. Len(s) \in Nat
    BY LenProperties
  <2>3. Len(s) \in S
    <3> HIDE DEF S
    <3> QED
      BY <2>1, <2>2
  <2>4. Len(s) <= Len(s) => Grows(s)
    <3> HIDE DEF Grows
    <3> QED
      BY <2>3
  <2> HIDE DEF Grows
  <2> QED
    BY <2>2, <2>4
<1> QED
  BY <1>4, CutIsLayout, PrefixOfConcat
=============================================================================

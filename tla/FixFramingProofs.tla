-------------------------- MODULE FixFramingProofs --------------------------
(***************************************************************************)
(* A framer in use, proved for every stream, every chunking and every size *)
(* of the caps (src/protocols/fix.rs).                                     *)
(***************************************************************************)
EXTENDS FixFraming, FixFramerProofs

Fed == SubSeq(stream, 1, fed)

\* However the stream goes on, its messages are those already yielded and then
\* those of what the framer holds; none, once it has failed.
YieldsTheCut ==
  \A more \in Seq(Bytes) :
    Cut(Fed \o more) =
      Raws(messages) \o (IF framer.failed = {} THEN Cut(framer.buf \o more) ELSE <<>>)

\* What the framer is at any moment.  That the errors answered so far are
\* those it is failed with is what keeps it from answering another one.
Inv ==
  /\ stream \in Seq(Bytes)
  /\ fed \in 0 .. Len(stream)
  /\ framer \in Framers
  /\ errors = framer.failed
  /\ messages \in Seq(Messages)
  /\ \A i \in 1 .. Len(messages) : messages[i].direction = framer.direction
  /\ answer = "none" => framer.failed = {} /\ Cut(framer.buf) = <<>>
  /\ RetainsLessThanAMessage
  /\ YieldsTheCut

\* A chunk is a piece of the stream.
LEMMA ChunkIsBytes ==
  ASSUME NEW s \in Seq(Bytes), NEW from \in 0 .. Len(s),
         NEW n \in 1 .. Smaller(MaxChunk, Len(s) - from)
  PROVE  SubSeq(s, from + 1, from + n) \in Seq(Bytes) /\ from + n \in 0 .. Len(s)
<1>1. Len(s) \in Nat /\ \A i \in 1 .. Len(s) : s[i] \in Bytes
  BY LenProperties, ElementOfSeq
<1>2. from + n \in 0 .. Len(s)
  BY <1>1, FramingAssumption DEF Smaller
<1>3. from + 1 \in Int /\ from + n \in Int /\ \A i \in from + 1 .. from + n : s[i] \in Bytes
  BY <1>1, <1>2
<1>4. SubSeq(s, from + 1, from + n) \in Seq(Bytes)
  BY <1>3, SubSeqProperties
<1> QED
  BY <1>2, <1>4

LEMMA InitInv == Init => Inv
<1> SUFFICES ASSUME Init PROVE Inv
  OBVIOUS
<1>1. stream \in Seq(Bytes) /\ Len(stream) \in Nat
  BY FramingAssumption, LenProperties DEF Init
<1>2. framer \in Framers /\ framer.failed = {}
  BY NewFramerIsEmpty DEF Init
<1>3. fed \in 0 .. Len(stream)
  <2>1. fed = 0
    BY DEF Init
  <2> QED
    BY <1>1, <2>1
<1>4. errors = framer.failed
  BY <1>2 DEF Init
<1>5. answer # "none"
  BY DEF Init
<1>6. /\ messages = <<>> /\ messages \in Seq(Messages) /\ Raws(messages) = <<>> /\ Len(messages) = 0
  <2>1. messages = <<>> /\ messages \in Seq(Messages) /\ Len(messages) = 0
    BY EmptySeq DEF Init
  <2>2. Raws(messages) \in Seq(Seq(Bytes)) /\ Len(Raws(messages)) = 0
    BY <2>1, RawsOf
  <2>3. Raws(messages) = <<>>
    BY <2>2, EmptySeq
  <2> QED
    BY <2>1, <2>3
<1>7. YieldsTheCut
  <2>1. Fed = <<>> /\ framer.buf = <<>> /\ framer.failed = {}
    <3>1. fed = 0
      BY DEF Init
    <3>2. ~(1 <= fed)
      BY <3>1
    <3>3. SubSeq(stream, 1, fed) = <<>>
      BY <3>1, <3>2, SubSeqEmpty
    <3> QED
      BY <1>2, <3>3, NewFramerIsEmpty DEF Fed, Init
  <2>2. ASSUME NEW more \in Seq(Bytes)
        PROVE  Cut(<<>> \o more) = <<>> \o Cut(<<>> \o more)
    <3>1. <<>> \o more = more
      BY ConcatEmptySeq
    <3>2. Cut(more) \in Seq(Seq(Bytes))
      BY CutIsLayout
    <3> QED
      BY <3>1, <3>2, ConcatEmptySeq
  <2> QED
    BY <1>6, <2>1, <2>2 DEF YieldsTheCut
<1> QED
  BY <1>1, <1>2, <1>3, <1>4, <1>5, <1>6, <1>7 DEF Inv, RetainsLessThanAMessage

LEMMA NextInv == Inv /\ [Next]_vars => Inv'
<1> SUFFICES ASSUME Inv, [Next]_vars PROVE Inv'
  OBVIOUS
<1>1. CASE Feed
  <2>1. PICK n \in 1 .. Smaller(MaxChunk, Len(stream) - fed) :
          /\ framer' = Extend(framer, SubSeq(stream, fed + 1, fed + n))
          /\ fed' = fed + n
    BY <1>1 DEF Feed
  <2>2. SubSeq(stream, fed + 1, fed + n) \in Seq(Bytes) /\ fed' \in 0 .. Len(stream)
    BY <2>1, ChunkIsBytes DEF Inv
  <2> DEFINE chunk == SubSeq(stream, fed + 1, fed + n)
  <2>3. /\ framer' \in Framers /\ framer'.failed = framer.failed
        /\ framer'.direction = framer.direction
        /\ framer.failed = {} => framer'.buf = framer.buf \o chunk
    <3>1. framer \in Framers
      BY DEF Inv
    <3>2. Extend(framer, chunk).direction = framer.direction
      BY <3>1 DEF Extend, Framers
    <3> HIDE DEF chunk
    <3> QED
      BY <2>1, <2>2, <3>1, <3>2, ExtendHolds DEF chunk
  <2>4. UNCHANGED <<stream, messages, errors>> /\ answer' = ""
    BY <1>1 DEF Feed
  <2>5. Fed' = Fed \o chunk /\ Fed \in Seq(Bytes)
    <3>1. stream \in Seq(Bytes) /\ fed \in 0 .. Len(stream) /\ Len(stream) \in Nat
      BY LenProperties DEF Inv
    <3>2. 1 \in 1 .. Len(stream) + 1 /\ fed \in 1 - 1 .. Len(stream) /\ fed + n \in fed .. Len(stream)
      BY <2>1, <2>2, <3>1
    <3>3. SubSeq(stream, 1, fed) \o SubSeq(stream, fed + 1, fed + n) = SubSeq(stream, 1, fed + n)
      BY <3>1, <3>2, ConcatAdjacentSubSeq
    <3>4. SubSeq(stream, 1, fed) \in Seq(Bytes)
      BY <3>1, SplitsInTwo
    <3> QED
      BY <2>1, <2>4, <3>3, <3>4 DEF Fed
  <2>6. YieldsTheCut'
    <3> SUFFICES ASSUME NEW more \in Seq(Bytes)
                 PROVE  Cut(Fed' \o more) = Raws(messages')
                          \o (IF framer'.failed = {} THEN Cut(framer'.buf \o more) ELSE <<>>)
      BY DEF YieldsTheCut
    <3> HIDE DEF chunk
    <3>1. chunk \o more \in Seq(Bytes) /\ framer.buf \in Seq(Bytes) /\ chunk \in Seq(Bytes)
      BY <2>2, ConcatProperties DEF Inv, Framers, chunk
    <3>2. Fed' \o more = Fed \o (chunk \o more)
      <4>1. (Fed \o chunk) \o more = Fed \o (chunk \o more)
        BY <2>5, <3>1, Associate
      <4> QED
        BY <2>5, <4>1
    <3>3. framer.failed = {} => framer'.buf \o more = framer.buf \o (chunk \o more)
      <4>1. (framer.buf \o chunk) \o more = framer.buf \o (chunk \o more)
        BY <3>1, Associate
      <4> QED
        BY <2>3, <4>1
    <3>4. Cut(Fed \o (chunk \o more)) = Raws(messages)
            \o (IF framer.failed = {} THEN Cut(framer.buf \o (chunk \o more)) ELSE <<>>)
      BY <3>1 DEF Inv, YieldsTheCut
    <3> QED
      BY <2>3, <2>4, <3>2, <3>3, <3>4
  <2> QED
    BY <2>2, <2>3, <2>4, <2>6 DEF Inv, RetainsLessThanAMessage
<1>2. CASE Ask
  <2> DEFINE next == NextMessage(framer)
  <2>1. /\ framer' = next.framer /\ answer' = next.answer
        /\ errors' = errors \cup ({next.answer} \cap FrameErrors)
        /\ UNCHANGED <<stream, fed>>
    BY <1>2 DEF Ask
  <2>2. framer \in Framers
    BY DEF Inv
  <2>3. framer' \in Framers
    BY <2>1, <2>2, NextMessageKeeps
  <2>4. errors' = framer'.failed
    <3>1. "none" \notin FrameErrors /\ "message" \notin FrameErrors
      BY DEF FrameErrors
    <3>2. errors = framer.failed
      BY DEF Inv
    <3>3. CASE next.answer \in {"none", "message"}
      <4>1. framer.failed = {} /\ framer'.failed = {}
        BY <2>1, <2>2, <3>1, <3>3, NextMessageKeeps
      <4> QED
        BY <2>1, <3>1, <3>2, <3>3, <4>1
    <3>4. CASE next.answer \in FrameErrors
      <4>1. framer'.failed = {next.answer} /\ framer.failed \in {{}, {next.answer}}
        BY <2>1, <2>2, <3>1, <3>4, NextMessageKeeps
      <4> QED
        BY <2>1, <3>2, <3>4, <4>1
    <3> QED
      BY <2>2, <3>3, <3>4, NextMessageKeeps
  <2>5. answer' = "none" => Len(framer'.buf) < MaxMessageLen /\ framer'.failed = {} /\ framer' = framer
    <3>1. "none" \notin FrameErrors
      BY DEF FrameErrors
    <3> QED
      BY <2>1, <2>2, <3>1, NextMessageKeeps
  <2>6. framer'.direction = framer.direction
    BY <2>1, <2>2 DEF NextMessage, WithMessage, WithFailure, Framers
  <2>7. CASE framer.failed # {}
    <3>1. next.framer = framer /\ next.answer \in FrameErrors
      BY <2>2, <2>7, NextMessageKeeps DEF NextMessage
    <3>2. messages' = messages /\ framer' = framer /\ answer' # "none"
      BY <1>2, <2>1, <3>1 DEF Ask, FrameErrors
    <3>3. YieldsTheCut'
      BY <2>1, <3>2 DEF YieldsTheCut, Inv, Fed
    <3> QED
      BY <2>1, <2>3, <2>4, <2>5, <3>2, <3>3 DEF Inv, RetainsLessThanAMessage
  <2>8. CASE framer.failed = {}
    <3>1. messages' = IF next.answer = "message" THEN Append(messages, next.message) ELSE messages
      BY <1>2 DEF Ask
    <3>2. Fed' = Fed
      BY <2>1 DEF Fed
    <3>3. /\ Raws(messages) \in Seq(Seq(Bytes)) /\ messages \in Seq(Messages)
          /\ framer.buf \in Seq(Bytes)
          /\ \A more \in Seq(Bytes) :
               Cut(Fed \o more) = Raws(messages) \o Cut(framer.buf \o more)
      BY <2>8, RawsOf DEF Inv, Framers, YieldsTheCut
    <3>4. \A more \in Seq(Bytes) :
             \/ next.answer = "none" /\ Cut(framer.buf) = <<>>
             \/ /\ next.answer = "message" /\ Layout(framer.buf).status = "frame"
                /\ next.message = MessageAt(framer, Layout(framer.buf))
                /\ Cut(framer.buf \o more) = <<next.message.raw>> \o Cut(next.framer.buf \o more)
             \/ next.answer \in FrameErrors /\ Cut(framer.buf \o more) = <<>>
      BY <2>2, <2>8, NextMessageCuts
    <3>5. "none" \notin FrameErrors /\ "message" \notin FrameErrors /\ <<>> \in Seq(Bytes)
      BY EmptySeq DEF FrameErrors
    <3> HIDE DEF next
    <3>6. CASE next.answer = "none"
      <4>1. Cut(framer.buf) = <<>>
        BY <3>4, <3>5, <3>6
      <4>2. messages' = messages /\ framer' = framer
        BY <2>1, <2>5, <3>1, <3>6
      <4>3. YieldsTheCut'
        BY <2>1, <3>2, <4>2 DEF YieldsTheCut, Inv
      <4> QED
        BY <2>1, <2>3, <2>4, <2>5, <2>8, <4>1, <4>2, <4>3 DEF Inv, RetainsLessThanAMessage
    <3>7. CASE next.answer = "message"
      <4>1. /\ Layout(framer.buf).status = "frame"
            /\ next.message = MessageAt(framer, Layout(framer.buf))
            /\ \A more \in Seq(Bytes) :
                 Cut(framer.buf \o more) = <<next.message.raw>> \o Cut(framer'.buf \o more)
        BY <2>1, <3>4, <3>5, <3>7
      <4>2. /\ next.message \in Messages /\ next.message.raw \in Seq(Bytes)
            /\ next.message.direction = framer.direction
        BY <2>2, <4>1, MessagesAreBytes
      <4>3. messages' = Append(messages, next.message) /\ messages' \in Seq(Messages)
        BY <3>1, <3>3, <3>7, <4>2, AppendProperties
      <4>4. Raws(messages') = Raws(messages) \o <<next.message.raw>>
        BY <3>3, <4>2, <4>3, RawsOf
      <4>5. framer'.failed = {}
        BY <2>1, <2>2, <3>5, <3>7, NextMessageKeeps DEF next
      <4>6. YieldsTheCut'
        <5> SUFFICES ASSUME NEW more \in Seq(Bytes)
                     PROVE  Cut(Fed \o more) = Raws(messages') \o Cut(framer'.buf \o more)
          BY <3>2, <4>5 DEF YieldsTheCut
        <5>1. framer'.buf \o more \in Seq(Bytes)
          BY <2>3, ConcatProperties DEF Framers
        <5>2. Cut(framer'.buf \o more) \in Seq(Seq(Bytes)) /\ <<next.message.raw>> \in Seq(Seq(Bytes))
          <6>1. Cut(framer'.buf \o more) \in Seq(Seq(Bytes))
            BY <5>1, CutIsLayout
          <6> DEFINE raw == next.message.raw
          <6>2. raw \in Seq(Bytes)
            BY <4>2
          <6> HIDE DEF raw
          <6>3. <<raw>> \in Seq(Seq(Bytes))
            BY <6>2
          <6> QED
            BY <6>1, <6>3 DEF raw
        <5>3. (Raws(messages) \o <<next.message.raw>>) \o Cut(framer'.buf \o more)
                = Raws(messages) \o (<<next.message.raw>> \o Cut(framer'.buf \o more))
          BY <3>3, <5>2, Associate
        <5> QED
          BY <3>3, <4>1, <4>4, <5>3
      <4>7. \A i \in 1 .. Len(messages') : messages'[i].direction = framer'.direction
        <5>1. /\ Len(messages') = Len(messages) + 1 /\ messages'[Len(messages) + 1] = next.message
              /\ \A i \in 1 .. Len(messages) : messages'[i] = messages[i]
              /\ Len(messages) \in Nat
          BY <3>3, <4>2, <4>3, AppendProperties, LenProperties
        <5>2. \A i \in 1 .. Len(messages) : messages[i].direction = framer.direction
          BY DEF Inv
        <5>3. \A i \in 1 .. Len(messages) + 1 : i \in 1 .. Len(messages) \/ i = Len(messages) + 1
          BY <5>1
        <5> QED
          BY <2>6, <4>2, <5>1, <5>2, <5>3
      <4> QED
        BY <2>1, <2>3, <2>4, <3>5, <3>7, <4>3, <4>6, <4>7 DEF Inv, RetainsLessThanAMessage
    <3>8. CASE next.answer \in FrameErrors
      <4>1. \A more \in Seq(Bytes) : Cut(framer.buf \o more) = <<>>
        BY <3>4, <3>5, <3>8
      <4>2. messages' = messages /\ framer'.failed # {} /\ answer' # "none"
        <5>1. framer'.failed = {next.answer}
          BY <2>1, <2>2, <3>5, <3>8, NextMessageKeeps DEF next
        <5> QED
          BY <2>1, <3>1, <3>5, <3>8, <5>1
      <4>3. YieldsTheCut'
        BY <3>2, <3>3, <4>1, <4>2 DEF YieldsTheCut
      <4> QED
        BY <2>1, <2>3, <2>4, <2>6, <4>2, <4>3 DEF Inv, RetainsLessThanAMessage
    <3> QED
      BY <3>4, <3>5, <3>6, <3>7, <3>8
  <2> QED
    BY <2>7, <2>8
<1>3. CASE UNCHANGED vars
  BY <1>3 DEF vars, Inv, RetainsLessThanAMessage, YieldsTheCut, Fed
<1> QED
  BY <1>1, <1>2, <1>3 DEF Next

LEMMA Invariance == Spec => []Inv
<1>1. Inv /\ [Next]_vars => Inv'
  BY NextInv
<1> QED
  BY <1>1, InitInv, PTL DEF Spec

\* A framer that was asked until it had nothing more holds less than one
\* message of the largest size, whatever the peer sends and however it comes
\* (the caps of next_message and layout).
THEOREM RetentionIsBounded == Spec => []RetainsLessThanAMessage
<1>1. Inv => RetainsLessThanAMessage
  BY DEF Inv
<1> QED
  BY <1>1, Invariance, PTL

\* However the stream is chunked and however often the framer is asked, it
\* yields the messages of the grammar and no others, in their order, and all
\* that were fed when it has nothing more to yield (layout and next_message).
THEOREM GrammarIsCut == Spec => []CutsTheGrammar
<1>1. ASSUME Inv PROVE CutsTheGrammar
  <2> DEFINE held == IF framer.failed = {} THEN Cut(framer.buf) ELSE <<>>
  <2>1. Fed \in Seq(Bytes) /\ framer.buf \in Seq(Bytes) /\ <<>> \in Seq(Bytes)
    BY <1>1, SplitsInTwo, EmptySeq DEF Inv, Framers, Fed
  <2>2. Fed \o <<>> = Fed /\ framer.buf \o <<>> = framer.buf
    BY <2>1, ConcatEmptySeq
  <2>3. Cut(Fed) = Raws(messages) \o held
    BY <1>1, <2>1, <2>2 DEF Inv, YieldsTheCut
  <2>4. Raws(messages) \in Seq(Seq(Bytes)) /\ held \in Seq(Seq(Bytes))
    <3>1. <<>> \in Seq(Seq(Bytes)) /\ Cut(framer.buf) \in Seq(Seq(Bytes))
      BY <2>1, EmptySeq, CutIsLayout
    <3> QED
      BY <1>1, <3>1, RawsOf DEF Inv
  <2>5. IsPrefixOf(Raws(messages), Cut(Fed))
    <3> HIDE DEF held
    <3> QED
      BY <2>3, <2>4, PrefixOfConcat
  <2>6. answer = "none" => Raws(messages) = Cut(Fed)
    <3>1. answer = "none" => held = <<>>
      BY <1>1 DEF Inv
    <3> HIDE DEF held
    <3> QED
      BY <2>3, <2>4, <3>1, ConcatEmptySeq
  <2> QED
    BY <2>5, <2>6 DEF CutsTheGrammar, Fed
<1> QED
  BY <1>1, Invariance, PTL

\* A stream is given up only where it stops being FIX: nothing that was fed
\* before or comes after would have completed one more message (the errors of
\* layout).
THEOREM FailureIsDeserved == Spec => []FailureDeserved
<1>1. ASSUME Inv PROVE FailureDeserved
  <2> SUFFICES ASSUME errors # {} PROVE Raws(messages) = Cut(stream)
    BY DEF FailureDeserved
  <2> DEFINE more == SubSeq(stream, fed + 1, Len(stream))
  <2>1. more \in Seq(Bytes) /\ stream = Fed \o more
    BY <1>1, SplitsInTwo DEF Inv, Fed
  <2>2. Cut(Fed \o more) = Raws(messages) \o <<>>
    <3> HIDE DEF more
    <3> QED
      BY <1>1, <2>1 DEF Inv, YieldsTheCut
  <2>3. Raws(messages) \in Seq(Seq(Bytes))
    BY <1>1, RawsOf DEF Inv
  <2> QED
    BY <2>1, <2>2, <2>3, ConcatEmptySeq
<1> QED
  BY <1>1, Invariance, PTL

\* The header of every message that came out says what the last field of each
\* tag in its body says, and its direction is the stream's (parse_header).
THEOREM HeadersAreOfTheBody == Spec => []HeaderSaysTheBody
<1>1. ASSUME Inv PROVE HeaderSaysTheBody
  <2> SUFFICES ASSUME NEW i \in 1 .. Len(messages)
               PROVE  LET m == messages[i]
                      IN  /\ m.header.msg_seq_num =
                               {n \in 0 .. MaxNumber : \E at \in LastField(m.raw, <<3, 4>>) :
                                  Says(SubSeq(m.raw, at[1] + 1, at[2]), n)}
                          /\ m.header.msg_type = LastField(m.raw, <<3, 5>>)
                          /\ m.header.poss_dup
                               <=> \E at \in LastField(m.raw, <<4, 3>>) :
                                     SubSeq(m.raw, at[1] + 1, at[2]) = <<Yes>>
                          /\ m.direction = framer.direction
    BY DEF HeaderSaysTheBody
  <2>1. messages[i] \in Messages /\ messages[i].direction = framer.direction
    BY <1>1, ElementOfSeq DEF Inv
  <2>2. PICK f \in Framers :
          Layout(f.buf).status = "frame" /\ messages[i] = MessageAt(f, Layout(f.buf))
    BY <2>1 DEF Messages
  <2> QED
    BY <2>1, <2>2, HeaderIsOfTheBody DEF Value
<1> QED
  BY <1>1, Invariance, PTL

\* A framer that has failed repeats its error and yields no message, whatever
\* it is fed afterwards (the `failed` of extend and next_message).
THEOREM FailureIsFinal == Spec => FailureSticks
<1>1. ASSUME Inv, [Next]_vars, errors # {}
      PROVE  messages' = messages /\ errors' = errors
  <2>1. CASE Feed
    BY <2>1 DEF Feed
  <2>2. CASE Ask
    <3> DEFINE next == NextMessage(framer)
    <3>1. framer \in Framers /\ framer.failed # {} /\ errors = framer.failed
      BY <1>1 DEF Inv
    <3>2. next.answer \in FrameErrors /\ framer.failed \in {{}, {next.answer}}
      BY <3>1, NextMessageKeeps
    <3>3. next.answer # "message"
      BY <3>2 DEF FrameErrors
    <3> QED
      BY <2>2, <3>1, <3>2, <3>3 DEF Ask
  <2>3. CASE UNCHANGED vars
    BY <2>3 DEF vars
  <2> QED
    BY <1>1, <2>1, <2>2, <2>3 DEF Next
<1>2. Inv /\ [Next]_vars => [errors # {} => messages' = messages /\ errors' = errors]_vars
  BY <1>1
<1> QED
  BY <1>2, Invariance, PTL DEF Spec, FailureSticks
=============================================================================

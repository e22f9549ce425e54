----------------------------- MODULE FixFraming -----------------------------
(***************************************************************************)
(* A FixFramer in use: somebody feeds it the bytes of one stream in chunks *)
(* of any size and asks it for messages at any moment, as the read loops   *)
(* of src/transport/tcp.rs, the tests and the benchmarks do.  What comes   *)
(* out is held against the grammar of FixGrammar.                          *)
(***************************************************************************)
EXTENDS FixGrammar

CONSTANTS
  Streams,    \* byte streams that a peer may send
  MaxChunk    \* the most bytes fed at once, READ_CHUNK_BYTES for tcp.rs

ASSUME FramingAssumption ==
  /\ Streams \subseteq Seq(Bytes)
  /\ MaxChunk \in Nat \ {0}

VARIABLES
  stream,     \* the whole stream, fixed from the beginning
  fed,        \* how many of its bytes were fed
  framer,     \* the FixFramer
  answer,     \* what next_message answered last, "" after an extend
  messages,   \* history: the messages it yielded
  errors      \* history: the errors it answered

vars == <<stream, fed, framer, answer, messages, errors>>

Init ==
  /\ stream \in Streams
  /\ fed = 0
  /\ \E direction \in Directions : framer = NewFramer(direction)
  /\ answer = ""
  /\ messages = <<>>
  /\ errors = {}

Feed ==
  /\ \E n \in 1 .. Smaller(MaxChunk, Len(stream) - fed) :
       /\ framer' = Extend(framer, SubSeq(stream, fed + 1, fed + n))
       /\ fed' = fed + n
  /\ answer' = ""
  /\ UNCHANGED <<stream, messages, errors>>

Ask ==
  LET next == NextMessage(framer)
  IN  /\ framer' = next.framer
      /\ answer' = next.answer
      /\ messages' = IF next.answer = "message" THEN Append(messages, next.message)
                                                ELSE messages
      /\ errors' = errors \cup ({next.answer} \cap FrameErrors)
      /\ UNCHANGED <<stream, fed>>

Next == Feed \/ Ask

Spec == Init /\ [][Next]_vars

-----------------------------------------------------------------------------
(* Properties.                                                             *)

\* However the stream is chunked and however often the framer is asked, it
\* yields the messages of the grammar and no others, in their order; and
\* when it has nothing more to yield, it has yielded all that were fed.
CutsTheGrammar ==
  /\ IsPrefixOf(Raws(messages), Cut(SubSeq(stream, 1, fed)))
  /\ answer = "none" => Raws(messages) = Cut(SubSeq(stream, 1, fed))

\* A stream is given up only where it stops being FIX: nothing that was fed
\* before or comes after would have completed one more message.
FailureDeserved == errors # {} => Raws(messages) = Cut(stream)

\* A framer that is asked until it has nothing more holds less than one
\* message of the largest size, whatever the peer sends.
RetainsLessThanAMessage == answer = "none" => Len(framer.buf) < MaxMessageLen

\* Once the framer has answered an error it answers no other one and yields
\* no message, whatever it is fed: a stream is not picked up in its middle.
FailureSticks ==
  [][errors # {} => messages' = messages /\ errors' = errors]_vars

\* What the header of a message says is what the last field of each tag in
\* its body says: never a field of the neighbouring message, of the header
\* or of the trailer, and never an earlier field that a later one corrects.
HeaderSaysTheBody ==
  \A i \in 1 .. Len(messages) :
    LET m == messages[i]
        Value(at) == SubSeq(m.raw, at[1] + 1, at[2])
    IN  /\ m.header.msg_seq_num =
             {n \in 0 .. MaxNumber : \E at \in LastField(m.raw, <<3, 4>>) : Says(Value(at), n)}
        /\ m.header.msg_type = LastField(m.raw, <<3, 5>>)
        /\ m.header.poss_dup <=> \E at \in LastField(m.raw, <<4, 3>>) : Value(at) = <<Yes>>
        /\ m.direction = framer.direction

=============================================================================

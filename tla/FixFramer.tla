------------------------------ MODULE FixFramer ------------------------------
(***************************************************************************)
(* FIX over TCP: how FixFramer (src/protocols/fix.rs) cuts messages out of *)
(* a byte stream and what it lifts out of them (src/domain/fix.rs).        *)
(*                                                                         *)
(* A byte is a digit, which stands for itself, or one of the symbols that  *)
(* the framer tells apart.  A position is an offset, as in the code: the   *)
(* byte at offset o of buf is buf[o + 1].  An Option<T> is a set with at   *)
(* most one element.                                                       *)
(***************************************************************************)
EXTENDS Integers, Sequences

CONSTANTS
  MaxMessageLen,   \* MAX_MESSAGE_LEN: the largest message assembled
  MaxHeaderScan,   \* MAX_HEADER_SCAN: where 8= and 9= must have ended
  MaxNumber        \* u64::MAX

ASSUME FramerAssumption ==
  /\ MaxMessageLen \in Nat
  /\ MaxHeaderScan \in 1 .. MaxMessageLen
  /\ MaxNumber \in Nat

Digits == 0 .. 9
SOH    == 10
Equals == 11
Yes    == 12     \* the letter Y
Other  == 13     \* any other byte
Bytes  == 0 .. 13

BeginString == <<8, Equals>>
BodyLength  == <<9, Equals>>
CheckSum    == <<1, 0, Equals>>
TailLen     == 7

FrameErrors ==
  {"NotFixStream", "HeaderTooLong", "BadBodyLength", "MessageTooLong", "BadChecksumField"}

Smaller(a, b) == IF a <= b THEN a ELSE b
Least(S) == CHOOSE x \in S : \A y \in S : x <= y

-----------------------------------------------------------------------------
(* Layout: where the first message of a buffer lies, if it is all there.   *)

Incomplete  == [status |-> "incomplete"]
Failure(e)  == [status |-> "failed", error |-> e]
Found(o)    == [status |-> "found", at |-> o]
Frame(from, to) == [status |-> "frame", from |-> from, to |-> to, len |-> to + TailLen]

StartsWithPrefixOf(buf, prefix) ==
  \A i \in 1 .. Smaller(Len(buf), Len(prefix)) : buf[i] = prefix[i]

\* Mutant: a full scan window without SOH is waited on.
ScanSohPatient(buf, from) ==
  LET hits == {o \in from .. (Len(buf) - 1) : buf[o + 1] = SOH}
  IN  IF hits # {} THEN Found(Least(hits)) ELSE Incomplete

\* No further than MaxHeaderScan.
ScanSoh(buf, from) ==
  LET hits == {o \in from .. (Smaller(Len(buf), MaxHeaderScan) - 1) : buf[o + 1] = SOH}
  IN  IF hits # {} THEN Found(Least(hits))
      ELSE IF Len(buf) >= MaxHeaderScan THEN Failure("HeaderTooLong") ELSE Incomplete

\* Nothing for what is no number and for what a u64 does not hold.
ParseDigits(bytes) ==
  LET value[n \in 0 .. Len(bytes)] == IF n = 0 THEN 0 ELSE 10 * value[n - 1] + bytes[n]
  IN  IF bytes # <<>> /\ \A i \in 1 .. Len(bytes) : bytes[i] \in Digits
      THEN {value[Len(bytes)]} \cap (0 .. MaxNumber)
      ELSE {}

\* The shape of the field, not its value.
IsCheckSumField(tail) ==
  /\ SubSeq(tail, 1, 3) = CheckSum
  /\ \A i \in 4 .. 6 : tail[i] \in Digits
  /\ tail[TailLen] = SOH

\* Mutant: a body that has not arrived yet is taken for one without a tail.
BodyLayoutImpatient(buf, from, to) ==
  IF to + TailLen > MaxMessageLen THEN Failure("MessageTooLong")
  ELSE IF Len(buf) >= to + TailLen /\ IsCheckSumField(SubSeq(buf, to + 1, to + TailLen))
  THEN Frame(from, to)
  ELSE Failure("BadChecksumField")

\* Mutant: the tail is not looked at.
BodyLayoutTrusting(buf, from, to) ==
  IF to + TailLen > MaxMessageLen THEN Failure("MessageTooLong")
  ELSE IF Len(buf) < to + TailLen THEN Incomplete ELSE Frame(from, to)

\* The header says that the body reaches from `from` to `to`.
BodyLayout(buf, from, to) ==
  IF to + TailLen > MaxMessageLen THEN Failure("MessageTooLong")
  ELSE IF Len(buf) < to + TailLen THEN Incomplete
  ELSE IF IsCheckSumField(SubSeq(buf, to + 1, to + TailLen)) THEN Frame(from, to)
  ELSE Failure("BadChecksumField")

\* The BodyLength field begins at `start`.
LengthLayout(buf, start) ==
  LET soh    == ScanSoh(buf, start)
      number == ParseDigits(SubSeq(buf, start + 3, soh.at))
  IN  IF ~StartsWithPrefixOf(SubSeq(buf, start + 1, Len(buf)), BodyLength)
      THEN Failure("BadBodyLength")
      ELSE IF soh.status # "found" THEN soh
      ELSE IF number = {} THEN Failure("BadBodyLength")
      ELSE BodyLayout(buf, soh.at + 1, soh.at + 1 + Least(number))

Layout(buf) ==
  IF ~StartsWithPrefixOf(buf, BeginString) THEN Failure("NotFixStream")
  ELSE LET begin == ScanSoh(buf, 0)
       IN  IF begin.status # "found" THEN begin ELSE LengthLayout(buf, begin.at + 1)

-----------------------------------------------------------------------------
(* The session fields of a message: tags 34, 35 and 43 of its body.        *)

NoFields == [msg_seq_num |-> {}, msg_type |-> {}, poss_dup |-> FALSE]

\* The field that begins at offset s ends at the next SOH or with the body.
FieldEnd(raw, s, to) == Least({o \in s .. (to - 1) : raw[o + 1] = SOH} \cup {to})
Separators(raw, s, end) == {o \in s .. (end - 1) : raw[o + 1] = Equals}

\* Mutant: the first field of a tag stays.
LiftFirst(header, tag, value, range) ==
  CASE tag = <<3, 4>> /\ header.msg_seq_num = {} ->
         [header EXCEPT !.msg_seq_num = ParseDigits(value)]
    [] tag = <<3, 5>> -> [header EXCEPT !.msg_type = {range}]
    [] tag = <<4, 3>> -> [header EXCEPT !.poss_dup = (value = <<Yes>>)]
    [] OTHER          -> header

\* A later field of a tag takes the place of an earlier one, readable or not.
Lift(header, tag, value, range) ==
  CASE tag = <<3, 4>> -> [header EXCEPT !.msg_seq_num = ParseDigits(value)]
    [] tag = <<3, 5>> -> [header EXCEPT !.msg_type = {range}]
    [] tag = <<4, 3>> -> [header EXCEPT !.poss_dup = (value = <<Yes>>)]
    [] OTHER          -> header

WithField(header, raw, s, end) ==
  IF Separators(raw, s, end) = {} THEN header
  ELSE LET eq == Least(Separators(raw, s, end))
       IN  Lift(header, SubSeq(raw, s + 1, eq), SubSeq(raw, eq + 2, end), <<eq + 1, end>>)

\* after[n]: the header once every field that begins before n is read.
ParseHeader(raw, from, to) ==
  LET after[n \in from .. to] ==
        IF n = from THEN NoFields
        ELSE IF n - 1 = from \/ raw[n - 1] = SOH
             THEN WithField(after[n - 1], raw, n - 1, FieldEnd(raw, n - 1, to))
             ELSE after[n - 1]
  IN  after[to]

-----------------------------------------------------------------------------
(* The framer: the bytes it holds, and the error that it stays failed with.*)

Directions == {"UpstreamToClient", "ClientToUpstream"}

\* At most one error.
Failures == {{}} \cup {{e} : e \in FrameErrors}

Framers == [buf : Seq(Bytes), direction : Directions, failed : Failures]

NewFramer(direction) == [buf |-> <<>>, direction |-> direction, failed |-> {}]

Extend(f, chunk) == IF f.failed # {} THEN f ELSE [f EXCEPT !.buf = @ \o chunk]

MessageAt(f, layout) ==
  LET raw == SubSeq(f.buf, 1, layout.len)
  IN  [raw |-> raw, header |-> ParseHeader(raw, layout.from, layout.to),
       direction |-> f.direction]

WithMessage(f, layout) ==
  [answer |-> "message", message |-> MessageAt(f, layout),
   framer |-> [f EXCEPT !.buf = SubSeq(@, layout.len + 1, Len(@))]]

WithFailure(f, error) ==
  [answer |-> error, framer |-> [f EXCEPT !.buf = <<>>, !.failed = {error}]]

\* Mutant: a failure is reported once and forgotten.
NextMessageForgets(f) ==
  LET layout == Layout(f.buf)
  IN  IF layout.status = "incomplete" THEN [answer |-> "none", framer |-> f]
      ELSE IF layout.status = "frame" THEN WithMessage(f, layout)
      ELSE [answer |-> layout.error, framer |-> [f EXCEPT !.buf = <<>>]]

\* What next_message answers, and the framer it leaves behind.
NextMessage(f) ==
  LET layout == Layout(f.buf)
  IN  IF f.failed # {} THEN [answer |-> CHOOSE e \in f.failed : TRUE, framer |-> f]
      ELSE IF layout.status = "incomplete" THEN [answer |-> "none", framer |-> f]
      ELSE IF layout.status = "frame" THEN WithMessage(f, layout)
      ELSE WithFailure(f, layout.error)

=============================================================================

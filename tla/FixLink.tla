------------------------------- MODULE FixLink -------------------------------
(***************************************************************************)
(* One FIX connection between two ends (src/transport/tcp.rs): listening,  *)
(* connecting and accepting, the receive loop over a FixFramer, sends that *)
(* wait for room in the kernel's buffers, splitting into halves, shutdown, *)
(* and the ways in which calls are cancelled and connections die.          *)
(*                                                                         *)
(* The ends are concurrent tasks; those of a split end are two.  An action *)
(* is what a call does from one await to the next.  The kernel is external *)
(* and modelled from what the code awaits of it.                           *)
(***************************************************************************)
EXTENDS FixGrammar

CONSTANTS
  Scripts,        \* what the ends may send: for each end, its send_raw calls
  ReadChunk,      \* READ_CHUNK_BYTES
  ReadSizes,      \* bound: the most bytes a read yields, see Read
  WireCapacity    \* for each end, bytes the kernel buffers on its way out

Ends == {"client", "server"}
Peer(e) == IF e = "client" THEN "server" ELSE "client"

\* The direction each end's framer is given.
DirectionOf(e) == IF e = "client" THEN "UpstreamToClient" ELSE "ClientToUpstream"

ASSUME LinkAssumption ==
  /\ Scripts \subseteq [Ends -> Seq(Seq(Bytes))]
  /\ ReadChunk \in Nat \ {0}
  /\ ReadSizes \subseteq 1 .. ReadChunk
  /\ WireCapacity \in [Ends -> Nat \ {0}]

VARIABLES
  listener,   \* the listening socket
  link,       \* each end's FixConnection, or the halves it was split into
  reader,     \* where the recv_message of each end is, if one was called
  framer,     \* each end's framer
  calls,      \* the send_raw calls each end has yet to make
  pending,    \* Option: what the send_raw in progress has yet to write
  wire,       \* bytes on their way from each end
  fin,        \* each end has closed its side of the stream
  reset,      \* the connection broke
  outcome,    \* Option: how recv_message ended when it yielded no message
  sent,       \* history: the bytes the kernel took from each end
  offered,    \* history: the messages that those bytes complete
  taken,      \* history: the bytes of the messages each end was given
  received    \* history: the messages each end was given

recvVars == <<reader, framer, outcome, taken, received>>
sendVars == <<calls, pending, wire, sent, offered>>
vars == <<listener, link, reader, framer, calls, pending, wire, fin, reset, outcome,
          sent, offered, taken, received>>

Init ==
  /\ listener = "none"
  /\ link = [e \in Ends |-> "none"]
  /\ reader = [e \in Ends |-> "idle"]
  /\ framer = [e \in Ends |-> NewFramer(DirectionOf(e))]
  /\ calls \in Scripts
  /\ pending = [e \in Ends |-> {}]
  /\ wire = [e \in Ends |-> <<>>]
  /\ fin = [e \in Ends |-> FALSE]
  /\ reset = FALSE
  /\ outcome = [e \in Ends |-> {}]
  /\ sent = [e \in Ends |-> <<>>]
  /\ offered = [e \in Ends |-> <<>>]
  /\ taken = [e \in Ends |-> <<>>]
  /\ received = [e \in Ends |-> <<>>]

Whole(e) == link[e] = "whole"
Split(e) == link[e] = "split"
Up(e)    == Whole(e) \/ Split(e)

-----------------------------------------------------------------------------
(* Getting connected.                                                      *)

\* listen: any of its socket calls may fail, with ProxyError::Bind.
Listen ==
  /\ listener = "none"
  /\ listener' \in {"listening", "Bind"}
  /\ UNCHANGED <<link, recvVars, sendVars, fin, reset>>

\* connect: with nobody listening it can only fail, with ProxyError::Connect.
\* The kernel completes it before the other end accepts.  A set_nodelay that
\* fails, here or in from_accepted, drops the stream: see Drop.
Connect ==
  /\ link["client"] = "none"
  /\ \E how \in {"Connect"} \cup (IF listener = "listening" THEN {"whole"} ELSE {}) :
       link' = [link EXCEPT !["client"] = how]
  /\ UNCHANGED <<listener, recvVars, sendVars, fin, reset>>

\* accept and from_accepted, which wraps a fresh framer around the stream.
Accept ==
  /\ listener = "listening"
  /\ link["client"] \notin {"none", "Connect"}
  /\ link["server"] = "none"
  /\ link' = [link EXCEPT !["server"] = "whole"]
  /\ UNCHANGED <<listener, recvVars, sendVars, fin, reset>>

-----------------------------------------------------------------------------
(* recv_message, the same for a connection and for its read half.          *)

\* Mutant: the halves share one lock, so a split end does not receive while
\* it sends.
MayRecvLocked(e) == Up(e) /\ pending[e] = {}

\* &mut self: a whole connection does not receive while it sends.
MayRecv(e) == Split(e) \/ (Whole(e) /\ pending[e] = {})

\* From one await of the loop to the next: what the framer has to say.
Framed(e, f) ==
  \E next \in {NextMessage(f)} :
      /\ framer' = [framer EXCEPT ![e] = next.framer]
      /\ \/ /\ next.answer = "none"
            /\ reader' = [reader EXCEPT ![e] = "reading"]
            /\ UNCHANGED <<outcome, taken, received>>
         \/ /\ next.answer = "message"
            /\ reader' = [reader EXCEPT ![e] = "idle"]
            /\ taken' = [taken EXCEPT ![e] = @ \o next.message.raw]
            /\ received' = [received EXCEPT ![e] = Append(@, next.message)]
            /\ UNCHANGED outcome
         \/ /\ next.answer \in FrameErrors
            /\ reader' = [reader EXCEPT ![e] = "idle"]
            /\ outcome' = [outcome EXCEPT ![e] = {"Framing"}]
            /\ UNCHANGED <<taken, received>>

\* A call of recv_message.  Nobody receives again from a broken connection.
Recv(e) ==
  /\ MayRecv(e)
  /\ reader[e] = "idle"
  /\ outcome[e] # {"Io"}
  /\ reader' = [reader EXCEPT ![e] = "called"]
  /\ UNCHANGED <<listener, link, sendVars, fin, reset, framer, outcome, taken, received>>

\* The first poll of the call, up to its end or its read.
Polled(e) ==
  /\ reader[e] = "called"
  /\ \E at \in {"idle", "reading"} : reader' = [reader EXCEPT ![e] = at]

\* Mutant: a call reads before it looks at what is buffered.
PollReadsFirst(e) ==
  /\ Polled(e)
  /\ reader'[e] = "reading"
  /\ UNCHANGED <<listener, link, sendVars, fin, reset, framer, outcome, taken, received>>

Poll(e) ==
  /\ Polled(e)
  /\ Framed(e, framer[e])
  /\ UNCHANGED <<listener, link, sendVars, fin, reset>>

\* A read yields some of the bytes that are there; with 1 .. ReadChunk for
\* ReadSizes, any number of them.
Yields(e, bytes) ==
  /\ reader[e] = "reading"
  /\ bytes # <<>>
  /\ wire' = [wire EXCEPT ![Peer(e)] = SubSeq(@, Len(bytes) + 1, Len(@))]

Available(e) == {SubSeq(wire[Peer(e)], 1, Smaller(n, Len(wire[Peer(e)]))) : n \in ReadSizes}

Read(e) ==
  /\ \E bytes \in Available(e) : Yields(e, bytes) /\ Framed(e, Extend(framer[e], bytes))
  /\ UNCHANGED <<listener, link, calls, pending, sent, offered, fin, reset>>

\* Mutant: the end of the stream is taken for clean wherever it comes.
ClosedAnywhere(f) == "closed"

\* Mutant: the end of the stream always counts as a cut.
ClosedNowhere(f) == "truncated"

\* closed_at_boundary: Ok(None), or an error if part of a message is left.
ClosedAtBoundary(f) == IF f.buf = <<>> THEN "closed" ELSE "truncated"

\* A read of nothing: the peer has closed its side.
ReadEnd(e) ==
  /\ reader[e] = "reading"
  /\ fin[Peer(e)] /\ wire[Peer(e)] = <<>>
  /\ reader' = [reader EXCEPT ![e] = "idle"]
  /\ outcome' = [outcome EXCEPT ![e] = {ClosedAtBoundary(framer[e])}]
  /\ UNCHANGED <<listener, link, sendVars, fin, reset, framer, taken, received>>

ReadFails(e) ==
  /\ reader[e] = "reading"
  /\ reset
  /\ reader' = [reader EXCEPT ![e] = "idle"]
  /\ outcome' = [outcome EXCEPT ![e] = {"Io"}]
  /\ UNCHANGED <<listener, link, sendVars, fin, reset, framer, taken, received>>

\* Mutant: the bytes read so far belong to the call.
CancelRecvForgets(e) ==
  /\ reader[e] = "reading"
  /\ reader' = [reader EXCEPT ![e] = "idle"]
  /\ framer' = [framer EXCEPT ![e].buf = <<>>]
  /\ UNCHANGED <<listener, link, sendVars, fin, reset, outcome, taken, received>>

\* The caller drops the future of recv_message, in a select! for example.
CancelRecv(e) ==
  /\ reader[e] = "reading"
  /\ reader' = [reader EXCEPT ![e] = "idle"]
  /\ UNCHANGED <<listener, link, sendVars, fin, reset, framer, outcome, taken, received>>

-----------------------------------------------------------------------------
(* send_raw, which is write_all.                                           *)

Send(e) ==
  /\ Split(e) \/ (Whole(e) /\ reader[e] = "idle")
  /\ pending[e] = {} /\ ~fin[e]
  /\ calls[e] # <<>>
  /\ pending' = [pending EXCEPT ![e] = {Head(calls[e])}]
  /\ calls' = [calls EXCEPT ![e] = Tail(@)]
  /\ UNCHANGED <<listener, link, recvVars, wire, sent, offered, fin, reset>>

Room(e) == WireCapacity[e] - Len(wire[e])

Takes(e, bytes) ==
  /\ wire' = [wire EXCEPT ![e] = @ \o bytes]
  /\ sent' = [sent EXCEPT ![e] = @ \o bytes]
  /\ offered' = [offered EXCEPT ![e] = Cut(sent[e] \o bytes)]

\* The kernel takes what it has room for.  Bytes for an end that is gone
\* break the connection.
Write(e) ==
  /\ ~reset
  /\ Room(e) > 0
  /\ \E bytes \in pending[e] :
       LET n == Smaller(Room(e), Len(bytes))
       IN  /\ Takes(e, SubSeq(bytes, 1, n))
           /\ pending' = [pending EXCEPT ![e] = IF n = Len(bytes) THEN {}
                                                ELSE {SubSeq(bytes, n + 1, Len(bytes))}]
  /\ reset' = (link[Peer(e)] = "dropped")
  /\ UNCHANGED <<listener, link, recvVars, calls, fin>>

\* The sender is told, and sends no more.
WriteFails(e) ==
  /\ reset
  /\ pending[e] # {}
  /\ pending' = [pending EXCEPT ![e] = {}]
  /\ calls' = [calls EXCEPT ![e] = <<>>]
  /\ UNCHANGED <<listener, link, recvVars, wire, sent, offered, fin, reset>>

\* The caller drops the future of send_raw: part of the bytes has been sent.
CancelSend(e) ==
  /\ pending[e] # {}
  /\ pending' = [pending EXCEPT ![e] = {}]
  /\ UNCHANGED <<listener, link, recvVars, calls, wire, sent, offered, fin, reset>>

-----------------------------------------------------------------------------
(* Splitting and ending.                                                   *)

\* split moves the framer, and what it holds, into the read half.
SplitUp(e) ==
  /\ Whole(e) /\ reader[e] = "idle" /\ pending[e] = {}
  /\ link' = [link EXCEPT ![e] = "split"]
  /\ UNCHANGED <<listener, recvVars, sendVars, fin, reset>>

\* shutdown of the write half, or its being dropped.
Shutdown(e) ==
  /\ Split(e) /\ pending[e] = {} /\ ~fin[e]
  /\ fin' = [fin EXCEPT ![e] = TRUE]
  /\ UNCHANGED <<listener, link, recvVars, sendVars, reset>>

\* The end drops its connection, or both halves, and any call in progress.
\* Bytes nobody read break the connection for the other end.
Drop(e) ==
  /\ Up(e)
  /\ link' = [link EXCEPT ![e] = "dropped"]
  /\ reader' = [reader EXCEPT ![e] = "idle"]
  /\ pending' = [pending EXCEPT ![e] = {}]
  /\ calls' = [calls EXCEPT ![e] = <<>>]
  /\ fin' = [fin EXCEPT ![e] = TRUE]
  /\ reset' = (reset \/ wire[Peer(e)] # <<>>)
  /\ UNCHANGED <<listener, framer, outcome, taken, received, wire, sent, offered>>

\* The network or the other host takes the connection down.
Break ==
  /\ \E e \in Ends : Up(e)
  /\ reset' = TRUE
  /\ UNCHANGED <<listener, link, recvVars, sendVars, fin>>

\* Nothing is left to happen.
Over ==
  /\ \A e \in Ends : ~Up(e)
  /\ UNCHANGED vars

Next ==
  \/ Listen \/ Connect \/ Accept \/ Break \/ Over
  \/ \E e \in Ends :
       \/ Recv(e) \/ Poll(e) \/ Read(e) \/ ReadEnd(e) \/ ReadFails(e) \/ CancelRecv(e)
       \/ Send(e) \/ Write(e) \/ WriteFails(e) \/ CancelSend(e)
       \/ SplitUp(e) \/ Shutdown(e) \/ Drop(e)

Spec == Init /\ [][Next]_vars

\* A task that receives calls recv_message again and again.  It may cancel
\* its calls, but polls each one first, and a read that is polled with bytes
\* there yields them.
Fairness ==
  \A e \in Ends :
    /\ WF_vars(Recv(e))
    /\ WF_reader(Polled(e))
    /\ SF_wire(\E bytes \in Available(e) : Yields(e, bytes))
    /\ SF_vars(ReadEnd(e) \/ ReadFails(e))
    /\ WF_vars(Write(e) \/ WriteFails(e))

FairSpec == Spec /\ Fairness

-----------------------------------------------------------------------------
(* Properties.                                                             *)

Outcomes == {"closed", "truncated", "Framing", "Io"}

\* Type invariant.
TypeOK ==
  /\ listener \in {"none", "listening", "Bind"}
  /\ link \in [Ends -> {"none", "Connect", "whole", "split", "dropped"}]
  /\ reader \in [Ends -> {"idle", "called", "reading"}]
  /\ framer \in [Ends -> Framers]
  /\ calls \in [Ends -> Seq(Seq(Bytes))]
  /\ pending \in [Ends -> SUBSET Seq(Bytes)]
  /\ wire \in [Ends -> Seq(Bytes)]
  /\ \A e \in Ends : Len(wire[e]) <= WireCapacity[e]
  /\ fin \in [Ends -> BOOLEAN]
  /\ reset \in BOOLEAN
  /\ outcome \in [Ends -> SUBSET Outcomes]
  /\ sent \in [Ends -> Seq(Bytes)]
  /\ taken \in [Ends -> Seq(Bytes)]

\* No byte is lost, doubled or moved on its way, whatever reads, cancelled
\* calls and splits come in between: what an end sent is what the other end
\* was given, then what its framer holds, then what is on the way.  (A failed
\* framer has thrown its bytes away.)
NothingLost ==
  \A e \in Ends :
    framer[Peer(e)].failed = {} =>
      sent[e] = taken[Peer(e)] \o framer[Peer(e)].buf \o wire[e]

\* A receiver that waits for the peer holds less than a message, and never
\* more than that and one read.
BufferIsBounded ==
  \A e \in Ends :
    /\ reader[e] = "reading" => Len(framer[e].buf) < MaxMessageLen
    /\ Len(framer[e].buf) < MaxMessageLen + ReadChunk

Flat(parts) ==
  LET flat[n \in 0 .. Len(parts)] == IF n = 0 THEN <<>> ELSE flat[n - 1] \o parts[n]
  IN  flat[Len(parts)]

\* All that e has sent and may yet send.
Promised(e) ==
  sent[e] \o (IF pending[e] = {} THEN <<>> ELSE CHOOSE b \in pending[e] : TRUE) \o Flat(calls[e])

\* recv_message says Ok(None) only if the peer closed its side and every byte
\* that it sent belongs to a message that was received, and nothing comes
\* after that.
CleanEndIsComplete ==
  \A e \in Ends : "closed" \in outcome[e] => fin[Peer(e)] /\ taken[e] = sent[Peer(e)]

\* It speaks of an incomplete message only if there is one; and it gives a
\* stream up only if what the peer sends, now or later, holds no further
\* message.
FailedEndsAreRight ==
  \A e \in Ends : LET p == Peer(e) IN
    /\ "truncated" \in outcome[e] =>
         fin[p] /\ taken[e] # sent[p] /\ Raws(received[e]) = offered[p]
    /\ "Framing" \in outcome[e] => Raws(received[e]) = Cut(Promised(p))

Told(e) ==
  IF outcome[e] = {} THEN "open" ELSE IF outcome[e] = {"closed"} THEN "closed" ELSE "failed"

ToServer == INSTANCE MessageStream
              WITH offered <- offered["client"], received <- Raws(received["server"]),
                   open <- ~fin["client"], broken <- reset, outcome <- Told("server")

ToClient == INSTANCE MessageStream
              WITH offered <- offered["server"], received <- Raws(received["client"]),
                   open <- ~fin["server"], broken <- reset, outcome <- Told("client")

\* Each direction of the connection implements MessageStream, whatever the
\* other direction does.
ImplementsStream == ToServer!Spec /\ ToClient!Spec

\* The reading half is there and has not heard of an end.
Attended(e) == Split(e) /\ outcome[e] = {}

\* A stream to a split end does not stop: what is being sent gets sent, also
\* while both ends send more than the kernel holds, and what was sent
\* completely is received, until the receiver hears of an end or is dropped.
StreamsFlow ==
  \A e \in Ends :
    []<>(Attended(Peer(e)) =>
           pending[e] = {} /\ Len(received[Peer(e)]) = Len(offered[e]))

=============================================================================

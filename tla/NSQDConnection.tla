----------------------------- MODULE NSQDConnection -----------------------------
(***************************************************************************)
(* One NSQDConnection of nsqd_connection.c on its BufferedSocket, with the *)
(* callbacks nsq_reader_connect_cb and nsq_reader_msg_cb of reader.c and   *)
(* the message handler of test.c as its user, the kernel's socket and an   *)
(* nsqd at the other end.                                                  *)
(*                                                                         *)
(* libev runs one watcher callback at a time and nothing else runs between *)
(* its system calls, so an action is one callback with every callback it   *)
(* calls in turn.  Which of the pending callbacks comes next is open: it   *)
(* depends on the order libev finds them in.                               *)
(*                                                                         *)
(* The k-th byte of frame i is <<i, k>>, that of command c is <<c, k>>:    *)
(* what a stretch of bytes says depends on nothing else.                   *)
(***************************************************************************)
EXTENDS BufferedSocket, SequencesExt

CONSTANTS
  Kind,            \* the kinds of frames nsqd sends
  BodyLength,      \* how many bytes of body a frame of each kind has
  WordLength,      \* 4: the bytes of a frame's size, and of its type
  CommandLength,   \* the bytes of a command
  ReadSizes,       \* the <<length, capacity>> NSQReaderCfg may give read_buf
  WriteSizes,      \* and write_buf
  DisconnectInHandler, \* may the user's connect callback and message handler
                   \* call nsqd_connection_disconnect
  Window,          \* the most bytes nsqd has sent that were not yet taken out
                   \* of read_buf
  MaxFrames        \* bound: how many frames nsqd sends

ASSUME ConnectionAssumption ==
  /\ Kind \subseteq {"heartbeat", "response", "error", "message"}
  /\ WordLength \in Nat \ {0}
  /\ BodyLength \in [Kind -> Nat]
  /\ \A kind \in Kind : WordLength + BodyLength[kind] < 2 * IntHalf
  /\ CommandLength \in 1 .. (IntHalf - 1)
  /\ ReadSizes \cup WriteSizes \subseteq (Nat \ {0}) \X Nat
  /\ DisconnectInHandler \in BOOLEAN
  /\ {Window, MaxFrames} \subseteq Nat
  /\ NULL \notin {"nsqd_connection_read_size", "nsqd_connection_read_data"}

VARIABLES
  bs,        \* conn->bs
  current_msg_size,
  received,  \* the kernel's receive queue: sent by nsqd, not yet received
  written,   \* every byte send() accepted
  peer_gone, \* nsqd closed or reset the connection
  stream,    \* the kinds of the frames nsqd sent (history)
  got,       \* the frames handled, by position in stream; 0 for a stretch of
             \* bytes that is no frame (history)
  closed_by  \* what made buffered_socket_close close the socket (history)

vars == <<bs, current_msg_size, received, written, peer_gone, stream, got, closed_by>>

-------------------------------------------------------------------------------
(* Frames and commands. *)

FrameLength(kind) == 2 * WordLength + BodyLength[kind]

FrameBytes(i, first, last) == [k \in 1 .. (last - first + 1) |-> <<i, first + k - 1>>]

SizeWord(i)   == FrameBytes(i, 1, WordLength)
AfterSize(i)  == FrameBytes(i, WordLength + 1, FrameLength(stream[i]))
WholeFrame(i) == FrameBytes(i, 1, FrameLength(stream[i]))

AtMost(s, n) == SubSeq(s, 1, IF n <= Len(s) THEN n ELSE Len(s))

\* ntohl of the first word: what frame i says of its size, if these are the
\* four bytes that say it.
SizeRead(s) ==
  IF \E i \in DOMAIN stream : s = SizeWord(i)
  THEN WordLength + BodyLength[stream[CHOOSE i \in DOMAIN stream : s = SizeWord(i)]]
  ELSE 0

FrameRead(s) ==
  IF \E i \in DOMAIN stream : s = AfterSize(i)
  THEN CHOOSE i \in DOMAIN stream : s = AfterSize(i)
  ELSE 0

Encoded(command) == [k \in 1 .. CommandLength |-> <<command, k>>]

V2 == <<"V2", 0>>
SUB == <<"SUB", 0>>
RDY == <<"RDY", 0>>
NOP == <<"NOP", 0>>
FIN(i) == <<"FIN", i>>

-------------------------------------------------------------------------------

Init ==
  /\ \E r \in ReadSizes, w \in WriteSizes :
       bs = new_buffered_socket(r[1], r[2], w[1], w[2])
  /\ current_msg_size = 0
  /\ received = << >>
  /\ written = << >>
  /\ peer_gone = FALSE
  /\ stream = << >>
  /\ got = << >>
  /\ closed_by = "nobody"

\* nsqd_connection_connect, when connect() is under way.
nsqd_connection_connect ==
  /\ bs.state = "INIT"
  /\ bs' = connect_started(bs)
  /\ UNCHANGED <<current_msg_size, received, written, peer_gone, stream, got, closed_by>>

\* buffered_socket_close and whom to blame for it.
CloseSocket(b, who) ==
  /\ bs' = buffered_socket_close(b)
  /\ closed_by' = IF b.state = "DISCONNECTED" THEN closed_by ELSE who

\* nsqd_connection_disconnect, called by the user from outside the callbacks.
nsqd_connection_disconnect ==
  /\ bs.state \in {"CONNECTING", "CONNECTED"}
  /\ CloseSocket(bs, "user")
  /\ UNCHANGED <<current_msg_size, received, written, peer_gone, stream, got>>

\* buffered_socket_connect_cb on a timeout, an error, or a descriptor that
\* getsockopt does not accept because it was closed in the meantime.
connect_cb_fails ==
  /\ bs.once
  /\ CloseSocket([bs EXCEPT !.once = FALSE], "connect")
  /\ UNCHANGED <<current_msg_size, received, written, peer_gone, stream, got>>

\* Subscribe and send the first RDY, b being what the user's connect callback
\* left of the socket.
nsq_reader_connect_cb(b) ==
  buffered_socket_write(buffered_socket_write(b, Encoded(SUB)), Encoded(RDY))

\* nsqd_connection_connect_cb once the magic is written to b, b1 being what
\* the user's callback made of it.
nsqd_connection_connect_cb(b1) ==
  buffered_socket_read_bytes(nsq_reader_connect_cb(b1), WordLength, "nsqd_connection_read_size")

\* buffered_socket_connect_cb on success.  The callback of the user's may close
\* the connection; what follows is done all the same.
connect_cb_succeeds ==
  /\ bs.once /\ bs.fd
  /\ LET b == buffered_socket_write(connect_completed([bs EXCEPT !.once = FALSE]), Encoded(V2))
     IN  \/ /\ bs' = nsqd_connection_connect_cb(b)
            /\ UNCHANGED closed_by
         \/ /\ DisconnectInHandler
            /\ bs' = nsqd_connection_connect_cb(buffered_socket_close(b))
            /\ closed_by' = "user"
  /\ UNCHANGED <<current_msg_size, received, written, peer_gone, stream, got>>

-------------------------------------------------------------------------------
(* buffered_socket_read_cb: bytes, a full buffer, end of file. *)

Readable(n) == n \in 1 .. Len(received) /\ n <= MaxRead

read_cb_receives ==
  /\ bs.read_ev
  /\ \E n \in 1 .. Len(received) :
       /\ Readable(n)
       /\ \E room \in Received(bs.read_buf, n, SubSeq(received, 1, n)) :
            bs' = read_arrived(bs, room)
       /\ received' = SubSeq(received, n + 1, Len(received))
  /\ UNCHANGED <<current_msg_size, written, peer_gone, stream, got, closed_by>>

\* buffer_read_fd returns -1 without a system call having failed: errno is
\* whatever it last was.  EAGAIN or EINTR leaves everything as it is, and
\* libev calls again; anything else closes.
read_cb_refused ==
  /\ bs.read_ev
  /\ \E n \in 1 .. Len(received) : Readable(n) /\ Received(bs.read_buf, n, << >>) = {}
  /\ CloseSocket(bs, "full read buffer")
  /\ UNCHANGED <<current_msg_size, received, written, peer_gone, stream, got>>

read_cb_end ==
  /\ bs.read_ev
  /\ peer_gone /\ received = << >>
  /\ CloseSocket(bs, "peer")
  /\ UNCHANGED <<current_msg_size, received, written, peer_gone, stream, got>>

-------------------------------------------------------------------------------
(* buffered_socket_read_bytes_cb and the callback it finds. *)

nsqd_connection_read_size ==
  /\ bs.timer /\ bs.callback = "nsqd_connection_read_size"
  /\ LET b0 == read_bytes_taken(bs)
         b1 == [b0 EXCEPT !.read_buf = Drained(@, WordLength)]
     IN  /\ current_msg_size' = SizeRead(AtMost(bs.read_buf.bytes, WordLength))
         /\ bs' = buffered_socket_read_bytes(b1, current_msg_size', "nsqd_connection_read_data")
  /\ UNCHANGED <<received, written, peer_gone, stream, got, closed_by>>

\* What the callbacks do about the frame at position i, once its size and
\* type are out of the buffer: answer a heartbeat, hand over a message.
HeartbeatAnswered(b) == buffered_socket_write(b, Encoded(NOP))

MessageHandled(b, i) ==
  buffered_socket_write(buffered_socket_write(b, Encoded(FIN(i))), Encoded(RDY))

KindOf(i) == IF i = 0 THEN "none" ELSE stream[i]

\* Fault: the type word, drained already, is counted again.
FrameDone_unadjusted(b) ==
  LET b1 == [b EXCEPT !.read_buf = Drained(@, current_msg_size)]
  IN  buffered_socket_read_bytes(b1, WordLength, "nsqd_connection_read_size")

\* The rest of nsqd_connection_read_data, b being the socket its switch left.
FrameDone(b) ==
  LET b1 == [b EXCEPT !.read_buf = Drained(@, current_msg_size')]
  IN  buffered_socket_read_bytes(b1, WordLength, "nsqd_connection_read_size")

nsqd_connection_read_data ==
  /\ bs.timer /\ bs.callback = "nsqd_connection_read_data"
  /\ LET i  == FrameRead(AtMost(bs.read_buf.bytes, current_msg_size))
         b0 == read_bytes_taken(bs)
         b1 == [b0 EXCEPT !.read_buf = Drained(@, WordLength)]
     IN  /\ current_msg_size' = (current_msg_size - WordLength) % (2 * IntHalf)
         /\ got' = Append(got, i)
         /\ \/ /\ KindOf(i) = "heartbeat"
               /\ bs' = FrameDone(HeartbeatAnswered(b1))
               /\ UNCHANGED closed_by
            \/ /\ KindOf(i) = "message"
               /\ bs' = FrameDone(MessageHandled(b1, i))
               /\ UNCHANGED closed_by
            \/ /\ KindOf(i) = "message" /\ DisconnectInHandler
               /\ bs' = FrameDone(buffered_socket_close(MessageHandled(b1, i)))
               /\ closed_by' = IF bs.state = "DISCONNECTED" THEN closed_by ELSE "user"
            \/ /\ KindOf(i) \notin {"heartbeat", "message"}
               /\ bs' = FrameDone(b1)
               /\ UNCHANGED closed_by
  /\ UNCHANGED <<received, written, peer_gone, stream>>

-------------------------------------------------------------------------------
(* buffered_socket_write_cb: bytes, nothing to send, a peer that is gone. *)

write_cb_sends ==
  /\ bs.write_ev
  /\ \E k \in 1 .. BUFFER_HAS_DATA(bs.write_buf) :
       /\ bs' = write_progressed(bs, k)
       /\ written' = written \o SubSeq(bs.write_buf.bytes, 1, k)
  /\ UNCHANGED <<current_msg_size, received, peer_gone, stream, got, closed_by>>

\* send() of no bytes returns 0.
write_cb_empty ==
  /\ bs.write_ev
  /\ BUFFER_HAS_DATA(bs.write_buf) = 0
  /\ CloseSocket(write_progressed(bs, 0), "empty write buffer")
  /\ UNCHANGED <<current_msg_size, received, written, peer_gone, stream, got>>

write_cb_fails ==
  /\ bs.write_ev
  /\ peer_gone
  /\ CloseSocket(write_progressed(bs, 0), "peer")
  /\ UNCHANGED <<current_msg_size, received, written, peer_gone, stream, got>>

-------------------------------------------------------------------------------
(* The other end. *)

\* nsqd sends nothing before it has the magic, and no message before it has
\* a RDY.
nsqd_sends ==
  /\ bs.fd /\ ~peer_gone
  /\ Len(stream) < MaxFrames
  /\ \E kind \in Kind :
       /\ Len(written) >= (IF kind = "message" THEN 3 ELSE 1) * CommandLength
       /\ Len(received) + Len(bs.read_buf.bytes) + FrameLength(kind) <= Window
       /\ stream' = Append(stream, kind)
       /\ received' = received \o FrameBytes(Len(stream) + 1, 1, FrameLength(kind))
  /\ UNCHANGED <<bs, current_msg_size, written, peer_gone, got, closed_by>>

\* nsqd closes in an orderly way, or resets, which discards what was queued.
nsqd_goes ==
  /\ bs.fd /\ ~peer_gone
  /\ peer_gone' = TRUE
  /\ received' \in {received, << >>}
  /\ UNCHANGED <<bs, current_msg_size, written, stream, got, closed_by>>

-------------------------------------------------------------------------------

\* Closed, and nothing can call back any more.
Over ==
  /\ bs.state = "DISCONNECTED" /\ ~bs.once /\ ~bs.timer
  /\ UNCHANGED vars

Next ==
  \/ nsqd_connection_connect
  \/ nsqd_connection_disconnect
  \/ connect_cb_fails
  \/ connect_cb_succeeds
  \/ read_cb_receives
  \/ read_cb_refused
  \/ read_cb_end
  \/ nsqd_connection_read_size
  \/ nsqd_connection_read_data
  \/ write_cb_sends
  \/ write_cb_empty
  \/ write_cb_fails
  \/ nsqd_sends
  \/ nsqd_goes
  \/ Over

Spec == Init /\ [][Next]_vars

\* Every started watcher whose condition stays true is served: libev finds it
\* in each iteration and invokes all it found.  connect_cb is served within
\* two seconds, its timeout.  That the socket becomes writable again supposes
\* that nsqd goes on reading.  A refused read need not change anything, however
\* often it is repeated.
connect_cb    == connect_cb_fails \/ connect_cb_succeeds
read_cb       == read_cb_receives \/ read_cb_end
read_bytes_cb == nsqd_connection_read_size \/ nsqd_connection_read_data
write_cb      == write_cb_sends \/ write_cb_empty \/ write_cb_fails

Fairness ==
  /\ WF_vars(connect_cb)
  /\ WF_vars(read_cb)
  /\ WF_vars(read_bytes_cb)
  /\ WF_vars(write_cb)

FairSpec == Spec /\ Fairness

-------------------------------------------------------------------------------
(* Properties. *)

IsBuffer(b) ==
  /\ {b.pos, b.offset, b.length, b.capacity} \subseteq Nat
  /\ Len(b.bytes) = b.offset

\* The fields keep their types, and a buffer's offset counts its bytes.
TypeOK ==
  /\ bs.state \in {"INIT", "CONNECTING", "CONNECTED", "DISCONNECTED"}
  /\ {bs.fd, bs.once, bs.read_ev, bs.write_ev, bs.timer, peer_gone} \subseteq BOOLEAN
  /\ bs.callback \in {NULL, "nsqd_connection_read_size", "nsqd_connection_read_data"}
  /\ {bs.n, current_msg_size} \subseteq Nat
  /\ IsBuffer(bs.read_buf) /\ IsBuffer(bs.write_buf)
  /\ stream \in Seq(Kind)
  /\ got \in Seq(Nat)

\* Every byte nsqd sent is in one place and in its turn: in a frame that was
\* handled whole, in the size word already taken out, in read_buf, or in the
\* kernel's queue, unless a reset discarded it.  However the bytes were cut
\* up on the way and however frames piled up, the client never loses, repeats
\* or misreads one.
NoByteLost ==
  LET handled == FlattenSeq([j \in DOMAIN got |->
                   IF got[j] = 0 THEN <<NULL>> ELSE WholeFrame(got[j])])
      size    == IF bs.callback = "nsqd_connection_read_data"
                 THEN SizeWord(Len(got) + 1) ELSE << >>
      held    == handled \o size \o bs.read_buf.bytes \o received
      sent    == FlattenSeq([i \in DOMAIN stream |-> WholeFrame(i)])
  IN  IsPrefix(held, sent) /\ (~peer_gone => held = sent)

\* buffered_socket_read_bytes promises a call once n bytes are there.  While
\* connected somebody is always waiting, the timer that makes the call is
\* started as soon as the bytes are there, by whichever of read_bytes and
\* read_cb sees them, and it never fires too early or for nobody.
NoLostWakeup ==
  /\ bs.state = "CONNECTED" =>
       /\ bs.callback # NULL
       /\ BUFFER_HAS_DATA(bs.read_buf) >= bs.n => bs.timer
  /\ bs.timer => bs.callback # NULL /\ BUFFER_HAS_DATA(bs.read_buf) >= bs.n

\* What waits in write_buf is being sent: the write watcher runs when there
\* is something to send and, so that an empty send is not taken for the end
\* of the connection, only then.
WriterAwake ==
  bs.state = "CONNECTED" => (bs.write_ev <=> BUFFER_HAS_DATA(bs.write_buf) > 0)

\* The commands owed to nsqd so far, in order.
Owed ==
  <<V2, SUB, RDY>> \o
  FlattenSeq([j \in DOMAIN got |->
    CASE KindOf(got[j]) = "heartbeat" -> <<NOP>>
      [] KindOf(got[j]) = "message"   -> <<FIN(got[j]), RDY>>
      [] OTHER                        -> << >>])

Encoding(commands) == FlattenSeq([j \in DOMAIN commands |-> Encoded(commands[j])])

\* nsqd is sent the opening and then, frame by frame, the answers, complete
\* and in order: writes of several callbacks never mix, and a partial send
\* resumes where it stopped.
AnswersInOrder ==
  /\ IsPrefix(written, Encoding(Owed))
  /\ bs.state = "CONNECTED" => written \o bs.write_buf.bytes = Encoding(Owed)

\* Even when commands no longer fit write_buf and are dropped, they are
\* dropped whole: the stream nsqd parses never loses its framing.
NoTornCommand ==
  LET sent == written \o bs.write_buf.bytes
  IN  /\ Len(sent) % CommandLength = 0
      /\ \A p \in 1 .. (Len(sent) \div CommandLength) :
           LET first == (p - 1) * CommandLength + 1
           IN  SubSeq(sent, first, first + CommandLength - 1) = Encoded(sent[first][1])

\* A connection closes because the user, the network or nsqd wants it to,
\* never because of how the buffers happen to be filled.
HealthyStaysOpen == closed_by \in {"nobody", "user", "connect", "peer"}

\* Once closed, a connection hands over no frame and sends nothing, and the
\* owner, who may free it, leaves no watcher of it behind, with one exception:
\* the ev_once of a connect that the user cut short goes on (a free then has
\* buffered_socket_connect_cb run on freed memory).  So what the network or
\* nsqd closes may be freed in the close callback, as reader.c does.
NothingAfterClose ==
  [][bs.state = "DISCONNECTED" =>
       /\ UNCHANGED <<got, written>>
       /\ ~(bs'.read_ev \/ bs'.write_ev \/ bs'.timer \/ bs'.fd)
       /\ bs'.once => closed_by' = "user" /\ got' = << >> /\ written' = << >>]_vars

\* A closed connection stays closed, although the ev_once of its connect may
\* still be outstanding and then reports success or failure.
StaysClosed == [][bs.state = "DISCONNECTED" => bs'.state = "DISCONNECTED"]_vars

\* Every message handed over in full is acknowledged to nsqd, or the
\* connection is closed.
EveryMessageFinished ==
  \A i \in 1 .. MaxFrames :
    (i \in DOMAIN stream /\ stream[i] = "message")
      ~> (Contains(written, <<FIN(i), CommandLength>>) \/ bs.state = "DISCONNECTED")

\* The connection delivers the frames nsqd sends as FrameStream.tla promises.
Frames == INSTANCE FrameStream WITH sent <- stream, open <- bs.state # "DISCONNECTED"

DeliversFrames == Frames!Spec
===============================================================================

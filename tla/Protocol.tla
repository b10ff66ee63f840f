------------------------------- MODULE Protocol -------------------------------
(***************************************************************************)
(* The wire format of nsqd as command.c writes it and message.c reads it,  *)
(* with command_buf in between: the user or the message handler composes   *)
(* commands in command_buf, which may be too small for them, and hands     *)
(* them to the socket.  What nsqd makes of the bytes is the measure.       *)
(*                                                                         *)
(* A byte is a pair: <<"byte", v>> of a binary number, <<c, 0>> for the    *)
(* character c.  The name of a command and a number in decimal take one    *)
(* byte each; topics, identifiers and bodies have the lengths they have.   *)
(***************************************************************************)
EXTENDS BufferedSocket, SequencesExt

CONSTANTS
  WordLength,       \* 4: the bytes of a size
  TimestampLength,  \* 8
  AttemptsLength,   \* 2
  IdLength,         \* 16
  Radix,            \* 256
  Character,        \* what texts and bodies are made of besides separators
  Topic, Channel, Id,  \* texts the user passes
  Body,             \* bodies the user passes
  Bodies,           \* sequences of bodies for MPUB
  Message,          \* the messages nsqd sends
  CommandBufLength, CommandBufCapacity,  \* of NSQReaderCfg
  MaxCommands       \* bound: how many commands are composed

ASSUME ProtocolAssumption ==
  /\ {TimestampLength, AttemptsLength, IdLength, MaxCommands} \subseteq Nat
  /\ WordLength \in Nat \ {0} /\ Radix \in Nat \ {0, 1}
  /\ CommandBufLength \in Nat \ {0} /\ CommandBufCapacity \in Nat

VARIABLES
  command_buf, \* conn->command_buf
  wire,        \* the bytes given to buffered_socket_write_buffer
  batch,       \* the commands composed in command_buf (history)
  sent,        \* the commands written before the first batch that was too
               \* long, whether there was one, how many in all (history)
  handed       \* the last message of nsqd and what was handed over (history)

vars == <<command_buf, wire, batch, sent, handed>>

-------------------------------------------------------------------------------
(* Bytes. *)

Name == {"SUB", "RDY", "FIN", "REQ", "NOP", "PUB", "DPUB", "MPUB", "TOUCH", "CLS",
         "AUTH", "IDENTIFY"}

Byte == (Name \cup {"byte", "decimal", "space", "newline", "NUL", "junk"} \cup Character) \X Nat

Char(c) == <<c, 0>>
Space   == Char("space")
Newline == Char("newline")
NUL     == Char("NUL")

Text(s) == [k \in DOMAIN s |-> Char(s[k])]
Decimal(n) == << <<"decimal", n>> >>

\* What is left of n without its last k digits.
Shifted(n, k) ==
  LET left[i \in 0 .. k] == IF i = 0 THEN n ELSE left[i - 1] \div Radix
  IN  left[k]

\* n in network order, in len bytes, which may be too few.
BigEndian(n, len) == [k \in 1 .. len |-> <<"byte", Shifted(n, len - k) % Radix>>]

FitsIn(n, len) == Shifted(n, len) = 0

\* The number a stretch of bytes stands for (ntoh64, ntohs, and nsqd's own).
FromBigEndian(s) ==
  LET value[k \in 0 .. Len(s)] == IF k = 0 THEN 0 ELSE value[k - 1] * Radix + s[k][2]
  IN  value[Len(s)]

Word(n) == BigEndian(n, WordLength)

\* The bytes of s in front of the first c, and those behind it.
At(s, c)     == Min({k \in DOMAIN s : s[k] = c} \cup {Len(s) + 1})
Before(s, c) == SubSeq(s, 1, At(s, c) - 1)
After(s, c)  == SubSeq(s, At(s, c) + 1, Len(s))

-------------------------------------------------------------------------------
(* command.c *)

\* Each piece is added for itself, and its refusal goes unnoticed.
nsq_buffer_add(buf, name, params, body) ==
  LET line[i \in 0 .. Len(params)] ==
        IF i = 0 THEN AddedOrNot(buf, Text(<<name>>))
        ELSE AddedOrNot(AddedOrNot(line[i - 1], <<Space>>), params[i])
      ended == AddedOrNot(line[Len(params)], <<Newline>>)
  IN  IF body = NULL THEN ended ELSE AddedOrNot(AddedOrNot(ended, Word(Len(body))), body)

nsq_subscribe(buf, topic, channel) == nsq_buffer_add(buf, "SUB", <<topic, channel>>, NULL)
nsq_ready(buf, count) == nsq_buffer_add(buf, "RDY", <<Decimal(count)>>, NULL)
nsq_finish(buf, id) == nsq_buffer_add(buf, "FIN", <<id>>, NULL)
nsq_requeue(buf, id, timeout_ms) ==
  nsq_buffer_add(buf, "REQ", <<id, Decimal(timeout_ms)>>, NULL)
nsq_nop(buf) == nsq_buffer_add(buf, "NOP", << >>, NULL)
nsq_publish(buf, topic, body) == nsq_buffer_add(buf, "PUB", <<topic>>, body)
nsq_defer_publish(buf, topic, body, defer_time_sec) ==
  nsq_buffer_add(buf, "DPUB", <<topic, Decimal(defer_time_sec)>>, body)

\* The block of an MPUB: the number of bodies, and each with its size.
Counted(body) == Word(Len(body)) \o body
Gathered(bodies) ==
  Word(Len(bodies)) \o FlattenSeq([i \in DOMAIN bodies |-> Counted(bodies[i])])

\* Fault: the count in front is forgotten in the size of the block.
nsq_multi_publish_short(buf, topic, bodies) ==
  LET s[i \in 0 .. Len(bodies)] == IF i = 0 THEN 0 ELSE s[i - 1] + Len(bodies[i]) + WordLength
  IN  nsq_buffer_add(buf, "MPUB", <<topic>>, SubSeq(Gathered(bodies), 1, s[Len(bodies)]))

\* The block is filled, and of it the s bytes allocated are sent.
nsq_multi_publish(buf, topic, bodies) ==
  LET s[i \in 0 .. Len(bodies)] ==
        IF i = 0 THEN WordLength ELSE s[i - 1] + Len(bodies[i]) + WordLength
  IN  nsq_buffer_add(buf, "MPUB", <<topic>>, SubSeq(Gathered(bodies), 1, s[Len(bodies)]))

nsq_touch(buf, id) == nsq_buffer_add(buf, "TOUCH", <<id>>, NULL)
nsq_cleanly_close_connection(buf) == nsq_buffer_add(buf, "CLS", << >>, NULL)
nsq_auth(buf, secret) == nsq_buffer_add(buf, "AUTH", << >>, secret)
nsq_identify(buf, json_body) == nsq_buffer_add(buf, "IDENTIFY", << >>, json_body)

-------------------------------------------------------------------------------
(* message.c *)

\* nsqd's encoding of a message, the data of a frame.
MessageData(m) ==
  BigEndian(m.timestamp, TimestampLength) \o BigEndian(m.attempts, AttemptsLength)
  \o m.id \o m.body

\* The byte after the id is what malloc left there.
nsq_decode_message(data, junk) ==
  LET id_at == TimestampLength + AttemptsLength
  IN  [timestamp |-> FromBigEndian(SubSeq(data, 1, TimestampLength)),
       attempts  |-> FromBigEndian(SubSeq(data, TimestampLength + 1, id_at)),
       id        |-> SubSeq(data, id_at + 1, id_at + IdLength) \o <<junk>>,
       body      |-> SubSeq(data, id_at + IdLength + 1, Len(data))]

\* Fault: the id is not terminated.
nsq_reader_msg_cb_open(msg) == msg

\* nsq_reader_msg_cb terminates the id.
nsq_reader_msg_cb(msg) == [msg EXCEPT !.id[IdLength + 1] = NUL]

\* What strlen and the like see of it.
CString(s) == Before(s, NUL)

-------------------------------------------------------------------------------
(* What is composed and written.  Of texts and bodies libnsq checks nothing; *)
(* these are what nsqd accepts and what 32 bits can count.                    *)

Plain(s) == s \in Seq(Byte \ {Space, Newline, NUL})

ASSUME TextAssumption == \A s \in Topic \cup Channel \cup Id : Plain(s)

ABody(s) == s \in Seq(Byte) /\ s # NULL /\ FitsIn(Len(s), WordLength)

\* What the user passes as a body is a C string: its strlen is what is sent.
CBody(s) == ABody(s) /\ s \in Seq(Byte \ {NUL})

ASSUME BodyAssumption ==
  /\ \A b \in Body : CBody(b)
  /\ \A bs \in Bodies :
       /\ bs \in Seq(Seq(Byte)) /\ \A i \in DOMAIN bs : CBody(bs[i])
       /\ FitsIn(Len(bs), WordLength) /\ ABody(Gathered(bs))

ASSUME MessageAssumption ==
  \A m \in Message :
    /\ m \in [timestamp : Nat, attempts : Nat, id : Seq(Byte), body : Seq(Byte)]
    /\ FitsIn(m.timestamp, TimestampLength) /\ FitsIn(m.attempts, AttemptsLength)
    /\ Plain(m.id) /\ Len(m.id) = IdLength

buffer_reset(buf) == Drained(buf, BUFFER_HAS_DATA(buf))

Command(name, params, bodies) == [name |-> Text(<<name>>), params |-> params, bodies |-> bodies]

WithBody == {Text(<<name>>) : name \in {"PUB", "DPUB", "MPUB", "AUTH", "IDENTIFY"}}

\* A command as the protocol has it, and commands in a row.
Block(c) == IF c.name = Text(<<"MPUB">>) THEN Gathered(c.bodies) ELSE c.bodies[1]

Line(name, params) == name \o FlattenSeq([k \in DOMAIN params |-> <<Space>> \o params[k]])

Encoding(c) ==
  (Line(c.name, c.params) \o <<Newline>>)
  \o (IF c.name \in WithBody THEN Counted(Block(c)) ELSE << >>)

Stream(commands) == FlattenSeq([i \in DOMAIN commands |-> Encoding(commands[i])])

TooLong(commands) == Len(Stream(commands)) > CommandBufLength

Recorded(history, commands) ==
  LET torn == history.torn \/ TooLong(commands)
  IN  [intact |-> history.intact \o (IF torn THEN << >> ELSE commands),
       torn |-> torn, n |-> history.n + Len(commands)]

Init ==
  /\ command_buf = new_buffer(CommandBufLength, CommandBufCapacity)
  /\ wire = << >>
  /\ batch = << >>
  /\ sent = [intact |-> << >>, torn |-> FALSE, n |-> 0]
  /\ handed = << >>

Compose(name, params, bodies, encoded) ==
  /\ sent.n + Len(batch) < MaxCommands
  /\ command_buf' = encoded
  /\ batch' = Append(batch, Command(name, params, bodies))
  /\ UNCHANGED <<wire, sent, handed>>

subscribe == \E t \in Topic, ch \in Channel :
  Compose("SUB", <<t, ch>>, << >>, nsq_subscribe(command_buf, t, ch))
ready == Compose("RDY", <<Decimal(1)>>, << >>, nsq_ready(command_buf, 1))
finish == \E id \in Id : Compose("FIN", <<id>>, << >>, nsq_finish(command_buf, id))
requeue == \E id \in Id :
  Compose("REQ", <<id, Decimal(100)>>, << >>, nsq_requeue(command_buf, id, 100))
nop == Compose("NOP", << >>, << >>, nsq_nop(command_buf))
publish == \E t \in Topic, b \in Body :
  Compose("PUB", <<t>>, <<b>>, nsq_publish(command_buf, t, b))
defer_publish == \E t \in Topic, b \in Body :
  Compose("DPUB", <<t, Decimal(5)>>, <<b>>, nsq_defer_publish(command_buf, t, b, 5))
multi_publish == \E t \in Topic, bs \in Bodies :
  Compose("MPUB", <<t>>, bs, nsq_multi_publish(command_buf, t, bs))
touch == \E id \in Id : Compose("TOUCH", <<id>>, << >>, nsq_touch(command_buf, id))
cleanly_close == Compose("CLS", << >>, << >>, nsq_cleanly_close_connection(command_buf))
auth == \E b \in Body : Compose("AUTH", << >>, <<b>>, nsq_auth(command_buf, b))
identify == \E b \in Body : Compose("IDENTIFY", << >>, <<b>>, nsq_identify(command_buf, b))

\* buffered_socket_write_buffer on a connected socket with room enough.
write_buffer ==
  /\ batch # << >>
  /\ wire' = wire \o command_buf.bytes
  /\ command_buf' = buffer_reset(command_buf)
  /\ sent' = Recorded(sent, batch)
  /\ batch' = << >>
  /\ UNCHANGED handed

\* A message arrives and the handler of test.c answers it and renews RDY; each
\* of the two is composed and written for itself.
message_handler ==
  \E m \in Message, junk \in {NUL, Char("junk")}, failed \in BOOLEAN :
    LET msg    == nsq_reader_msg_cb(nsq_decode_message(MessageData(m), junk))
        id     == CString(msg.id)
        clear  == buffer_reset(command_buf)
        answer == IF failed THEN nsq_requeue(clear, id, 100) ELSE nsq_finish(clear, id)
        rdy    == nsq_ready(buffer_reset(answer), 1)
        owed   == IF failed THEN Command("REQ", <<m.id, Decimal(100)>>, << >>)
                            ELSE Command("FIN", <<m.id>>, << >>)
    IN  /\ sent.n + 2 <= MaxCommands
        /\ wire' = wire \o answer.bytes \o rdy.bytes
        /\ command_buf' = buffer_reset(rdy)
        /\ batch' = << >>
        /\ sent' = Recorded(Recorded(sent, <<owed>>), <<Command("RDY", <<Decimal(1)>>, << >>)>>)
        /\ handed' = <<m, [msg EXCEPT !.id = id]>>

\* The user clears command_buf, as the callbacks of libnsq do before they
\* compose.
reset ==
  /\ batch # << >>
  /\ command_buf' = buffer_reset(command_buf)
  /\ batch' = << >>
  /\ UNCHANGED <<wire, sent, handed>>

\* The user composes no more.
over ==
  /\ sent.n = MaxCommands
  /\ UNCHANGED vars

Next ==
  \/ subscribe \/ ready \/ finish \/ requeue \/ nop
  \/ publish \/ defer_publish \/ multi_publish
  \/ touch \/ cleanly_close \/ auth \/ identify
  \/ write_buffer
  \/ message_handler
  \/ reset
  \/ over

Spec == Init /\ [][Next]_vars

-------------------------------------------------------------------------------
(* nsqd's side: what it reads on the wire. *)

\* What comes of taking one item after the other off the front of s until
\* nothing is left; read[s] is the first item of s and the rest.
ReadAll(s, read) ==
  LET got[k \in 0 .. Len(s)] ==
        IF k = 0 THEN [items |-> << >>, rest |-> s]
        ELSE LET last  == got[k - 1]
                 first == read[last.rest]
             IN  IF last.rest = << >> THEN last
                 ELSE [items |-> Append(last.items, first.item), rest |-> first.rest]
  IN  got[Len(s)].items

\* What cannot be read takes all that follows with it.
Unreadable == [item |-> NULL, rest |-> << >>]

\* The fields of a line, which single spaces separate.
ReadField == [s \in Seq(Byte) |-> [item |-> Before(s, Space), rest |-> After(s, Space)]]
Fields(line) == ReadAll(Append(line, Space), ReadField)

\* A size, and as many bytes.
Size(s) == FromBigEndian(SubSeq(s, 1, WordLength))
HasBody(s) == Len(s) >= WordLength /\ Len(s) >= WordLength + Size(s)
ReadBody ==
  [s \in Seq(Byte) |->
     IF HasBody(s)
     THEN [item |-> SubSeq(s, WordLength + 1, WordLength + Size(s)),
           rest |-> SubSeq(s, WordLength + Size(s) + 1, Len(s))]
     ELSE Unreadable]

\* The bodies in the block of an MPUB, as many as it says and nothing else.
BodiesIn(block) ==
  LET bodies == ReadAll(SubSeq(block, WordLength + 1, Len(block)), ReadBody)
  IN  IF Len(block) >= WordLength /\ Size(block) = Len(bodies) THEN bodies ELSE <<NULL>>

\* A line, and where its name calls for it a body.
ReadCommand ==
  [s \in Seq(Byte) |->
     LET fields == Fields(Before(s, Newline))
         rest   == After(s, Newline)
         body   == ReadBody[rest]
         command(bodies) == [name |-> Head(fields), params |-> Tail(fields), bodies |-> bodies]
     IN  IF At(s, Newline) > Len(s) THEN Unreadable
         ELSE IF Head(fields) \notin WithBody THEN [item |-> command(<< >>), rest |-> rest]
         ELSE IF ~HasBody(rest) THEN Unreadable
         ELSE [item |-> command(IF Head(fields) = Text(<<"MPUB">>) THEN BodiesIn(body.item)
                                ELSE <<body.item>>),
               rest |-> body.rest]]

\* The commands in a stretch of bytes.
Decoded(s) == ReadAll(s, ReadCommand)

-------------------------------------------------------------------------------
(* Properties. *)

\* nsqd reads exactly the commands that were composed, with their parameters
\* and bodies, whatever bytes these contain and however commands are gathered
\* in command_buf, until a batch is longer than command_buf as it was first
\* allocated; and what was written before that is read all the same.  The
\* messages' ids in it are those nsqd sent.
WireDecodes ==
  /\ IsPrefix(sent.intact, Decoded(wire))
  /\ ~sent.torn => Decoded(wire) = sent.intact

\* What the handler is given is what nsqd sent, and its id ends where it
\* should.
MessageDecoded == handed # << >> => handed[1] = handed[2]
===============================================================================

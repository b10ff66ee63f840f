# A TLA+ model of libnsq

libnsq is an asynchronous client library for NSQ in C, built on libev. This
directory holds TLA+ specifications of it, the TLC configurations that check
them on small instances, and TLAPS proofs of what matters most for all
instances.

## The system

Everything runs in one libev loop: callbacks never run at the same time, so a
step of the program is one callback, with all the callbacks it calls in turn.
What is open is which callback comes next, and what the kernel, the nsqds, the
nsqlookupds and the user do in between.

| component | state | operations | interacts with |
|---|---|---|---|
| `Buffer` (buffer.c) | a region of memory, a window `data .. data + offset` of unread bytes | new, add, read_fd, write_fd, drain, reset, expand | used by all that move bytes |
| `BufferedSocket` (buffered_socket.c) | `BS_*` state, fd, read and write buffer, read and write watcher, the `read_bytes` request and its timer, the `ev_once` of a connect | connect, close, write, read_bytes and the callbacks of its watchers | calls its owner back on connect, close, error and when bytes asked for are there |
| `NSQDConnection` (nsqd_connection.c) | a socket, the size of the frame being read, a command buffer, a reconnect timer | connect, disconnect, read_size / read_data in turn, init_timer, stop_timer | frames to the reader, commands to nsqd |
| `NSQReader` (reader.c) | the list of connections, the list of nsqlookupds, the poll timer | connect_to_nsqd, add_nsqlookupd_endpoint, connect / close / message callbacks, reconnect and poll timers | connections, lookups, the user's three callbacks |
| nsqlookupd client (nsqlookupd.c) | none of its own | the callback of a lookup | connects the reader to producers it has no connection to |
| `HttpClient` (http.c) | libcurl multi handle, one timer, a watcher per socket | get, the callbacks of libcurl and libev | libcurl |
| commands (command.c), messages (message.c), JSON (json.c) | none | encode, decode, wrap a library | the connection, the user, the lookup |

What is hard in it, component by component, and so what the properties are
about (PROJECT.json lists every hazard at its line):

* **Buffer**: four fields that must agree through every order of realloc,
  memmove, adds and drains, arithmetic that mixes `size_t` and `int32_t`, and a
  growth rule that is not simply "up to the capacity". Correct when it is a
  FIFO queue of bytes that stays inside its allocation.
* **BufferedSocket and NSQDConnection**: bytes arrive before or after they are
  asked for, sends are partial, the `ev_once` of a connect cannot be cancelled,
  a closed socket may still have something pending, a buffer may be full.
  Correct when frames come out whole, once and in order, when none waits for
  ever, and when nsqd is sent exactly the commands it is owed.
* **Commands and messages**: a command goes into `command_buf` piece by piece and
  each refusal is ignored; the size of an MPUB is computed apart from its
  contents; a body may contain what separates commands. Correct when nsqd reads
  what was meant.
* **HttpClient**: libcurl and libev call each other, down to answering and
  freeing a request inside the call that starts it; timers fire early; watchers
  are known only through pointers libcurl keeps. Correct when no lookup is
  forgotten and no watcher outlives its use.
* **Delivery end to end**: connections break with messages and answers under
  way, nsqd gives up waiting, handlers fail. Correct when every message is
  handled at least once and RDY keeps what is under way within bounds.
* **NSQReader with nsqlookupd**: a connection changes hands when it closes, to
  its reconnect timer or to `free`, depending on whether there is an nsqlookupd
  at that moment; lookups overlap, are late, stale or fail; a connect may fail
  at once. Correct when no connection is lost, doubled or freed twice and every
  nsqd that should be tried is tried again.

## The modules

| module | what it is |
|---|---|
| `BufferLayout` | the arithmetic of a buffer: position, length, need, growth, as operators on a record |
| `Buffer` | a buffer with its memory, byte by byte, junk included; extends `BufferLayout` |
| `BufferOps` | a buffer as a value (layout and contents), for modules that hold buffers |
| `ByteQueue` | abstract: a FIFO queue of bytes; `Buffer` implements it |
| `BufferedSocket` | a socket with its watchers as a value, one operator per function |
| `NSQDConnection` | a connection: socket, framing, answers, the kernel, an nsqd; extends `BufferedSocket` |
| `FrameStream` | abstract: frames handed over once, whole, in order; `NSQDConnection` implements it |
| `NSQReader` | a reader's connections, timers and lookups, and the memory they live in |
| `NSQDLifecycle` | abstract: what becomes of one nsqd; `NSQReader` implements it |
| `Protocol` | commands and messages byte by byte, `command_buf`, and what nsqd reads on the wire; extends `BufferedSocket` |
| `HttpClient` | the callbacks between libcurl and libev, and the lookups they serve |
| `Consumer` | a channel: its messages, nsqd, the links to readers, the message handler, faults |
| `Delivery` | abstract: each message is handled, then finished; `Consumer` implements it |
| `MC*` | the constants of the small instances |
| `SharedLemmas` | lemmas several proofs need: the arithmetic of a buffer, naturals, sequences |
| `BufferProofs` | proofs about buffers |
| `NSQDConnectionProofs`, `NSQDConnectionStreams` | proofs about a connection: its socket and buffers, and what its bytes say |
| `NSQReaderProofs` | proofs about a reader, and that it implements `NSQDLifecycle` |
| `ProtocolProofs` | proofs about commands and messages on the wire |
| `HttpClientProofs`, `ConsumerProofs` | proofs about the HTTP client and about a channel |

`BufferOps` and `Buffer` are two views of the same code. The run `Buffer`
checks (`StepsAgreeWithOps`) that the memory, with all that realloc and memmove
do, changes as the operators of `BufferOps` say; so the connection model may
hold buffers as values and stay small. The assumption `EvbuffsockTest` in
`MCBuffer` replays test_evbuffsock.c, with its sizes and texts, on the same
operators, and ends with its two assertions.

**Buffer.** One action per function. `orig` is the memory, `pos` is
`data - orig`. An operation the code may refuse is the set of its results,
empty when it is refused. The doubling loop of `buffer_expand` is described by
what it computes (`Expansions`). `ToInt` is the conversion to `int32_t`.

**NSQDConnection.** `bs` is the `struct BufferedSocket`; its fields `read_ev`,
`write_ev`, `timer` and `once` say which watchers are started. Each action is a
libev callback with everything it calls: `connect_cb_succeeds` runs through
`nsqd_connection_connect_cb` and `nsq_reader_connect_cb`,
`nsqd_connection_read_data` through the message handler of test.c and the writes
it makes. With `DisconnectInHandler` the user disconnects from within either of
its callbacks that run on an open connection: the connect callback, after which
SUB and RDY are still written, and the message handler. `received` is the kernel's receive queue, `written` what `send`
accepted. The k-th byte of frame i is the pair `<<i, k>>`: all that the
properties need to tell apart. What reads as `ntohl` of four bytes in the code
is here a look-up of those bytes, which yields nothing when they are not a size
word, so a misread shows. A word is `WordLength` bytes rather than 4 and a
command `CommandLength` bytes whatever its text.

**NSQReader.** Connections are heap blocks: `sock[c]` is the state of the
socket in block c, or "free", and `timer[c]` the reconnect timer, which is
"dangling" once freed with the pointer kept. `fault` records the first misuse
of a block. Whether the connection of a callback is open, and the bytes on it,
are left to `NSQDConnection`. The user connects to each nsqd of `Direct` until
one connect gets under way (`wanted`) and disconnects connections it was handed.
Freed blocks may be handed out again by malloc. A connection whose connect()
fails at once keeps its block for ever: it is `Failed`, in state "init", in no
list and with a timer that was made and never started (reader.c:210-219).
`FailsAtOnce` says which connects may fail so: the user's, whose return value
tells it; those of a reconnect timer; those of a lookup. As nobody refers to the
block of a failed connect again, only the first `MaxOrphans` are told apart; the
failures themselves go on (`Blocks`).

**Protocol.** The user composes any commands in `command_buf` and writes or
resets it when it likes; the handler of test.c resets it for each of the two
commands of its answer. A byte is a pair, so that a binary number, a character
and a body byte that looks like one can be told apart or confused exactly as on
the wire; a command name and a decimal number are one byte, a size word is
`WordLength` bytes in base `Radix`. `Decoded` reads the wire as nsqd does: lines,
and bodies of the size announced. `sent` remembers what was composed, as long as
no batch was longer than the first allocation of `command_buf`: nothing that
fits there may arrive torn.

**HttpClient.** libcurl's multi interface is external: it is modelled by what
http.c sees of it. `stack` holds what is left to do of the calls under way, so
that the recursion `multi_timer_cb` -> `timer_cb` -> libcurl -> `multi_timer_cb`
is explicit; libev picks a callback only when it is empty. `told` is libcurl's
memory of the timeout it last announced, which decides whether it announces the
next. Where libcurl compares two points in time to find out, the model takes
both answers. A timeout is "later", and may become "due"; the timer may fire
before that, as the truncation to seconds makes it do. Time passes inside
callbacks too: that of a lookup connects to nsqds and may block in `getaddrinfo`
(nsqlookupd.c:63, buffered_socket.c:79) before it frees its request, so another
timeout may be due by the time `curl_multi_remove_handle` calls `multi_timer_cb`,
and the requests it ends are answered inside the callback of the first. A request
is "called" until its own `free_http_request` is through, and calls nest to any
depth the requests allow. The model supposes a libcurl that allows calls from its
timer callback; later versions refuse them with `CURLM_RECURSIVE_API_CALL`, which
http.c:66 and http.c:79 ignore.

**Consumer.** `NSQDConnection` shows that a link delivers frames and commands in
order and whole, so here a link is two sequences. Each end learns by itself that
the link is over; the end of the stream closes a reader's link at once, and
whole frames that are still in `read_buf` are lost with it (`read_cb_end`). A
break loses any suffix of what is on its way. nsqd is modelled as the protocol describes it: RDY bounds what is in flight on a link
(whether it also counts down is left open, `counts_down`), an answer counts only
on the link the message is in flight on, and a timeout or a broken link puts
messages back. The handler may fail, in which case test.c sends REQ.

How they fit together: `Consumer` rests on `NSQDConnection` (order on a link) and
on `NSQReader` (a reader that lost its connection makes a new one), and its
`Paced` is what justifies a bounded `Window` in `NSQDConnection`; `NSQReader`
takes a lookup as something that ends once, which `HttpClient` shows;
`Protocol` opens up the commands that `NSQDConnection` passes on as units.

Definitions marked `Fault` in the modules are not part of the models: each is a
plausible bug of the definition below it, kept to show that the properties
notice it.

## The runs

| run | what it asks | instance |
|---|---|---|
| `Buffer` | is it a FIFO queue, inside its allocation, and the value of `BufferOps` | sizes 2 to 8 bytes and unlimited up to 8, two byte values, adds up to 5, reads up to 2, int range -16 .. 15 |
| `BufferSizing` | how far does it grow, when may it refuse | lengths and capacities that doubling does not divide, adds up to 17 |
| `Connection` | are frames delivered and answered, and does it stay open | 3 frames of 3 kinds, frames of 5 and 6 bytes, reads of at most 3, a read buffer fixed at 8 and one growing from 4 |
| `ConnectionShort` | what holds when both buffers overflow and the handler disconnects | a read buffer of 7 for up to 14 bytes, write buffers of 4 and of 1, commands of 2 |
| `ReaderDirect` | is every nsqd the user named retried for ever, and is nothing but a failed connect lost track of | 2 nsqds, 5 blocks, no nsqlookupd, the user's connects may fail at once, 2 of the failed told apart |
| `ReaderLookup` | is every registered nsqd tried, and none twice | 2 nsqds, 4 blocks, 2 nsqlookupds, 2 lookups in flight, connects of a lookup may fail at once, 2 of the failed told apart |
| `Protocol` | does nsqd read the commands that were composed, and the handler the message that was sent | 3 commands of 12 kinds or handled messages, topics of 1 and 10 bytes, bodies with separators, `command_buf` of 12 bytes growing to 24 |
| `HttpClient` | is any lookup, timeout or watcher forgotten | 3 requests at a time, again and again |
| `Consumer` | is each message handled, how many are under way | 2 messages, 2 readers, 2 links used again and again, `max_in_flight` 1 or 2, 2 faults |
| `ReaderRetryLost`, `ReaderTimersLeft`, `ReaderDoubleFree` | the three disagreements below | 2 nsqds, 3 or 4 blocks |

Why these bounds. *Buffer*: capacity for two growth steps and re-alignment at
every offset; an add may exceed anything that is free. Longer chunks repeat
the same cases; the proofs cover all sizes. *Connection*: a word is two bytes,
so every cut through a size word, a type word and a body happens, two frames
can pile up in the window, and with three frames one is handled, one read and
one on its way. `Window` bounds what nsqd has sent and the client has not yet
taken out of `read_buf`; in `Connection` it is what the buffer surely has room
for, in `ConnectionShort` it is twice the buffer. *Reader*: two nsqds are enough
for one to disturb the other; a connection, its replacement and another nsqd's
take three blocks (two with nsqlookupds, which have no replacement), and two more
stay with failed connects. *Protocol*: three commands are enough for
one to be torn after one and before another, in one batch or several; two long
topics in one batch exceed even the grown buffer. *HttpClient*: two requests end in one call of
libcurl while a third goes on, or each is answered inside the callback of
another. *Consumer*: two messages share a link, or go to different readers; two faults let a message be put back and the reader it is sent
to next fail too. `MaxLength`, `MaxFrames`, `MaxRequests`, `MaxEndpoints`, `MaxOrphans`,
`MaxCommands` and `MaxFaults` cap what could grow for ever.

No run switches deadlock checking off: where a model may come to rest, an action
says when (`Over` in `NSQDConnection`, `over` in `Protocol`, `at_rest` in
`Consumer`), and any other stop is an error.

### Safety

* `InBounds`, `NoStrayByte`, `CapacityRespected`, `RefusedOnlyWhenFull`: the
  memory of a buffer. The last says when an add may fail: the growth rule
  ignores the free space in front of the window and doubles the step, so
  refusal starts above a third of the capacity, not at the capacity.
* `NoByteLost`: handled frames, the size word in hand, `read_buf` and the
  kernel's queue together are what nsqd sent.
* `NoLostWakeup`: whoever sees that the requested bytes are there, `read_bytes`
  or `read_cb`, starts the timer; it never fires early or for nobody.
* `WriterAwake`, `AnswersInOrder`, `NoTornCommand`: the sending side.
* `HealthyStaysOpen`: no connection closes because of how full a buffer is, as
  long as `Window` fits the read buffer. `ConnectionShort` reaches the states
  where one does (`read_cb_refused`, `write_cb_empty`).
* `StaysClosed`, `NothingAfterClose`: closing. With a handler that disconnects,
  `nsqd_connection_read_data` goes on to wait for the next frame and may start
  the timer of the closed socket, so `NothingAfterClose` is stated for handlers
  that do not. It names the one watcher `buffered_socket_close` cannot stop: the
  `ev_once` of a connect the user cut short stays outstanding, and whoever frees
  such a connection has `buffered_socket_connect_cb` run on freed memory. What
  the network or nsqd closes, at a time when `nsq_reader_close_cb` may free it,
  leaves nothing behind.
* `WireDecodes`, `MessageDecoded`: what each end makes of the other's bytes.
* `WatchersFollowCurl`, `NothingForgotten`: between callbacks of libev, libcurl
  waits for nothing that nobody watches. `FreedOnce`: although the callback of one
  request may run inside that of another, each is handed over and freed once, and
  nothing waits for it by then.
* `Paced`: messages on their way to the client and answers on their way back
  together stay within `max_in_flight` on each link, but for those nsqd gave up
  waiting for. `NoRepeatUnprovoked`: a message is handled again only after nsqd
  put it back.
* `MemorySafe`, `OneConnectionPerNsqd`, `DirectNsqdKept`: the reader.
  `OnlyFailedConnectsOrphaned`: the connections in nobody's hands, neither listed
  nor waiting for a running timer, are exactly those whose connect() failed at
  once. The code does lose those, and never frees them; the property says that
  closes, reconnects, late lookups and the user add none. With nsqlookupds there
  are no reconnect timers to mishandle, so `ReaderLookup` does not check
  `MemorySafe`; `ReaderDoubleFree` shows what becomes of it in a reader used in
  both ways.

### Liveness and the fairness it rests on

`EveryMessageFinished`, `DeliversFrames`, `DirectNsqdRetried`,
`RegisteredNsqdTried`, `EveryRequestAnswered`, `DeliversAtLeastOnce` and the
fairness of the abstract specifications.

* libev finds a started watcher in every iteration in which its condition
  holds and calls it back in that iteration, so each kind of callback of a
  connection is weakly fair. For `write_cb` this supposes that the socket
  becomes writable again, that is, that nsqd goes on reading. A read that is
  refused for want of room has no fairness: it may repeat and change nothing.
* A connect is decided within two seconds, the timeout of its `ev_once`.
* Timers fire: weak fairness of the reconnect and the poll timer.
* `lookup_answered` has strong fairness together with the connects that follow
  succeeding to start: an nsqlookupd that is asked again and again answers now
  and then with what it knows. Any number of lookups may fail or be stale
  before that. No fairness is given to what the user, an nsqd or a failure does.
* `HttpClient`: a callback that has begun goes on. The timer, each ready socket
  and the passing of time have strong fairness: other callbacks come in between,
  but libev serves all that is pending in each iteration. A ready socket stands
  for a peer that answers or a connection that breaks: an nsqlookupd that accepts
  and then stays silent is never given up, since no timeout is set.
* `Consumer`: what was sent is read, a link that is over at one end is noticed at
  the other, a reader without a connection makes one, nsqd sends what it may to
  one of the readers. Faults have no fairness and there are at most `MaxFaults`:
  delivery is promised once they cease.

## Where the code and its comments disagree

* `ReaderRetryLost`: reader.c:63 "There is no lookupd, try to reconnect to nsqd
  directly". It tries once per closed connection: when that attempt fails at
  once (no descriptor, no route, no address), `nsq_reader_reconnect_cb` frees
  the old connection, the new one is neither listed nor timed, and the nsqd is
  forgotten. With "timer" not in `FailsAtOnce` `DirectNsqdKept` holds
  (`ReaderDirect`).
* `ReaderTimersLeft`: reader.c:189 "Stop reconnect timers, use lookupd timer
  instead". The loop goes through `rdr->conns`, from which a connection is
  removed before its timer is started; the running timers are those it misses.
* `ReaderDoubleFree`: that loop frees the timers of open connections and leaves
  the pointers, and each is freed again when its connection closes.

The last two need a reader that is first connected directly and then given an
nsqlookupd. The proofs that need it state the opposite as `OneWay`.

## The proofs

TLAPS checks these for every value of the constants that meets the modules'
assumptions. Where a theorem needs more, its hypothesis has a name, and the
instances the runs use satisfy it.

### Buffer: `SharedLemmas`, `BufferProofs`

| theorem | states | hypothesis |
|---|---|---|
| `TypeCorrect`, `MemorySafe`, `ContentSafe`, `CapacityKept` | `TypeOK`, `InBounds`, `NoStrayByte`, `CapacityRespected` | |
| `RefusalJustified` | `RefusedOnlyWhenFull` | `WithinInt` |
| `ImplementsQueue` | `IsAQueue`: `Buffer` implements `ByteQueue` | |
| `AgreesWithOps` | `StepsAgreeWithOps`: the memory changes as the values of `BufferOps` | |

The invariant is `TypeOK`, `InBounds`, `NoStrayByte` and `CapacityRespected`
together, with where the limit came from (`CapacityGiven`): `InBounds` alone is not inductive, since what an add writes depends on
the memory being as long as `length` says, and a drain would uncover stray bytes.
`NeedKept` shows that storing the missing room in an `int32_t` keeps a positive
amount exactly (a chunk is shorter than 2^31); `RoomSuffices` that what
`buffer_expand` returns has room for the chunk and has moved the window at most
to the front. A *negative* need is another matter: with more than 2^31 bytes to
spare it comes out positive, and the buffer asks to grow. `WithinInt`, no
allocation beyond 2^31 bytes, is what `RefusalJustified` needs and no other
theorem of the module does. That the doubling of `buffer_expand` always finds a
size (`buffer_expand` refuses only for the limit) follows from `Least`, that a set
of naturals has a least element; the model says "a power
of two" as "no odd divisor but 1" (`IsPowerOfTwo`) because the prover knows
nothing of exponentiation.

### Connection: `NSQDConnectionProofs`, `NSQDConnectionStreams`

| theorem | states | hypothesis |
|---|---|---|
| `TypeCorrect`, `WakeupKept`, `FramingKept`, `ClosedForGood` | `TypeOK`, `NoLostWakeup`, `NoTornCommand`, `StaysClosed` | |
| `WriterKeptAwake` | `WriterAwake` | `WithinInt`, `WriteRoom` |
| `StaysHealthy` | `HealthyStaysOpen` | `WithinInt`, `WriteRoom`, `ReadRoom` |
| `QuietOnceClosed` | `NothingAfterClose` | the handler does not disconnect |
| `BytesKept` | `NoByteLost` | |
| `DeliversSafely` | the safety of `FrameStream` | the handler does not disconnect |
| `AnswersOrdered` | `AnswersInOrder` | `WithinInt`, `AnswerRoom` |

`WriteRoom` says that an empty write buffer takes a command, `ReadRoom` that the
read buffer takes `Window` bytes wherever its window stands, `AnswerRoom` that
the write buffer takes all that nsqd can be owed; unlimited buffers satisfy all
three. The second module builds on the first.

The first invariant is about the socket: the descriptor and each watcher go with
the state (`Tended`), a started timer has a caller and its bytes (`TimerDue`),
someone waits on a connected socket (`Waiting`), the write watcher runs while
bytes wait (`Awake`), each buffer has grown from one of the sizes it may start
with (`Sized`). `NoLostWakeup` alone says nothing of the moments in between:
`nsqd_connection_read_data` stops waiting for a body and starts waiting for a
size within one step, and that the bytes are looked at again is what `Waiting`
demands. `NoTornCommand` is inductive by itself: it looks at what was sent and
what waits together, and each write adds a whole command or nothing to that.
`QuietOnceClosed` needs `CutShort` beside it: a closed socket has an `ev_once`
outstanding only if the user closed it, and nothing was sent or handled before.

The second is about the stream: frames came in turn (`InTurn`), the callback
and the number of bytes it waits for belong to the next frame (`Expecting`), and
the frames handled, the size word if the body is being read, `read_buf` and the
kernel's queue make up what nsqd sent, or a beginning of it once the peer is gone
(`Accounted`). Without `Expecting` the bytes could be all there and be cut in
the wrong place; with it `NextFrame` says that the bytes to come are those of
the next frame, and `SizeReadIs` and `FrameReadIs` that they are read as what
they are. `AnswersInv` adds what nsqd is owed: what
was sent and what waits are the encoding of it. These are statements about
concatenations of any length (`FlattenSeq`, `Encoding`). The provers cannot
instantiate an induction theorem, so each such lemma is proved from `Least`: if
it failed for some length there would be a smallest, and the step before that
contradicts it.

### Reader: `NSQReaderProofs`

| theorem | states | hypothesis |
|---|---|---|
| `TypeCorrect` | `TypeOK` | |
| `TimersSafe`, `OthersKeptTrackOf`, `NoSecondConnection` | `MemorySafe`, `OnlyFailedConnectsOrphaned`, `OneConnectionPerNsqd` | `OneWay` |
| `DirectKept` | `DirectNsqdKept` | no connect of a reconnect timer fails at once |
| `ImplementsLifecycle` | the safety of `NSQDLifecycle` | `Covered` |

`OneWay`: the user names nsqds, or nsqlookupds, not both. Any connect may fail at
once, but where the table says otherwise. The invariant states who holds each
block (`InOneHand`; that only failed connects are in nobody's hands follows) and
adds three parts to the properties: `TimersFit` (a listed connection has a timer
exactly while there is no nsqlookupd), `LookupFirst` (no lookup is in flight,
and so in a reader of nsqlookupds no connection exists, before there is an
nsqlookupd) and `WhoWaits` (connections wait for a timer only in a direct
reader, and only to nsqds the user named). Without `LookupFirst` the first
nsqlookupd could find connections with timers; without `WhoWaits` a new
new connection could meet a waiting one to the same nsqd. `ConnectEffect` says what
making connections does to each block, those of failing connects included, `CloseKeepsIInv` and `ConnectKeepsIInv`
are shared by the actions that close and that connect. `DirectKept` holds of
readers used in both ways too: its invariant (`KeptInv`) speaks only of the time
before there is an nsqlookupd, in which no lookup is in flight. `Covered` is
`OneWay` and, for nsqds the user named, that no connect of a reconnect timer
fails at once: the run `ReaderRetryLost` shows why that is needed.

### Commands and messages: `ProtocolProofs`

| theorem | states | hypothesis |
|---|---|---|
| `MessagesArrive` | `MessageDecoded` | |
| `CommandsArrive` | `WireDecodes` | `WithinInt` |

The assumptions of `Protocol` say what nsqd accepts and the code does not check:
topics, channels and ids without separators (`TextAssumption`), bodies that are C
strings, whose sizes and numbers a size word can hold (`BodyAssumption`), and, of
what nsqd sends, ids of 16 bytes without a NUL and numbers that fit their fields
(`MessageAssumption`). `WithinInt` says of `command_buf` that its length and
capacity are at most 2^31, and that it has a capacity: reader.c:139-140 puts the
defaults in the place of 0. Beyond 2^31 the room that lacks comes out wrong, as
for `RefusalJustified`.

The two ends are compared from below. `NumberRead`: a number is read back from
its digits in base `Radix`, by dividing step by step rather than with powers.
`SplitAt`: the first separator is where it was put. `AllRead`: if each item is
read off the front of whatever follows it, then so is a row of them, and what
comes behind them is left; fields of a line, bodies of a block and commands of a
stream are three uses of it. So `CommandRead` and `StreamRead` say that commands
in a row are read back whatever follows them, which is what keeps the commands in
front of a torn one readable.

Then the code. `AddHolds` shows that a piece for which there is room is added,
and that a refused or misplaced one leaves a buffer in which the rest of the
argument still makes sense; `LineAdded` goes through the parameters and
`WholeSize` shows that the size `nsq_multi_publish` sums up is that of the block
it fills; together, `CommandAdded`: what `nsq_buffer_add` leaves behind is
the command. The invariant `WireInv` relates three things: `command_buf` holds
the encoding of the batch if that is no longer than its first allocation
(`Holds`); the wire is the encoding of the commands recorded as intact, followed
by anything once a batch was too long and by nothing before (`Carries`).
`WireDecodes` alone is not inductive: it says nothing of `command_buf`, whose
bytes go on the wire next. `CommandBufLength` is the bound rather than the
capacity because the growth rule may refuse a piece anywhere beyond it.

### HTTP client: `HttpClientProofs`

`WatchersFollow`, `NoneForgotten` and `EachFreedOnce` state `WatchersFollowCurl`,
`NothingForgotten` and `FreedOnce`, for any number of requests and calls nested
to any depth. The first two speak of the moments between callbacks and are far
from inductive. The invariant says what is true in the middle. Of the stack
(`StackFits`): only `check_multi_info` and the rest of `free_http_request` can
wait below its top, `check_multi_info` is at its bottom once requests have run,
and the requests handed to their callbacks are those whose freeing is on it, one
place each (`Handed`). Of the rest, that each socket and expiry follows the phase
of its request at all times, and that what the timer and the phases satisfy
depends on the top of the stack alone (`PhasesFit`, `TimerFits`): so nothing has
to be known of how deep calls nest, or of when time passes.

### Channel: `ConsumerProofs`

| theorem | states |
|---|---|
| `TypeCorrect` | `TypeOK` |
| `PaceKept` | `Paced` |
| `RepeatsExcused` | `NoRepeatUnprovoked` |
| `DeliversSafely` | the safety of `Delivery` |

None has a hypothesis: any number of messages, links, readers and faults.
`Paced` compares the two ends of a link and is not inductive; `PacedInv` puts
what nsqd has in flight in between: no more is unread and answered than is in
flight or was given up, and no more is in flight than RDY allows. For
`NoRepeatUnprovoked` the invariant counts places: each place a message has in
the queue, on its way to a client, or on its way back in a REQ is one more time
it may be handled (`OnceEach`), and `Moved` shows once that a step which takes a
message from one place to another, moving up what is behind it, makes none. A
REQ nsqd ignores, because it gave up waiting, removes one. `DeliversSafely`
rests on `FinishedLast`: a FIN is on its way only for a message that was
handled.

### Only model-checked

* Liveness: `EveryMessageFinished`, `DirectNsqdRetried`, `RegisteredNsqdTried`,
  `EveryRequestAnswered`, and the fairness halves of `DeliversFrames`,
  `DeliversAtLeastOnce` and the reader's refinement. The prover knows nothing of
  ENABLED.

Every safety invariant and every action property of the runs is proved. The
bounds that cap what could grow for ever (`MaxCommands`, `MaxFrames`,
`MaxFaults` and the like) are constants of the theorems, which hold for every
value of them.

## Not modelled

* `free_nsq_reader`, which a TODO in it calls unfinished: it is safe for no reader
  that was ever used (its close callbacks take nodes out of the list it walks,
  and timers and lookups keep the freed reader), so there is no behaviour to
  specify. With it go `free_http_client`, which nothing calls, and freeing a
  socket with a connect under way, which a reader with nsqlookupds also does when
  the user disconnects one that is connecting: `NothingAfterClose` says that its
  `ev_once` is outstanding then, and no model has both the socket and its memory.
* Freeing a connection from inside its own message handler, which happens when it
  disconnects in a reader with nsqlookupds.
* Reusing a `BufferedSocket` after it closed; closing one before it connects.
  libnsq does neither.
* Memory that leaks without further effect: the block of an MPUB, the request of
  a lookup whose answer does not parse.
* The text of JSON, the wrappers of json.c, the body of an HTTP answer (an
  unlimited `Buffer`); frames no nsqd would send.
* Spurious readiness reports, signals, memory that runs out.

## Plan

1. *Done*: `BufferLayout`, `Buffer`, `BufferOps`, `ByteQueue` and proofs;
   `BufferedSocket`, `NSQDConnection`, `FrameStream`; `NSQReader`,
   `NSQDLifecycle` and proofs; `Protocol`; `HttpClient`; `Consumer`, `Delivery`.
2. *Done*: a theorem for each safety invariant and each action property of the
   runs, and for the safety of the four refinements.
3. Left: the lifetimes listed under "Not modelled", once `free_nsq_reader` has a
   behaviour to specify.

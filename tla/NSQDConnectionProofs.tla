------------------------- MODULE NSQDConnectionProofs -------------------------
(***************************************************************************)
(* What holds of a connection whatever frames nsqd sends, however the      *)
(* bytes are cut up on the way and whenever either end goes.               *)
(***************************************************************************)
EXTENDS NSQDConnection, SharedLemmas

(***************************************************************************)
(* Buffers as values.                                                      *)
(***************************************************************************)
Layouts(S) ==
  [pos : Nat, offset : Nat, length : Nat \ {0}, capacity : Nat, bytes : Seq(S)]

Buffers(S) ==
  { b \in Layouts(S) : b.pos + b.offset <= b.length /\ Len(b.bytes) = b.offset }

LEMMA BufferFields ==
  ASSUME NEW S, NEW b \in Buffers(S)
  PROVE  /\ b \in Layouts(S)
         /\ b.pos \in Nat /\ b.offset \in Nat /\ b.length \in Nat \ {0} /\ b.capacity \in Nat
         /\ b.bytes \in Seq(S) /\ Len(b.bytes) = b.offset
         /\ b.pos + b.offset <= b.length
BY DEF Buffers, Layouts

(***************************************************************************)
(* Room that fits n more bytes: buffer_expand keeps the bytes there are,   *)
(* and grows the allocation only within the capacity.                      *)
(***************************************************************************)
LEMMA RoomIs ==
  ASSUME NEW S, NEW b \in Buffers(S), NEW n \in Nat, NEW need \in Int,
         b.pos + b.offset + n > b.length => need = b.pos + b.offset + n - b.length,
         NEW room \in MakeRoom(b, need)
  PROVE  /\ room \in Layouts(S)
         /\ room.offset = b.offset /\ room.bytes = b.bytes /\ room.capacity = b.capacity
         /\ room.pos + room.offset + n <= room.length
         /\ room.length >= b.length
         /\ room.length = b.length \/ (b.capacity > 0 => room.length <= b.capacity)
<1>1. /\ b \in Layouts(S)
      /\ b.pos \in Nat /\ b.offset \in Nat /\ b.length \in Nat \ {0} /\ b.capacity \in Nat
      /\ b.bytes \in Seq(S) /\ Len(b.bytes) = b.offset
      /\ b.pos + b.offset <= b.length
  BY BufferFields
<1>2. CASE ~(need > 0)
  <2>1. room = b
    BY <1>2 DEF MakeRoom
  <2> QED
    BY ONLY <1>1, <1>2, <2>1, n \in Nat, need \in Int,
       b.pos + b.offset + n > b.length => need = b.pos + b.offset + n - b.length
<1>3. CASE need > 0 /\ need <= b.pos
  <2>1. room = [b EXCEPT !.pos = 0]
    BY <1>3 DEF MakeRoom, buffer_expand
  <2>2. /\ room \in Layouts(S)
        /\ room.pos = 0 /\ room.offset = b.offset /\ room.bytes = b.bytes
        /\ room.capacity = b.capacity /\ room.length = b.length
    BY ONLY <1>1, <2>1 DEF Layouts
  <2> QED
    BY ONLY <1>1, <1>3, <2>2, n \in Nat, need \in Int,
       b.pos + b.offset + n > b.length => need = b.pos + b.offset + n - b.length, SMTT(30)
<1>4. CASE need > 0 /\ ~(need <= b.pos)
  <2>1. PICK e \in Expansions(b.length, need) :
          /\ room = [b EXCEPT !.length = @ + e]
          /\ b.capacity > 0 => b.length + e <= b.capacity
    BY <1>4 DEF MakeRoom, buffer_expand
  <2>2. e \in Nat /\ e >= need
    <3>1. need \in Nat \ {0}
      BY <1>4
    <3> QED
      BY <1>1, <2>1, <3>1, ExpansionExists
  <2>3. b.length + e \in Nat \ {0}
    BY <1>1, <2>2
  <2>4. /\ room \in Layouts(S)
        /\ room.pos = b.pos /\ room.offset = b.offset /\ room.bytes = b.bytes
        /\ room.capacity = b.capacity /\ room.length = b.length + e
    BY ONLY <1>1, <2>1, <2>3 DEF Layouts
  <2> QED
    BY ONLY <1>1, <1>4, <2>1, <2>2, <2>4, n \in Nat, need \in Int,
       b.pos + b.offset + n > b.length => need = b.pos + b.offset + n - b.length, SMTT(30)
<1> QED
  BY <1>2, <1>3, <1>4

LEMMA PushedIs ==
  ASSUME NEW S, NEW room \in Layouts(S), NEW s \in Seq(S),
         room.pos + room.offset + Len(s) <= room.length, Len(room.bytes) = room.offset
  PROVE  /\ Pushed(room, s) \in Buffers(S)
         /\ Pushed(room, s).offset = room.offset + Len(s)
         /\ Pushed(room, s).bytes = room.bytes \o s
         /\ Pushed(room, s).length = room.length
         /\ Pushed(room, s).capacity = room.capacity
<1> DEFINE x == room.offset + Len(s)
           y == room.bytes \o s
           q == Pushed(room, s)
<1>1. /\ room.bytes \in Seq(S) /\ room.offset \in Nat /\ room.pos \in Nat
      /\ room.length \in Nat /\ Len(s) \in Nat
  BY DEF Layouts
<1>2. x \in Nat /\ y \in Seq(S) /\ Len(y) = x
  BY <1>1, ConcatProperties, SMTT(30)
<1>3. q = [room EXCEPT !.offset = x, !.bytes = y]
  BY DEF Pushed
<1>4. room.pos + x <= room.length
  BY <1>1
<1> HIDE DEF x, y, q
<1>5. /\ q \in Layouts(S)
      /\ q.pos = room.pos /\ q.offset = x /\ q.bytes = y
      /\ q.length = room.length /\ q.capacity = room.capacity
  BY ONLY <1>2, <1>3, room \in Layouts(S) DEF Layouts
<1>6. q \in Buffers(S)
  BY ONLY <1>2, <1>4, <1>5 DEF Buffers
<1> QED
  BY ONLY <1>5, <1>6 DEF x, y, q

LEMMA DrainedIs ==
  ASSUME NEW S, NEW b \in Buffers(S), NEW n \in Nat
  PROVE  /\ Drained(b, n) \in Buffers(S)
         /\ Drained(b, n).length = b.length /\ Drained(b, n).capacity = b.capacity
         /\ n >= b.offset => Drained(b, n).offset = 0 /\ Drained(b, n).bytes = << >>
         /\ n < b.offset => /\ Drained(b, n).offset = b.offset - n
                            /\ Drained(b, n).bytes = SubSeq(b.bytes, n + 1, Len(b.bytes))
<1>1. /\ b \in Layouts(S)
      /\ b.pos \in Nat /\ b.offset \in Nat /\ b.length \in Nat \ {0} /\ b.capacity \in Nat
      /\ b.bytes \in Seq(S) /\ Len(b.bytes) = b.offset
      /\ b.pos + b.offset <= b.length
  BY BufferFields
<1> DEFINE q == Drained(b, n)
<1>2. CASE n >= b.offset
  <2>1. q = [b EXCEPT !.pos = 0, !.offset = 0, !.bytes = << >>]
    BY <1>2 DEF Drained
  <2>2. << >> \in Seq(S) /\ Len(<< >>) = 0
    OBVIOUS
  <2>3. ~(n < b.offset)
    BY <1>1, <1>2
  <2> HIDE DEF q
  <2>4. /\ q \in Layouts(S)
        /\ q.pos = 0 /\ q.offset = 0 /\ q.bytes = << >>
        /\ q.length = b.length /\ q.capacity = b.capacity
    BY ONLY <1>1, <2>1, <2>2 DEF Layouts
  <2>5. q.pos + q.offset <= q.length /\ Len(q.bytes) = q.offset
    BY ONLY <1>1, <2>2, <2>4
  <2>6. q \in Buffers(S)
    BY ONLY <2>4, <2>5 DEF Buffers
  <2> QED
    BY ONLY <2>3, <2>4, <2>6 DEF q
<1>3. CASE ~(n >= b.offset)
  <2> DEFINE y == SubSeq(b.bytes, n + 1, Len(b.bytes))
             x == b.offset - n
             p == b.pos + n
  <2>1. q = [b EXCEPT !.pos = p, !.offset = x, !.bytes = y]
    BY <1>3 DEF Drained
  <2>2. y \in Seq(S) /\ Len(y) = x /\ x \in Nat /\ p \in Nat /\ p + x <= b.length
    <3>1. x \in Nat /\ p \in Nat /\ p + x <= b.length /\ n + 1 \in 1 .. Len(b.bytes)
      BY <1>1, <1>3, SMTT(30)
    <3>2. Len(b.bytes) \in 1 .. Len(b.bytes)
      BY <1>1, <3>1
    <3>3. y \in Seq(S) /\ Len(y) = Len(b.bytes) - (n + 1) + 1
      BY ONLY <1>1, <3>1, <3>2, SMTT(30)
    <3>4. Len(y) = x
      BY ONLY <1>1, <3>3, n \in Nat
    <3> QED
      BY ONLY <3>1, <3>3, <3>4
  <2> HIDE DEF q, x, y, p
  <2>4. /\ q \in Layouts(S)
        /\ q.pos = p /\ q.offset = x /\ q.bytes = y
        /\ q.length = b.length /\ q.capacity = b.capacity
    BY ONLY <1>1, <2>1, <2>2 DEF Layouts
  <2>5. q.pos + q.offset <= q.length /\ Len(q.bytes) = q.offset
    BY ONLY <2>2, <2>4
  <2>6. q \in Buffers(S)
    BY ONLY <2>4, <2>5 DEF Buffers
  <2> QED
    BY ONLY <1>3, <2>4, <2>6 DEF q, x, y
<1> QED
  BY <1>2, <1>3

(***************************************************************************)
(* What a buffer that came from new_buffer with one of the sizes may have  *)
(* grown to.                                                               *)
(***************************************************************************)
SizedBy(b, sizes) ==
  \E r \in sizes :
    /\ b.capacity = r[2]
    /\ b.length >= r[1]
    /\ b.length = r[1] \/ (r[2] > 0 => b.length <= r[2])

LEMMA SizedByKept ==
  ASSUME NEW sizes \in SUBSET ((Nat \ {0}) \X Nat),
         NEW b, NEW w, b.length \in Nat, w.length \in Nat, SizedBy(b, sizes),
         w.capacity = b.capacity, w.length >= b.length,
         w.length = b.length \/ (b.capacity > 0 => w.length <= b.capacity)
  PROVE  SizedBy(w, sizes)
<1>1. PICK r \in sizes :
        /\ b.capacity = r[2] /\ b.length >= r[1]
        /\ b.length = r[1] \/ (r[2] > 0 => b.length <= r[2])
  BY DEF SizedBy
<1>2. r[1] \in Nat /\ r[2] \in Nat
  OBVIOUS
<1>3. w.length >= r[1]
  BY <1>1, <1>2
<1>4. w.length = r[1] \/ (r[2] > 0 => w.length <= r[2])
  BY <1>1, <1>2
<1> QED
  BY <1>1, <1>3, <1>4 DEF SizedBy

LEMMA AddedIs ==
  ASSUME NEW S, NEW b \in Buffers(S), NEW s \in Seq(S), Len(s) < IntHalf,
         NEW w \in Added(b, s)
  PROVE  /\ w \in Buffers(S)
         /\ w.offset = b.offset + Len(s) /\ w.bytes = b.bytes \o s
         /\ w.capacity = b.capacity /\ w.length >= b.length
         /\ w.length = b.length \/ (b.capacity > 0 => w.length <= b.capacity)
<1>1. /\ b.pos \in Nat /\ b.offset \in Nat /\ b.length \in Nat \ {0} /\ b.capacity \in Nat
      /\ Len(b.bytes) = b.offset /\ b.pos + b.offset <= b.length
      /\ Len(s) \in Nat /\ IntHalf \in Nat
  BY BufferFields, LayoutAssumption
<1> DEFINE d == b.pos + b.offset + Len(s) - b.length
           need == AddNeed(b, Len(s))
<1>2. d \in Int /\ d < IntHalf /\ d = b.pos + b.offset + Len(s) - b.length
  BY <1>1
<1>3. need \in Int /\ (d > 0 => need = d)
  BY <1>2, NeedKept DEF AddNeed, BUFFER_USED
<1>4. PICK room \in MakeRoom(b, need) : w = Pushed(room, s)
  BY DEF Added
<1> HIDE DEF d, need
<1>5. b.pos + b.offset + Len(s) > b.length => need = b.pos + b.offset + Len(s) - b.length
  BY ONLY <1>1, <1>2, <1>3, SMTT(30)
<1>6. /\ room \in Layouts(S)
      /\ room.offset = b.offset /\ room.bytes = b.bytes /\ room.capacity = b.capacity
      /\ room.pos + room.offset + Len(s) <= room.length
      /\ room.length >= b.length
      /\ room.length = b.length \/ (b.capacity > 0 => room.length <= b.capacity)
  BY <1>1, <1>3, <1>4, <1>5, RoomIs
<1>7. room.pos + room.offset + Len(s) <= room.length /\ Len(room.bytes) = room.offset
  BY <1>1, <1>6
<1>8. /\ w \in Buffers(S)
      /\ w.offset = room.offset + Len(s) /\ w.bytes = room.bytes \o s
      /\ w.length = room.length /\ w.capacity = room.capacity
  <2> DEFINE q == Pushed(room, s)
  <2>1. /\ q \in Buffers(S)
        /\ q.offset = room.offset + Len(s) /\ q.bytes = room.bytes \o s
        /\ q.length = room.length /\ q.capacity = room.capacity
    BY <1>6, <1>7, PushedIs
  <2>2. w = q
    BY <1>4
  <2> HIDE DEF q
  <2> QED
    BY ONLY <2>1, <2>2
<1> QED
  BY ONLY <1>6, <1>8

LEMMA ReceivedIs ==
  ASSUME NEW S, NEW b \in Buffers(S), NEW n \in 1 .. MaxRead, NEW s \in Seq(S), Len(s) <= n,
         NEW w \in Received(b, n, s)
  PROVE  /\ w \in Buffers(S)
         /\ w.offset = b.offset + Len(s) /\ w.bytes = b.bytes \o s
         /\ w.capacity = b.capacity /\ w.length >= b.length
         /\ w.length = b.length \/ (b.capacity > 0 => w.length <= b.capacity)
<1>1. /\ b.pos \in Nat /\ b.offset \in Nat /\ b.length \in Nat \ {0} /\ b.capacity \in Nat
      /\ Len(b.bytes) = b.offset /\ b.pos + b.offset <= b.length
      /\ n \in Nat /\ n < IntHalf /\ IntHalf \in Nat
  BY BufferFields, LayoutAssumption
<1> DEFINE d == n - (b.length - (b.pos + b.offset))
           need == ReadNeed(b, n)
<1>2. d \in Int /\ d < IntHalf /\ d = b.pos + b.offset + n - b.length
  BY <1>1
<1>3. need \in Int /\ (d > 0 => need = d)
  BY <1>2, NeedKept DEF ReadNeed, BUFFER_AVAILABLE, BUFFER_USED
<1>4. PICK room \in MakeRoom(b, need) : w = Pushed(room, s)
  BY DEF Received
<1> HIDE DEF d, need
<1>5. b.pos + b.offset + n > b.length => need = b.pos + b.offset + n - b.length
  BY ONLY <1>1, <1>2, <1>3, SMTT(30)
<1>6. /\ room \in Layouts(S)
      /\ room.offset = b.offset /\ room.bytes = b.bytes /\ room.capacity = b.capacity
      /\ room.pos + room.offset + n <= room.length
      /\ room.length >= b.length
      /\ room.length = b.length \/ (b.capacity > 0 => room.length <= b.capacity)
  BY <1>1, <1>3, <1>4, <1>5, RoomIs
<1>7. room.pos + room.offset + Len(s) <= room.length /\ Len(room.bytes) = room.offset
  <2>1. room.pos \in Nat /\ room.offset \in Nat /\ room.length \in Nat /\ Len(s) \in Nat
    BY <1>6 DEF Layouts
  <2> QED
    BY ONLY <1>1, <1>6, <2>1, Len(s) <= n
<1>8. /\ w \in Buffers(S)
      /\ w.offset = room.offset + Len(s) /\ w.bytes = room.bytes \o s
      /\ w.length = room.length /\ w.capacity = room.capacity
  <2> DEFINE q == Pushed(room, s)
  <2>1. /\ q \in Buffers(S)
        /\ q.offset = room.offset + Len(s) /\ q.bytes = room.bytes \o s
        /\ q.length = room.length /\ q.capacity = room.capacity
    BY <1>6, <1>7, PushedIs
  <2>2. w = q
    BY <1>4
  <2> HIDE DEF q
  <2> QED
    BY ONLY <2>1, <2>2
<1> QED
  BY ONLY <1>6, <1>8

-------------------------------------------------------------------------------

(***************************************************************************)
(* Sizes of the buffers.  No allocation is beyond an int; a write buffer   *)
(* takes at least one command when it is empty; a read buffer takes all    *)
(* that nsqd may have sent and the client not yet taken.                   *)
(***************************************************************************)
WithinInt ==
  \A r \in ReadSizes \cup WriteSizes : r[2] > 0 => r[1] <= IntHalf /\ r[2] <= IntHalf

WriteRoom ==
  \A r \in WriteSizes : r[2] = 0 \/ CommandLength <= r[1] \/ 3 * CommandLength <= r[2]

ReadRoom ==
  \A r \in ReadSizes :
    \/ r[2] = 0 \/ Window <= r[1]
    \/ 2 * Window <= r[2] /\ Window + 2 * MaxRead <= r[2]

(***************************************************************************)
(* An empty write buffer takes a command.                                  *)
(***************************************************************************)
LEMMA EmptyTakesCommand ==
  ASSUME WithinInt, WriteRoom, NEW S, NEW b \in Buffers(S), SizedBy(b, WriteSizes),
         NEW s, Len(s) = CommandLength, Added(b, s) = {}
  PROVE  b.offset # 0
<1> SUFFICES ASSUME b.offset = 0 PROVE FALSE
  OBVIOUS
<1>1. /\ b.pos \in Nat /\ b.length \in Nat \ {0} /\ b.capacity \in Nat
      /\ b.pos <= b.length
      /\ CommandLength \in Nat \ {0} /\ CommandLength < IntHalf /\ IntHalf \in Nat
  BY BufferFields, LayoutAssumption, ConnectionAssumption
<1>2. PICK r \in WriteSizes :
        /\ b.capacity = r[2] /\ b.length >= r[1]
        /\ b.length = r[1] \/ (r[2] > 0 => b.length <= r[2])
  BY DEF SizedBy
<1>3. r[1] \in Nat /\ r[2] \in Nat
  BY ConnectionAssumption
<1> DEFINE d == b.pos + b.offset + CommandLength - b.length
           need == AddNeed(b, CommandLength)
<1>4. d \in Int /\ d < IntHalf /\ d = b.pos + CommandLength - b.length
  BY <1>1
<1>5. need \in Int /\ (d >= -IntHalf => need = d)
  BY <1>4, NeedKept DEF AddNeed, BUFFER_USED
<1>6. MakeRoom(b, need) = {}
  BY DEF Added
<1> HIDE DEF d, need
<1>7. /\ need > b.pos /\ b.capacity > 0
      /\ \E e \in Nat : (e = b.length \/ e < 2 * need) /\ b.length + e > b.capacity
  BY <1>1, <1>5, <1>6, RefusalIs
<1>8. b.length <= IntHalf
  <2>1. r[1] <= IntHalf /\ r[2] <= IntHalf
    BY <1>2, <1>7 DEF WithinInt
  <2> QED
    BY <1>1, <1>2, <1>3, <1>7, <2>1
<1>9. need = b.pos + CommandLength - b.length
  BY <1>1, <1>4, <1>5, <1>8
<1>10. CommandLength > b.length /\ need <= CommandLength
  BY <1>1, <1>7, <1>9
<1>11. PICK e \in Nat : (e = b.length \/ e < 2 * need) /\ b.length + e > b.capacity
  BY <1>7
<1>12. 3 * CommandLength > b.capacity
  BY <1>1, <1>5, <1>10, <1>11
<1>13. r[2] # 0 /\ ~(CommandLength <= r[1]) /\ ~(3 * CommandLength <= r[2])
  BY <1>1, <1>2, <1>3, <1>7, <1>10, <1>12
<1> QED
  BY <1>13 DEF WriteRoom

(***************************************************************************)
(* A read buffer with less than Window bytes takes what recv offers.       *)
(***************************************************************************)
LEMMA ReadNeverRefused ==
  ASSUME WithinInt, ReadRoom, NEW S, NEW b \in Buffers(S), SizedBy(b, ReadSizes),
         NEW n \in 1 .. MaxRead, b.offset + n <= Window, NEW s, Received(b, n, s) = {}
  PROVE  FALSE
<1>1. /\ b.pos \in Nat /\ b.offset \in Nat /\ b.length \in Nat \ {0} /\ b.capacity \in Nat
      /\ b.pos + b.offset <= b.length
      /\ n \in Nat \ {0} /\ n < IntHalf /\ IntHalf \in Nat /\ MaxRead \in Nat /\ n <= MaxRead
      /\ Window \in Nat
  BY BufferFields, LayoutAssumption, ConnectionAssumption
<1>2. PICK r \in ReadSizes :
        /\ b.capacity = r[2] /\ b.length >= r[1]
        /\ b.length = r[1] \/ (r[2] > 0 => b.length <= r[2])
  BY DEF SizedBy
<1>3. r[1] \in Nat /\ r[2] \in Nat
  BY ConnectionAssumption
<1> DEFINE d == n - (b.length - (b.pos + b.offset))
           need == ReadNeed(b, n)
<1>4. d \in Int /\ d < IntHalf /\ d = b.pos + b.offset + n - b.length
  BY <1>1
<1>5. need \in Int /\ (d >= -IntHalf => need = d)
  BY <1>4, NeedKept DEF ReadNeed, BUFFER_AVAILABLE, BUFFER_USED
<1>6. MakeRoom(b, need) = {}
  BY DEF Received
<1> HIDE DEF d, need
<1>7. /\ need > b.pos /\ b.capacity > 0
      /\ \E e \in Nat : (e = b.length \/ e < 2 * need) /\ b.length + e > b.capacity
  BY <1>1, <1>5, <1>6, RefusalIs
<1>8. b.length <= IntHalf
  <2>1. r[1] <= IntHalf /\ r[2] <= IntHalf
    BY <1>2, <1>7 DEF WithinInt
  <2> QED
    BY <1>1, <1>2, <1>3, <1>7, <2>1
<1>9. need = b.pos + b.offset + n - b.length
  BY <1>1, <1>4, <1>5, <1>8
<1>10. b.offset + n > b.length /\ need <= n /\ b.length < Window
  BY <1>1, <1>7, <1>9
<1>11. PICK e \in Nat : (e = b.length \/ e < 2 * need) /\ b.length + e > b.capacity
  BY <1>7
<1>12. ~(2 * Window <= b.capacity /\ Window + 2 * MaxRead <= b.capacity)
  BY <1>1, <1>5, <1>10, <1>11
<1>13. r[2] # 0 /\ ~(Window <= r[1])
  BY <1>1, <1>2, <1>3, <1>7, <1>10
<1> QED
  BY <1>2, <1>12, <1>13 DEF ReadRoom

-------------------------------------------------------------------------------

(***************************************************************************)
(* Sockets as values, and what the functions of buffered_socket.c do to    *)
(* one.                                                                    *)
(***************************************************************************)
Command   == {V2, SUB, RDY, NOP} \cup {FIN(i) : i \in Nat}
ReadByte  == Nat \X Nat
WriteByte == Command \X Nat
Callback  == {NULL, "nsqd_connection_read_size", "nsqd_connection_read_data"}

Sockets ==
  [state : {"INIT", "CONNECTING", "CONNECTED", "DISCONNECTED"},
   fd : BOOLEAN, once : BOOLEAN, read_ev : BOOLEAN, write_ev : BOOLEAN, timer : BOOLEAN,
   callback : Callback, n : Nat,
   read_buf : Buffers(ReadByte), write_buf : Buffers(WriteByte)]

\* The descriptor and the watchers go with the state.
Tended(b) ==
  /\ b.fd <=> b.state \in {"CONNECTING", "CONNECTED"}
  /\ b.once => b.state \in {"CONNECTING", "DISCONNECTED"}
  /\ b.read_ev => b.state = "CONNECTED"
  /\ b.write_ev => b.state = "CONNECTED"
  /\ b.state \in {"INIT", "CONNECTING"} => ~b.timer /\ b.write_buf.offset = 0

\* The timer has somebody to call and the bytes to call for.
TimerDue(b) == b.timer => b.callback # NULL /\ b.read_buf.offset >= b.n

\* Somebody is called when the bytes are there.
Waiting(b) ==
  b.state = "CONNECTED" => b.callback # NULL /\ (b.read_buf.offset >= b.n => b.timer)

Awake(b) == b.state = "CONNECTED" => (b.write_ev <=> b.write_buf.offset > 0)

Sized(b) == SizedBy(b.read_buf, ReadSizes) /\ SizedBy(b.write_buf, WriteSizes)

\* Nothing but the bytes waiting to be sent, and their watcher, differs.
SameButWriting(b, w) ==
  /\ w.state = b.state /\ w.fd = b.fd /\ w.once = b.once
  /\ w.read_ev = b.read_ev /\ w.timer = b.timer
  /\ w.callback = b.callback /\ w.n = b.n /\ w.read_buf = b.read_buf

\* Nothing but what is read, and who waits for it, differs.
SameButReading(b, w) ==
  /\ w.state = b.state /\ w.fd = b.fd /\ w.once = b.once
  /\ w.read_ev = b.read_ev /\ w.write_ev = b.write_ev /\ w.write_buf = b.write_buf

LEMMA WriteIs ==
  ASSUME NEW b \in Sockets, Tended(b), Sized(b),
         NEW s \in Seq(WriteByte), Len(s) = CommandLength,
         NEW w, w = buffered_socket_write(b, s)
  PROVE  /\ w \in Sockets /\ Tended(w) /\ Sized(w) /\ SameButWriting(b, w)
         /\ \/ w.write_buf = b.write_buf
            \/ w.write_buf.bytes = b.write_buf.bytes \o s
         /\ WithinInt /\ WriteRoom /\ Awake(b) => Awake(w)
<1>1. CASE b.state # "CONNECTED"
  <2>1. w = b
    BY <1>1 DEF buffered_socket_write
  <2> QED
    BY <2>1 DEF SameButWriting
<1>2. CASE b.state = "CONNECTED"
  <2> DEFINE buf == AddedOrNot(b.write_buf, s)
  <2>1. w = [b EXCEPT !.write_buf = buf, !.write_ev = TRUE]
    BY <1>2 DEF buffered_socket_write
  <2>2. b.write_buf \in Buffers(WriteByte) /\ b.write_buf.offset \in Nat /\ b.write_buf.length \in Nat
    <3>1. b.write_buf \in Buffers(WriteByte)
      BY DEF Sockets
    <3> QED
      BY <3>1, BufferFields
  <2>3. /\ buf \in Buffers(WriteByte) /\ SizedBy(buf, WriteSizes)
        /\ \/ buf = b.write_buf /\ Added(b.write_buf, s) = {}
           \/ /\ buf.bytes = b.write_buf.bytes \o s
              /\ buf.offset = b.write_buf.offset + CommandLength
    <3>1. CASE Added(b.write_buf, s) = {}
      BY <2>2, <3>1 DEF AddedOrNot, Sized
    <3>2. CASE Added(b.write_buf, s) # {}
      <4>1. buf \in Added(b.write_buf, s)
        BY <3>2 DEF AddedOrNot
      <4>2. Len(s) < IntHalf
        BY ConnectionAssumption, LayoutAssumption
      <4> HIDE DEF buf
      <4>3. /\ buf \in Buffers(WriteByte)
            /\ buf.offset = b.write_buf.offset + Len(s) /\ buf.bytes = b.write_buf.bytes \o s
            /\ buf.capacity = b.write_buf.capacity /\ buf.length >= b.write_buf.length
            /\ buf.length = b.write_buf.length \/
                 (b.write_buf.capacity > 0 => buf.length <= b.write_buf.capacity)
        BY <2>2, <4>1, <4>2, AddedIs
      <4>4. buf.length \in Nat
        BY <4>3, BufferFields
      <4>5. SizedBy(b.write_buf, WriteSizes) /\ WriteSizes \in SUBSET ((Nat \ {0}) \X Nat)
        BY ConnectionAssumption DEF Sized
      <4>6. SizedBy(buf, WriteSizes)
        BY <2>2, <4>3, <4>4, <4>5, SizedByKept
      <4> QED
        BY <4>3, <4>6
    <3> QED
      BY <3>1, <3>2
  <2> HIDE DEF buf
  <2>4. /\ w \in Sockets /\ w.write_buf = buf /\ w.write_ev = TRUE
        /\ w.state = b.state /\ w.fd = b.fd /\ w.once = b.once
        /\ w.read_ev = b.read_ev /\ w.timer = b.timer
        /\ w.callback = b.callback /\ w.n = b.n /\ w.read_buf = b.read_buf
    BY ONLY <2>1, <2>3, b \in Sockets DEF Sockets
  <2>5. Tended(w)
    BY ONLY <1>2, <2>4, Tended(b) DEF Tended
  <2>6. Sized(w)
    BY ONLY <2>3, <2>4, Sized(b) DEF Sized
  <2>7. ASSUME WithinInt, WriteRoom, Awake(b) PROVE Awake(w)
    <3>1. buf.offset > 0
      <4>1. CASE buf = b.write_buf /\ Added(b.write_buf, s) = {}
        <5>1. SizedBy(b.write_buf, WriteSizes)
          BY DEF Sized
        <5>2. b.write_buf.offset # 0
          BY <2>2, <2>7, <4>1, <5>1, EmptyTakesCommand
        <5> QED
          BY <2>2, <4>1, <5>2
      <4>2. CASE buf.offset = b.write_buf.offset + CommandLength
        BY <2>2, <4>2, ConnectionAssumption, LayoutAssumption
      <4> QED
        BY <2>3, <4>1, <4>2
    <3> QED
      BY ONLY <2>4, <3>1 DEF Awake
  <2> QED
    BY <2>3, <2>4, <2>5, <2>6, <2>7 DEF SameButWriting
<1> QED
  BY <1>1, <1>2

LEMMA CloseIs ==
  ASSUME NEW b \in Sockets, Tended(b), Sized(b), NEW w, w = buffered_socket_close(b)
  PROVE  /\ w \in Sockets /\ Tended(w) /\ Sized(w)
         /\ w.state = "DISCONNECTED" /\ w.once = b.once
         /\ w.callback = b.callback /\ w.n = b.n
         /\ w.read_buf = b.read_buf /\ w.write_buf = b.write_buf
         /\ w.timer => b.timer
         /\ b.state # "DISCONNECTED" => ~w.timer
<1>1. CASE b.state = "DISCONNECTED"
  <2>1. w = b
    BY <1>1 DEF buffered_socket_close
  <2> QED
    BY <1>1, <2>1
<1>2. CASE b.state # "DISCONNECTED"
  <2> DEFINE r == b.state = "CONNECTING" /\ b.read_ev
             v == b.state = "CONNECTING" /\ b.write_ev
  <2>1. w = [b EXCEPT !.fd = FALSE, !.read_ev = r, !.write_ev = v,
                      !.state = "DISCONNECTED", !.timer = FALSE]
    BY <1>2 DEF buffered_socket_close
  <2>2. r = FALSE /\ v = FALSE
    BY DEF Tended
  <2> HIDE DEF r, v
  <2>3. w = [b EXCEPT !.fd = FALSE, !.read_ev = FALSE, !.write_ev = FALSE,
                      !.state = "DISCONNECTED", !.timer = FALSE]
    BY <2>1, <2>2
  <2>4. /\ w \in Sockets /\ w.state = "DISCONNECTED" /\ w.once = b.once
        /\ w.fd = FALSE /\ w.read_ev = FALSE /\ w.write_ev = FALSE /\ w.timer = FALSE
        /\ w.callback = b.callback /\ w.n = b.n
        /\ w.read_buf = b.read_buf /\ w.write_buf = b.write_buf
    BY ONLY <2>3, b \in Sockets DEF Sockets
  <2>5. Tended(w)
    BY ONLY <2>4 DEF Tended
  <2>6. Sized(w)
    BY ONLY <2>4, Sized(b) DEF Sized
  <2> QED
    BY <2>4, <2>5, <2>6
<1> QED
  BY <1>1, <1>2

(***************************************************************************)
(* A callback takes its turn: the timer has stopped, and the first k bytes *)
(* leave the read buffer.                                                  *)
(***************************************************************************)
LEMMA DrainReadIs ==
  ASSUME NEW b \in Sockets, Tended(b), Sized(b), NEW k \in Nat,
         NEW w, w = [b EXCEPT !.read_buf = Drained(@, k)]
  PROVE  /\ w \in Sockets /\ Tended(w) /\ Sized(w) /\ SameButReading(b, w)
         /\ w.timer = b.timer /\ w.callback = b.callback /\ w.n = b.n
         /\ w.read_buf = Drained(b.read_buf, k)
         /\ w.read_buf.offset <= b.read_buf.offset
<1> DEFINE buf == Drained(b.read_buf, k)
<1>1. b.read_buf \in Buffers(ReadByte)
  BY DEF Sockets
<1>2. /\ buf \in Buffers(ReadByte)
      /\ buf.length = b.read_buf.length /\ buf.capacity = b.read_buf.capacity
      /\ k >= b.read_buf.offset => buf.offset = 0
      /\ k < b.read_buf.offset => buf.offset = b.read_buf.offset - k
  BY <1>1, DrainedIs
<1>3. b.read_buf.offset \in Nat /\ buf.offset <= b.read_buf.offset
  <2>1. b.read_buf.offset \in Nat
    BY <1>1, BufferFields
  <2> QED
    BY ONLY <1>2, <2>1, k \in Nat
<1>4. w = [b EXCEPT !.read_buf = buf]
  OBVIOUS
<1>5. SizedBy(buf, ReadSizes)
  BY <1>2 DEF Sized, SizedBy
<1> HIDE DEF buf
<1>6. /\ w \in Sockets /\ w.read_buf = buf /\ w.write_buf = b.write_buf
      /\ w.state = b.state /\ w.fd = b.fd /\ w.once = b.once
      /\ w.read_ev = b.read_ev /\ w.write_ev = b.write_ev
      /\ w.timer = b.timer /\ w.callback = b.callback /\ w.n = b.n
  BY ONLY <1>2, <1>4, b \in Sockets DEF Sockets
<1>7. Tended(w)
  BY ONLY <1>6, Tended(b) DEF Tended
<1>8. Sized(w)
  BY ONLY <1>5, <1>6, Sized(b) DEF Sized
<1> QED
  BY ONLY <1>3, <1>6, <1>7, <1>8 DEF SameButReading, buf

LEMMA TakenIs ==
  ASSUME NEW b \in Sockets, Tended(b), Sized(b), NEW w, w = read_bytes_taken(b)
  PROVE  /\ w \in Sockets /\ Tended(w) /\ Sized(w) /\ SameButReading(b, w)
         /\ w.timer = FALSE /\ w.read_buf = b.read_buf
<1>1. w = [b EXCEPT !.callback = NULL, !.n = 0, !.timer = FALSE]
  BY DEF read_bytes_taken
<1>2. /\ w \in Sockets /\ w.read_buf = b.read_buf /\ w.write_buf = b.write_buf
      /\ w.state = b.state /\ w.fd = b.fd /\ w.once = b.once
      /\ w.read_ev = b.read_ev /\ w.write_ev = b.write_ev /\ w.timer = FALSE
  BY ONLY <1>1, b \in Sockets DEF Sockets, Callback
<1>3. Tended(w)
  BY ONLY <1>2, Tended(b) DEF Tended
<1>4. Sized(w)
  BY ONLY <1>2, Sized(b) DEF Sized
<1> QED
  BY ONLY <1>2, <1>3, <1>4 DEF SameButReading

(***************************************************************************)
(* buffered_socket_read_bytes with the timer stopped: it starts exactly if *)
(* the bytes are there already.                                            *)
(***************************************************************************)
LEMMA ReadBytesIs ==
  ASSUME NEW b \in Sockets, Tended(b), Sized(b), ~b.timer,
         b.state \notin {"INIT", "CONNECTING"},
         NEW k \in Nat, NEW cb \in Callback, cb # NULL,
         NEW w, w = buffered_socket_read_bytes(b, k, cb)
  PROVE  /\ w \in Sockets /\ Tended(w) /\ Sized(w) /\ SameButReading(b, w)
         /\ w.callback = cb /\ w.n = k /\ w.read_buf = b.read_buf
         /\ TimerDue(w) /\ Waiting(w)
<1> DEFINE t == b.timer \/ b.read_buf.offset >= k
<1>1. w = [b EXCEPT !.callback = cb, !.n = k, !.timer = t]
  BY DEF buffered_socket_read_bytes, BUFFER_HAS_DATA
<1>2. t \in BOOLEAN /\ (t <=> b.read_buf.offset >= k)
  OBVIOUS
<1> HIDE DEF t
<1>3. /\ w \in Sockets /\ w.read_buf = b.read_buf /\ w.write_buf = b.write_buf
      /\ w.state = b.state /\ w.fd = b.fd /\ w.once = b.once
      /\ w.read_ev = b.read_ev /\ w.write_ev = b.write_ev
      /\ w.timer = t /\ w.callback = cb /\ w.n = k
  BY ONLY <1>1, <1>2, b \in Sockets, k \in Nat, cb \in Callback DEF Sockets
<1>4. Tended(w)
  BY ONLY <1>3, Tended(b), b.state \notin {"INIT", "CONNECTING"} DEF Tended
<1>5. Sized(w)
  BY ONLY <1>3, Sized(b) DEF Sized
<1>6. TimerDue(w) /\ Waiting(w)
  BY ONLY <1>2, <1>3, cb # NULL DEF TimerDue, Waiting
<1> QED
  BY ONLY <1>3, <1>4, <1>5, <1>6 DEF SameButReading

-------------------------------------------------------------------------------

(***************************************************************************)
(* Commands among the bytes sent.                                          *)
(***************************************************************************)
LEMMA EncodedIs ==
  ASSUME NEW c \in Command
  PROVE  /\ Encoded(c) \in Seq(WriteByte) /\ Len(Encoded(c)) = CommandLength
         /\ Encoded(c)[1][1] = c
<1>1. CommandLength \in Nat \ {0}
  BY ConnectionAssumption, LayoutAssumption
<1>2. \A k \in 1 .. CommandLength : <<c, k>> \in WriteByte
  BY <1>1 DEF WriteByte
<1>3. Encoded(c) \in Seq(WriteByte) /\ Len(Encoded(c)) = CommandLength
  BY <1>1, <1>2 DEF Encoded
<1>4. Encoded(c)[1] = <<c, 1>>
  BY <1>1 DEF Encoded
<1> QED
  BY <1>3, <1>4

\* A stretch of bytes made of whole commands, as NoTornCommand says.
Whole(s) ==
  /\ Len(s) % CommandLength = 0
  /\ \A p \in 1 .. (Len(s) \div CommandLength) :
       LET first == (p - 1) * CommandLength + 1
       IN  SubSeq(s, first, first + CommandLength - 1) = Encoded(s[first][1])

LEMMA WholeAppended ==
  ASSUME NEW s \in Seq(WriteByte), Whole(s), NEW c \in Command
  PROVE  Whole(s \o Encoded(c))
<1> DEFINE N == CommandLength
           e == Encoded(c)
           u == s \o e
           q == Len(s) \div N
<1>1. /\ N \in Nat \ {0}
      /\ e \in Seq(WriteByte) /\ Len(e) = N /\ e[1][1] = c
  BY EncodedIs, ConnectionAssumption, LayoutAssumption
<1>2. Len(s) \in Nat /\ Len(s) % N = 0
  BY DEF Whole
<1>3. q \in Nat /\ Len(s) = N * q
  <2>1. PICK d \in Nat : N * d = Len(s)
    BY <1>1, <1>2, Divisor
  <2>2. Len(s) \div N = d
    BY <1>1, <2>1, Multiple
  <2> QED
    BY <2>1, <2>2
<1>4. \A p \in 1 .. q :
        SubSeq(s, (p - 1) * N + 1, (p - 1) * N + 1 + N - 1) = Encoded(s[(p - 1) * N + 1][1])
  BY DEF Whole
<1> HIDE DEF N, e, q
<1>5. /\ Len(u) = N * q + N
      /\ \A i \in 1 .. Len(s) : u[i] = s[i]
      /\ \A i \in 1 .. N : u[Len(s) + i] = e[i]
  <2>1. /\ Len(u) = Len(s) + Len(e)
        /\ \A i \in 1 .. Len(s) + Len(e) : u[i] = IF i <= Len(s) THEN s[i] ELSE e[i - Len(s)]
    BY <1>1, ConcatProperties
  <2>2. ASSUME NEW i \in 1 .. Len(s) PROVE u[i] = s[i]
    <3>1. i \in 1 .. Len(s) + Len(e) /\ i <= Len(s)
      BY <1>1, <1>2
    <3> QED
      BY <2>1, <3>1
  <2>3. ASSUME NEW i \in 1 .. N PROVE u[Len(s) + i] = e[i]
    <3>1. Len(s) + i \in 1 .. Len(s) + Len(e) /\ ~(Len(s) + i <= Len(s)) /\ (Len(s) + i) - Len(s) = i
      BY <1>1, <1>2
    <3> QED
      BY <2>1, <3>1
  <2> QED
    BY <1>1, <1>3, <2>1, <2>2, <2>3
<1>6. Len(u) % N = 0 /\ Len(u) \div N = q + 1
  <2>1. Len(u) = N * (q + 1) /\ q + 1 \in Nat
    BY <1>1, <1>3, <1>5
  <2> DEFINE z == q + 1
  <2>2. N \in Nat \ {0} /\ z \in Nat
    BY <1>1, <2>1
  <2> HIDE DEF z
  <2>3. (N * z) % N = 0 /\ (N * z) \div N = z
    BY ONLY <2>2, Multiple
  <2> QED
    BY ONLY <2>1, <2>3 DEF z
<1>7. ASSUME NEW p \in 1 .. (q + 1)
      PROVE  SubSeq(u, (p - 1) * N + 1, (p - 1) * N + 1 + N - 1) = Encoded(u[(p - 1) * N + 1][1])
  <2> DEFINE first == (p - 1) * N + 1
             last == (p - 1) * N + 1 + N - 1
  <2>1. p - 1 \in Nat /\ (p - 1) * N \in Nat
    BY <1>1, <1>3
  <2>2. CASE p <= q
    <3>1. p * N <= Len(s) /\ last = p * N
      <4>1. /\ N * q = N * p + N * (q - p) /\ N * (q - p) \in Nat
            /\ (p - 1) * N = p * N - N /\ p * N = N * p /\ N * p \in Nat
        BY <1>1, <1>3, <2>2
      <4> QED
        BY <1>1, <1>3, <2>1, <4>1
    <3>2. first \in 1 .. Len(s) /\ last \in 1 .. Len(s)
      BY <1>1, <1>2, <2>1, <3>1
    <3> HIDE DEF first, last, u
    <3>3. u[first] = s[first]
      BY <1>5, <3>2
    <3>4. SubSeq(u, first, last) = SubSeq(s, first, last)
      BY <1>1, <3>2, SubSeqOfConcat1 DEF u
    <3>5. SubSeq(s, first, last) = Encoded(s[first][1])
      <4>1. p \in 1 .. q
        BY <1>3, <2>2
      <4> QED
        BY <1>4, <4>1 DEF first, last
    <3>6. SubSeq(u, first, last) = Encoded(u[first][1])
      BY <3>3, <3>4, <3>5
    <3> QED
      BY <3>6 DEF first, last
  <2>3. CASE ~(p <= q)
    <3>1. p = q + 1
      BY <1>3, <2>3
    <3>2. (p - 1) * N = Len(s)
      BY <1>1, <1>3, <3>1
    <3>3. first = Len(s) + 1 /\ last = Len(s) + N
      BY <1>1, <1>2, <3>2
    <3> HIDE DEF first, last, u
    <3>4. u[first][1] = c
      <4>1. 1 \in 1 .. N
        BY <1>1
      <4> QED
        BY <1>1, <1>5, <3>3, <4>1
    <3>5. SubSeq(u, first, last) = SubSeq(e, 1, N)
      <4>1. /\ first \in Len(s) + 1 .. Len(s) + Len(e)
            /\ last \in Len(s) + 1 .. Len(s) + Len(e)
            /\ first - Len(s) = 1 /\ last - Len(s) = N
        BY <1>1, <1>2, <3>3
      <4>2. SubSeq(s \o e, first, last) = SubSeq(e, first - Len(s), last - Len(s))
        BY <1>1, <4>1, SubSeqOfConcat2
      <4> QED
        BY <4>1, <4>2 DEF u
    <3>6. SubSeq(e, 1, N) = e
      BY <1>1, SubSeqFull
    <3>7. SubSeq(u, first, last) = Encoded(u[first][1])
      BY <3>4, <3>5, <3>6 DEF e
    <3> QED
      BY <3>7 DEF first, last
  <2> QED
    BY <2>2, <2>3
<1> QED
  BY <1>6, <1>7 DEF Whole, N, e

-------------------------------------------------------------------------------

(***************************************************************************)
(* The inductive invariant.  NoLostWakeup and WriterAwake need each other  *)
(* and more: that the watchers stop with the connection, that the timer    *)
(* rests and nothing waits to be sent before it is established, and what   *)
(* the buffers can have grown to, without which a refused write to an      *)
(* empty buffer would leave the write watcher running with nothing to do.  *)
(***************************************************************************)
SocketInv(b) ==
  /\ b \in Sockets
  /\ Tended(b) /\ Sized(b) /\ TimerDue(b) /\ Waiting(b)
  /\ ~DisconnectInHandler => (b.timer => b.state = "CONNECTED")
  /\ WithinInt /\ WriteRoom => Awake(b)

DataInv ==
  /\ current_msg_size \in Nat
  /\ received \in Seq(ReadByte) /\ written \in Seq(WriteByte)
  /\ peer_gone \in BOOLEAN
  /\ stream \in Seq(Kind) /\ got \in Seq(Nat)
  /\ Len(received) + bs.read_buf.offset <= Window

\* HealthyStaysOpen, where the buffers have room.
OpenInv == WithinInt /\ WriteRoom /\ ReadRoom => HealthyStaysOpen

IInv == SocketInv(bs) /\ DataInv /\ NoTornCommand /\ OpenInv

LEMMA NoTornIsWhole == NoTornCommand <=> Whole(written \o bs.write_buf.bytes)
BY DEF NoTornCommand, Whole

(***************************************************************************)
(* What is written to a socket, and how its buffer takes it.               *)
(***************************************************************************)
LEMMA SocketFields ==
  ASSUME NEW b \in Sockets
  PROVE  /\ b.read_buf \in Buffers(ReadByte) /\ b.write_buf \in Buffers(WriteByte)
         /\ b.read_buf.offset \in Nat /\ b.write_buf.offset \in Nat
         /\ b.read_buf.bytes \in Seq(ReadByte) /\ b.write_buf.bytes \in Seq(WriteByte)
         /\ Len(b.read_buf.bytes) = b.read_buf.offset
         /\ Len(b.write_buf.bytes) = b.write_buf.offset
         /\ b.n \in Nat
<1>1. b.read_buf \in Buffers(ReadByte) /\ b.write_buf \in Buffers(WriteByte) /\ b.n \in Nat
  BY DEF Sockets
<1> QED
  BY <1>1, BufferFields

\* From b to w commands may have been queued, and nothing else has happened.
Queued(b, w) ==
  /\ w \in Sockets /\ Tended(w) /\ Sized(w) /\ SameButWriting(b, w)
  /\ WithinInt /\ WriteRoom /\ Awake(b) => Awake(w)
  /\ Whole(written \o b.write_buf.bytes) => Whole(written \o w.write_buf.bytes)

LEMMA WriteQueues ==
  ASSUME NEW b \in Sockets, Tended(b), Sized(b), written \in Seq(WriteByte), NEW c \in Command
  PROVE  Queued(b, buffered_socket_write(b, Encoded(c)))
<1> DEFINE w == buffered_socket_write(b, Encoded(c))
<1>1. Encoded(c) \in Seq(WriteByte) /\ Len(Encoded(c)) = CommandLength
  BY EncodedIs
<1>2. /\ w \in Sockets /\ Tended(w) /\ Sized(w) /\ SameButWriting(b, w)
      /\ \/ w.write_buf = b.write_buf
         \/ w.write_buf.bytes = b.write_buf.bytes \o Encoded(c)
      /\ WithinInt /\ WriteRoom /\ Awake(b) => Awake(w)
  BY <1>1, WriteIs
<1> HIDE DEF w
<1>3. ASSUME Whole(written \o b.write_buf.bytes) PROVE Whole(written \o w.write_buf.bytes)
  <2>1. CASE w.write_buf = b.write_buf
    BY <1>3, <2>1
  <2>2. CASE w.write_buf.bytes = b.write_buf.bytes \o Encoded(c)
    <3>1. b.write_buf.bytes \in Seq(WriteByte)
      BY SocketFields
    <3>2. written \o w.write_buf.bytes = (written \o b.write_buf.bytes) \o Encoded(c)
      <4> DEFINE t == b.write_buf.bytes
                 e == Encoded(c)
      <4>1. written \in Seq(WriteByte) /\ t \in Seq(WriteByte) /\ e \in Seq(WriteByte)
        BY <1>1, <3>1
      <4>2. w.write_buf.bytes = t \o e
        BY <2>2
      <4> HIDE DEF t, e
      <4>3. (written \o t) \o e = written \o (t \o e)
        BY ONLY <4>1, ConcatAssociative
      <4>4. written \o w.write_buf.bytes = (written \o t) \o e
        BY ONLY <4>2, <4>3
      <4> QED
        BY <4>4 DEF t, e
    <3>3. written \o b.write_buf.bytes \in Seq(WriteByte)
      BY <3>1, ConcatProperties
    <3> QED
      BY <1>3, <3>2, <3>3, WholeAppended
  <2> QED
    BY <1>2, <2>1, <2>2
<1> QED
  BY <1>2, <1>3 DEF Queued, w

LEMMA QueuedTransitive ==
  ASSUME NEW b, NEW v, NEW w, Queued(b, v), Queued(v, w)
  PROVE  Queued(b, w)
BY DEF Queued, SameButWriting

LEMMA QueuedNothing ==
  ASSUME NEW b \in Sockets, Tended(b), Sized(b)
  PROVE  Queued(b, b)
BY DEF Queued, SameButWriting

LEMMA CommandsAre ==
  /\ {V2, SUB, RDY, NOP} \subseteq Command
  /\ \A i \in Nat : FIN(i) \in Command
BY DEF Command

(***************************************************************************)
(* The callbacks, one lemma each: what becomes of the socket.              *)
(***************************************************************************)
LEMMA InitIInv == Init => IInv
<1> SUFFICES ASSUME Init PROVE IInv
  OBVIOUS
<1>1. PICK r \in ReadSizes, w \in WriteSizes :
        bs = new_buffered_socket(r[1], r[2], w[1], w[2])
  BY DEF Init
<1>2. r[1] \in Nat \ {0} /\ r[2] \in Nat /\ w[1] \in Nat \ {0} /\ w[2] \in Nat
  BY ConnectionAssumption
<1> DEFINE rb == [pos |-> 0, offset |-> 0, length |-> r[1], capacity |-> r[2], bytes |-> << >>]
           wb == [pos |-> 0, offset |-> 0, length |-> w[1], capacity |-> w[2], bytes |-> << >>]
<1>3. rb \in Buffers(ReadByte) /\ wb \in Buffers(WriteByte)
  BY <1>2 DEF Buffers, Layouts
<1>4. SizedBy(rb, ReadSizes) /\ SizedBy(wb, WriteSizes)
  BY <1>2 DEF SizedBy
<1>5. bs = [state |-> "INIT", fd |-> FALSE, once |-> FALSE,
            read_ev |-> FALSE, write_ev |-> FALSE, timer |-> FALSE,
            callback |-> NULL, n |-> 0, read_buf |-> rb, write_buf |-> wb]
  BY <1>1 DEF new_buffered_socket, new_buffer
<1>6. rb.offset = 0 /\ wb.offset = 0 /\ wb.bytes = << >>
  OBVIOUS
<1> HIDE DEF rb, wb
<1>7. bs \in Sockets
  BY ONLY <1>3, <1>5 DEF Sockets, Callback
<1>8. Tended(bs) /\ Sized(bs) /\ TimerDue(bs) /\ Waiting(bs) /\ Awake(bs) /\ ~bs.timer
  BY ONLY <1>4, <1>5, <1>6 DEF Tended, Sized, TimerDue, Waiting, Awake
<1>9. SocketInv(bs)
  BY <1>7, <1>8 DEF SocketInv
<1>10. DataInv
  <2>1. bs.read_buf.offset = 0
    BY ONLY <1>5, <1>6
  <2>2. /\ current_msg_size = 0 /\ received = << >> /\ written = << >>
        /\ peer_gone = FALSE /\ stream = << >> /\ got = << >>
    BY DEF Init
  <2>3. Window \in Nat /\ Len(received) = 0
    BY <2>2, ConnectionAssumption
  <2>4. /\ received \in Seq(ReadByte) /\ written \in Seq(WriteByte)
        /\ stream \in Seq(Kind) /\ got \in Seq(Nat)
    BY ONLY <2>2
  <2>5. Len(received) + bs.read_buf.offset <= Window
    BY ONLY <2>1, <2>3
  <2> QED
    BY ONLY <2>2, <2>4, <2>5 DEF DataInv
<1>11. NoTornCommand
  <2>1. bs.write_buf.bytes = << >>
    BY ONLY <1>5, <1>6
  <2>2. written \o << >> = << >>
    BY DEF Init
  <2>3. CommandLength \in Nat \ {0}
    BY ConnectionAssumption, LayoutAssumption
  <2>4. 0 % CommandLength = 0 /\ 0 \div CommandLength = 0
    BY <2>3, Multiple
  <2>5. Whole(<< >>)
    BY <2>4 DEF Whole
  <2> QED
    BY <2>1, <2>2, <2>5, NoTornIsWhole
<1>12. OpenInv
  BY DEF Init, OpenInv, HealthyStaysOpen
<1> QED
  BY <1>9, <1>10, <1>11, <1>12 DEF IInv

\* nsqd_connection_connect
LEMMA ConnectSocket ==
  ASSUME SocketInv(bs), nsqd_connection_connect
  PROVE  /\ SocketInv(bs')
         /\ bs'.read_buf = bs.read_buf /\ bs'.write_buf = bs.write_buf
<1>1. bs \in Sockets /\ bs.state = "INIT"
  BY DEF SocketInv, nsqd_connection_connect
<1>2. bs' = [bs EXCEPT !.fd = TRUE, !.once = TRUE, !.state = "CONNECTING"]
  BY DEF nsqd_connection_connect, connect_started
<1>3. /\ bs' \in Sockets /\ bs'.state = "CONNECTING" /\ bs'.fd = TRUE /\ bs'.once = TRUE
      /\ bs'.read_ev = bs.read_ev /\ bs'.write_ev = bs.write_ev /\ bs'.timer = bs.timer
      /\ bs'.read_buf = bs.read_buf /\ bs'.write_buf = bs.write_buf
  BY ONLY <1>1, <1>2 DEF Sockets
<1>4. Tended(bs) /\ Sized(bs)
  BY DEF SocketInv
<1>5. Tended(bs') /\ ~bs'.timer
  BY ONLY <1>1, <1>3, <1>4 DEF Tended
<1>6. Sized(bs')
  BY ONLY <1>3, <1>4 DEF Sized
<1>7. TimerDue(bs') /\ Waiting(bs') /\ Awake(bs')
  BY ONLY <1>3, <1>5 DEF TimerDue, Waiting, Awake
<1> QED
  BY ONLY <1>3, <1>5, <1>6, <1>7 DEF SocketInv

\* buffered_socket_close of a socket b that is bs but for the watchers that
\* were just dealt with.
LEMMA CloseSocketInv ==
  ASSUME SocketInv(bs), NEW b \in Sockets, Tended(b), b.state = bs.state, b.timer = bs.timer,
         b.callback = bs.callback, b.n = bs.n,
         b.read_buf = bs.read_buf, b.write_buf = bs.write_buf,
         bs' = buffered_socket_close(b)
  PROVE  /\ SocketInv(bs') /\ bs'.state = "DISCONNECTED"
         /\ bs'.read_buf = bs.read_buf /\ bs'.write_buf = bs.write_buf
<1>1. Sized(b)
  BY DEF SocketInv, Sized
<1>2. /\ bs' \in Sockets /\ Tended(bs') /\ Sized(bs')
      /\ bs'.state = "DISCONNECTED"
      /\ bs'.callback = b.callback /\ bs'.n = b.n
      /\ bs'.read_buf = b.read_buf /\ bs'.write_buf = b.write_buf
      /\ bs'.timer => b.timer
      /\ b.state # "DISCONNECTED" => ~bs'.timer
  <2> DEFINE w == buffered_socket_close(b)
  <2>1. /\ w \in Sockets /\ Tended(w) /\ Sized(w)
        /\ w.state = "DISCONNECTED"
        /\ w.callback = b.callback /\ w.n = b.n
        /\ w.read_buf = b.read_buf /\ w.write_buf = b.write_buf
        /\ w.timer => b.timer
        /\ b.state # "DISCONNECTED" => ~w.timer
    BY <1>1, CloseIs
  <2>2. bs' = w
    OBVIOUS
  <2> HIDE DEF w
  <2> QED
    BY ONLY <2>1, <2>2
<1>3. TimerDue(bs) /\ (~DisconnectInHandler => (bs.timer => bs.state = "CONNECTED"))
  BY DEF SocketInv
<1>4. TimerDue(bs')
  BY <1>2, <1>3 DEF TimerDue
<1>5. ~DisconnectInHandler => (bs'.timer => bs'.state = "CONNECTED")
  BY <1>2, <1>3
<1>6. Waiting(bs') /\ Awake(bs')
  BY ONLY <1>2 DEF Waiting, Awake
<1> QED
  BY <1>2, <1>4, <1>5, <1>6 DEF SocketInv

\* The end of every callback that waits for more bytes.
LEMMA ReadBytesInv ==
  ASSUME NEW b \in Sockets, Tended(b), Sized(b), ~b.timer,
         b.state \notin {"INIT", "CONNECTING"},
         ~DisconnectInHandler => b.state = "CONNECTED",
         WithinInt /\ WriteRoom => Awake(b),
         NEW k \in Nat, NEW cb \in Callback, cb # NULL
  PROVE  /\ SocketInv(buffered_socket_read_bytes(b, k, cb))
         /\ buffered_socket_read_bytes(b, k, cb).read_buf = b.read_buf
         /\ buffered_socket_read_bytes(b, k, cb).write_buf = b.write_buf
         /\ buffered_socket_read_bytes(b, k, cb).state = b.state
         /\ buffered_socket_read_bytes(b, k, cb).callback = cb
         /\ buffered_socket_read_bytes(b, k, cb).n = k
<1> DEFINE w == buffered_socket_read_bytes(b, k, cb)
<1>1. /\ w \in Sockets /\ Tended(w) /\ Sized(w) /\ SameButReading(b, w)
      /\ w.callback = cb /\ w.n = k
      /\ w.read_buf = b.read_buf /\ TimerDue(w) /\ Waiting(w)
  BY ReadBytesIs
<1> HIDE DEF w
<1>2. w.state = b.state /\ w.write_ev = b.write_ev /\ w.write_buf = b.write_buf
  BY <1>1 DEF SameButReading
<1>3. Awake(b) => Awake(w)
  BY <1>2 DEF Awake
<1>4. SocketInv(w)
  BY <1>1, <1>2, <1>3 DEF SocketInv
<1> QED
  BY <1>1, <1>2, <1>4 DEF w

LEMMA CallbacksAre ==
  /\ "nsqd_connection_read_size" \in Callback /\ "nsqd_connection_read_size" # NULL
  /\ "nsqd_connection_read_data" \in Callback /\ "nsqd_connection_read_data" # NULL
BY ConnectionAssumption DEF Callback

\* buffered_socket_connect_cb on success, down to the first RDY.
LEMMA ConnectionCompleted ==
  ASSUME SocketInv(bs), connect_cb_succeeds,
         NEW b1, b1 = connect_completed([bs EXCEPT !.once = FALSE])
  PROVE  /\ b1 \in Sockets /\ Tended(b1) /\ Sized(b1) /\ Awake(b1) /\ ~b1.timer
         /\ bs.state = "CONNECTING" /\ b1.state = "CONNECTED" /\ b1.once = FALSE
         /\ b1.read_buf = bs.read_buf /\ b1.write_buf = bs.write_buf
         /\ b1.write_buf.offset = 0
<1>1. bs \in Sockets /\ Tended(bs) /\ Sized(bs) /\ bs.once /\ bs.fd
  BY DEF SocketInv, connect_cb_succeeds
<1>2. bs.state = "CONNECTING"
  BY <1>1 DEF Tended
<1> DEFINE b0 == [bs EXCEPT !.once = FALSE]
<1>3. /\ b1 \in Sockets /\ b1.state = "CONNECTED" /\ b1.fd = bs.fd /\ b1.once = FALSE
      /\ b1.read_ev = TRUE /\ b1.write_ev = bs.write_ev /\ b1.timer = bs.timer
      /\ b1.read_buf = bs.read_buf /\ b1.write_buf = bs.write_buf
  <2>1. b1 = [b0 EXCEPT !.state = "CONNECTED", !.read_ev = TRUE]
    BY DEF connect_completed
  <2>2. /\ b0 \in Sockets /\ b0.fd = bs.fd /\ b0.once = FALSE
        /\ b0.write_ev = bs.write_ev /\ b0.timer = bs.timer
        /\ b0.read_buf = bs.read_buf /\ b0.write_buf = bs.write_buf
    BY ONLY <1>1 DEF Sockets
  <2> HIDE DEF b0
  <2> QED
    BY ONLY <2>1, <2>2 DEF Sockets
<1>4. bs.write_buf.offset = 0 /\ ~bs.timer /\ bs.write_ev = FALSE
  BY <1>1, <1>2 DEF Tended, Sockets
<1>5. Tended(b1) /\ ~b1.timer
  BY ONLY <1>1, <1>3, <1>4 DEF Tended
<1>6. Sized(b1)
  BY ONLY <1>1, <1>3 DEF Sized
<1>7. b1.write_buf.offset = 0 /\ b1.write_ev = FALSE
  BY <1>3, <1>4
<1>8. Awake(b1)
  BY ONLY <1>7 DEF Awake
<1> QED
  BY <1>2, <1>3, <1>5, <1>6, <1>7, <1>8

LEMMA ConnectedSocket ==
  ASSUME SocketInv(bs), written \in Seq(WriteByte), connect_cb_succeeds
  PROVE  /\ SocketInv(bs') /\ bs'.state \in {"CONNECTED", "DISCONNECTED"}
         /\ bs'.once = FALSE
         /\ bs'.read_buf = bs.read_buf
         /\ bs'.callback = "nsqd_connection_read_size" /\ bs'.n = WordLength
         /\ closed_by' \in {closed_by, "user"}
         /\ Whole(written \o bs.write_buf.bytes) => Whole(written \o bs'.write_buf.bytes)
<1> DEFINE b0 == [bs EXCEPT !.once = FALSE]
           b1 == connect_completed(b0)
           b2 == buffered_socket_write(b1, Encoded(V2))
<1>1. /\ \/ bs' = nsqd_connection_connect_cb(b2)
         \/ /\ DisconnectInHandler
            /\ bs' = nsqd_connection_connect_cb(buffered_socket_close(b2))
      /\ closed_by' \in {closed_by, "user"}
  BY DEF connect_cb_succeeds
<1>2. /\ b1 \in Sockets /\ Tended(b1) /\ Sized(b1) /\ Awake(b1) /\ ~b1.timer
      /\ b1.state = "CONNECTED" /\ b1.once = FALSE
      /\ b1.read_buf = bs.read_buf /\ b1.write_buf = bs.write_buf
  BY ConnectionCompleted
<1> HIDE DEF b1
<1>3. Queued(b1, b2)
  BY <1>2, CommandsAre, WriteQueues
<1>4. /\ b2 \in Sockets /\ Tended(b2) /\ Sized(b2) /\ ~b2.timer
      /\ b2.state = "CONNECTED" /\ b2.once = FALSE /\ b2.read_buf = bs.read_buf
      /\ WithinInt /\ WriteRoom => Awake(b2)
      /\ Whole(written \o bs.write_buf.bytes) => Whole(written \o b2.write_buf.bytes)
  BY <1>2, <1>3 DEF Queued, SameButWriting
<1> HIDE DEF b2
<1>5. ASSUME NEW c \in Sockets, bs' = nsqd_connection_connect_cb(c),
             Tended(c), Sized(c), ~c.timer, c.once = FALSE, c.read_buf = bs.read_buf,
             c.state \in {"CONNECTED", "DISCONNECTED"},
             ~DisconnectInHandler => c.state = "CONNECTED",
             WithinInt /\ WriteRoom => Awake(c),
             Whole(written \o bs.write_buf.bytes) => Whole(written \o c.write_buf.bytes)
      PROVE  /\ SocketInv(bs') /\ bs'.state \in {"CONNECTED", "DISCONNECTED"}
             /\ bs'.once = FALSE /\ bs'.read_buf = bs.read_buf
             /\ bs'.callback = "nsqd_connection_read_size" /\ bs'.n = WordLength
             /\ Whole(written \o bs.write_buf.bytes) => Whole(written \o bs'.write_buf.bytes)
  <2> DEFINE b3 == buffered_socket_write(c, Encoded(SUB))
             b4 == buffered_socket_write(b3, Encoded(RDY))
             w  == buffered_socket_read_bytes(b4, WordLength, "nsqd_connection_read_size")
  <2>1. bs' = w
    BY <1>5 DEF nsqd_connection_connect_cb, nsq_reader_connect_cb
  <2>2. Queued(c, b3)
    BY <1>5, CommandsAre, WriteQueues
  <2> HIDE DEF b3
  <2>3. Queued(b3, b4)
    <3>1. b3 \in Sockets /\ Tended(b3) /\ Sized(b3)
      BY <2>2 DEF Queued
    <3> QED
      BY <3>1, CommandsAre, WriteQueues
  <2> HIDE DEF b4
  <2>4. Queued(c, b4)
    BY <2>2, <2>3, QueuedTransitive
  <2>5. /\ b4 \in Sockets /\ Tended(b4) /\ Sized(b4) /\ ~b4.timer
        /\ b4.state = c.state /\ b4.once = FALSE /\ b4.read_buf = bs.read_buf
        /\ WithinInt /\ WriteRoom => Awake(b4)
        /\ Whole(written \o bs.write_buf.bytes) => Whole(written \o b4.write_buf.bytes)
    BY <1>5, <2>4 DEF Queued, SameButWriting
  <2>6. /\ SocketInv(w) /\ w.read_buf = b4.read_buf /\ w.write_buf = b4.write_buf
        /\ w.state = b4.state
        /\ w.callback = "nsqd_connection_read_size" /\ w.n = WordLength
    <3>1. /\ WordLength \in Nat /\ b4.state \notin {"INIT", "CONNECTING"}
          /\ ~DisconnectInHandler => b4.state = "CONNECTED"
      BY <1>5, <2>5, ConnectionAssumption
    <3> QED
      BY <2>5, <3>1, CallbacksAre, ReadBytesInv
  <2>7. w.once = FALSE
    <3>1. WordLength \in Nat /\ b4.state \notin {"INIT", "CONNECTING"}
      BY <1>5, <2>5, ConnectionAssumption
    <3>2. SameButReading(b4, w)
      BY <2>5, <3>1, CallbacksAre, ReadBytesIs
    <3> QED
      BY <2>5, <3>2 DEF SameButReading
  <2> HIDE DEF w
  <2> QED
    BY <1>5, <2>1, <2>5, <2>6, <2>7
<1>6. CASE bs' = nsqd_connection_connect_cb(b2)
  BY <1>1, <1>4, <1>5, <1>6
<1>7. CASE DisconnectInHandler /\ bs' = nsqd_connection_connect_cb(buffered_socket_close(b2))
  <2> DEFINE c == buffered_socket_close(b2)
  <2>1. /\ c \in Sockets /\ Tended(c) /\ Sized(c)
        /\ c.state = "DISCONNECTED" /\ c.once = b2.once
        /\ c.read_buf = b2.read_buf /\ c.write_buf = b2.write_buf
        /\ b2.state # "DISCONNECTED" => ~c.timer
    BY <1>4, CloseIs
  <2>2. bs' = nsqd_connection_connect_cb(c)
    BY <1>7
  <2> HIDE DEF c
  <2>3. Awake(c)
    BY <2>1 DEF Awake
  <2> QED
    BY <1>1, <1>4, <1>5, <1>7, <2>1, <2>2, <2>3
<1> QED
  BY <1>1, <1>6, <1>7

\* buffered_socket_read_cb when it receives the n first bytes.
LEMMA ReceivingSocket ==
  ASSUME SocketInv(bs), bs.read_ev, received \in Seq(ReadByte),
         NEW n \in 1 .. Len(received), Readable(n),
         NEW room \in Received(bs.read_buf, n, SubSeq(received, 1, n)),
         bs' = read_arrived(bs, room)
  PROVE  /\ SocketInv(bs')
         /\ bs'.write_buf = bs.write_buf /\ bs'.state = bs.state
         /\ bs'.callback = bs.callback /\ bs'.n = bs.n
         /\ bs'.read_buf.offset = bs.read_buf.offset + n
         /\ bs'.read_buf.bytes = bs.read_buf.bytes \o SubSeq(received, 1, n)
<1> DEFINE s == SubSeq(received, 1, n)
<1>1. s \in Seq(ReadByte) /\ Len(s) = n /\ n \in 1 .. MaxRead
  BY DEF Readable
<1>2. /\ bs \in Sockets /\ Tended(bs) /\ Sized(bs) /\ TimerDue(bs) /\ Waiting(bs)
      /\ bs.read_buf \in Buffers(ReadByte)
      /\ bs.read_buf.offset \in Nat /\ bs.read_buf.length \in Nat /\ bs.n \in Nat
  <2>1. bs \in Sockets /\ Tended(bs) /\ Sized(bs) /\ TimerDue(bs) /\ Waiting(bs)
    BY DEF SocketInv
  <2>2. bs.read_buf \in Buffers(ReadByte) /\ bs.n \in Nat
    BY <2>1, SocketFields
  <2> QED
    BY <2>1, <2>2, BufferFields
<1> HIDE DEF s
<1>3. /\ room \in Buffers(ReadByte)
      /\ room.offset = bs.read_buf.offset + n /\ room.bytes = bs.read_buf.bytes \o s
      /\ room.capacity = bs.read_buf.capacity /\ room.length >= bs.read_buf.length
      /\ room.length = bs.read_buf.length \/
           (bs.read_buf.capacity > 0 => room.length <= bs.read_buf.capacity)
  <2> DEFINE buf == bs.read_buf
  <2>1. room \in Received(buf, n, s) /\ Len(s) <= n /\ buf \in Buffers(ReadByte)
    BY <1>1, <1>2 DEF s
  <2> HIDE DEF buf
  <2>2. /\ room \in Buffers(ReadByte)
        /\ room.offset = buf.offset + Len(s) /\ room.bytes = buf.bytes \o s
        /\ room.capacity = buf.capacity /\ room.length >= buf.length
        /\ room.length = buf.length \/ (buf.capacity > 0 => room.length <= buf.capacity)
    BY ONLY <1>1, <2>1, ReceivedIs
  <2> QED
    BY <1>1, <2>2 DEF buf
<1>4. SizedBy(room, ReadSizes)
  <2>1. ReadSizes \in SUBSET ((Nat \ {0}) \X Nat) /\ SizedBy(bs.read_buf, ReadSizes)
    BY <1>2, ConnectionAssumption DEF Sized
  <2>2. room.length \in Nat
    BY <1>3, BufferFields
  <2> QED
    BY <1>2, <1>3, <2>1, <2>2, SizedByKept
<1> DEFINE t == bs.timer \/ (bs.n # 0 /\ room.offset >= bs.n)
<1>5. bs' = [bs EXCEPT !.read_buf = room, !.timer = t]
  BY DEF read_arrived, BUFFER_HAS_DATA
<1>6. /\ t \in BOOLEAN
      /\ t <=> bs.timer \/ (bs.n # 0 /\ room.offset >= bs.n)
  OBVIOUS
<1> HIDE DEF t
<1>7. /\ bs' \in Sockets /\ bs'.read_buf = room /\ bs'.timer = t
      /\ bs'.state = bs.state /\ bs'.fd = bs.fd /\ bs'.once = bs.once
      /\ bs'.read_ev = bs.read_ev /\ bs'.write_ev = bs.write_ev
      /\ bs'.callback = bs.callback /\ bs'.n = bs.n /\ bs'.write_buf = bs.write_buf
  BY ONLY <1>2, <1>3, <1>5, <1>6 DEF Sockets
<1>8. Sized(bs') /\ Awake(bs) => Awake(bs')
  BY <1>2, <1>4, <1>7 DEF Sized, Awake
<1>9. bs.state = "CONNECTED"
  BY <1>2 DEF Tended
<1>10. SocketInv(bs')
  <2>1. Tended(bs')
    BY ONLY <1>2, <1>7, <1>9 DEF Tended
  <2>2. Waiting(bs')
    <3>1. bs.callback # NULL /\ (bs.read_buf.offset >= bs.n => bs.timer)
      BY <1>2, <1>9 DEF Waiting
    <3>2. room.offset >= bs.n => t
      <4>1. CASE bs.n = 0
        <5>1. bs.read_buf.offset >= bs.n
          BY <1>2, <4>1
        <5> QED
          BY <1>6, <3>1, <5>1
      <4>2. CASE bs.n # 0
        BY <1>6, <4>2
      <4> QED
        BY <4>1, <4>2
    <3> QED
      BY ONLY <1>7, <3>1, <3>2 DEF Waiting
  <2>3. TimerDue(bs')
    <3>1. CASE bs.timer
      <4>1. bs.callback # NULL /\ bs.read_buf.offset >= bs.n
        BY <1>2, <3>1 DEF TimerDue
      <4>2. room.offset >= bs.n
        BY ONLY <1>1, <1>2, <1>3, <4>1
      <4> QED
        BY ONLY <1>7, <4>1, <4>2 DEF TimerDue
    <3>2. CASE ~bs.timer
      <4>1. t => room.offset >= bs.n
        BY <1>6, <3>2
      <4>2. bs.callback # NULL
        BY <1>2, <1>9 DEF Waiting
      <4> QED
        BY ONLY <1>7, <4>1, <4>2 DEF TimerDue
    <3> QED
      BY <3>1, <3>2
  <2>4. SizedBy(bs'.read_buf, ReadSizes) /\ SizedBy(bs'.write_buf, WriteSizes)
    BY <1>2, <1>4, <1>7 DEF Sized
  <2>5. WithinInt /\ WriteRoom => Awake(bs')
    BY <1>7 DEF SocketInv, Awake
  <2> QED
    BY <1>7, <1>9, <2>1, <2>2, <2>3, <2>4, <2>5 DEF SocketInv, Sized
<1> QED
  BY <1>3, <1>7, <1>10 DEF s

LEMMA SizesRead ==
  ASSUME stream \in Seq(Kind), NEW s
  PROVE  SizeRead(s) \in Nat /\ FrameRead(s) \in Nat
<1>1. WordLength \in Nat /\ BodyLength \in [Kind -> Nat]
  BY ConnectionAssumption
<1>2. DOMAIN stream \subseteq Nat /\ \A i \in DOMAIN stream : stream[i] \in Kind
  OBVIOUS
<1>3. SizeRead(s) \in Nat
  <2>1. CASE \E i \in DOMAIN stream : s = SizeWord(i)
    <3> DEFINE c == CHOOSE i \in DOMAIN stream : s = SizeWord(i)
    <3>1. c \in DOMAIN stream
      BY <2>1
    <3>2. SizeRead(s) = WordLength + BodyLength[stream[c]]
      BY <2>1 DEF SizeRead
    <3> HIDE DEF c
    <3>3. BodyLength[stream[c]] \in Nat
      BY <1>1, <1>2, <3>1
    <3> QED
      BY <1>1, <3>2, <3>3
  <2>2. CASE ~\E i \in DOMAIN stream : s = SizeWord(i)
    BY <2>2 DEF SizeRead
  <2> QED
    BY <2>1, <2>2
<1>4. FrameRead(s) \in Nat
  <2>1. CASE \E i \in DOMAIN stream : s = AfterSize(i)
    <3> DEFINE c == CHOOSE i \in DOMAIN stream : s = AfterSize(i)
    <3>1. c \in DOMAIN stream
      BY <2>1
    <3>2. FrameRead(s) = c
      BY <2>1 DEF FrameRead
    <3> QED
      BY <1>2, <3>1, <3>2
  <2>2. CASE ~\E i \in DOMAIN stream : s = AfterSize(i)
    BY <2>2 DEF FrameRead
  <2> QED
    BY <2>1, <2>2
<1> QED
  BY <1>3, <1>4

\* buffered_socket_read_bytes_cb up to the drain of the word the callback
\* has looked at.
LEMMA WordTaken ==
  ASSUME SocketInv(bs), bs.timer,
         NEW b1, b1 = [read_bytes_taken(bs) EXCEPT !.read_buf = Drained(@, WordLength)]
  PROVE  /\ b1 \in Sockets /\ Tended(b1) /\ Sized(b1) /\ ~b1.timer
         /\ b1.state = bs.state /\ b1.write_buf = bs.write_buf
         /\ b1.state \notin {"INIT", "CONNECTING"}
         /\ ~DisconnectInHandler => b1.state = "CONNECTED"
         /\ WithinInt /\ WriteRoom => Awake(b1)
         /\ b1.read_buf.offset <= bs.read_buf.offset
         /\ b1.read_buf = Drained(bs.read_buf, WordLength)
<1> DEFINE b0 == read_bytes_taken(bs)
<1>1. /\ bs \in Sockets /\ Tended(bs) /\ Sized(bs) /\ WordLength \in Nat
      /\ ~DisconnectInHandler => bs.state = "CONNECTED"
      /\ WithinInt /\ WriteRoom => Awake(bs)
  BY ConnectionAssumption DEF SocketInv
<1>2. bs.state \notin {"INIT", "CONNECTING"}
  BY <1>1 DEF Tended
<1>3. /\ b0 \in Sockets /\ Tended(b0) /\ Sized(b0) /\ SameButReading(bs, b0)
      /\ b0.timer = FALSE /\ b0.read_buf = bs.read_buf
  BY <1>1, TakenIs
<1>4. b1 = [b0 EXCEPT !.read_buf = Drained(@, WordLength)]
  OBVIOUS
<1> HIDE DEF b0
<1>5. /\ b1 \in Sockets /\ Tended(b1) /\ Sized(b1) /\ SameButReading(b0, b1)
      /\ b1.timer = b0.timer
      /\ b1.read_buf = Drained(b0.read_buf, WordLength)
      /\ b1.read_buf.offset <= b0.read_buf.offset
  BY ONLY <1>1, <1>3, <1>4, DrainReadIs
<1>6. /\ b1.state = bs.state /\ b1.write_ev = bs.write_ev /\ b1.write_buf = bs.write_buf
      /\ b1.timer = FALSE /\ b1.read_buf.offset <= bs.read_buf.offset
      /\ b1.read_buf = Drained(bs.read_buf, WordLength)
  BY ONLY <1>3, <1>5 DEF SameButReading
<1>7. Awake(bs) => Awake(b1)
  BY ONLY <1>6 DEF Awake
<1> QED
  BY ONLY <1>1, <1>2, <1>5, <1>6, <1>7

\* nsqd_connection_read_size
LEMMA SizeSocket ==
  ASSUME SocketInv(bs), stream \in Seq(Kind), nsqd_connection_read_size
  PROVE  /\ SocketInv(bs') /\ current_msg_size' \in Nat
         /\ bs'.state = bs.state /\ bs'.write_buf = bs.write_buf
         /\ bs'.read_buf.offset <= bs.read_buf.offset
         /\ bs'.read_buf = Drained(bs.read_buf, WordLength)
         /\ bs'.callback = "nsqd_connection_read_data" /\ bs'.n = current_msg_size'
<1> DEFINE b1 == [read_bytes_taken(bs) EXCEPT !.read_buf = Drained(@, WordLength)]
           w == buffered_socket_read_bytes(b1, current_msg_size', "nsqd_connection_read_data")
<1>1. bs.timer /\ bs' = w
  BY DEF nsqd_connection_read_size
<1>2. current_msg_size' \in Nat
  BY SizesRead DEF nsqd_connection_read_size
<1>3. /\ b1 \in Sockets /\ Tended(b1) /\ Sized(b1) /\ ~b1.timer
      /\ b1.state = bs.state /\ b1.write_buf = bs.write_buf
      /\ b1.state \notin {"INIT", "CONNECTING"}
      /\ ~DisconnectInHandler => b1.state = "CONNECTED"
      /\ WithinInt /\ WriteRoom => Awake(b1)
      /\ b1.read_buf.offset <= bs.read_buf.offset
      /\ b1.read_buf = Drained(bs.read_buf, WordLength)
  BY <1>1, WordTaken
<1> HIDE DEF b1
<1>4. /\ SocketInv(w) /\ w.read_buf = b1.read_buf /\ w.write_buf = b1.write_buf
      /\ w.state = b1.state
      /\ w.callback = "nsqd_connection_read_data" /\ w.n = current_msg_size'
  BY ONLY <1>2, <1>3, CallbacksAre, ReadBytesInv
<1> HIDE DEF w
<1> QED
  BY ONLY <1>1, <1>2, <1>3, <1>4

\* A socket that a callback may leave to its last two calls.
Resting(b) ==
  /\ b \in Sockets /\ Tended(b) /\ Sized(b) /\ ~b.timer
  /\ b.state \notin {"INIT", "CONNECTING"}
  /\ ~DisconnectInHandler => b.state = "CONNECTED"
  /\ WithinInt /\ WriteRoom => Awake(b)

LEMMA FrameDoneInv ==
  ASSUME NEW b, Resting(b), current_msg_size' \in Nat
  PROVE  /\ SocketInv(FrameDone(b))
         /\ FrameDone(b).state = b.state /\ FrameDone(b).write_buf = b.write_buf
         /\ FrameDone(b).read_buf.offset <= b.read_buf.offset
         /\ FrameDone(b).read_buf = Drained(b.read_buf, current_msg_size')
         /\ FrameDone(b).callback = "nsqd_connection_read_size"
         /\ FrameDone(b).n = WordLength
<1> DEFINE b1 == [b EXCEPT !.read_buf = Drained(@, current_msg_size')]
           w == buffered_socket_read_bytes(b1, WordLength, "nsqd_connection_read_size")
<1>1. FrameDone(b) = w
  BY DEF FrameDone
<1>2. /\ b \in Sockets /\ Tended(b) /\ Sized(b) /\ ~b.timer
      /\ b.state \notin {"INIT", "CONNECTING"}
      /\ ~DisconnectInHandler => b.state = "CONNECTED"
      /\ WithinInt /\ WriteRoom => Awake(b)
  BY DEF Resting
<1>3. /\ b1 \in Sockets /\ Tended(b1) /\ Sized(b1) /\ SameButReading(b, b1)
      /\ b1.timer = b.timer /\ b1.read_buf.offset <= b.read_buf.offset
      /\ b1.read_buf = Drained(b.read_buf, current_msg_size')
  BY <1>2, DrainReadIs
<1> HIDE DEF b1
<1>4. b1.state = b.state /\ b1.write_ev = b.write_ev /\ b1.write_buf = b.write_buf
  BY <1>3 DEF SameButReading
<1>5. Awake(b) => Awake(b1)
  BY ONLY <1>4 DEF Awake
<1>6. WordLength \in Nat
  BY ConnectionAssumption
<1>7. /\ SocketInv(w) /\ w.read_buf = b1.read_buf /\ w.write_buf = b1.write_buf
      /\ w.state = b1.state
      /\ w.callback = "nsqd_connection_read_size" /\ w.n = WordLength
  BY ONLY <1>2, <1>3, <1>4, <1>5, <1>6, CallbacksAre, ReadBytesInv
<1> HIDE DEF w
<1> QED
  BY ONLY <1>1, <1>3, <1>4, <1>7

LEMMA QueuedResting ==
  ASSUME NEW b, Resting(b), NEW w, Queued(b, w)
  PROVE  Resting(w)
BY DEF Resting, Queued, SameButWriting

\* The answers to a frame.
LEMMA Answered ==
  ASSUME NEW b, Resting(b), written \in Seq(WriteByte), NEW i \in Nat
  PROVE  Queued(b, HeartbeatAnswered(b)) /\ Queued(b, MessageHandled(b, i))
<1>1. b \in Sockets /\ Tended(b) /\ Sized(b) /\ FIN(i) \in Command /\ RDY \in Command /\ NOP \in Command
  BY CommandsAre DEF Resting
<1>2. Queued(b, HeartbeatAnswered(b))
  BY <1>1, WriteQueues DEF HeartbeatAnswered
<1> DEFINE v == buffered_socket_write(b, Encoded(FIN(i)))
<1>3. Queued(b, v)
  BY <1>1, WriteQueues
<1>4. MessageHandled(b, i) = buffered_socket_write(v, Encoded(RDY))
  BY DEF MessageHandled
<1> HIDE DEF v
<1>5. v \in Sockets /\ Tended(v) /\ Sized(v)
  BY <1>3 DEF Queued
<1>6. Queued(v, MessageHandled(b, i))
  BY <1>1, <1>4, <1>5, WriteQueues
<1>7. Queued(b, MessageHandled(b, i))
  BY <1>3, <1>6, QueuedTransitive
<1> QED
  BY <1>2, <1>7

\* nsqd_connection_read_data: what its switch leaves of the socket.
LEMMA DataSocket ==
  ASSUME SocketInv(bs), stream \in Seq(Kind), written \in Seq(WriteByte),
         current_msg_size \in Nat, got \in Seq(Nat), nsqd_connection_read_data
  PROVE  /\ SocketInv(bs') /\ current_msg_size' \in Nat /\ got' \in Seq(Nat)
         /\ bs'.read_buf.offset <= bs.read_buf.offset
         /\ Whole(written \o bs.write_buf.bytes) => Whole(written \o bs'.write_buf.bytes)
         /\ bs.state = "DISCONNECTED" => bs'.state = "DISCONNECTED"
         /\ closed_by' \in {closed_by, "user"}
         /\ bs'.read_buf = Drained(Drained(bs.read_buf, WordLength), current_msg_size')
         /\ bs'.callback = "nsqd_connection_read_size" /\ bs'.n = WordLength
         /\ bs'.state \notin {"INIT", "CONNECTING"}
         /\ ~DisconnectInHandler => bs'.state = bs.state
<1> DEFINE i == FrameRead(AtMost(bs.read_buf.bytes, current_msg_size))
           b1 == [read_bytes_taken(bs) EXCEPT !.read_buf = Drained(@, WordLength)]
<1>1. bs.timer
  BY DEF nsqd_connection_read_data
<1>2. i \in Nat
  BY SizesRead
<1>3. current_msg_size' \in Nat /\ got' \in Seq(Nat)
  <2>1. current_msg_size' = (current_msg_size - WordLength) % (2 * IntHalf)
    BY DEF nsqd_connection_read_data
  <2>2. got' = Append(got, i)
    BY DEF nsqd_connection_read_data
  <2> HIDE DEF i
  <2>3. got' \in Seq(Nat)
    BY <1>2, <2>2, AppendProperties
  <2> DEFINE c == current_msg_size - WordLength
             m == 2 * IntHalf
  <2>4. c \in Int /\ m \in Nat \ {0}
    BY ConnectionAssumption, LayoutAssumption
  <2>5. current_msg_size' = c % m
    BY <2>1
  <2> HIDE DEF c, m
  <2>6. (c % m) \in Nat
    BY ONLY <2>4
  <2> QED
    BY <2>3, <2>5, <2>6
<1>4. /\ Resting(b1) /\ b1.state = bs.state /\ b1.write_buf = bs.write_buf
      /\ b1.read_buf.offset <= bs.read_buf.offset
      /\ b1.read_buf = Drained(bs.read_buf, WordLength)
  BY <1>1, WordTaken DEF Resting
<1>5. \/ bs' = FrameDone(HeartbeatAnswered(b1)) /\ closed_by' = closed_by
      \/ bs' = FrameDone(MessageHandled(b1, i)) /\ closed_by' = closed_by
      \/ /\ DisconnectInHandler
         /\ bs' = FrameDone(buffered_socket_close(MessageHandled(b1, i)))
         /\ closed_by' \in {closed_by, "user"}
      \/ bs' = FrameDone(b1) /\ closed_by' = closed_by
  BY DEF nsqd_connection_read_data
<1> HIDE DEF i, b1
<1>6. b1.read_buf.offset \in Nat /\ bs.read_buf.offset \in Nat
  BY <1>4, SocketFields DEF Resting, SocketInv
<1>7. ASSUME NEW w, Resting(w), w.read_buf = b1.read_buf, bs' = FrameDone(w),
             bs.state = "DISCONNECTED" => w.state = "DISCONNECTED",
             ~DisconnectInHandler => w.state = bs.state,
             Whole(written \o bs.write_buf.bytes) => Whole(written \o w.write_buf.bytes)
      PROVE  /\ SocketInv(bs') /\ bs'.read_buf.offset <= bs.read_buf.offset
             /\ Whole(written \o bs.write_buf.bytes) => Whole(written \o bs'.write_buf.bytes)
             /\ bs.state = "DISCONNECTED" => bs'.state = "DISCONNECTED"
             /\ bs'.read_buf = Drained(Drained(bs.read_buf, WordLength), current_msg_size')
             /\ bs'.callback = "nsqd_connection_read_size" /\ bs'.n = WordLength
             /\ bs'.state \notin {"INIT", "CONNECTING"}
             /\ ~DisconnectInHandler => bs'.state = bs.state
  <2> DEFINE d == FrameDone(w)
  <2>1. /\ SocketInv(d) /\ d.state = w.state /\ d.write_buf = w.write_buf
        /\ d.read_buf.offset <= w.read_buf.offset
        /\ d.read_buf = Drained(w.read_buf, current_msg_size')
        /\ d.callback = "nsqd_connection_read_size" /\ d.n = WordLength
    BY <1>3, <1>7, FrameDoneInv
  <2>2. bs' = d
    BY <1>7
  <2> HIDE DEF d
  <2>3. bs'.read_buf.offset \in Nat
    BY <2>1, <2>2, SocketFields DEF SocketInv
  <2>4. bs'.read_buf.offset <= bs.read_buf.offset
    BY ONLY <1>4, <1>6, <1>7, <2>1, <2>2, <2>3
  <2>5. w.state \notin {"INIT", "CONNECTING"}
    BY ONLY <1>7 DEF Resting
  <2> QED
    BY ONLY <1>4, <1>7, <2>1, <2>2, <2>4, <2>5
<1>8. ASSUME NEW w, Queued(b1, w), bs' = FrameDone(w)
      PROVE  /\ SocketInv(bs') /\ bs'.read_buf.offset <= bs.read_buf.offset
             /\ Whole(written \o bs.write_buf.bytes) => Whole(written \o bs'.write_buf.bytes)
             /\ bs.state = "DISCONNECTED" => bs'.state = "DISCONNECTED"
             /\ bs'.read_buf = Drained(Drained(bs.read_buf, WordLength), current_msg_size')
             /\ bs'.callback = "nsqd_connection_read_size" /\ bs'.n = WordLength
             /\ bs'.state \notin {"INIT", "CONNECTING"}
             /\ ~DisconnectInHandler => bs'.state = bs.state
  <2>1. Resting(w)
    BY ONLY <1>4, <1>8, QueuedResting
  <2>2. /\ w.read_buf = b1.read_buf /\ w.state = b1.state
        /\ Whole(written \o b1.write_buf.bytes) => Whole(written \o w.write_buf.bytes)
    BY ONLY <1>8 DEF Queued, SameButWriting
  <2> QED
    BY <1>4, <1>7, <1>8, <2>1, <2>2
<1>9. CASE bs' = FrameDone(HeartbeatAnswered(b1)) /\ closed_by' = closed_by
  BY <1>2, <1>3, <1>4, <1>8, <1>9, Answered
<1>10. CASE bs' = FrameDone(MessageHandled(b1, i)) /\ closed_by' = closed_by
  BY <1>2, <1>3, <1>4, <1>8, <1>10, Answered
<1>11. CASE bs' = FrameDone(b1) /\ closed_by' = closed_by
  BY <1>3, <1>4, <1>7, <1>11
<1>12. CASE /\ DisconnectInHandler
            /\ bs' = FrameDone(buffered_socket_close(MessageHandled(b1, i)))
            /\ closed_by' \in {closed_by, "user"}
  <2> DEFINE v == MessageHandled(b1, i)
             w == buffered_socket_close(v)
  <2>1. Queued(b1, v)
    BY <1>2, <1>4, Answered
  <2>2. bs' = FrameDone(w)
    BY <1>12
  <2> HIDE DEF v
  <2>3. /\ Resting(v) /\ v.read_buf = b1.read_buf
        /\ Whole(written \o b1.write_buf.bytes) => Whole(written \o v.write_buf.bytes)
    BY <1>4, <2>1, QueuedResting DEF Queued, SameButWriting
  <2>4. /\ w \in Sockets /\ Tended(w) /\ Sized(w) /\ w.state = "DISCONNECTED"
        /\ w.read_buf = v.read_buf /\ w.write_buf = v.write_buf /\ ~w.timer
    BY <2>3, CloseIs DEF Resting
  <2> HIDE DEF w
  <2>5. Awake(w)
    BY ONLY <2>4 DEF Awake
  <2>6. Resting(w)
    BY ONLY <1>12, <2>4, <2>5 DEF Resting
  <2> QED
    BY <1>3, <1>4, <1>7, <1>12, <2>2, <2>3, <2>4, <2>6
<1> QED
  BY <1>5, <1>9, <1>10, <1>11, <1>12

(***************************************************************************)
(* k bytes went out.                                                       *)
(***************************************************************************)
LEMMA ProgressIs ==
  ASSUME NEW b \in Sockets, Tended(b), Sized(b), NEW k \in 0 .. b.write_buf.offset,
         NEW w, w = write_progressed(b, k)
  PROVE  /\ w \in Sockets /\ Tended(w) /\ Sized(w)
         /\ w.state = b.state /\ w.once = b.once
         /\ w.timer = b.timer /\ w.callback = b.callback
         /\ w.n = b.n /\ w.read_buf = b.read_buf
         /\ w.write_buf.bytes = SubSeq(b.write_buf.bytes, k + 1, Len(b.write_buf.bytes))
         /\ k = 0 => w.write_buf = b.write_buf
         /\ Awake(b) => Awake(w)
<1> DEFINE buf == b.write_buf
           left == IF k > 0 THEN Drained(buf, k) ELSE buf
<1>1. /\ buf \in Buffers(WriteByte) /\ buf.offset \in Nat /\ k \in Nat
      /\ buf.bytes \in Seq(WriteByte) /\ Len(buf.bytes) = buf.offset
  <2>1. b.write_buf \in Buffers(WriteByte)
    BY DEF Sockets
  <2>2. b.write_buf.offset \in Nat
    BY <2>1, BufferFields
  <2>3. k \in Nat
    BY <2>2
  <2> QED
    BY <2>1, <2>3, BufferFields
<1>2. k <= buf.offset
  BY <1>1
<1>3. w = [b EXCEPT !.write_buf = left, !.write_ev = @ /\ left.offset # 0]
  BY DEF write_progressed, BUFFER_HAS_DATA
<1> HIDE DEF left, buf
<1>4. /\ left \in Buffers(WriteByte)
      /\ left.length = buf.length /\ left.capacity = buf.capacity
      /\ left.offset = buf.offset - k
      /\ left.bytes = SubSeq(buf.bytes, k + 1, Len(buf.bytes))
      /\ k = 0 => left = buf
  <2>1. CASE k = 0
    <3>1. left = buf
      BY <2>1 DEF left
    <3>2. buf.bytes = SubSeq(buf.bytes, 1, Len(buf.bytes))
      BY ONLY <1>1, SubSeqFull
    <3> QED
      <4>1. left.bytes = SubSeq(buf.bytes, k + 1, Len(buf.bytes))
        BY <2>1, <3>1, <3>2
      <4>2. left.offset = buf.offset - k
        BY ONLY <1>1, <2>1, <3>1
      <4> QED
        BY ONLY <1>1, <3>1, <4>1, <4>2
  <2>2. CASE k > 0
    <3>1. left = Drained(buf, k)
      BY <2>2 DEF left
    <3> DEFINE d == Drained(buf, k)
    <3>2. /\ d \in Buffers(WriteByte)
          /\ d.length = buf.length /\ d.capacity = buf.capacity
          /\ k >= buf.offset => d.offset = 0 /\ d.bytes = << >>
          /\ k < buf.offset => /\ d.offset = buf.offset - k
                               /\ d.bytes = SubSeq(buf.bytes, k + 1, Len(buf.bytes))
      BY ONLY <1>1, DrainedIs
    <3>3. left = d
      BY <3>1
    <3> HIDE DEF d
    <3>4. CASE k < buf.offset
      BY ONLY <1>1, <2>2, <3>2, <3>3, <3>4
    <3>5. CASE k = buf.offset
      <4>1. SubSeq(buf.bytes, k + 1, Len(buf.bytes)) = << >>
        BY <1>1, <3>5
      <4>2. k >= buf.offset /\ ~(k = 0) /\ buf.offset - k = 0
        BY ONLY <1>1, <2>2, <3>5
      <4>3. left.offset = 0 /\ left.bytes = << >>
        BY ONLY <3>2, <3>3, <4>2
      <4> QED
        BY ONLY <3>2, <3>3, <4>1, <4>2, <4>3
    <3> QED
      BY <1>1, <1>2, <3>4, <3>5
  <2> QED
    BY ONLY <1>1, <2>1, <2>2
<1> DEFINE v == b.write_ev /\ left.offset # 0
<1>5. w = [b EXCEPT !.write_buf = left, !.write_ev = v]
  BY <1>3
<1>6. v \in BOOLEAN /\ (v <=> b.write_ev /\ left.offset # 0)
  OBVIOUS
<1> HIDE DEF v
<1>7. /\ w \in Sockets /\ w.write_buf = left /\ w.write_ev = v
      /\ w.state = b.state /\ w.fd = b.fd /\ w.once = b.once /\ w.read_ev = b.read_ev
      /\ w.timer = b.timer /\ w.callback = b.callback /\ w.n = b.n
      /\ w.read_buf = b.read_buf
  BY ONLY <1>4, <1>5, <1>6, b \in Sockets DEF Sockets
<1>8. Tended(w)
  <2>1. b.state \in {"INIT", "CONNECTING"} => left.offset = 0
    <3>1. b.state \in {"INIT", "CONNECTING"} => buf.offset = 0
      BY DEF Tended, buf
    <3> QED
      BY ONLY <1>1, <1>2, <1>4, <3>1
  <2> QED
    BY ONLY <1>6, <1>7, <2>1, Tended(b) DEF Tended
<1>9. Sized(w)
  BY ONLY <1>4, <1>7, Sized(b) DEF Sized, SizedBy, buf
<1>10. ASSUME Awake(b) PROVE Awake(w)
  <2>1. left.offset > 0 <=> left.offset # 0
    BY ONLY <1>1, <1>2, <1>4
  <2>2. left.offset > 0 => buf.offset > 0
    BY ONLY <1>1, <1>2, <1>4
  <2>3. b.state = "CONNECTED" => (b.write_ev <=> buf.offset > 0)
    BY <1>10 DEF Awake, buf
  <2> HIDE DEF buf
  <2> QED
    BY ONLY <1>6, <1>7, <2>1, <2>2, <2>3 DEF Awake
<1> QED
  BY ONLY <1>4, <1>7, <1>8, <1>9, <1>10 DEF buf

\* buffered_socket_write_cb when send() accepts k bytes.
LEMMA SendingSocket ==
  ASSUME SocketInv(bs), written \in Seq(WriteByte),
         NEW k \in 1 .. bs.write_buf.offset,
         bs' = write_progressed(bs, k),
         written' = written \o SubSeq(bs.write_buf.bytes, 1, k)
  PROVE  /\ SocketInv(bs') /\ written' \in Seq(WriteByte)
         /\ bs'.state = bs.state /\ bs'.read_buf = bs.read_buf
         /\ written' \o bs'.write_buf.bytes = written \o bs.write_buf.bytes
<1> DEFINE t == bs.write_buf.bytes
           w == write_progressed(bs, k)
<1>1. /\ bs \in Sockets /\ Tended(bs) /\ Sized(bs) /\ TimerDue(bs) /\ Waiting(bs)
      /\ ~DisconnectInHandler => (bs.timer => bs.state = "CONNECTED")
      /\ WithinInt /\ WriteRoom => Awake(bs)
  BY DEF SocketInv
<1>2. t \in Seq(WriteByte) /\ Len(t) = bs.write_buf.offset /\ bs.write_buf.offset \in Nat
  BY <1>1, SocketFields
<1>3. k \in 0 .. bs.write_buf.offset /\ k \in 1 .. Len(t)
  BY <1>2
<1>4. /\ w \in Sockets /\ Tended(w) /\ Sized(w)
      /\ w.state = bs.state /\ w.timer = bs.timer /\ w.callback = bs.callback
      /\ w.n = bs.n /\ w.read_buf = bs.read_buf
      /\ w.write_buf.bytes = SubSeq(t, k + 1, Len(t))
      /\ Awake(bs) => Awake(w)
  BY <1>1, <1>3, ProgressIs
<1>5. bs' = w
  OBVIOUS
<1>6. written' = written \o SubSeq(t, 1, k)
  OBVIOUS
<1> HIDE DEF w, t
<1>7. TimerDue(w) /\ Waiting(w)
  BY ONLY <1>1, <1>4 DEF TimerDue, Waiting
<1>8. SocketInv(bs')
  BY ONLY <1>1, <1>4, <1>5, <1>7 DEF SocketInv
<1> DEFINE x == SubSeq(t, 1, k)
           y == SubSeq(t, k + 1, Len(t))
<1>9. x \in Seq(WriteByte) /\ y \in Seq(WriteByte) /\ x \o y = t
  <2>1. x \in Seq(WriteByte)
    BY <1>2, <1>3
  <2>2. /\ 1 \in 1 .. Len(t) + 1 /\ k \in 1 - 1 .. Len(t) /\ Len(t) \in k .. Len(t)
    BY <1>2, <1>3
  <2>3. x \o y = SubSeq(t, 1, Len(t))
    BY ONLY <1>2, <2>2, ConcatAdjacentSubSeq DEF x, y
  <2>4. SubSeq(t, 1, Len(t)) = t
    BY ONLY <1>2, SubSeqFull
  <2>5. y \in Seq(WriteByte)
    <3>1. CASE k < Len(t)
      BY <1>2, <1>3, <3>1
    <3>2. CASE k = Len(t)
      BY <1>2, <3>2
    <3> QED
      BY <1>2, <1>3, <3>1, <3>2
  <2> QED
    BY ONLY <2>1, <2>3, <2>4, <2>5
<1> HIDE DEF x, y
<1>10. written' = written \o x
  BY <1>6 DEF x
<1>11. written' \in Seq(WriteByte)
  BY ONLY <1>9, <1>10, written \in Seq(WriteByte), ConcatProperties
<1>12. (written \o x) \o y = written \o (x \o y)
  <2>1. written \in Seq(WriteByte) /\ x \in Seq(WriteByte) /\ y \in Seq(WriteByte)
    BY <1>9
  <2> QED
    BY ONLY <2>1, ConcatAssociative
<1>13. bs'.write_buf.bytes = y
  BY <1>4, <1>5 DEF y
<1>14. written' \o bs'.write_buf.bytes = written \o t
  BY ONLY <1>9, <1>10, <1>12, <1>13
<1> QED
  BY ONLY <1>4, <1>5, <1>8, <1>11, <1>14 DEF t

-------------------------------------------------------------------------------

LEMMA DataInvFields ==
  ASSUME IInv
  PROVE  /\ bs \in Sockets /\ Tended(bs) /\ Sized(bs) /\ SocketInv(bs)
         /\ current_msg_size \in Nat
         /\ received \in Seq(ReadByte) /\ written \in Seq(WriteByte)
         /\ peer_gone \in BOOLEAN
         /\ stream \in Seq(Kind) /\ got \in Seq(Nat)
         /\ Len(received) + bs.read_buf.offset <= Window
         /\ bs.read_buf.offset \in Nat /\ bs.write_buf.offset \in Nat
         /\ Len(received) \in Nat /\ Window \in Nat
         /\ Whole(written \o bs.write_buf.bytes)
<1>1. SocketInv(bs) /\ DataInv /\ bs \in Sockets /\ Tended(bs) /\ Sized(bs)
  BY DEF IInv, SocketInv
<1>2. Whole(written \o bs.write_buf.bytes)
  BY NoTornIsWhole DEF IInv
<1>3. Window \in Nat
  BY ConnectionAssumption
<1> QED
  BY <1>1, <1>2, <1>3, SocketFields DEF DataInv

\* The socket has taken its step: what is left to show.
LEMMA StepKeeps ==
  ASSUME IInv, SocketInv(bs'),
         Whole(written' \o bs'.write_buf.bytes),
         current_msg_size' \in Nat,
         received' \in Seq(ReadByte), written' \in Seq(WriteByte), peer_gone' \in BOOLEAN,
         stream' \in Seq(Kind), got' \in Seq(Nat),
         Len(received') + bs'.read_buf.offset <= Window,
         WithinInt /\ WriteRoom /\ ReadRoom => closed_by' \in {closed_by, "user", "connect", "peer"}
  PROVE  IInv'
<1>1. DataInv'
  BY DEF DataInv
<1>2. NoTornCommand'
  BY DEF NoTornCommand, Whole
<1>3. OpenInv'
  BY DEF IInv, OpenInv, HealthyStaysOpen
<1> QED
  BY <1>1, <1>2, <1>3 DEF IInv

LEMMA ClosingKeeps ==
  ASSUME IInv, NEW b \in Sockets, Tended(b), b.state = bs.state, b.timer = bs.timer,
         b.callback = bs.callback, b.n = bs.n,
         b.read_buf = bs.read_buf, b.write_buf = bs.write_buf,
         NEW who, WithinInt /\ WriteRoom /\ ReadRoom => who \in {"user", "connect", "peer"},
         CloseSocket(b, who),
         UNCHANGED <<current_msg_size, received, written, peer_gone, stream, got>>
  PROVE  IInv'
<1>1. bs' = buffered_socket_close(b) /\ closed_by' \in {closed_by, who}
  BY DEF CloseSocket
<1>2. /\ SocketInv(bs')
      /\ bs'.read_buf = bs.read_buf /\ bs'.write_buf = bs.write_buf
  BY <1>1, DataInvFields, CloseSocketInv
<1> QED
  BY <1>1, <1>2, DataInvFields, StepKeeps

LEMMA FrameBytesAre ==
  ASSUME NEW i \in Nat, NEW n \in Nat
  PROVE  FrameBytes(i, 1, n) \in Seq(ReadByte) /\ Len(FrameBytes(i, 1, n)) = n
<1> DEFINE s == FrameBytes(i, 1, n)
<1>1. s = [k \in 1 .. n |-> <<i, k>>]
  BY DEF FrameBytes
<1>2. \A k \in 1 .. n : <<i, k>> \in ReadByte
  BY DEF ReadByte
<1> HIDE DEF s
<1>3. s \in Seq(ReadByte) /\ Len(s) = n
  BY <1>1, <1>2
<1> QED
  BY <1>3 DEF s

LEMMA NextIInv == IInv /\ [Next]_vars => IInv'
<1> SUFFICES ASSUME IInv, [Next]_vars PROVE IInv'
  OBVIOUS
<1>1. CASE nsqd_connection_connect
  <2>1. /\ SocketInv(bs')
        /\ bs'.read_buf = bs.read_buf /\ bs'.write_buf = bs.write_buf
    BY <1>1, DataInvFields, ConnectSocket
  <2> QED
    BY <1>1, <2>1, DataInvFields, StepKeeps DEF nsqd_connection_connect
<1>2. CASE nsqd_connection_disconnect
  <2> DEFINE b == bs
             who == "user"
  <2>1. /\ CloseSocket(bs, "user")
        /\ UNCHANGED <<current_msg_size, received, written, peer_gone, stream, got>>
    BY <1>2 DEF nsqd_connection_disconnect
  <2> QED
    BY <2>1, DataInvFields, ClosingKeeps
<1>3. CASE connect_cb_fails
  <2> DEFINE b == [bs EXCEPT !.once = FALSE]
  <2>1. /\ CloseSocket(b, "connect")
        /\ UNCHANGED <<current_msg_size, received, written, peer_gone, stream, got>>
    BY <1>3 DEF connect_cb_fails
  <2>2. bs \in Sockets /\ Tended(bs)
    BY DataInvFields
  <2>3. /\ b \in Sockets /\ b.state = bs.state /\ b.timer = bs.timer
        /\ b.callback = bs.callback /\ b.n = bs.n /\ b.once = FALSE /\ b.fd = bs.fd
        /\ b.read_ev = bs.read_ev /\ b.write_ev = bs.write_ev
        /\ b.read_buf = bs.read_buf /\ b.write_buf = bs.write_buf
    BY ONLY <2>2 DEF Sockets
  <2> HIDE DEF b
  <2>4. Tended(b)
    BY ONLY <2>2, <2>3 DEF Tended
  <2> QED
    BY <2>1, <2>3, <2>4, ClosingKeeps
<1>4. CASE connect_cb_succeeds
  <2>1. /\ SocketInv(bs') /\ bs'.read_buf = bs.read_buf
        /\ Whole(written \o bs'.write_buf.bytes)
    BY <1>4, DataInvFields, ConnectedSocket
  <2> QED
    BY <1>4, <2>1, DataInvFields, StepKeeps DEF connect_cb_succeeds
<1>5. CASE read_cb_receives
  <2>1. PICK n \in 1 .. Len(received) :
          /\ Readable(n)
          /\ \E room \in Received(bs.read_buf, n, SubSeq(received, 1, n)) :
               bs' = read_arrived(bs, room)
          /\ received' = SubSeq(received, n + 1, Len(received))
    BY <1>5 DEF read_cb_receives
  <2>2. PICK room \in Received(bs.read_buf, n, SubSeq(received, 1, n)) :
          bs' = read_arrived(bs, room)
    BY <2>1
  <2>3. bs.read_ev
    BY <1>5 DEF read_cb_receives
  <2>4. /\ SocketInv(bs') /\ bs'.write_buf = bs.write_buf
        /\ bs'.read_buf.offset = bs.read_buf.offset + n
    BY <2>1, <2>2, <2>3, DataInvFields, ReceivingSocket
  <2>5. received' \in Seq(ReadByte) /\ Len(received') = Len(received) - n
    <3>1. received \in Seq(ReadByte) /\ Len(received) \in Nat
      BY DataInvFields
    <3> QED
      BY ONLY <2>1, <3>1
  <2>6. Len(received') + bs'.read_buf.offset <= Window
    BY <2>4, <2>5, DataInvFields
  <2> QED
    BY <1>5, <2>4, <2>5, <2>6, DataInvFields, StepKeeps DEF read_cb_receives
<1>6. CASE read_cb_refused
  <2>1. PICK n \in 1 .. Len(received) : Readable(n) /\ Received(bs.read_buf, n, << >>) = {}
    BY <1>6 DEF read_cb_refused
  <2>2. ~(WithinInt /\ WriteRoom /\ ReadRoom)
    <3> SUFFICES ASSUME WithinInt, ReadRoom PROVE FALSE
      OBVIOUS
    <3>1. bs.read_buf \in Buffers(ReadByte) /\ SizedBy(bs.read_buf, ReadSizes)
      BY DataInvFields, SocketFields DEF Sized
    <3>2. n \in 1 .. MaxRead /\ bs.read_buf.offset + n <= Window
      BY <2>1, DataInvFields, LayoutAssumption, SMTT(30) DEF Readable
    <3> QED
      BY <2>1, <3>1, <3>2, ReadNeverRefused
  <2>3. /\ CloseSocket(bs, "full read buffer")
        /\ UNCHANGED <<current_msg_size, received, written, peer_gone, stream, got>>
    BY <1>6 DEF read_cb_refused
  <2> QED
    BY <2>2, <2>3, DataInvFields, ClosingKeeps
<1>7. CASE read_cb_end
  <2>1. /\ CloseSocket(bs, "peer")
        /\ UNCHANGED <<current_msg_size, received, written, peer_gone, stream, got>>
    BY <1>7 DEF read_cb_end
  <2> QED
    BY <2>1, DataInvFields, ClosingKeeps
<1>8. CASE nsqd_connection_read_size
  <2>1. /\ SocketInv(bs') /\ current_msg_size' \in Nat
        /\ bs'.write_buf = bs.write_buf
        /\ bs'.read_buf.offset <= bs.read_buf.offset
    BY <1>8, DataInvFields, SizeSocket
  <2>2. bs'.read_buf.offset \in Nat
    BY <2>1, SocketFields DEF SocketInv
  <2>3. received' = received /\ Len(received') + bs'.read_buf.offset <= Window
    BY <1>8, <2>1, <2>2, DataInvFields DEF nsqd_connection_read_size
  <2> QED
    BY <1>8, <2>1, <2>3, DataInvFields, StepKeeps DEF nsqd_connection_read_size
<1>9. CASE nsqd_connection_read_data
  <2>1. /\ SocketInv(bs') /\ current_msg_size' \in Nat /\ got' \in Seq(Nat)
        /\ bs'.read_buf.offset <= bs.read_buf.offset
        /\ Whole(written \o bs'.write_buf.bytes)
        /\ closed_by' \in {closed_by, "user"}
    BY <1>9, DataInvFields, DataSocket
  <2>2. bs'.read_buf.offset \in Nat
    BY <2>1, SocketFields DEF SocketInv
  <2>3. UNCHANGED <<received, written, peer_gone, stream>>
    BY <1>9 DEF nsqd_connection_read_data
  <2>4. Len(received') + bs'.read_buf.offset <= Window
    BY <2>1, <2>2, <2>3, DataInvFields, SMTT(30)
  <2> QED
    BY <2>1, <2>3, <2>4, DataInvFields, StepKeeps
<1>10. CASE write_cb_sends
  <2>1. PICK k \in 1 .. bs.write_buf.offset :
          /\ bs' = write_progressed(bs, k)
          /\ written' = written \o SubSeq(bs.write_buf.bytes, 1, k)
    BY <1>10 DEF write_cb_sends, BUFFER_HAS_DATA
  <2>2. /\ SocketInv(bs') /\ written' \in Seq(WriteByte) /\ bs'.read_buf = bs.read_buf
        /\ written' \o bs'.write_buf.bytes = written \o bs.write_buf.bytes
    BY <2>1, DataInvFields, SendingSocket
  <2> QED
    BY <1>10, <2>2, DataInvFields, StepKeeps DEF write_cb_sends
<1> DEFINE stalled == write_progressed(bs, 0)
<1>11. /\ stalled \in Sockets /\ Tended(stalled) /\ stalled.state = bs.state
       /\ stalled.timer = bs.timer /\ stalled.callback = bs.callback /\ stalled.n = bs.n
       /\ stalled.read_buf = bs.read_buf /\ stalled.write_buf = bs.write_buf
  <2>1. bs \in Sockets /\ Tended(bs) /\ Sized(bs) /\ 0 \in 0 .. bs.write_buf.offset
    BY DataInvFields
  <2> QED
    BY <2>1, ProgressIs
<1> HIDE DEF stalled
<1>12. CASE write_cb_empty
  <2>1. /\ CloseSocket(stalled, "empty write buffer")
        /\ UNCHANGED <<current_msg_size, received, written, peer_gone, stream, got>>
    BY <1>12 DEF write_cb_empty, stalled
  <2>2. ~(WithinInt /\ WriteRoom /\ ReadRoom)
    <3> SUFFICES ASSUME WithinInt, WriteRoom PROVE FALSE
      OBVIOUS
    <3>1. Awake(bs) /\ Tended(bs)
      BY DataInvFields DEF SocketInv
    <3>2. bs.write_ev /\ bs.write_buf.offset = 0
      BY <1>12 DEF write_cb_empty, BUFFER_HAS_DATA
    <3> QED
      BY <3>1, <3>2 DEF Awake, Tended
  <2> QED
    BY <1>11, <2>1, <2>2, ClosingKeeps
<1>13. CASE write_cb_fails
  <2>1. /\ CloseSocket(stalled, "peer")
        /\ UNCHANGED <<current_msg_size, received, written, peer_gone, stream, got>>
    BY <1>13 DEF write_cb_fails, stalled
  <2> QED
    BY <1>11, <2>1, ClosingKeeps
<1>14. CASE nsqd_sends
  <2>1. PICK kind \in Kind :
          /\ Len(received) + Len(bs.read_buf.bytes) + FrameLength(kind) <= Window
          /\ stream' = Append(stream, kind)
          /\ received' = received \o FrameBytes(Len(stream) + 1, 1, FrameLength(kind))
    BY <1>14 DEF nsqd_sends
  <2> DEFINE n == FrameLength(kind)
             s == FrameBytes(Len(stream) + 1, 1, n)
  <2>2. n \in Nat
    BY ConnectionAssumption DEF FrameLength
  <2>3. s \in Seq(ReadByte) /\ Len(s) = n
    <3>1. Len(stream) + 1 \in Nat
      BY DataInvFields
    <3> HIDE DEF n
    <3> QED
      BY <2>2, <3>1, FrameBytesAre
  <2>4. stream' \in Seq(Kind)
    BY <2>1, DataInvFields, AppendProperties
  <2> HIDE DEF n, s
  <2>5. received' = received \o s
    BY <2>1 DEF s, n
  <2>6. received' \in Seq(ReadByte) /\ Len(received') = Len(received) + n
    <3>1. received \in Seq(ReadByte)
      BY DataInvFields
    <3> QED
      BY ONLY <2>3, <2>5, <3>1, ConcatProperties
  <2>7. UNCHANGED <<bs, current_msg_size, written, peer_gone, got, closed_by>>
    BY <1>14 DEF nsqd_sends
  <2>8. Len(received') + bs'.read_buf.offset <= Window
    <3>1. Len(received) + Len(bs.read_buf.bytes) + n <= Window
      BY <2>1 DEF n
    <3>2. Len(bs.read_buf.bytes) = bs.read_buf.offset
      BY DataInvFields, SocketFields
    <3> QED
      BY <2>2, <2>6, <2>7, <3>1, <3>2, DataInvFields
  <2> QED
    BY <2>4, <2>6, <2>7, <2>8, DataInvFields, StepKeeps
<1>15. CASE nsqd_goes
  <2>1. /\ peer_gone' = TRUE /\ received' \in {received, << >>}
        /\ UNCHANGED <<bs, current_msg_size, written, stream, got, closed_by>>
    BY <1>15 DEF nsqd_goes
  <2>2. received' \in Seq(ReadByte) /\ Len(received') <= Len(received) /\ Len(received') \in Nat
    <3>1. << >> \in Seq(ReadByte) /\ Len(<< >>) = 0
      OBVIOUS
    <3>2. received \in Seq(ReadByte) /\ Len(received) \in Nat
      BY DataInvFields
    <3>3. CASE received' = received
      BY ONLY <3>2, <3>3
    <3>4. CASE received' = << >>
      BY ONLY <3>1, <3>2, <3>4
    <3> QED
      BY <2>1, <3>3, <3>4
  <2>3. Len(received') + bs'.read_buf.offset <= Window
    BY <2>1, <2>2, DataInvFields
  <2> QED
    BY <2>1, <2>2, <2>3, DataInvFields, StepKeeps
<1>16. CASE Over \/ UNCHANGED vars
  <2>1. UNCHANGED vars
    BY <1>16 DEF Over
  <2> QED
    BY <2>1, DataInvFields, StepKeeps DEF vars
<1> QED
  BY <1>1, <1>2, <1>3, <1>4, <1>5, <1>6, <1>7, <1>8, <1>9, <1>10, <1>12, <1>13,
     <1>14, <1>15, <1>16 DEF Next

\* The inductive invariant, whatever the sizes of the buffers.
THEOREM Invariance == Spec => []IInv
BY InitIInv, NextIInv, PTL DEF Spec

-------------------------------------------------------------------------------

(***************************************************************************)
(* Every field of a connection keeps its type, and the offset of each      *)
(* buffer counts the bytes in it.                                          *)
(***************************************************************************)
THEOREM TypeCorrect == Spec => []TypeOK
<1>1. IInv => TypeOK
  <2> SUFFICES ASSUME IInv PROVE TypeOK
    OBVIOUS
  <2>1. ASSUME NEW S, NEW b \in Buffers(S) PROVE IsBuffer(b)
    BY BufferFields DEF IsBuffer
  <2>2. IsBuffer(bs.read_buf) /\ IsBuffer(bs.write_buf)
    BY <2>1, DataInvFields, SocketFields
  <2> QED
    BY <2>2, DataInvFields DEF TypeOK, Sockets, Callback
<1> QED
  BY <1>1, Invariance, PTL

(***************************************************************************)
(* A call is made exactly when it was promised: whoever connects, reads    *)
(* or disconnects in between, and whatever the buffers' sizes.             *)
(***************************************************************************)
THEOREM WakeupKept == Spec => []NoLostWakeup
<1>1. IInv => NoLostWakeup
  <2> SUFFICES ASSUME IInv PROVE NoLostWakeup
    OBVIOUS
  <2> QED
    BY DEF IInv, SocketInv, Waiting, TimerDue, NoLostWakeup, BUFFER_HAS_DATA
<1> QED
  BY <1>1, Invariance, PTL

(***************************************************************************)
(* The write watcher of an established connection runs exactly while there *)
(* is something to send, if an empty write buffer always takes a command.  *)
(***************************************************************************)
THEOREM WriterKeptAwake ==
  ASSUME WithinInt, WriteRoom
  PROVE  Spec => []WriterAwake
<1>1. IInv => WriterAwake
  BY DEF IInv, SocketInv, Awake, WriterAwake, BUFFER_HAS_DATA
<1> QED
  BY <1>1, Invariance, PTL

(***************************************************************************)
(* A connection is never closed for how full its buffers are, if they have *)
(* room for a command and for what nsqd may have on the way.               *)
(***************************************************************************)
THEOREM StaysHealthy ==
  ASSUME WithinInt, WriteRoom, ReadRoom
  PROVE  Spec => []HealthyStaysOpen
<1>1. IInv => HealthyStaysOpen
  BY DEF IInv, OpenInv
<1> QED
  BY <1>1, Invariance, PTL

(***************************************************************************)
(* nsqd is sent whole commands, whatever the sizes of the buffers and      *)
(* however many commands no longer fit.                                    *)
(***************************************************************************)
THEOREM FramingKept == Spec => []NoTornCommand
<1>1. IInv => NoTornCommand
  BY DEF IInv
<1> QED
  BY <1>1, Invariance, PTL

-------------------------------------------------------------------------------

(***************************************************************************)
(* What has been closed stays closed.                                      *)
(***************************************************************************)
LEMMA ClosedStays ==
  ASSUME IInv, [Next]_vars, bs.state = "DISCONNECTED"
  PROVE  bs'.state = "DISCONNECTED"
<1> DEFINE b0 == [bs EXCEPT !.once = FALSE]
           stalled == write_progressed(bs, 0)
<1>1. bs \in Sockets /\ Tended(bs) /\ Sized(bs) /\ SocketInv(bs)
  BY DataInvFields
<1>2. ~bs.fd /\ ~bs.read_ev /\ ~bs.write_ev
  BY <1>1 DEF Tended
<1>3. ASSUME NEW who, CloseSocket(bs, who) \/ CloseSocket(b0, who)
      PROVE  bs'.state = "DISCONNECTED"
  <2>1. b0.state = "DISCONNECTED"
    BY <1>1 DEF Sockets
  <2> HIDE DEF b0
  <2> QED
    BY <1>3, <2>1 DEF CloseSocket, buffered_socket_close
<1>4. CASE nsqd_connection_disconnect
  BY <1>4 DEF nsqd_connection_disconnect
<1>5. CASE connect_cb_fails
  BY <1>3, <1>5 DEF connect_cb_fails
<1>6. CASE nsqd_connection_read_size
  BY <1>6, DataInvFields, SizeSocket
<1>7. CASE nsqd_connection_read_data
  BY <1>7, DataInvFields, DataSocket
<1>8. CASE nsqd_sends \/ nsqd_goes \/ Over \/ UNCHANGED vars
  BY <1>8 DEF nsqd_sends, nsqd_goes, Over, vars
<1>9. CASE \/ nsqd_connection_connect \/ connect_cb_succeeds \/ read_cb_receives
           \/ read_cb_refused \/ read_cb_end \/ write_cb_sends \/ write_cb_empty
           \/ write_cb_fails
  BY <1>2, <1>9 DEF nsqd_connection_connect, connect_cb_succeeds, read_cb_receives,
     read_cb_refused, read_cb_end, write_cb_sends, write_cb_empty, write_cb_fails
<1> QED
  BY <1>4, <1>5, <1>6, <1>7, <1>8, <1>9 DEF Next

(***************************************************************************)
(* The ev_once of a connect cannot be stopped: whatever it reports to a    *)
(* connection that was closed meanwhile, the connection stays closed.      *)
(***************************************************************************)
THEOREM ClosedForGood == Spec => StaysClosed
<1>1. IInv /\ [Next]_vars => [bs.state = "DISCONNECTED" => bs'.state = "DISCONNECTED"]_vars
  BY ClosedStays
<1> QED
  BY <1>1, Invariance, PTL DEF Spec, StaysClosed

(***************************************************************************)
(* The one watcher that may outlive a close: an ev_once is outstanding on  *)
(* a closed connection only if the user cut the connect short, before      *)
(* anything was sent or handled.                                           *)
(***************************************************************************)
CutShort ==
  /\ bs.state \in {"INIT", "CONNECTING"} => written = << >> /\ got = << >>
  /\ bs.state = "DISCONNECTED" /\ bs.once =>
       closed_by = "user" /\ written = << >> /\ got = << >>

LEMMA NextCutShort ==
  ASSUME ~DisconnectInHandler, IInv, IInv', CutShort, [Next]_vars
  PROVE  CutShort'
<1>1. /\ bs \in Sockets /\ Tended(bs) /\ Sized(bs) /\ SocketInv(bs)
      /\ bs' \in Sockets /\ Tended(bs')
  BY DataInvFields DEF IInv, SocketInv
<1>2. ASSUME bs'.state \in {"CONNECTED", "DISCONNECTED"}, bs'.once = FALSE
      PROVE  CutShort'
  BY <1>2 DEF CutShort
<1>3. ASSUME bs'.state = "CONNECTED" PROVE CutShort'
  BY <1>3 DEF CutShort
<1>4. ASSUME NEW b \in Sockets, NEW who, CloseSocket(b, who), Tended(b), Sized(b)
      PROVE  bs'.state = "DISCONNECTED" /\ bs'.once = b.once
  <2>1. bs' = buffered_socket_close(b)
    BY <1>4 DEF CloseSocket
  <2> QED
    BY <1>4, <2>1, CloseIs
<1>5. CASE nsqd_connection_connect
  BY <1>1, <1>5 DEF nsqd_connection_connect, connect_started, CutShort, Sockets
<1>6. CASE nsqd_connection_disconnect
  <2>1. bs'.state = "DISCONNECTED" /\ bs'.once = bs.once
    BY <1>1, <1>4, <1>6 DEF nsqd_connection_disconnect
  <2>2. bs.state \in {"CONNECTING", "CONNECTED"} /\ closed_by' = "user"
        /\ UNCHANGED <<written, got>>
    BY <1>6 DEF nsqd_connection_disconnect, CloseSocket
  <2>3. bs.once => bs.state = "CONNECTING"
    BY <1>1, <2>2 DEF Tended
  <2> QED
    BY <2>1, <2>2, <2>3 DEF CutShort
<1>7. CASE connect_cb_fails
  <2> DEFINE b == [bs EXCEPT !.once = FALSE]
  <2>1. CloseSocket(b, "connect")
    BY <1>7 DEF connect_cb_fails
  <2>2. /\ b \in Sockets /\ b.once = FALSE /\ b.state = bs.state /\ b.fd = bs.fd
        /\ b.read_ev = bs.read_ev /\ b.write_ev = bs.write_ev /\ b.timer = bs.timer
        /\ b.read_buf = bs.read_buf /\ b.write_buf = bs.write_buf
    BY ONLY <1>1 DEF Sockets
  <2> HIDE DEF b
  <2>3. Tended(b) /\ Sized(b)
    BY ONLY <1>1, <2>2 DEF Tended, Sized
  <2> QED
    BY <1>2, <1>4, <2>1, <2>2, <2>3
<1>8. CASE connect_cb_succeeds
  BY <1>2, <1>8, DataInvFields, ConnectedSocket
<1>9. CASE read_cb_receives
  <2>1. bs.read_ev /\ bs.state = "CONNECTED"
    BY <1>1, <1>9 DEF read_cb_receives, Tended
  <2>2. PICK room : bs' = read_arrived(bs, room)
    BY <1>9 DEF read_cb_receives
  <2>3. bs'.state = "CONNECTED"
    BY <1>1, <2>1, <2>2 DEF read_arrived, Sockets
  <2> QED
    BY <1>3, <2>3
<1>10. CASE read_cb_refused \/ read_cb_end
  <2>1. PICK who : CloseSocket(bs, who) /\ bs.read_ev
    BY <1>10 DEF read_cb_refused, read_cb_end
  <2>2. bs.once = FALSE
    BY <1>1, <2>1 DEF Tended, Sockets
  <2> QED
    BY <1>1, <1>2, <1>4, <2>1, <2>2
<1>11. CASE nsqd_connection_read_size \/ nsqd_connection_read_data
  <2>1. bs.timer
    BY <1>11 DEF nsqd_connection_read_size, nsqd_connection_read_data
  <2>2. bs.state = "CONNECTED"
    BY <1>1, <2>1 DEF SocketInv
  <2>3. bs'.state = bs.state
    BY <1>11, DataInvFields, SizeSocket, DataSocket
  <2> QED
    BY <1>3, <2>2, <2>3
<1>12. CASE write_cb_sends \/ write_cb_empty \/ write_cb_fails
  <2>1. bs.write_ev /\ bs.state = "CONNECTED" /\ bs.once = FALSE
    BY <1>1, <1>12 DEF write_cb_sends, write_cb_empty, write_cb_fails, Tended, Sockets
  <2>2. CASE write_cb_sends
    <3>1. PICK k \in 1 .. bs.write_buf.offset :
            /\ bs' = write_progressed(bs, k)
            /\ written' = written \o SubSeq(bs.write_buf.bytes, 1, k)
      BY <2>2 DEF write_cb_sends, BUFFER_HAS_DATA
    <3>2. bs'.state = bs.state
      BY <3>1, DataInvFields, SendingSocket
    <3> QED
      BY <1>3, <2>1, <3>2
  <2>3. CASE write_cb_empty \/ write_cb_fails
    <3> DEFINE b == write_progressed(bs, 0)
    <3>1. PICK who : CloseSocket(b, who)
      BY <2>3 DEF write_cb_empty, write_cb_fails
    <3>2. b \in Sockets /\ Tended(b) /\ Sized(b) /\ b.once = FALSE
      <4>1. 0 \in 0 .. bs.write_buf.offset
        BY DataInvFields
      <4> QED
        BY <1>1, <2>1, <4>1, ProgressIs
    <3> HIDE DEF b
    <3> QED
      BY <1>2, <1>4, <3>1, <3>2
  <2> QED
    BY <1>12, <2>2, <2>3
<1>13. CASE nsqd_sends \/ nsqd_goes \/ Over \/ UNCHANGED vars
  BY <1>13 DEF nsqd_sends, nsqd_goes, Over, vars, CutShort
<1> QED
  BY <1>5, <1>6, <1>7, <1>8, <1>9, <1>10, <1>11, <1>12, <1>13 DEF Next

(***************************************************************************)
(* A handler that does not disconnect from within leaves nothing running   *)
(* on a closed connection, but for the ev_once of a connect cut short.     *)
(***************************************************************************)
THEOREM QuietOnceClosed ==
  ASSUME ~DisconnectInHandler
  PROVE  Spec => NothingAfterClose
<1>1. ASSUME IInv, IInv', CutShort', [Next]_vars, bs.state = "DISCONNECTED"
      PROVE  /\ UNCHANGED <<got, written>>
             /\ ~(bs'.read_ev \/ bs'.write_ev \/ bs'.timer \/ bs'.fd)
             /\ bs'.once => closed_by' = "user" /\ got' = << >> /\ written' = << >>
  <2>1. bs \in Sockets /\ Tended(bs) /\ SocketInv(bs)
    BY <1>1, DataInvFields
  <2>2. ~bs.write_ev /\ ~bs.timer /\ ~bs.fd
    BY <1>1, <2>1 DEF Tended, SocketInv
  <2>3. UNCHANGED <<got, written>>
    BY <1>1, <2>2 DEF Next, vars, nsqd_connection_connect, nsqd_connection_disconnect,
       connect_cb_fails, connect_cb_succeeds, read_cb_receives, read_cb_refused,
       read_cb_end, nsqd_connection_read_size, nsqd_connection_read_data,
       write_cb_sends, write_cb_empty, write_cb_fails, nsqd_sends, nsqd_goes, Over
  <2>4. bs'.state = "DISCONNECTED"
    BY <1>1, ClosedStays
  <2>5. SocketInv(bs')
    BY <1>1 DEF IInv
  <2>6. ~(bs'.read_ev \/ bs'.write_ev \/ bs'.timer \/ bs'.fd)
    BY <2>4, <2>5 DEF SocketInv, Tended
  <2>7. bs'.once => closed_by' = "user" /\ got' = << >> /\ written' = << >>
    BY <1>1, <2>4 DEF CutShort
  <2> QED
    BY <2>3, <2>6, <2>7
<1>2. IInv /\ IInv' /\ CutShort' /\ [Next]_vars =>
        [bs.state = "DISCONNECTED" =>
           /\ UNCHANGED <<got, written>>
           /\ ~(bs'.read_ev \/ bs'.write_ev \/ bs'.timer \/ bs'.fd)
           /\ bs'.once => closed_by' = "user" /\ got' = << >> /\ written' = << >>]_vars
  BY <1>1
<1>3. Init => CutShort
  BY DEF Init, CutShort, new_buffered_socket
<1>4. IInv /\ IInv' /\ CutShort /\ [Next]_vars => CutShort'
  BY NextCutShort
<1> QED
  BY <1>2, <1>3, <1>4, Invariance, PTL DEF Spec, NothingAfterClose
===============================================================================

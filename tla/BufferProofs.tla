----------------------------- MODULE BufferProofs -----------------------------
(***************************************************************************)
(* Memory safety, content safety and the limits of struct Buffer, that it  *)
(* implements the queue of bytes of ByteQueue.tla, and that its memory     *)
(* changes as the operators of BufferOps.tla say: for every byte alphabet, *)
(* initial length, capacity and chunk size below 2^31.                     *)
(***************************************************************************)
EXTENDS Buffer, SharedLemmas

(***************************************************************************)
(* The inductive invariant.  InBounds alone is not inductive: that the     *)
(* copy ends inside the allocation needs the types of the layout, and that *)
(* moved bytes are bytes of the stream needs them to have been inside it.  *)
(* The capacity stays the one new_buffer was called with.                  *)
(***************************************************************************)
CapacityGiven == \E size \in Sizes : buf.capacity = size[2]

IInv == TypeOK /\ InBounds /\ NoStrayByte /\ CapacityRespected /\ CapacityGiven

LEMMA InitIInv == Init => IInv
<1> SUFFICES ASSUME Init PROVE IInv
  OBVIOUS
<1>1. PICK size \in Sizes : new_buffer(size[1], size[2])
  BY DEF Init
<1>2. size = <<size[1], size[2]>> /\ size[1] \in Nat \ {0} /\ size[2] \in Nat
  BY BufferAssumption
<1>3. /\ buf = [pos |-> 0, offset |-> 0, length |-> size[1], capacity |-> size[2]]
      /\ mem = [i \in 1 .. size[1] |-> Junk]
  BY <1>1 DEF new_buffer
<1>4. TypeOK /\ InBounds /\ NoStrayByte
  BY <1>2, <1>3 DEF TypeOK, InBounds, NoStrayByte, BUFFER_USED
<1>5. CapacityRespected /\ CapacityGiven
  BY <1>2, <1>3 DEF CapacityRespected, CapacityGiven
<1> QED
  BY <1>4, <1>5 DEF IInv

(***************************************************************************)
(* The room buffer_add and buffer_read_fd go on with is enough for the     *)
(* bytes they asked it for.                                                *)
(***************************************************************************)
LEMMA AddFits ==
  ASSUME IInv, NEW n \in 0 .. MaxAdd, NEW room \in MakeRoom(buf, AddNeed(buf, n))
  PROVE  Fits(buf, n, room)
<1>1. buf \in Layout /\ BUFFER_USED(buf) <= buf.length
  BY DEF IInv, TypeOK, InBounds, Layout
<1>2. n \in Nat /\ n < IntHalf
  BY LayoutAssumption, BufferAssumption
<1> DEFINE d == BUFFER_USED(buf) + n - buf.length
<1>3. d \in Int /\ d < IntHalf
  BY <1>1, <1>2, LayoutAssumption DEF Layout, BUFFER_USED
<1>4. AddNeed(buf, n) \in Int /\ (d > 0 => AddNeed(buf, n) = d)
  BY <1>3, NeedKept DEF AddNeed
<1>5. buf.pos + buf.offset + n > buf.length =>
        AddNeed(buf, n) = buf.pos + buf.offset + n - buf.length
  BY <1>1, <1>2, <1>4 DEF Layout, BUFFER_USED
<1> HIDE DEF d
<1> QED
  BY <1>1, <1>2, <1>4, <1>5, RoomSuffices

LEMMA ReadFits ==
  ASSUME IInv, NEW n \in 1 .. MaxRead, NEW room \in MakeRoom(buf, ReadNeed(buf, n))
  PROVE  Fits(buf, n, room)
<1>1. buf \in Layout /\ BUFFER_USED(buf) <= buf.length
  BY DEF IInv, TypeOK, InBounds, Layout
<1>2. n \in Nat /\ n < IntHalf
  BY LayoutAssumption
<1> DEFINE d == n - BUFFER_AVAILABLE(buf)
<1>3. d \in Int /\ d < IntHalf
  BY <1>1, <1>2, LayoutAssumption DEF Layout, BUFFER_USED, BUFFER_AVAILABLE
<1>4. ReadNeed(buf, n) \in Int /\ (d > 0 => ReadNeed(buf, n) = d)
  BY <1>3, NeedKept DEF ReadNeed
<1>5. buf.pos + buf.offset + n > buf.length =>
        ReadNeed(buf, n) = buf.pos + buf.offset + n - buf.length
  BY <1>1, <1>2, <1>4 DEF Layout, BUFFER_USED, BUFFER_AVAILABLE
<1> HIDE DEF d
<1> QED
  BY <1>1, <1>2, <1>4, <1>5, RoomSuffices

(***************************************************************************)
(* Appending a source s to a layout with room for n >= Len(s) bytes, which *)
(* is what buffer_add and buffer_read_fd end with: the unread bytes are    *)
(* where the new layout says they are, and s is behind them.               *)
(***************************************************************************)
LEMMA ExtendEffect ==
  ASSUME IInv, NEW n \in Nat, NEW room, Fits(buf, n, room),
         NEW k \in 0 .. n, NEW s \in Sources(k), Extend(room, s)
  PROVE  /\ buf' = [room EXCEPT !.offset = @ + k]
         /\ buf' \in Layout
         /\ buf'.offset = buf.offset + k
         /\ mem' \in [1 .. buf'.length -> Byte \cup {Junk}]
         /\ \A i \in 1 .. buf.offset : mem'[buf'.pos + i] = mem[buf.pos + i]
         /\ \A i \in 1 .. k : mem'[buf'.pos + (buf.offset + i)] = s[i]
         /\ IInv'
<1> USE DEF IInv, TypeOK
<1>1. buf \in Layout /\ BUFFER_USED(buf) <= buf.length
  BY BufferAssumption DEF Layout, InBounds
<1>2. /\ room \in Layout
      /\ room.offset = buf.offset
      /\ room.capacity = buf.capacity
      /\ room.pos + room.offset + n <= room.length
      /\ \/ room.length = buf.length /\ room.pos \in {0, buf.pos}
         \/ /\ room.length > buf.length /\ room.pos = buf.pos
            /\ buf.capacity > 0 => room.length <= buf.capacity
  BY DEF Fits
<1>3. s \in [1 .. k -> Byte] /\ Len(s) = k
  BY DEF Sources
<1> DEFINE end == room.pos + room.offset
           old == Relocated(room)
<1>4. /\ buf' = [room EXCEPT !.offset = @ + k]
      /\ mem' = [i \in 1 .. room.length |->
                   IF i > end /\ i <= end + k THEN s[i - end] ELSE old[i]]
  BY <1>3 DEF Extend
<1>5. /\ buf' \in [pos : Nat, offset : Nat, length : Nat \ {0}, capacity : Nat]
      /\ buf'.pos = room.pos
      /\ buf'.offset = buf.offset + k
      /\ buf'.length = room.length
      /\ buf'.capacity = buf.capacity
  <2>1. /\ room \in [pos : Nat, offset : Nat, length : Nat \ {0}, capacity : Nat]
        /\ room.offset + k \in Nat
    BY <1>2 DEF Layout
  <2> QED
    BY ONLY <1>2, <1>4, <2>1
<1>6. old \in [1 .. room.length -> Byte \cup {Junk}]
  BY <1>1, <1>2 DEF Relocated, Layout, BUFFER_USED
<1>7. \A i \in 1 .. buf.offset : old[room.pos + i] = mem[buf.pos + i]
  BY <1>1, <1>2, SMTT(30) DEF Relocated, Layout, BUFFER_USED
<1> HIDE DEF old
<1>8. /\ room.pos \in Nat /\ room.length \in Nat /\ buf.offset \in Nat /\ k \in Nat
      /\ end = room.pos + buf.offset
      /\ end + k <= room.length
  BY <1>1, <1>2 DEF Layout
<1> HIDE DEF end
<1>9. mem' \in [1 .. room.length -> Byte \cup {Junk}]
  <2>1. ASSUME NEW i \in 1 .. room.length, i > end, i <= end + k
        PROVE  s[i - end] \in Byte
    <3>1. i - end \in 1 .. k
      BY ONLY <1>8, <2>1
    <3> QED
      BY <1>3, <3>1
  <2> QED
    BY ONLY <1>4, <1>6, <2>1
<1>10. \A i \in 1 .. buf.offset : mem'[room.pos + i] = mem[buf.pos + i]
  <2>1. ASSUME NEW i \in 1 .. buf.offset
        PROVE  mem'[room.pos + i] = old[room.pos + i]
    BY ONLY <1>4, <1>8, <2>1
  <2> QED
    BY ONLY <1>7, <2>1
<1>11. \A i \in 1 .. k : mem'[room.pos + (buf.offset + i)] = s[i]
  <2>1. ASSUME NEW i \in 1 .. k
        PROVE  /\ room.pos + (buf.offset + i) \in 1 .. room.length
               /\ room.pos + (buf.offset + i) > end
               /\ room.pos + (buf.offset + i) <= end + k
               /\ (room.pos + (buf.offset + i)) - end = i
    BY ONLY <1>8, <2>1
  <2>2. ASSUME NEW j \in 1 .. room.length, j > end, j <= end + k
        PROVE  mem'[j] = s[j - end]
    BY ONLY <1>4, <2>2
  <2>3. ASSUME NEW i \in 1 .. k
        PROVE  mem'[room.pos + (buf.offset + i)] = s[i]
    <3>1. mem'[room.pos + (buf.offset + i)] = s[(room.pos + (buf.offset + i)) - end]
      BY ONLY <2>1, <2>2, <2>3
    <3> QED
      BY ONLY <2>1, <3>1
  <2> QED
    BY ONLY <2>3
<1>12. TypeOK'
  BY ONLY <1>5, <1>9 DEF TypeOK
<1>13. InBounds'
  BY ONLY <1>5, <1>8 DEF InBounds, BUFFER_USED
<1>14. NoStrayByte'
  <2>1. \A i \in 1 .. buf.offset : mem[buf.pos + i] \in Byte
    BY DEF NoStrayByte
  <2>2. ASSUME NEW i \in 1 .. (buf.offset + k) PROVE mem'[room.pos + i] \in Byte
    <3>1. CASE i <= buf.offset
      <4>1. i \in 1 .. buf.offset
        BY ONLY <1>8, <2>2, <3>1
      <4> QED
        BY ONLY <1>10, <2>1, <4>1
    <3>2. CASE i > buf.offset
      <4>1. i - buf.offset \in 1 .. k /\ i = buf.offset + (i - buf.offset)
        BY ONLY <1>8, <2>2, <3>2
      <4>2. mem'[room.pos + (buf.offset + (i - buf.offset))] = s[i - buf.offset]
        BY ONLY <1>11, <4>1
      <4> QED
        BY ONLY <1>3, <4>1, <4>2
    <3> QED
      BY ONLY <1>8, <2>2, <3>1, <3>2
  <2> QED
    BY ONLY <1>5, <2>2 DEF NoStrayByte
<1>15. CapacityRespected' /\ CapacityGiven'
  <2>1. CapacityRespected /\ CapacityGiven
    OBVIOUS
  <2> QED
    BY ONLY <1>2, <1>5, <2>1 DEF CapacityRespected, CapacityGiven
<1>16. IInv'
  BY ONLY <1>12, <1>13, <1>14, <1>15 DEF IInv
<1>17. buf' \in Layout
  BY ONLY <1>5 DEF Layout
<1> QED
  BY ONLY <1>4, <1>5, <1>9, <1>10, <1>11, <1>16, <1>17

(***************************************************************************)
(* Draining n bytes, or all of them, leaves the others where they are.     *)
(***************************************************************************)
LEMMA DrainEffect ==
  ASSUME IInv, NEW n \in Nat, buffer_drain(n)
  PROVE  /\ buf' \in Layout /\ mem' = mem
         /\ \/ n >= buf.offset /\ buf' = [buf EXCEPT !.pos = 0, !.offset = 0]
            \/ n < buf.offset /\ buf' = [buf EXCEPT !.pos = @ + n, !.offset = @ - n]
         /\ IInv'
<1>1. /\ buf \in [pos : Nat, offset : Nat, length : Nat \ {0}, capacity : Nat]
      /\ buf.pos + buf.offset <= buf.length
      /\ mem \in [1 .. buf.length -> Byte \cup {Junk}]
  BY DEF IInv, TypeOK, InBounds, BUFFER_USED
<1>2. /\ buf' \in [pos : Nat, offset : Nat, length : Nat \ {0}, capacity : Nat]
      /\ buf'.length = buf.length /\ buf'.capacity = buf.capacity
      /\ buf'.pos + buf'.offset <= buf.length
      /\ buf'.offset = 0 \/ \E d \in Nat : /\ buf'.pos = buf.pos + d
                                         /\ buf'.offset + d = buf.offset
  <2>1. CASE n >= buf.offset
    <3>1. buf' = [buf EXCEPT !.pos = 0, !.offset = 0]
      BY <2>1 DEF buffer_drain
    <3>2. /\ buf' \in [pos : Nat, offset : Nat, length : Nat \ {0}, capacity : Nat]
          /\ buf'.length = buf.length /\ buf'.capacity = buf.capacity
          /\ buf'.pos = 0 /\ buf'.offset = 0
      BY ONLY <1>1, <3>1
    <3>3. buf'.pos + buf'.offset <= buf.length
      BY ONLY <1>1, <3>2
    <3> QED
      BY ONLY <3>2, <3>3
  <2>2. CASE ~(n >= buf.offset)
    <3>1. buf' = [buf EXCEPT !.pos = @ + n, !.offset = @ - n]
      BY <2>2 DEF buffer_drain
    <3>2. buf.pos + n \in Nat /\ buf.offset - n \in Nat
      BY <1>1, <2>2
    <3>3. /\ buf' \in [pos : Nat, offset : Nat, length : Nat \ {0}, capacity : Nat]
          /\ buf'.length = buf.length /\ buf'.capacity = buf.capacity
          /\ buf'.pos = buf.pos + n
          /\ buf'.offset = buf.offset - n
      BY ONLY <1>1, <3>1, <3>2
    <3>4. buf'.offset + n = buf.offset
      BY <1>1, <3>3
    <3>5. buf'.pos + buf'.offset <= buf.length
      BY <1>1, <3>3
    <3> QED
      BY ONLY <3>3, <3>4, <3>5, n \in Nat
  <2> QED
    BY <2>1, <2>2
<1>3. mem' = mem
  BY DEF buffer_drain
<1>4. TypeOK'
  BY ONLY <1>1, <1>2, <1>3 DEF TypeOK
<1>5. InBounds'
  BY ONLY <1>2 DEF InBounds, BUFFER_USED
<1>6. NoStrayByte'
  <2>1. \A i \in 1 .. buf.offset : mem[buf.pos + i] \in Byte
    BY DEF IInv, NoStrayByte
  <2>2. CASE buf'.offset = 0
    BY ONLY <2>2 DEF NoStrayByte
  <2>3. ASSUME NEW d \in Nat, buf'.pos = buf.pos + d, buf'.offset + d = buf.offset
        PROVE  NoStrayByte'
    <3>1. ASSUME NEW i \in 1 .. buf'.offset
          PROVE  i + d \in 1 .. buf.offset /\ buf'.pos + i = buf.pos + (i + d)
      BY ONLY <1>1, <1>2, <2>3, <3>1, SMTT(30)
    <3> QED
      BY ONLY <1>3, <2>1, <3>1 DEF NoStrayByte
  <2> QED
    BY <1>2, <2>2, <2>3
<1>7. CapacityRespected' /\ CapacityGiven'
  <2>1. CapacityRespected /\ CapacityGiven
    BY DEF IInv
  <2> QED
    BY ONLY <1>2, <2>1 DEF CapacityRespected, CapacityGiven
<1>8. \/ n >= buf.offset /\ buf' = [buf EXCEPT !.pos = 0, !.offset = 0]
      \/ n < buf.offset /\ buf' = [buf EXCEPT !.pos = @ + n, !.offset = @ - n]
  <2>1. buf' = IF n >= buf.offset
               THEN [buf EXCEPT !.pos = 0, !.offset = 0]
               ELSE [buf EXCEPT !.pos = @ + n, !.offset = @ - n]
    BY DEF buffer_drain
  <2>2. n >= buf.offset \/ n < buf.offset
    BY <1>1
  <2>3. ~(n >= buf.offset /\ n < buf.offset)
    BY <1>1
  <2> QED
    BY ONLY <2>1, <2>2, <2>3
<1>9. IInv'
  BY ONLY <1>4, <1>5, <1>6, <1>7 DEF IInv
<1>10. buf' \in Layout
  BY ONLY <1>2 DEF Layout
<1> QED
  BY ONLY <1>3, <1>8, <1>9, <1>10

(***************************************************************************)
(* Every step of a buffer appends a source to room enough for it, or       *)
(* drains.                                                                 *)
(***************************************************************************)
LEMMA StepsOfNext ==
  ASSUME IInv, Next
  PROVE  \/ \E n \in 0 .. MaxAdd : \E s \in Sources(n) :
              \E room \in MakeRoom(buf, AddNeed(buf, n)) :
                Fits(buf, n, room) /\ Extend(room, s)
         \/ \E n \in 1 .. MaxRead : \E k \in 0 .. n : \E s \in Sources(k) :
              \E room \in MakeRoom(buf, ReadNeed(buf, n)) :
                Fits(buf, n, room) /\ Extend(room, s)
         \/ \E n \in Nat : buffer_drain(n)
<1>1. buf.pos \in Nat /\ buf.offset \in Nat /\ buf.length \in Nat
  BY DEF IInv, TypeOK
<1>2. ASSUME NEW n \in 0 .. MaxAdd, NEW s \in Sources(n), buffer_add(s)
      PROVE  \E room \in MakeRoom(buf, AddNeed(buf, n)) :
               Fits(buf, n, room) /\ Extend(room, s)
  <2>1. Len(s) = n
    BY BufferAssumption, LayoutAssumption DEF Sources
  <2>2. PICK room \in MakeRoom(buf, AddNeed(buf, n)) : Extend(room, s)
    BY <1>2, <2>1 DEF buffer_add
  <2> QED
    BY <2>2, AddFits
<1>3. ASSUME NEW n \in 1 .. MaxRead, NEW k \in 0 .. n, NEW s \in Sources(k),
             buffer_read_fd(n, s)
      PROVE  \E room \in MakeRoom(buf, ReadNeed(buf, n)) :
               Fits(buf, n, room) /\ Extend(room, s)
  <2>1. PICK room \in MakeRoom(buf, ReadNeed(buf, n)) : Extend(room, s)
    BY <1>3 DEF buffer_read_fd
  <2> QED
    BY <2>1, ReadFits
<1>4. CASE buffer_reset
  <2>1. buffer_drain(buf.offset)
    BY <1>1, <1>4 DEF buffer_reset, buffer_drain
  <2> QED
    BY <1>1, <2>1
<1>5. ASSUME NEW n \in 0 .. MaxAdd, buffer_drain(n) PROVE \E m \in Nat : buffer_drain(m)
  <2>1. n \in Nat
    BY BufferAssumption, LayoutAssumption
  <2> QED
    BY <1>5, <2>1
<1>6. ASSUME NEW n \in 1 .. buf.offset, buffer_write_fd(n)
      PROVE  \E m \in Nat : buffer_drain(m)
  <2>1. n \in Nat
    BY <1>1
  <2> QED
    BY <1>6, <2>1 DEF buffer_write_fd
<1> QED
  BY <1>2, <1>3, <1>4, <1>5, <1>6 DEF Next

LEMMA NextIInv == IInv /\ [Next]_vars => IInv'
<1> SUFFICES ASSUME IInv, [Next]_vars PROVE IInv'
  OBVIOUS
<1>1. ASSUME NEW n \in 0 .. MaxAdd, NEW s \in Sources(n), NEW room,
             Fits(buf, n, room), Extend(room, s)
      PROVE  IInv'
  <2>1. n \in Nat /\ n \in 0 .. n
    BY BufferAssumption, LayoutAssumption
  <2> QED
    BY <1>1, <2>1, ExtendEffect
<1>2. ASSUME NEW n \in 1 .. MaxRead, NEW k \in 0 .. n, NEW s \in Sources(k), NEW room,
             Fits(buf, n, room), Extend(room, s)
      PROVE  IInv'
  <2>1. n \in Nat /\ k \in 0 .. n
    BY LayoutAssumption
  <2> QED
    BY <1>2, <2>1, ExtendEffect
<1>3. CASE UNCHANGED vars
  BY <1>3 DEF vars, IInv, TypeOK, InBounds, NoStrayByte, CapacityRespected, CapacityGiven, BUFFER_USED
<1>4. CASE Next
  BY <1>1, <1>2, <1>4, StepsOfNext, DrainEffect
<1> QED
  BY <1>3, <1>4

(***************************************************************************)
(* The layout and the memory keep their types, and the memory is always as *)
(* long as the layout says it is.                                          *)
(***************************************************************************)
THEOREM TypeCorrect == Spec => []TypeOK
<1>1. IInv => TypeOK
  BY DEF IInv
<1> QED
  BY InitIInv, NextIInv, <1>1, PTL DEF Spec

(***************************************************************************)
(* buffer_add, buffer_read_fd and buffer_expand never write past the end   *)
(* of the allocation: the unread bytes always lie inside it.               *)
(***************************************************************************)
THEOREM MemorySafe == Spec => []InBounds
<1>1. IInv => InBounds
  BY DEF IInv
<1> QED
  BY InitIInv, NextIInv, <1>1, PTL DEF Spec

(***************************************************************************)
(* Whatever grows, slides or is drained, a reader of the buffer sees only  *)
(* bytes that were put into it.                                            *)
(***************************************************************************)
THEOREM ContentSafe == Spec => []NoStrayByte
<1>1. IInv => NoStrayByte
  BY DEF IInv
<1> QED
  BY InitIInv, NextIInv, <1>1, PTL DEF Spec

(***************************************************************************)
(* Although it doubles the step, and not the size, until the step covers   *)
(* the need, buffer_expand never grows an allocation past the capacity.    *)
(***************************************************************************)
THEOREM CapacityKept == Spec => []CapacityRespected
<1>1. IInv => CapacityRespected
  BY DEF IInv
<1> QED
  BY InitIInv, NextIInv, <1>1, PTL DEF Spec

-------------------------------------------------------------------------------

(***************************************************************************)
(* When buffer_add is refused.  The hypothesis is about limited buffers    *)
(* only and excludes allocations of more than 2 GiB: there the space that  *)
(* is left, negated and stored in an int32_t, can come out as a need, and  *)
(* a buffer with gigabytes to spare would be asked to grow.                *)
(***************************************************************************)
WithinInt ==
  \A size \in Sizes : size[2] > 0 => size[1] <= IntHalf /\ size[2] <= IntHalf

LEMMA RefusedOnlyWhenFullLemma ==
  ASSUME WithinInt, IInv
  PROVE  RefusedOnlyWhenFull
<1> SUFFICES ASSUME NEW n \in 1 .. MaxAdd, MakeRoom(buf, AddNeed(buf, n)) = {}
             PROVE  /\ buf.capacity > 0
                    /\ buf.offset + n > buf.length
                    /\ 3 * (buf.offset + n) > buf.capacity
  BY DEF RefusedOnlyWhenFull
<1>1. /\ buf.pos \in Nat /\ buf.offset \in Nat /\ buf.length \in Nat \ {0}
      /\ buf.capacity \in Nat
      /\ buf.pos + buf.offset <= buf.length
  BY DEF IInv, TypeOK, InBounds, BUFFER_USED
<1>2. n \in Nat \ {0} /\ n < IntHalf /\ IntHalf \in Nat \ {0}
  BY BufferAssumption, LayoutAssumption
<1> DEFINE need == AddNeed(buf, n)
           d == buf.pos + buf.offset + n - buf.length
<1>3. d \in Int /\ d < IntHalf /\ d + buf.length >= 1
  BY <1>1, <1>2
<1>4. need = ToInt(d)
  BY DEF AddNeed, BUFFER_USED
<1>5. need \in Int /\ (d >= -IntHalf => need = d)
  BY <1>3, <1>4, NeedKept
<1>6. /\ need > buf.pos /\ buf.capacity > 0
      /\ \E e \in Nat : (e = buf.length \/ e < 2 * need) /\ buf.length + e > buf.capacity
  BY <1>1, <1>5, RefusalIs
<1> HIDE DEF need
<1>7. PICK e \in Nat : (e = buf.length \/ e < 2 * need) /\ buf.length + e > buf.capacity
  BY <1>6
<1>8. buf.length <= IntHalf
  <2>1. CapacityRespected
    BY DEF IInv
  <2>2. CASE buf.length <= buf.capacity
    <3>1. buf.capacity <= IntHalf
      BY <1>6 DEF WithinInt, IInv, CapacityGiven
    <3> QED
      BY <1>1, <1>2, <2>2, <3>1
  <2>3. CASE <<buf.length, buf.capacity>> \in Sizes
    BY <1>6, <2>3 DEF WithinInt
  <2> QED
    BY <1>6, <2>1, <2>2, <2>3 DEF CapacityRespected
<1>9. need = d
  BY <1>1, <1>2, <1>3, <1>5, <1>8
<1>10. buf.offset + n > buf.length
  BY <1>1, <1>2, <1>6, <1>9
<1>11. 3 * (buf.offset + n) > buf.capacity
  <2>1. CASE e = buf.length
    BY <1>1, <1>2, <1>6, <1>7, <1>10, <2>1
  <2>2. CASE e < 2 * need
    BY <1>1, <1>2, <1>6, <1>7, <1>9, <1>10, <2>2
  <2> QED
    BY <1>7, <2>1, <2>2
<1> QED
  BY <1>6, <1>10, <1>11

(***************************************************************************)
(* buffer_add fails only on a limited buffer whose unread bytes, with the  *)
(* new ones, exceed both the allocation and a third of the capacity.       *)
(***************************************************************************)
THEOREM RefusalJustified == ASSUME WithinInt PROVE Spec => []RefusedOnlyWhenFull
<1>1. IInv => RefusedOnlyWhenFull
  BY RefusedOnlyWhenFullLemma
<1> QED
  BY InitIInv, NextIInv, <1>1, PTL DEF Spec

-------------------------------------------------------------------------------

(***************************************************************************)
(* What the steps do to the unread bytes.                                  *)
(***************************************************************************)
LEMMA ContentsTyped == IInv => Contents \in Seq(Byte) /\ Len(Contents) = buf.offset
<1> SUFFICES ASSUME IInv PROVE Contents \in Seq(Byte) /\ Len(Contents) = buf.offset
  OBVIOUS
<1>1. buf.offset \in Nat /\ \A i \in 1 .. buf.offset : mem[buf.pos + i] \in Byte
  BY DEF IInv, TypeOK, NoStrayByte
<1> QED
  BY <1>1 DEF Contents

LEMMA ConcatIs ==
  ASSUME NEW S, NEW s \in Seq(S), NEW t \in Seq(S), NEW u \in Seq(S),
         Len(u) = Len(s) + Len(t),
         \A i \in 1 .. Len(s) : u[i] = s[i],
         \A i \in 1 .. Len(t) : u[Len(s) + i] = t[i]
  PROVE  s \o t = u
<1>1. s \o t \in Seq(S) /\ Len(s \o t) = Len(u)
  BY ConcatProperties
<1>2. ASSUME NEW i \in 1 .. Len(u)
      PROVE  (s \o t)[i] = u[i]
  <2>1. Len(s) \in Nat /\ Len(t) \in Nat /\ Len(u) \in Nat
    BY LenProperties
  <2>2. CASE i <= Len(s)
    BY <2>1, <2>2, ConcatProperties
  <2>3. CASE i > Len(s)
    <3>1. i - Len(s) \in 1 .. Len(t) /\ i = Len(s) + (i - Len(s))
      BY <2>1, <2>3
    <3>2. (s \o t)[i] = t[i - Len(s)]
      BY <2>1, <2>3, ConcatProperties
    <3> QED
      BY <3>1, <3>2
  <2> QED
    BY <2>1, <2>2, <2>3
<1> QED
  BY <1>1, <1>2, SeqEqual

LEMMA ExtendContents ==
  ASSUME IInv, NEW n \in Nat, NEW room, Fits(buf, n, room),
         NEW k \in 0 .. n, NEW s \in Sources(k), Extend(room, s)
  PROVE  /\ s \in Seq(Byte) /\ Len(s) = k
         /\ Contents' = Contents \o s
         /\ SubSeq(Contents', buf.offset + 1, buf'.offset) = s
<1>1. /\ IInv'
      /\ buf'.offset = buf.offset + k
      /\ \A i \in 1 .. buf.offset : mem'[buf'.pos + i] = mem[buf.pos + i]
      /\ \A i \in 1 .. k : mem'[buf'.pos + (buf.offset + i)] = s[i]
  BY ExtendEffect
<1>2. Contents \in Seq(Byte) /\ Len(Contents) = buf.offset
  BY ContentsTyped
<1>3. Contents' \in Seq(Byte) /\ Len(Contents') = buf.offset + k
  <2>1. (Contents \in Seq(Byte) /\ Len(Contents) = buf.offset)'
    BY <1>1, ContentsTyped, PTL
  <2> QED
    BY <1>1, <2>1
<1>4. s \in Seq(Byte) /\ Len(s) = k /\ k \in Nat /\ buf.offset \in Nat
  BY DEF Sources, IInv, TypeOK
<1>5. \A i \in 1 .. buf.offset : Contents'[i] = Contents[i]
  BY <1>1, <1>4 DEF Contents
<1>6. \A i \in 1 .. k : Contents'[buf.offset + i] = s[i]
  BY <1>1, <1>4 DEF Contents
<1> DEFINE new == Contents'
<1>7. new \in Seq(Byte) /\ Len(new) = Len(Contents) + Len(s)
  BY <1>2, <1>3, <1>4
<1>8. /\ \A i \in 1 .. Len(Contents) : new[i] = Contents[i]
      /\ \A i \in 1 .. Len(s) : new[Len(Contents) + i] = s[i]
  BY <1>2, <1>4, <1>5, <1>6
<1>9. buf'.offset = Len(new)
  BY <1>1, <1>3
<1> HIDE DEF new
<1>10. Contents \o s = new
  BY <1>2, <1>4, <1>7, <1>8, ConcatIs
<1>11. SubSeq(new, Len(Contents) + 1, Len(new)) = s
  <2> DEFINE t == SubSeq(new, Len(Contents) + 1, Len(new))
  <2>1. Len(Contents) \in Nat /\ Len(s) \in Nat /\ Len(new) \in Nat
    BY <1>2, <1>4, <1>7
  <2>2. t \in Seq(Byte) /\ Len(t) = Len(s) /\ \A i \in 1 .. Len(s) : t[i] = new[Len(Contents) + i]
    BY <1>7, <2>1
  <2> HIDE DEF t
  <2>3. t = s
    BY <1>4, <1>8, <2>2, SeqEqual
  <2> QED
    BY <2>3 DEF t
<1> QED
  BY <1>2, <1>4, <1>9, <1>10, <1>11 DEF new

LEMMA DrainContents ==
  ASSUME IInv, NEW n \in Nat, buffer_drain(n)
  PROVE  \/ n >= buf.offset /\ Contents' = << >>
         \/ n < buf.offset /\ Contents' = SubSeq(Contents, n + 1, Len(Contents))
<1>1. /\ IInv' /\ mem' = mem
      /\ \/ n >= buf.offset /\ buf' = [buf EXCEPT !.pos = 0, !.offset = 0]
         \/ n < buf.offset /\ buf' = [buf EXCEPT !.pos = @ + n, !.offset = @ - n]
  BY DrainEffect
<1>2. buf \in [pos : Nat, offset : Nat, length : Nat \ {0}, capacity : Nat]
  BY DEF IInv, TypeOK
<1>3. CASE n >= buf.offset /\ buf' = [buf EXCEPT !.pos = 0, !.offset = 0]
  <2>1. buf'.offset = 0
    BY ONLY <1>2, <1>3
  <2>2. Contents' = << >>
    BY ONLY <2>1 DEF Contents
  <2> QED
    BY <1>3, <2>2
<1>4. CASE n < buf.offset /\ buf' = [buf EXCEPT !.pos = @ + n, !.offset = @ - n]
  <2>1. buf'.offset = buf.offset - n /\ buf'.pos = buf.pos + n
    BY ONLY <1>2, <1>4
  <2>2. /\ Contents \in Seq(Byte) /\ Len(Contents) = buf.offset
        /\ buf.offset \in Nat /\ buf.pos \in Nat
    BY <1>2, ContentsTyped
  <2>3. Contents' \in Seq(Byte) /\ Len(Contents') = buf.offset - n
    <3>1. (Contents \in Seq(Byte) /\ Len(Contents) = buf.offset)'
      BY <1>1, ContentsTyped, PTL
    <3> QED
      BY <2>1, <3>1
  <2>4. ASSUME NEW i \in 1 .. (buf.offset - n)
        PROVE  Contents'[i] = Contents[n + i]
    <3>1. Contents'[i] = mem[(buf.pos + n) + i]
      BY <1>1, <2>1 DEF Contents
    <3>2. n + i \in 1 .. buf.offset /\ (buf.pos + n) + i = buf.pos + (n + i)
      BY <2>2
    <3>3. Contents[n + i] = mem[buf.pos + (n + i)]
      BY <3>2 DEF Contents
    <3> QED
      BY <3>1, <3>2, <3>3
  <2> DEFINE t == SubSeq(Contents, n + 1, Len(Contents))
             new == Contents'
  <2>5. t \in Seq(Byte) /\ Len(t) = buf.offset - n /\ \A i \in 1 .. (buf.offset - n) : t[i] = Contents[n + i]
    BY <1>4, <2>2
  <2>6. new \in Seq(Byte) /\ Len(new) = buf.offset - n /\ \A i \in 1 .. (buf.offset - n) : new[i] = Contents[n + i]
    BY <2>3, <2>4
  <2> HIDE DEF t, new
  <2>7. new = t
    BY <2>5, <2>6, SeqEqual
  <2> QED
    BY <1>4, <2>7 DEF t, new
<1> QED
  BY <1>1, <1>3, <1>4

-------------------------------------------------------------------------------

(***************************************************************************)
(* A buffer is a first-in first-out queue of bytes: through every growth,  *)
(* slide and drain its memory implements ByteQueue.tla.                    *)
(***************************************************************************)
THEOREM ImplementsQueue == Spec => IsAQueue
<1>1. Init => Queue!Init
  <2> SUFFICES ASSUME Init PROVE Queue!Init
    OBVIOUS
  <2>1. buf.offset = 0
    BY DEF Init, new_buffer
  <2> QED
    BY <2>1 DEF Queue!Init, Contents
<1>2. IInv /\ [Next]_vars => [Queue!Next]_Contents
  <2> SUFFICES ASSUME IInv, [Next]_vars PROVE [Queue!Next]_Contents
    OBVIOUS
  <2>1. /\ Contents \in Seq(Byte) /\ Len(Contents) = buf.offset /\ buf.offset \in Nat
    BY ContentsTyped DEF IInv, TypeOK
  <2>2. ASSUME NEW n \in Nat, NEW room, Fits(buf, n, room),
               NEW k \in 0 .. n, NEW s \in Sources(k), Extend(room, s)
        PROVE  [Queue!Next]_Contents
    <3>1. s \in Seq(Byte) /\ Len(s) = k /\ Contents' = Contents \o s
      BY <2>2, ExtendContents
    <3>2. CASE k = 0
      <4>1. Contents \o s = Contents
        BY <2>1, <3>1, <3>2, EmptySeq, ConcatEmptySeq
      <4> QED
        BY <3>1, <4>1
    <3>3. CASE k # 0
      <4>1. /\ Contents \o s \in Seq(Byte) /\ Len(Contents \o s) = Len(Contents) + k
            /\ \A i \in 1 .. Len(Contents) : (Contents \o s)[i] = Contents[i]
        BY <2>1, <3>1, ConcatProperties
      <4>2. Len(Contents) < Len(Contents) + k
        BY <2>1, <3>3
      <4> QED
        BY <3>1, <4>1, <4>2 DEF Queue!Next, Queue!Enqueue
    <3> QED
      BY <3>2, <3>3
  <2>3. ASSUME NEW n \in Nat, buffer_drain(n)
        PROVE  [Queue!Next]_Contents
    <3>1. CASE n >= buf.offset /\ Contents' = << >>
      <4>1. CASE buf.offset = 0
        BY <2>1, <3>1, <4>1, EmptySeq
      <4>2. CASE buf.offset # 0
        <5>1. Len(Contents) \in 1 .. Len(Contents)
          BY <2>1, <4>2
        <5>2. SubSeq(Contents, Len(Contents) + 1, Len(Contents)) = << >>
          BY <2>1
        <5> QED
          BY <3>1, <5>1, <5>2 DEF Queue!Next, Queue!Dequeue
      <4> QED
        BY <4>1, <4>2
    <3>2. CASE n < buf.offset /\ Contents' = SubSeq(Contents, n + 1, Len(Contents))
      <4>1. CASE n = 0
        <5>1. SubSeq(Contents, 1, Len(Contents)) = Contents
          BY <2>1
        <5> QED
          BY <3>2, <4>1, <5>1
      <4>2. CASE n # 0
        <5>1. n \in 1 .. Len(Contents)
          BY <2>1, <3>2, <4>2
        <5> QED
          BY <3>2, <5>1 DEF Queue!Next, Queue!Dequeue
      <4> QED
        BY <4>1, <4>2
    <3> QED
      BY <2>3, <3>1, <3>2, DrainContents
  <2>4. CASE UNCHANGED vars
    BY <2>4 DEF vars, Contents
  <2>5. ASSUME NEW n \in 0 .. MaxAdd, NEW s \in Sources(n), NEW room,
               Fits(buf, n, room), Extend(room, s)
        PROVE  [Queue!Next]_Contents
    <3>1. n \in Nat /\ n \in 0 .. n
      BY BufferAssumption, LayoutAssumption
    <3> QED
      BY <2>2, <2>5, <3>1
  <2>6. ASSUME NEW n \in 1 .. MaxRead, NEW k \in 0 .. n, NEW s \in Sources(k), NEW room,
               Fits(buf, n, room), Extend(room, s)
        PROVE  [Queue!Next]_Contents
    <3>1. n \in Nat /\ k \in 0 .. n
      BY LayoutAssumption
    <3> QED
      BY <2>2, <2>6, <3>1
  <2>7. CASE Next
    BY <2>3, <2>5, <2>6, <2>7, StepsOfNext
  <2> QED
    BY <2>4, <2>7
<1> QED
  BY InitIInv, NextIInv, <1>1, <1>2, PTL DEF Spec, IsAQueue, Queue!Spec

-------------------------------------------------------------------------------

(***************************************************************************)
(* The operators of BufferOps.tla, on a layout l and the bytes c.          *)
(***************************************************************************)
Valued(l, c) == [pos |-> l.pos, offset |-> l.offset, length |-> l.length,
                 capacity |-> l.capacity, bytes |-> c]

LEMMA SameExpansions ==
  ASSUME NEW length, NEW need
  PROVE  Ops!Expansions(length, need) = Expansions(length, need)
BY DEF Ops!Expansions, Ops!Doublings, Ops!IsPowerOfTwo,
       Expansions, Doublings, IsPowerOfTwo

LEMMA SameRoom ==
  ASSUME NEW l \in Layout, NEW c, NEW need \in Int, NEW room \in MakeRoom(l, need)
  PROVE  Valued(room, c) \in Ops!MakeRoom(Valued(l, c), need)
<1> USE DEF Layout
<1>1. CASE ~(need > 0)
  BY <1>1 DEF MakeRoom, Ops!MakeRoom
<1>2. CASE need > 0 /\ need <= l.pos
  <2>1. room = [l EXCEPT !.pos = 0]
    BY <1>2 DEF MakeRoom, buffer_expand
  <2>2. Ops!MakeRoom(Valued(l, c), need) = {[Valued(l, c) EXCEPT !.pos = 0]}
    BY <1>2 DEF Ops!MakeRoom, Ops!buffer_expand, Valued
  <2>3. Valued([l EXCEPT !.pos = 0], c) = [Valued(l, c) EXCEPT !.pos = 0]
    BY DEF Valued
  <2> QED
    BY <2>1, <2>2, <2>3
<1>3. CASE need > 0 /\ ~(need <= l.pos)
  <2>1. PICK e \in Expansions(l.length, need) :
          /\ room = [l EXCEPT !.length = @ + e]
          /\ l.capacity > 0 => l.length + e <= l.capacity
    BY <1>3 DEF MakeRoom, buffer_expand
  <2>2. Valued([l EXCEPT !.length = @ + e], c) = [Valued(l, c) EXCEPT !.length = @ + e]
    BY DEF Valued
  <2>3. e \in Ops!Expansions(l.length, need)
    BY SameExpansions
  <2>4. [Valued(l, c) EXCEPT !.length = @ + e] \in Ops!buffer_expand(Valued(l, c), need)
    <3>1. /\ Valued(l, c).pos = l.pos /\ Valued(l, c).length = l.length
          /\ Valued(l, c).capacity = l.capacity
      BY DEF Valued
    <3> HIDE DEF Valued
    <3> QED
      BY <1>3, <2>1, <2>3, <3>1 DEF Ops!buffer_expand
  <2> QED
    BY <1>3, <2>1, <2>2, <2>4 DEF Ops!MakeRoom
<1> QED
  BY <1>1, <1>2, <1>3

LEMMA SameNeeds ==
  /\ AsValue = Valued(buf, Contents)
  /\ \A n : Ops!AddNeed(AsValue, n) = AddNeed(buf, n)
  /\ \A n : Ops!ReadNeed(AsValue, n) = ReadNeed(buf, n)
BY DEF AsValue, Valued, Ops!AddNeed, Ops!ReadNeed, AddNeed, ReadNeed, Ops!ToInt, ToInt,
       Ops!BUFFER_USED, BUFFER_USED, Ops!BUFFER_AVAILABLE, BUFFER_AVAILABLE

LEMMA FieldsChanged ==
  ASSUME NEW p, NEW o, NEW l, NEW c, NEW b, NEW r,
         r = [pos |-> p, offset |-> o, length |-> l, capacity |-> c, bytes |-> b],
         NEW x, NEW y, NEW z, NEW q
  PROVE  /\ q = [r EXCEPT !.offset = y, !.bytes = z] =>
              q = [pos |-> p, offset |-> y, length |-> l, capacity |-> c, bytes |-> z]
         /\ q = [r EXCEPT !.pos = x, !.offset = y, !.bytes = z] =>
              q = [pos |-> x, offset |-> y, length |-> l, capacity |-> c, bytes |-> z]
<1>1. ASSUME q = [r EXCEPT !.offset = y, !.bytes = z]
      PROVE  q = [pos |-> p, offset |-> y, length |-> l, capacity |-> c, bytes |-> z]
  BY <1>1
<1>2. ASSUME q = [r EXCEPT !.pos = x, !.offset = y, !.bytes = z]
      PROVE  q = [pos |-> x, offset |-> y, length |-> l, capacity |-> c, bytes |-> z]
  BY <1>2
<1> QED
  BY <1>1, <1>2

LEMMA PushedIs ==
  ASSUME NEW l, NEW c, NEW s
  PROVE  Ops!Pushed(Valued(l, c), s)
           = [pos |-> l.pos, offset |-> l.offset + Len(s), length |-> l.length,
              capacity |-> l.capacity, bytes |-> c \o s]
<1> DEFINE r == Valued(l, c)
<1>1. /\ r = [pos |-> l.pos, offset |-> l.offset, length |-> l.length,
              capacity |-> l.capacity, bytes |-> c]
      /\ r.offset = l.offset /\ r.bytes = c
  BY DEF Valued
<1> HIDE DEF r
<1>2. Ops!Pushed(r, s) = [r EXCEPT !.offset = l.offset + Len(s), !.bytes = c \o s]
  BY <1>1 DEF Ops!Pushed
<1>3. Ops!Pushed(r, s)
        = [pos |-> l.pos, offset |-> l.offset + Len(s), length |-> l.length,
           capacity |-> l.capacity, bytes |-> c \o s]
  BY <1>1, <1>2, FieldsChanged, Zenon
<1> QED
  BY <1>3 DEF r

LEMMA DrainedIs ==
  ASSUME NEW l, NEW c, NEW n
  PROVE  /\ n >= l.offset =>
              Ops!Drained(Valued(l, c), n)
                = [pos |-> 0, offset |-> 0, length |-> l.length,
                   capacity |-> l.capacity, bytes |-> << >>]
         /\ ~(n >= l.offset) =>
              Ops!Drained(Valued(l, c), n)
                = [pos |-> l.pos + n, offset |-> l.offset - n, length |-> l.length,
                   capacity |-> l.capacity, bytes |-> SubSeq(c, n + 1, Len(c))]
<1> DEFINE r == Valued(l, c)
<1>1. /\ r = [pos |-> l.pos, offset |-> l.offset, length |-> l.length,
              capacity |-> l.capacity, bytes |-> c]
      /\ r.pos = l.pos /\ r.offset = l.offset /\ r.bytes = c
  BY DEF Valued
<1> HIDE DEF r
<1>2. ASSUME n >= l.offset
      PROVE  Ops!Drained(r, n) = [r EXCEPT !.pos = 0, !.offset = 0, !.bytes = << >>]
  BY <1>1, <1>2 DEF Ops!Drained
<1>3. ASSUME ~(n >= l.offset)
      PROVE  Ops!Drained(r, n) = [r EXCEPT !.pos = l.pos + n, !.offset = l.offset - n,
                                           !.bytes = SubSeq(c, n + 1, Len(c))]
  BY <1>1, <1>3 DEF Ops!Drained
<1>4. /\ n >= l.offset =>
           Ops!Drained(r, n) = [pos |-> 0, offset |-> 0, length |-> l.length,
                                capacity |-> l.capacity, bytes |-> << >>]
      /\ ~(n >= l.offset) =>
           Ops!Drained(r, n)
             = [pos |-> l.pos + n, offset |-> l.offset - n, length |-> l.length,
                capacity |-> l.capacity, bytes |-> SubSeq(c, n + 1, Len(c))]
  BY <1>1, <1>2, <1>3, FieldsChanged, Zenon
<1> QED
  BY <1>4 DEF r

LEMMA SamePush ==
  ASSUME IInv, NEW n \in Nat, NEW room, Fits(buf, n, room),
         NEW k \in 0 .. n, NEW s \in Sources(k), Extend(room, s)
  PROVE  AsValue' = Ops!Pushed(Valued(room, Contents), s)
<1>1. /\ room \in [pos : Nat, offset : Nat, length : Nat \ {0}, capacity : Nat]
      /\ buf' = [room EXCEPT !.offset = @ + k]
      /\ Len(s) = k
      /\ Contents' = Contents \o s
  <2>1. room \in [pos : Nat, offset : Nat, length : Nat \ {0}, capacity : Nat]
    BY DEF Fits, Layout
  <2>2. buf' = [room EXCEPT !.offset = @ + k]
    BY ExtendEffect
  <2>3. Len(s) = k /\ Contents' = Contents \o s
    BY ExtendContents
  <2> QED
    BY ONLY <2>1, <2>2, <2>3
<1>2. AsValue' = [pos |-> buf'.pos, offset |-> buf'.offset, length |-> buf'.length,
                  capacity |-> buf'.capacity, bytes |-> Contents']
  BY DEF AsValue
<1>3. /\ buf'.pos = room.pos /\ buf'.offset = room.offset + k
      /\ buf'.length = room.length /\ buf'.capacity = room.capacity
  BY ONLY <1>1
<1>4. AsValue' = [pos |-> room.pos, offset |-> room.offset + k, length |-> room.length,
                  capacity |-> room.capacity, bytes |-> Contents \o s]
  BY ONLY <1>1, <1>2, <1>3
<1>5. Ops!Pushed(Valued(room, Contents), s)
        = [pos |-> room.pos, offset |-> room.offset + k, length |-> room.length,
           capacity |-> room.capacity, bytes |-> Contents \o s]
  <2>1. Ops!Pushed(Valued(room, Contents), s)
          = [pos |-> room.pos, offset |-> room.offset + Len(s), length |-> room.length,
             capacity |-> room.capacity, bytes |-> Contents \o s]
    BY PushedIs, Zenon
  <2>2. Len(s) = k
    BY <1>1
  <2> QED
    BY ONLY <2>1, <2>2
<1> QED
  BY ONLY <1>4, <1>5

(***************************************************************************)
(* Memory, with all that realloc and memmove do to it, changes as the      *)
(* operators the connection modules use say it does.                       *)
(***************************************************************************)
THEOREM AgreesWithOps == Spec => StepsAgreeWithOps
<1> DEFINE new == SubSeq(Contents', buf.offset + 1, buf'.offset)
           Agrees == \/ \E n \in 0 .. buf.offset : AsValue' = Ops!Drained(AsValue, n)
                     \/ AsValue' \in Ops!Added(AsValue, new)
                     \/ \E n \in 1 .. MaxRead : AsValue' \in Ops!Received(AsValue, n, new)
<1>1. IInv /\ [Next]_vars => [Agrees]_vars
  <2> SUFFICES ASSUME IInv, Next PROVE Agrees
    OBVIOUS
  <2>1. buf \in Layout /\ IntHalf \in Nat \ {0} /\ BUFFER_USED(buf) <= buf.length
    BY LayoutAssumption DEF IInv, TypeOK, InBounds, Layout
  <2>2. ASSUME NEW n \in 0 .. MaxAdd, NEW s \in Sources(n),
               NEW room \in MakeRoom(buf, AddNeed(buf, n)),
               Fits(buf, n, room), Extend(room, s)
        PROVE  Agrees
    <3>1. n \in Nat /\ n \in 0 .. n
      BY BufferAssumption, LayoutAssumption
    <3>2. Len(s) = n /\ new = s
      BY <2>2, <3>1, ExtendContents
    <3>3. AddNeed(buf, n) \in Int
      BY <2>1, <3>1 DEF AddNeed, BUFFER_USED, ToInt, Layout
    <3>4. Valued(room, Contents) \in Ops!MakeRoom(AsValue, Ops!AddNeed(AsValue, n))
      BY <2>1, <2>2, <3>3, SameNeeds, SameRoom
    <3>5. AsValue' = Ops!Pushed(Valued(room, Contents), s)
      BY <2>2, <3>1, SamePush
    <3> HIDE DEF new
    <3> QED
      BY <3>2, <3>4, <3>5 DEF Ops!Added
  <2>3. ASSUME NEW n \in 1 .. MaxRead, NEW k \in 0 .. n, NEW s \in Sources(k),
               NEW room \in MakeRoom(buf, ReadNeed(buf, n)),
               Fits(buf, n, room), Extend(room, s)
        PROVE  Agrees
    <3>1. n \in Nat /\ k \in 0 .. n
      BY LayoutAssumption
    <3>2. new = s
      BY <2>3, <3>1, ExtendContents
    <3>3. ReadNeed(buf, n) \in Int
      BY <2>1, <3>1 DEF ReadNeed, BUFFER_AVAILABLE, BUFFER_USED, ToInt, Layout
    <3>4. Valued(room, Contents) \in Ops!MakeRoom(AsValue, Ops!ReadNeed(AsValue, n))
      BY <2>1, <2>3, <3>3, SameNeeds, SameRoom
    <3>5. AsValue' = Ops!Pushed(Valued(room, Contents), s)
      BY <2>3, <3>1, SamePush
    <3> HIDE DEF new
    <3> QED
      BY <3>2, <3>4, <3>5 DEF Ops!Received
  <2>4. ASSUME NEW n \in Nat, buffer_drain(n)
        PROVE  Agrees
    <3>1. /\ buf \in [pos : Nat, offset : Nat, length : Nat \ {0}, capacity : Nat]
          /\ AsValue' = [pos |-> buf'.pos, offset |-> buf'.offset, length |-> buf'.length,
                         capacity |-> buf'.capacity, bytes |-> Contents']
          /\ AsValue = Valued(buf, Contents)
      BY <2>1 DEF Layout, AsValue, Valued
    <3>2. CASE n >= buf.offset
      <4>1. buf' = [buf EXCEPT !.pos = 0, !.offset = 0] /\ Contents' = << >>
        <5>1. ~(n < buf.offset)
          BY <3>1, <3>2
        <5>2. buf' = [buf EXCEPT !.pos = 0, !.offset = 0]
          BY <2>4, <5>1, DrainEffect
        <5>3. Contents' = << >>
          BY <2>4, <5>1, DrainContents
        <5> QED
          BY <5>2, <5>3
      <4>2. /\ buf'.pos = 0 /\ buf'.offset = 0
            /\ buf'.length = buf.length /\ buf'.capacity = buf.capacity
        BY ONLY <3>1, <4>1
      <4>3. AsValue' = [pos |-> 0, offset |-> 0, length |-> buf.length,
                        capacity |-> buf.capacity, bytes |-> << >>]
        BY ONLY <3>1, <4>1, <4>2
      <4>4. Ops!Drained(AsValue, buf.offset)
              = [pos |-> 0, offset |-> 0, length |-> buf.length,
                 capacity |-> buf.capacity, bytes |-> << >>]
        <5>1. buf.offset >= buf.offset
          BY <3>1
        <5> QED
          BY <3>1, <5>1, DrainedIs, Zenon
      <4>5. buf.offset \in 0 .. buf.offset
        BY <3>1
      <4> QED
        BY <4>3, <4>4, <4>5
    <3>3. CASE ~(n >= buf.offset)
      <4>1. /\ buf' = [buf EXCEPT !.pos = @ + n, !.offset = @ - n]
            /\ Contents' = SubSeq(Contents, n + 1, Len(Contents))
        BY <2>1, <2>4, <3>3, DrainEffect, DrainContents DEF Layout
      <4>2. /\ buf'.pos = buf.pos + n /\ buf'.offset = buf.offset - n
            /\ buf'.length = buf.length /\ buf'.capacity = buf.capacity
        BY ONLY <3>1, <4>1
      <4>3. AsValue' = [pos |-> buf.pos + n, offset |-> buf.offset - n, length |-> buf.length,
                        capacity |-> buf.capacity,
                        bytes |-> SubSeq(Contents, n + 1, Len(Contents))]
        BY ONLY <3>1, <4>1, <4>2
      <4>4. Ops!Drained(AsValue, n)
              = [pos |-> buf.pos + n, offset |-> buf.offset - n, length |-> buf.length,
                 capacity |-> buf.capacity,
                 bytes |-> SubSeq(Contents, n + 1, Len(Contents))]
        BY <3>1, <3>3, DrainedIs, Zenon
      <4>5. n \in 0 .. buf.offset
        BY <3>1, <3>3
      <4> QED
        BY <4>3, <4>4, <4>5
    <3> QED
      BY <3>2, <3>3
  <2> HIDE DEF Agrees
  <2> QED
    BY <2>2, <2>3, <2>4, StepsOfNext
<1> QED
  BY InitIInv, NextIInv, <1>1, PTL DEF Spec, StepsAgreeWithOps
===============================================================================

-------------------------------- MODULE Buffer --------------------------------
(***************************************************************************)
(* struct Buffer of buffer.c: a growable region of memory of which the     *)
(* window data .. data + offset holds the unread bytes.  Memory outside    *)
(* the window keeps whatever was last written there, as it does in C, so   *)
(* that a wrong offset shows up as a wrong byte.                           *)
(***************************************************************************)
EXTENDS BufferLayout, Sequences

CONSTANTS
  Byte,         \* the values a byte of the stream may take
  Junk,         \* what malloc and realloc leave in fresh memory
  Sizes,        \* the <<length, capacity>> new_buffer is called with, where
                \* capacity is 0 for no limit
  MaxAdd,       \* bound: the longest source buffer_add is called with
  MaxLength     \* bound: the largest allocation explored

ASSUME BufferAssumption ==
  /\ Junk \notin Byte
  /\ Sizes \subseteq (Nat \ {0}) \X Nat
  /\ MaxAdd \in 1 .. (IntHalf - 1)
  /\ MaxLength \in Nat

VARIABLES
  buf,  \* the layout: pos (data - orig), offset, length, capacity
  mem   \* the allocated bytes, orig[0] being mem[1]

vars == <<buf, mem>>

\* The unread bytes, which is all a user of the buffer can see of it.
Contents == [i \in 1 .. buf.offset |-> mem[buf.pos + i]]

new_buffer(length, capacity) ==
  /\ buf = [pos |-> 0, offset |-> 0, length |-> length, capacity |-> capacity]
  /\ mem = [i \in 1 .. length |-> Junk]

Init == \E size \in Sizes : new_buffer(size[1], size[2])

-------------------------------------------------------------------------------

\* Faults: malloc for realloc; data reset with no memmove.
Relocated_fresh(room) ==
  [i \in 1 .. room.length |-> IF room.length # buf.length THEN Junk ELSE mem[i]]

Relocated_unmoved(room) ==
  [i \in 1 .. room.length |-> IF i <= buf.length THEN mem[i] ELSE Junk]

\* The memory once buffer_expand has turned layout buf into room: realloc
\* keeps the old bytes where they were, memmove slides the window to the
\* front.
Relocated(room) ==
  IF room.length # buf.length
  THEN [i \in 1 .. room.length |-> IF i <= buf.length THEN mem[i] ELSE Junk]
  ELSE [i \in 1 .. buf.length |->
          IF i <= buf.offset /\ room.pos # buf.pos THEN mem[buf.pos + i] ELSE mem[i]]

\* Copy s behind the unread bytes of layout room.
Extend(room, s) ==
  /\ buf' = [room EXCEPT !.offset = @ + Len(s)]
  /\ mem' = LET end == room.pos + room.offset
            IN  [i \in 1 .. room.length |->
                   IF i > end /\ i <= end + Len(s) THEN s[i - end]
                   ELSE Relocated(room)[i]]

\* buffer_add returns 0 and the buffer is as it was when it lacks room and
\* buffer_expand gives none.
buffer_add(s) ==
  \E room \in MakeRoom(buf, AddNeed(buf, Len(s))) :
    /\ room.length <= MaxLength
    /\ Extend(room, s)

\* One call of buffer_read_fd: n is what FIONREAD said, cut to MaxRead (or
\* MaxRead if the ioctl failed), and s is what recv then delivered: nothing, if
\* it failed, but the room has been made by then.
buffer_read_fd(n, s) ==
  \E room \in MakeRoom(buf, ReadNeed(buf, n)) :
    /\ room.length <= MaxLength
    /\ Extend(room, s)

buffer_reset ==
  /\ buf' = [buf EXCEPT !.pos = 0, !.offset = 0]
  /\ UNCHANGED mem

\* Faults: no test of n; a test that is off by one.
buffer_drain_unchecked(n) ==
  /\ buf' = [buf EXCEPT !.pos = @ + n, !.offset = @ - n]
  /\ UNCHANGED mem

buffer_drain_strict(n) ==
  /\ buf' = IF n > buf.offset
            THEN [buf EXCEPT !.pos = 0, !.offset = 0]
            ELSE [buf EXCEPT !.pos = @ + n, !.offset = @ - n]
  /\ UNCHANGED mem

buffer_drain(n) ==
  /\ buf' = IF n >= buf.offset
            THEN [buf EXCEPT !.pos = 0, !.offset = 0]
            ELSE [buf EXCEPT !.pos = @ + n, !.offset = @ - n]
  /\ UNCHANGED mem

\* send took the first n unread bytes; when it takes none the buffer stays.
buffer_write_fd(n) == buffer_drain(n)

Sources(n) == [1 .. n -> Byte]

Next ==
  \/ \E n \in 0 .. MaxAdd : \E s \in Sources(n) : buffer_add(s)
  \/ \E n \in 1 .. MaxRead : \E k \in 0 .. n : \E s \in Sources(k) : buffer_read_fd(n, s)
  \/ buffer_reset
  \/ \E n \in 0 .. MaxAdd : buffer_drain(n)
  \/ \E n \in 1 .. buf.offset : buffer_write_fd(n)

Spec == Init /\ [][Next]_vars

-------------------------------------------------------------------------------

\* The fields have their types, and there is memory for what length says.
TypeOK ==
  /\ buf \in [pos : Nat, offset : Nat, length : Nat \ {0}, capacity : Nat]
  /\ mem \in [1 .. buf.length -> Byte \cup {Junk}]

\* Every unread byte lies inside the allocation: memcpy, recv and memmove,
\* whose lengths buffer_add, buffer_read_fd and buffer_expand work out
\* separately from the allocation, never touch memory beyond it.
InBounds == BUFFER_USED(buf) <= buf.length

\* buffer_expand grows the allocation past what new_buffer asked for only up
\* to the configured capacity, although it grows by doubling.
CapacityRespected ==
  buf.capacity > 0 =>
    buf.length <= buf.capacity \/ <<buf.length, buf.capacity>> \in Sizes

\* A user reads only bytes that were written: neither realloc's fresh memory
\* nor a byte left over from before a memmove is ever part of the contents.
NoStrayByte == \A i \in 1 .. buf.offset : mem[buf.pos + i] \in Byte

\* When may buffer_add fail?  Never on an unlimited buffer; otherwise only
\* when the unread bytes and the new ones together exceed both what is
\* allocated and a third of the capacity.  The growth rule ignores the free
\* space in front of the window and doubles the step rather than the size,
\* so the bound is a third of the capacity and not the capacity.
RefusedOnlyWhenFull ==
  \A n \in 1 .. MaxAdd :
    MakeRoom(buf, AddNeed(buf, n)) = {} =>
      /\ buf.capacity > 0
      /\ buf.offset + n > buf.length
      /\ 3 * (buf.offset + n) > buf.capacity

\* The buffer is a first-in first-out queue of bytes, through every growth,
\* re-alignment and drain (the contract of ByteQueue.tla).
Queue == INSTANCE ByteQueue WITH queue <- Contents

IsAQueue == Queue!Spec

\* The buffer as the value BufferOps.tla works on.
Ops == INSTANCE BufferOps
AsValue == [pos |-> buf.pos, offset |-> buf.offset, length |-> buf.length,
            capacity |-> buf.capacity, bytes |-> Contents]

\* Memory, with everything realloc and memmove do to it, changes as the
\* operators of BufferOps.tla say: the connection modules may use them.
StepsAgreeWithOps ==
  [][ \/ \E n \in 0 .. buf.offset : AsValue' = Ops!Drained(AsValue, n)
      \/ LET new == SubSeq(Contents', buf.offset + 1, buf'.offset)
         IN  \/ AsValue' \in Ops!Added(AsValue, new)
             \/ \E n \in 1 .. MaxRead : AsValue' \in Ops!Received(AsValue, n, new)
    ]_vars
===============================================================================

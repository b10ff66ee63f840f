------------------------------- MODULE BufferOps -------------------------------
(***************************************************************************)
(* struct Buffer as a value, for the modules whose state holds buffers: a  *)
(* layout together with the sequence of its unread bytes, the memory       *)
(* around them left out.  Buffer.tla shows that this is how the memory     *)
(* behaves (StepsAgreeWithOps).                                            *)
(*                                                                         *)
(* An operation that may be refused is the set of its possible results,    *)
(* empty when it is refused.                                               *)
(***************************************************************************)
EXTENDS BufferLayout, Sequences

new_buffer(length, capacity) ==
  [pos |-> 0, offset |-> 0, length |-> length, capacity |-> capacity, bytes |-> << >>]

BUFFER_HAS_DATA(b) == b.offset

\* Fault: the bytes are copied and not counted.
Pushed_uncounted(room, s) == [room EXCEPT !.bytes = @ \o s]

Pushed(room, s) == [room EXCEPT !.offset = @ + Len(s), !.bytes = @ \o s]

\* buffer_add(buf, s, Len(s))
Added(b, s) == { Pushed(room, s) : room \in MakeRoom(b, AddNeed(b, Len(s))) }

\* buffer_read_fd when it asks the socket for n bytes and recv delivers s
Received(b, n, s) == { Pushed(room, s) : room \in MakeRoom(b, ReadNeed(b, n)) }

\* buffer_drain(buf, n); buffer_reset(buf) when n covers everything
Drained(b, n) ==
  IF n >= b.offset
  THEN [b EXCEPT !.pos = 0, !.offset = 0, !.bytes = << >>]
  ELSE [b EXCEPT !.pos = @ + n, !.offset = @ - n, !.bytes = SubSeq(@, n + 1, Len(@))]
===============================================================================

----------------------------- MODULE BufferLayout -----------------------------
(***************************************************************************)
(* The arithmetic of struct Buffer (buffer.c, evbuffsock.h), free of the   *)
(* bytes it holds.  A layout is a record with at least the fields          *)
(*                                                                         *)
(*   pos       data - orig, where the unread bytes start                   *)
(*   offset    how many unread bytes there are                             *)
(*   length    how many bytes are allocated                                *)
(*   capacity  the most that may be allocated, 0 for no limit              *)
(*                                                                         *)
(* Buffer.tla adds the allocated memory to it, BufferOps.tla the sequence  *)
(* of unread bytes.                                                        *)
(***************************************************************************)
EXTENDS Integers

CONSTANTS
  IntHalf,  \* 2^31: an int32_t or int ranges over -IntHalf .. IntHalf - 1
  MaxRead   \* 4096: the most buffer_read_fd asks of the socket at once

ASSUME LayoutAssumption ==
  /\ IntHalf \in Nat \ {0}
  /\ MaxRead \in 1 .. (IntHalf - 1)

BUFFER_USED(b)      == b.pos + b.offset
BUFFER_AVAILABLE(b) == b.length - BUFFER_USED(b)

\* The value a size_t has once it is stored in an int32_t (or an int).
ToInt(n) == ((n + IntHalf) % (2 * IntHalf)) - IntHalf

\* A natural number with no odd divisor but 1.
IsPowerOfTwo(n) == \A q \in 2 .. n : n % q = 0 => q % 2 = 0

\* What `while (expand < need) expand = expand * 2` leaves in expand when it
\* starts from length: the first of length, 2*length, 4*length... to reach
\* need.  The set has exactly one element.
Doublings(length, need) ==
  { d \in 1 .. 2 * need :
      /\ length * d >= need
      /\ d = 1 \/ length * d < 2 * need
      /\ IsPowerOfTwo(d) }

Expansions(length, need) == { length * d : d \in Doublings(length, need) }

\* Faults the properties are tried against: the capacity limits the growth
\* instead of the size; room that is just enough in front is not used.
buffer_expand_by_capacity(b, need) ==
  IF need <= b.pos
  THEN {[b EXCEPT !.pos = 0]}
  ELSE { [b EXCEPT !.length = @ + e] :
           e \in { x \in Expansions(b.length, need) : b.capacity > 0 => x <= b.capacity } }

buffer_expand_strict(b, need) ==
  IF need < b.pos
  THEN {[b EXCEPT !.pos = 0]}
  ELSE { [b EXCEPT !.length = @ + e] :
           e \in { x \in Expansions(b.length, need) :
                     b.capacity > 0 => b.length + x <= b.capacity } }

\* The layouts buffer_expand may leave when it returns 1: the unread bytes
\* moved to the front if that makes enough room, a larger allocation if not.
\* It returns 0, and changes nothing, exactly when there is none.
buffer_expand(b, need) ==
  IF need <= b.pos
  THEN {[b EXCEPT !.pos = 0]}
  ELSE { [b EXCEPT !.length = @ + e] :
           e \in { x \in Expansions(b.length, need) :
                     b.capacity > 0 => b.length + x <= b.capacity } }

\* `if (need > 0 && !buffer_expand(buf, need)) return ...`
MakeRoom(b, need) == IF need > 0 THEN buffer_expand(b, need) ELSE {b}

\* Faults: the drained bytes in front are forgotten; the socket is always
\* given room for MaxRead bytes, whatever FIONREAD says.
AddNeed_from_front(b, n) == ToInt(b.offset + n - b.length)
ReadNeed_of_most(b, n)   == ToInt(MaxRead - BUFFER_AVAILABLE(b))

\* The room buffer_add(buf, source, n) and buffer_read_fd work out they lack.
AddNeed(b, n)  == ToInt(BUFFER_USED(b) + n - b.length)
ReadNeed(b, n) == ToInt(n - BUFFER_AVAILABLE(b))
===============================================================================

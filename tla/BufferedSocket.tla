---------------------------- MODULE BufferedSocket ----------------------------
(***************************************************************************)
(* struct BufferedSocket of buffered_socket.c as a value: a TCP socket, a  *)
(* buffer for each direction and the libev watchers that tend them.        *)
(*                                                                         *)
(*   state     "INIT", "CONNECTING", "CONNECTED", "DISCONNECTED"           *)
(*   fd        does fd name an open descriptor (FALSE for -1)              *)
(*   once      is the ev_once of buffered_socket_connect outstanding       *)
(*   read_ev, write_ev, timer   is the watcher started (timer stands for   *)
(*             read_bytes_timer_ev, which fires once, as soon as it can)   *)
(*   callback  read_bytes_callback, NULL when nobody waits for bytes       *)
(*   n         read_bytes_n                                                *)
(*   read_buf, write_buf   values of BufferOps.tla                         *)
(*                                                                         *)
(* An operator is what a function does to the socket.  The callbacks of    *)
(* the owner, called last in each, are the business of the owner's module. *)
(***************************************************************************)
EXTENDS BufferOps

CONSTANT NULL

new_buffered_socket(read_len, read_capacity, write_len, write_capacity) ==
  [state |-> "INIT", fd |-> FALSE, once |-> FALSE,
   read_ev |-> FALSE, write_ev |-> FALSE, timer |-> FALSE,
   callback |-> NULL, n |-> 0,
   read_buf |-> new_buffer(read_len, read_capacity),
   write_buf |-> new_buffer(write_len, write_capacity)]

\* The asynchronous connect has begun: buffered_socket_connect returns fd.
\* When any of its system calls fails it returns 0 and starts nothing; fd may
\* then hold the number of a descriptor it closed again, which is not modelled:
\* libnsq makes no use of such a socket any more.
connect_started(bs) ==
  [bs EXCEPT !.fd = TRUE, !.once = TRUE, !.state = "CONNECTING"]

\* buffered_socket_connect_cb found no error, up to the connect_callback.
connect_completed(bs) == [bs EXCEPT !.state = "CONNECTED", !.read_ev = TRUE]

\* Faults: the read_bytes timer is left running; fd keeps its number.
close_leaving_timer(bs) ==
  IF bs.state = "DISCONNECTED"
  THEN bs
  ELSE [bs EXCEPT !.fd = FALSE,
                  !.read_ev  = bs.state = "CONNECTING" /\ @,
                  !.write_ev = bs.state = "CONNECTING" /\ @,
                  !.state = "DISCONNECTED"]

close_keeping_fd(bs) ==
  IF bs.state = "DISCONNECTED"
  THEN bs
  ELSE [bs EXCEPT !.read_ev  = bs.state = "CONNECTING" /\ @,
                  !.write_ev = bs.state = "CONNECTING" /\ @,
                  !.state = "DISCONNECTED",
                  !.timer = FALSE]

\* The ev_once watcher cannot be stopped, and is not.
buffered_socket_close(bs) ==
  IF bs.state = "DISCONNECTED"
  THEN bs
  ELSE [bs EXCEPT !.fd = FALSE,
                  !.read_ev  = bs.state = "CONNECTING" /\ @,
                  !.write_ev = bs.state = "CONNECTING" /\ @,
                  !.state = "DISCONNECTED",
                  !.timer = FALSE]

\* Fault: what fits is added.
AddedOrNot_in_part(b, s) ==
  IF Added(b, s) = {}
  THEN LET fits == b.length - b.offset
       IN  CHOOSE w \in Added(b, SubSeq(s, 1, fits)) : TRUE
  ELSE CHOOSE w \in Added(b, s) : TRUE

\* What buffer_add, its result ignored, leaves in a buffer.
AddedOrNot(b, s) == IF Added(b, s) = {} THEN b ELSE CHOOSE w \in Added(b, s) : TRUE

buffered_socket_write(bs, s) ==
  IF bs.state # "CONNECTED"
  THEN bs
  ELSE [bs EXCEPT !.write_buf = AddedOrNot(@, s), !.write_ev = TRUE]

\* Fault: only buffered_socket_read_cb looks whether the bytes are there.
read_bytes_unlooked(bs, n, callback) == [bs EXCEPT !.callback = callback, !.n = n]

\* Call callback once n bytes are there; the call is made from the timer.
buffered_socket_read_bytes(bs, n, callback) ==
  [bs EXCEPT !.callback = callback, !.n = n,
             !.timer = @ \/ BUFFER_HAS_DATA(bs.read_buf) >= n]

\* buffered_socket_read_bytes_cb up to its call of the callback; libev has
\* stopped the timer, which does not repeat.
read_bytes_taken(bs) == [bs EXCEPT !.callback = NULL, !.n = 0, !.timer = FALSE]

\* Fault: a comparison that is off by one.
read_arrived_strict(bs, room) ==
  [bs EXCEPT !.read_buf = room,
             !.timer = @ \/ (bs.n # 0 /\ BUFFER_HAS_DATA(room) > bs.n)]

\* The end of buffered_socket_read_cb, room being the buffer read into.
read_arrived(bs, room) ==
  [bs EXCEPT !.read_buf = room,
             !.timer = @ \/ (bs.n # 0 /\ BUFFER_HAS_DATA(room) >= bs.n)]

\* Faults: the watcher is never stopped; it always is; a partial send empties
\* the buffer.
write_progressed_on(bs, k) ==
  [bs EXCEPT !.write_buf = IF k > 0 THEN Drained(@, k) ELSE @]

write_progressed_once(bs, k) ==
  [bs EXCEPT !.write_buf = IF k > 0 THEN Drained(@, k) ELSE @, !.write_ev = FALSE]

write_progressed_whole(bs, k) ==
  [bs EXCEPT !.write_buf = Drained(@, @.offset), !.write_ev = FALSE]

\* buffered_socket_write_cb up to its error test: k bytes were sent.
write_progressed(bs, k) ==
  LET left == IF k > 0 THEN Drained(bs.write_buf, k) ELSE bs.write_buf
  IN  [bs EXCEPT !.write_buf = left, !.write_ev = @ /\ BUFFER_HAS_DATA(left) # 0]
===============================================================================

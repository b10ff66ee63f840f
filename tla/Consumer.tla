------------------------------- MODULE Consumer -------------------------------
(***************************************************************************)
(* Consuming a channel end to end: nsqd with the messages of the channel,  *)
(* readers of libnsq connected to it, the message handler of test.c, and   *)
(* what happens to a message when a connection breaks, when nsqd gives up  *)
(* waiting for the answer, and when the handler fails.                     *)
(*                                                                         *)
(* A connection is a link with a sequence of messages on their way to the  *)
(* client (in the network, the kernel's queue or read_buf) and one of      *)
(* commands on their way to nsqd (write_buf and beyond), which are         *)
(* delivered in order and whole: NSQDConnection.tla shows that.  The two   *)
(* ends learn at different times that a link is over.                      *)
(***************************************************************************)
EXTENDS Integers, Sequences, FiniteSets, SequencesExt

CONSTANTS
  Message,       \* the messages of the channel
  Link,          \* links, used again once both ends are done with them
  NoLink,        \* not a link
  Readers,       \* how many readers there are: the most links clients hold open
  InFlightSizes, \* what rdr->max_in_flight may be (1, unless the user sets it)
  MaxFaults      \* bound: breaks, timeouts and failures of the handler

ASSUME ConsumerAssumption ==
  /\ NoLink \notin Link
  /\ InFlightSizes \subseteq Nat \ {0}
  /\ Readers \in Nat /\ MaxFaults \in Nat

VARIABLES
  max_in_flight, \* rdr->max_in_flight
  client,        \* link -> does the client have it open
  nsqd,          \* link -> does nsqd
  to_client,     \* link -> messages
  to_nsqd,       \* link -> commands
  rdy,           \* link -> the last RDY nsqd has received on it
  credit,        \* link -> how many of those it has left to send
  counts_down,   \* does nsqd count RDY down as it sends
  owner,         \* message -> the link it is in flight on, or NoLink
  queue,         \* the messages nsqd has to send
  faults,        \* how many there have been (bound)
  handled,       \* message -> how often the handler succeeded on it (history)
  excuses,       \* message -> how often nsqd or a break put it back (history)
  late           \* link -> how often nsqd gave up waiting on it (history)

links == <<client, nsqd, to_client, to_nsqd, rdy, credit>>
vars == <<max_in_flight, client, nsqd, to_client, to_nsqd, rdy, credit, counts_down,
          owner, queue, faults, handled, excuses, late>>

Sub    == <<"SUB">>
Rdy(n) == <<"RDY", n>>
Fin(m) == <<"FIN", m>>
Req(m) == <<"REQ", m>>

InFlight(l) == {m \in Message : owner[m] = l}

Init ==
  /\ max_in_flight \in InFlightSizes
  /\ client = [l \in Link |-> FALSE]
  /\ nsqd = [l \in Link |-> FALSE]
  /\ to_client = [l \in Link |-> << >>]
  /\ to_nsqd = [l \in Link |-> << >>]
  /\ rdy = [l \in Link |-> 0]
  /\ credit = [l \in Link |-> 0]
  /\ counts_down \in BOOLEAN
  /\ owner = [m \in Message |-> NoLink]
  /\ queue = Message
  /\ faults = 0
  /\ handled = [m \in Message |-> 0]
  /\ excuses = [m \in Message |-> 0]
  /\ late = [l \in Link |-> 0]

Fault == faults < MaxFaults /\ faults' = faults + 1

-------------------------------------------------------------------------------
(* The client. *)

\* A connection is made, and nsq_reader_connect_cb subscribes and sends the
\* first RDY.
nsq_reader_connect_cb(l) ==
  /\ ~client[l] /\ ~nsqd[l]
  /\ Cardinality({k \in Link : client[k]}) < Readers
  /\ client' = [client EXCEPT ![l] = TRUE]
  /\ nsqd' = [nsqd EXCEPT ![l] = TRUE]
  /\ to_client' = [to_client EXCEPT ![l] = << >>]
  /\ to_nsqd' = [to_nsqd EXCEPT ![l] = <<Sub, Rdy(max_in_flight)>>]
  /\ rdy' = [rdy EXCEPT ![l] = 0]
  /\ credit' = [credit EXCEPT ![l] = 0]
  /\ late' = [late EXCEPT ![l] = 0]
  /\ UNCHANGED <<max_in_flight, counts_down, owner, queue, faults, handled, excuses>>

\* Faults: a message the handler failed on is finished all the same; one more
\* is asked for than allowed; the message is given back as well.
Answer_always_finish(m, succeeded) == << Fin(m), Rdy(max_in_flight) >>
Answer_one_more(m, succeeded) ==
  << IF succeeded THEN Fin(m) ELSE Req(m), Rdy(max_in_flight + 1) >>
Answer_both(m, succeeded) == << Req(m), Fin(m), Rdy(max_in_flight) >>

\* The commands message_handler writes.
Answer(m, succeeded) ==
  << IF succeeded THEN Fin(m) ELSE Req(m), Rdy(max_in_flight) >>

\* The next message is decoded and handled.  What is written to a link that
\* nsqd has left reaches nobody.
message_handler(l, succeeded) ==
  /\ client[l] /\ to_client[l] # << >>
  /\ LET m == Head(to_client[l])
     IN  /\ to_nsqd' = [to_nsqd EXCEPT ![l] = IF nsqd[l] THEN @ \o Answer(m, succeeded) ELSE @]
         /\ handled' = IF succeeded THEN [handled EXCEPT ![m] = @ + 1] ELSE handled
  /\ to_client' = [to_client EXCEPT ![l] = Tail(@)]
  /\ UNCHANGED <<max_in_flight, client, nsqd, rdy, credit, counts_down, owner, queue, excuses, late>>

message_succeeds(l) == message_handler(l, TRUE) /\ UNCHANGED faults
message_fails(l)    == message_handler(l, FALSE) /\ Fault

\* The client's end of l closes: the user disconnects, a system call fails,
\* the process ends.  read_buf and write_buf are gone; of the commands, those
\* that were sent still reach nsqd.
buffered_socket_close(l) ==
  /\ client' = [client EXCEPT ![l] = FALSE]
  /\ to_client' = [to_client EXCEPT ![l] = << >>]
  /\ \E k \in 0 .. Len(to_nsqd[l]) : to_nsqd' = [to_nsqd EXCEPT ![l] = SubSeq(@, 1, k)]
  /\ UNCHANGED <<max_in_flight, nsqd, rdy, credit, counts_down, owner, queue, handled, excuses, late>>

client_breaks(l) == client[l] /\ Fault /\ buffered_socket_close(l)

\* The end of the connection is read: the link closes at once, and the messages
\* that read_buf still holds by then are never handled.
read_cb_end(l) ==
  /\ client[l] /\ ~nsqd[l]
  /\ buffered_socket_close(l)
  /\ UNCHANGED faults

-------------------------------------------------------------------------------
(* nsqd. *)

\* nsqd pushes a message to a link whose RDY allows for it.
nsqd_pushes(l, m) ==
  /\ nsqd[l] /\ m \in queue
  /\ Cardinality(InFlight(l)) < rdy[l] /\ credit[l] > 0
  /\ queue' = queue \ {m}
  /\ owner' = [owner EXCEPT ![m] = l]
  /\ to_client' = [to_client EXCEPT ![l] = IF client[l] THEN Append(@, m) ELSE @]
  /\ credit' = [credit EXCEPT ![l] = IF counts_down THEN @ - 1 ELSE @]
  /\ UNCHANGED <<max_in_flight, client, nsqd, to_nsqd, rdy, counts_down, faults, handled, excuses, late>>

\* nsqd reads a command.  An answer to a message that is not in flight on
\* this link gets an error frame, which the client ignores.
nsqd_receives(l) ==
  /\ nsqd[l] /\ to_nsqd[l] # << >>
  /\ to_nsqd' = [to_nsqd EXCEPT ![l] = Tail(@)]
  /\ LET c == Head(to_nsqd[l])
     IN  \/ /\ c[1] = "SUB"
            /\ UNCHANGED <<rdy, credit, owner, queue>>
         \/ /\ c[1] = "RDY"
            /\ rdy' = [rdy EXCEPT ![l] = c[2]]
            /\ credit' = [credit EXCEPT ![l] = c[2]]
            /\ UNCHANGED <<owner, queue>>
         \/ /\ c[1] \in {"FIN", "REQ"}
            /\ owner' = IF owner[c[2]] = l THEN [owner EXCEPT ![c[2]] = NoLink] ELSE owner
            /\ queue' = IF owner[c[2]] = l /\ c[1] = "REQ" THEN queue \cup {c[2]} ELSE queue
            /\ UNCHANGED <<rdy, credit>>
  /\ UNCHANGED <<max_in_flight, client, nsqd, to_client, counts_down, faults, handled, excuses, late>>

\* nsqd has waited for the answer to m long enough.
nsqd_times_out(m) ==
  /\ owner[m] # NoLink
  /\ Fault
  /\ owner' = [owner EXCEPT ![m] = NoLink]
  /\ queue' = queue \cup {m}
  /\ excuses' = [excuses EXCEPT ![m] = @ + 1]
  /\ late' = [late EXCEPT ![owner[m]] = @ + 1]
  /\ UNCHANGED <<max_in_flight, links, counts_down, handled>>

\* nsqd's end of l closes and what was in flight on l is put back.
nsqd_closes(l) ==
  /\ nsqd' = [nsqd EXCEPT ![l] = FALSE]
  /\ to_nsqd' = [to_nsqd EXCEPT ![l] = << >>]
  /\ owner' = [m \in Message |-> IF owner[m] = l THEN NoLink ELSE owner[m]]
  /\ queue' = queue \cup InFlight(l)
  /\ excuses' = [m \in Message |-> IF owner[m] = l THEN excuses[m] + 1 ELSE excuses[m]]
  /\ UNCHANGED <<max_in_flight, client, rdy, credit, counts_down, handled, late>>

\* The network fails or nsqd stops: of the messages on their way some arrive.
nsqd_breaks(l) ==
  /\ nsqd[l] /\ Fault
  /\ nsqd_closes(l)
  /\ \E k \in 0 .. Len(to_client[l]) : to_client' = [to_client EXCEPT ![l] = SubSeq(@, 1, k)]

\* nsqd reads the end of the connection.
nsqd_notices(l) ==
  /\ nsqd[l] /\ ~client[l] /\ to_nsqd[l] = << >>
  /\ nsqd_closes(l)
  /\ UNCHANGED <<to_client, faults>>

\* The channel is empty and everything on its way has arrived.
at_rest ==
  /\ queue = {} /\ \A m \in Message : owner[m] = NoLink
  /\ \A l \in Link : to_client[l] = << >> /\ to_nsqd[l] = << >>
  /\ UNCHANGED vars

-------------------------------------------------------------------------------

Next ==
  \/ \E l \in Link : nsq_reader_connect_cb(l)
  \/ \E l \in Link : message_succeeds(l)
  \/ \E l \in Link : message_fails(l)
  \/ \E l \in Link : client_breaks(l)
  \/ \E l \in Link : read_cb_end(l)
  \/ \E l \in Link, m \in Message : nsqd_pushes(l, m)
  \/ \E l \in Link : nsqd_receives(l)
  \/ \E m \in Message : nsqd_times_out(m)
  \/ \E l \in Link : nsqd_breaks(l)
  \/ \E l \in Link : nsqd_notices(l)
  \/ at_rest

Spec == Init /\ [][Next]_vars

\* Callbacks are served, what is sent arrives, both ends notice that a link is
\* over, a client that has no connection makes one, nsqd sends what it may.
Fairness ==
  /\ WF_vars(\E l \in Link : nsq_reader_connect_cb(l))
  /\ \A l \in Link :
       /\ WF_vars(message_succeeds(l) \/ message_fails(l))
       /\ WF_vars(read_cb_end(l))
       /\ WF_vars(nsqd_receives(l))
       /\ WF_vars(nsqd_notices(l))
  /\ \A m \in Message : WF_vars(\E l \in Link : nsqd_pushes(l, m))

FairSpec == Spec /\ Fairness

-------------------------------------------------------------------------------
(* Properties. *)

\* The variables keep their types, and a message is in flight or queued or
\* neither, never both.
TypeOK ==
  /\ max_in_flight \in InFlightSizes
  /\ {client, nsqd} \subseteq [Link -> BOOLEAN]
  /\ \A l \in Link :
       /\ to_client[l] \in Seq(Message)
       /\ to_nsqd[l] \in Seq({Sub} \cup {Rdy(n) : n \in InFlightSizes}
                              \cup {Fin(m) : m \in Message} \cup {Req(m) : m \in Message})
  /\ {rdy, credit} \subseteq [Link -> InFlightSizes \cup (0 .. max_in_flight)]
  /\ owner \in [Message -> Link \cup {NoLink}]
  /\ queue \subseteq Message
  /\ \A m \in queue : owner[m] = NoLink

\* The places of the answers among the commands cs.
AnswersIn(cs) == {k \in DOMAIN cs : cs[k][1] \in {"FIN", "REQ"}}

\* Unless nsqd gives up waiting, no more messages are on their way to the
\* client, waiting in read_buf or answered with the answer under way than RDY
\* allows, although RDY is sent again with every answer: so the sizes of the
\* buffers need not grow with the channel.
Paced ==
  \A l \in Link :
    Len(to_client[l]) + Cardinality(AnswersIn(to_nsqd[l])) <= max_in_flight + late[l]

\* A message is handled with success a second time only because nsqd put it
\* back, after a timeout or a broken connection.
NoRepeatUnprovoked == \A m \in Message : handled[m] <= 1 + excuses[m]

\* The channel promises its messages as Delivery.tla says: each is handled
\* with success at least once and then done with.
Progress(m) ==
  IF m \notin queue /\ owner[m] = NoLink THEN "finished"
  ELSE IF handled[m] > 0 THEN "handled" ELSE "owed"

Promise == INSTANCE Delivery WITH stage <- [m \in Message |-> Progress(m)]

DeliversAtLeastOnce == Promise!Spec
===============================================================================

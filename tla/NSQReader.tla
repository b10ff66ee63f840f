------------------------------- MODULE NSQReader -------------------------------
(***************************************************************************)
(* struct NSQReader of reader.c: the connections a reader keeps to the     *)
(* nsqds of its topic, either those its user connects it to directly or    *)
(* those an nsqlookupd lists, and how each is given up and tried again.    *)
(*                                                                         *)
(* Connections are heap blocks: an identifier is "free" until malloc hands *)
(* it out and again after free, and a pointer may outlive its block.  A    *)
(* connection whose connect() fails at once (getaddrinfo, socket or        *)
(* connect) remains in memory in the state "init", in nobody's hands.      *)
(*                                                                         *)
(* An action is one libev callback or one call of the user's; the bytes on *)
(* a connection are the matter of NSQDConnection.tla.  The user's own      *)
(* callbacks change nothing here: a connection that is already closed      *)
(* cannot be closed again from the close callback, and what the others do  *)
(* from within is NSQDConnection.tla's DisconnectInHandler.                *)
(***************************************************************************)
EXTENDS Integers, FiniteSets, Functions

CONSTANTS
  Nsqd,                \* addresses of nsqds
  Conn,                \* heap blocks for connections
  Direct,              \* the nsqds the user connects to without nsqlookupd
  MaxEndpoints,        \* how many nsqlookupds the user adds
  MaxRequests,         \* bound: lookup requests in flight
  FailsAtOnce,         \* whose connects may fail at once: those of the "user",
                       \* of the reconnect "timer", of a "lookup"
  MaxOrphans           \* bound: blocks of such connects that are told apart

ASSUME ReaderAssumption ==
  /\ Direct \subseteq Nsqd
  /\ MaxEndpoints \in Nat
  /\ MaxRequests \in Nat
  /\ FailsAtOnce \subseteq {"user", "timer", "lookup"}
  /\ MaxOrphans \in Nat

VARIABLES
  conns,      \* rdr->conns
  sock,       \* conn -> its bs->state, or "free"
  addr,       \* conn -> its address and port
  timer,      \* conn -> its reconnect_timer: "null", "idle" (made, not
              \* started), "running", or "dangling" (freed, pointer kept)
  lookupd,    \* the length of the list rdr->lookupd
  poll_timer, \* is lookupd_poll_timer running
  requests,   \* lookup requests in flight
  registered, \* the nsqds nsqlookupd knows for the topic
  wanted,     \* the nsqds a direct connect of the user's got under way to (history)
  fault       \* the first use of a freed or missing block, or "none" (history)

connVars == <<conns, sock, addr, timer>>
vars == <<conns, sock, addr, timer, lookupd, poll_timer, requests, registered, wanted, fault>>

Free   == {c \in Conn : sock[c] = "free"}
Failed == {c \in Conn : sock[c] = "init"}
Held   == Conn \ (Free \cup Failed)

Init ==
  /\ conns = {}
  /\ sock = [c \in Conn |-> "free"]
  /\ addr \in [Conn -> Nsqd]
  /\ \A c, e \in Conn : addr[c] = addr[e]
  /\ timer = [c \in Conn |-> "null"]
  /\ lookupd = 0
  /\ poll_timer = FALSE
  /\ requests = 0
  /\ registered \in SUBSET Nsqd
  /\ wanted = {}
  /\ fault = "none"

-------------------------------------------------------------------------------
(* Pieces the handlers share. *)

\* Fault: the reconnect timer is not made.
TimerMade_never == "null"

\* The reconnect timer of a connection nsq_reader_connect_to_nsqd makes.
TimerMade == IF lookupd = 0 THEN "idle" ELSE "null"

\* The nsqds of N to which connect() fails at once.
MayFail(N, who) == {F \in SUBSET N : F # {} => who \in FailsAtOnce}

\* The blocks new connections to the nsqds of N take.  Those of F fail, and as
\* nobody refers to their blocks again, only MaxOrphans of them are told apart.
Blocks(N, F) ==
  Injection(IF Cardinality(Failed) + Cardinality(F) <= MaxOrphans THEN N ELSE N \ F, Free)

\* nsq_reader_connect_to_nsqd of every nsqd in DOMAIN f, f giving each its new
\* block, while the blocks in gone are freed (free_nsqd_connection).  The
\* connections to the nsqds of F fail: they are not listed, and not freed.
Connect(f, F, gone) ==
  LET new    == Range(f)
      listed == {f[d] : d \in DOMAIN f \ F}
  IN  /\ conns' = conns \cup listed
      /\ sock' = [c \in Conn |-> IF c \in listed THEN "connecting"
                                 ELSE IF c \in new THEN "init"
                                 ELSE IF c \in gone THEN "free" ELSE sock[c]]
      /\ addr' = [c \in Conn |-> IF c \in new THEN CHOOSE d \in DOMAIN f : f[d] = c
                                 ELSE addr[c]]
      /\ timer' = [c \in Conn |-> IF c \in new THEN TimerMade
                                  ELSE IF c \in gone THEN "null" ELSE timer[c]]

\* nsqd_connection_stop_timer(c) stops and frees a timer that c has.
StopTimerFault(c) ==
  IF fault = "none" /\ timer[c] = "dangling" THEN "timer freed twice" ELSE fault

\* Faults: the connection stays in the list; it is always freed; its timer is
\* not started.
close_cb_listed(c) ==
  /\ IF lookupd = 0
     THEN /\ sock' = [sock EXCEPT ![c] = "disconnected"]
          /\ timer' = [timer EXCEPT ![c] = "running"]
     ELSE /\ sock' = [sock EXCEPT ![c] = "free"]
          /\ timer' = [timer EXCEPT ![c] = "null"]
  /\ UNCHANGED <<conns, addr, fault>>

close_cb_freeing(c) ==
  /\ conns' = conns \ {c}
  /\ sock' = [sock EXCEPT ![c] = "free"]
  /\ timer' = [timer EXCEPT ![c] = "null"]
  /\ UNCHANGED <<addr, fault>>

close_cb_timer_idle(c) ==
  /\ conns' = conns \ {c}
  /\ sock' = [sock EXCEPT ![c] = "disconnected"]
  /\ UNCHANGED <<addr, timer, fault>>

\* nsq_reader_close_cb(c), the last thing buffered_socket_close does.
nsq_reader_close_cb(c) ==
  /\ conns' = conns \ {c}
  /\ IF lookupd = 0
     THEN /\ sock' = [sock EXCEPT ![c] = "disconnected"]
          /\ timer' = [timer EXCEPT ![c] = "running"]
          /\ fault' = IF fault = "none" /\ timer[c] # "idle"
                      THEN "no timer to start" ELSE fault
     ELSE /\ sock' = [sock EXCEPT ![c] = "free"]
          /\ timer' = [timer EXCEPT ![c] = "null"]
          /\ fault' = StopTimerFault(c)
  /\ UNCHANGED addr

-------------------------------------------------------------------------------
(* The user. *)

\* The user's call.  It returns 0 when connect() fails, so that the user knows
\* and may try again.
nsq_reader_connect_to_nsqd(d) ==
  /\ d \in Direct \ wanted
  /\ \E F \in MayFail({d}, "user") :
       /\ \E f \in Blocks({d}, F) : Connect(f, F, {})
       /\ wanted' = wanted \cup ({d} \ F)
  /\ UNCHANGED <<lookupd, poll_timer, requests, registered, fault>>

\* Fault: polling is not started.
add_endpoint_without_poll ==
  /\ lookupd < MaxEndpoints
  /\ lookupd' = lookupd + 1
  /\ UNCHANGED <<connVars, poll_timer, requests, registered, wanted, fault>>

\* The first endpoint stops the timers of the connections in the list and
\* starts polling.
nsq_reader_add_nsqlookupd_endpoint ==
  /\ lookupd < MaxEndpoints
  /\ lookupd' = lookupd + 1
  /\ IF lookupd = 0
     THEN /\ timer' = [c \in Conn |-> IF c \in conns /\ timer[c] # "null"
                                      THEN "dangling" ELSE timer[c]]
          /\ fault' = IF fault = "none" /\ \E c \in conns : timer[c] = "dangling"
                      THEN "timer freed twice" ELSE fault
          /\ poll_timer' = TRUE
     ELSE UNCHANGED <<timer, fault, poll_timer>>
  /\ UNCHANGED <<conns, sock, addr, requests, registered, wanted>>

\* nsqd_connection_disconnect of a connection the user was handed by the
\* connect callback, from outside a callback of that connection.
nsqd_connection_disconnect(c) ==
  /\ c \in conns /\ sock[c] = "connected"
  /\ nsq_reader_close_cb(c)
  /\ UNCHANGED <<lookupd, poll_timer, requests, registered, wanted>>

-------------------------------------------------------------------------------
(* The connections. *)

connect_succeeds(c) ==
  /\ sock[c] = "connecting"
  /\ sock' = [sock EXCEPT ![c] = "connected"]
  /\ UNCHANGED <<conns, addr, timer, lookupd, poll_timer, requests, registered, wanted, fault>>

\* connect() failed later, or took longer than two seconds.
connect_fails(c) ==
  /\ sock[c] = "connecting"
  /\ nsq_reader_close_cb(c)
  /\ UNCHANGED <<lookupd, poll_timer, requests, registered, wanted>>

connection_lost(c) ==
  /\ sock[c] = "connected"
  /\ nsq_reader_close_cb(c)
  /\ UNCHANGED <<lookupd, poll_timer, requests, registered, wanted>>

\* Fault: the connection that is replaced is not freed.
reconnect_cb_keeping(c) ==
  /\ timer[c] = "running"
  /\ LET N == IF lookupd = 0 THEN {addr[c]} ELSE {}
     IN  \E F \in MayFail(N, "timer") : \E f \in Blocks(N, F) : Connect(f, F, {})
  /\ UNCHANGED <<lookupd, poll_timer, requests, registered, wanted, fault>>

\* A new connection replaces c when there is still no nsqlookupd; c is freed
\* either way.
nsq_reader_reconnect_cb(c) ==
  /\ timer[c] = "running"
  /\ LET N == IF lookupd = 0 THEN {addr[c]} ELSE {}
     IN  \E F \in MayFail(N, "timer") : \E f \in Blocks(N, F) : Connect(f, F, {c})
  /\ fault' = IF fault = "none" /\ sock[c] = "free"
              THEN "timer of a freed connection" ELSE fault
  /\ UNCHANGED <<lookupd, poll_timer, requests, registered, wanted>>

-------------------------------------------------------------------------------
(* nsqlookupd. *)

\* Fault: the timer is not started again.
poll_cb_once ==
  /\ poll_timer
  /\ lookupd > 0
  /\ requests < MaxRequests
  /\ requests' = requests + 1
  /\ poll_timer' = FALSE
  /\ UNCHANGED <<connVars, lookupd, registered, wanted, fault>>

\* The endpoint that is asked is chosen at random; the list is never empty
\* once the timer runs.
nsq_reader_lookupd_poll_cb ==
  /\ poll_timer
  /\ lookupd > 0
  /\ requests < MaxRequests
  /\ requests' = requests + 1
  /\ UNCHANGED <<connVars, lookupd, poll_timer, registered, wanted, fault>>

Listed == {addr[c] : c \in conns}

\* Fault: nobody looks whether there is a connection already.
LookupAnswered_unfiltered(P) ==
  /\ requests > 0
  /\ requests' = requests - 1
  /\ \E F \in MayFail(P, "lookup") : \E f \in Blocks(P, F) : Connect(f, F, {})
  /\ UNCHANGED <<lookupd, poll_timer, registered, wanted, fault>>

\* nsq_lookupd_request_cb with status 200 and the producers P: connect to
\* those no listed connection goes to.
LookupAnswered(P) ==
  /\ requests > 0
  /\ requests' = requests - 1
  /\ \E F \in MayFail(P \ Listed, "lookup") :
       \E f \in Blocks(P \ Listed, F) : Connect(f, F, {})
  /\ UNCHANGED <<lookupd, poll_timer, registered, wanted, fault>>

\* The answer is as current as can be, or it was delayed and lists nsqds
\* that have gone and misses some that have come.
lookup_answered == LookupAnswered(registered)
stale_lookup_answered == \E P \in SUBSET Nsqd : LookupAnswered(P)

\* Any other status, no connection to nsqlookupd, or a body that does not
\* parse or has no producers.
lookup_failed ==
  /\ requests > 0
  /\ requests' = requests - 1
  /\ UNCHANGED <<connVars, lookupd, poll_timer, registered, wanted, fault>>

\* An nsqd registers the topic with nsqlookupd, or goes.
registration_changes ==
  /\ lookupd > 0
  /\ \E d \in Nsqd : registered' = IF d \in registered
                                   THEN registered \ {d} ELSE registered \cup {d}
  /\ UNCHANGED <<connVars, lookupd, poll_timer, requests, wanted, fault>>

-------------------------------------------------------------------------------

Next ==
  \/ \E d \in Nsqd : nsq_reader_connect_to_nsqd(d)
  \/ nsq_reader_add_nsqlookupd_endpoint
  \/ \E c \in Conn : nsqd_connection_disconnect(c)
  \/ \E c \in Conn : connect_succeeds(c)
  \/ \E c \in Conn : connect_fails(c)
  \/ \E c \in Conn : connection_lost(c)
  \/ \E c \in Conn : nsq_reader_reconnect_cb(c)
  \/ nsq_reader_lookupd_poll_cb
  \/ lookup_answered
  \/ stale_lookup_answered
  \/ lookup_failed
  \/ registration_changes

Spec == Init /\ [][Next]_vars

\* Timers fire, and a connect is decided within two seconds.  A nsqlookupd
\* that can be asked again and again now and then answers with what it knows,
\* at a time when none of the connects that follow fails at once.
Fairness ==
  /\ \A c \in Conn : WF_vars(nsq_reader_reconnect_cb(c))
  /\ \A c \in Conn : WF_vars(connect_succeeds(c) \/ connect_fails(c))
  /\ WF_vars(nsq_reader_lookupd_poll_cb)
  /\ SF_vars(lookup_answered /\ registered \subseteq Listed')

FairSpec == Spec /\ Fairness

-------------------------------------------------------------------------------
(* Properties. *)

\* The variables keep their types, and nsqlookupds are polled when there are
\* any.
TypeOK ==
  /\ conns \subseteq Conn
  /\ sock \in [Conn -> {"free", "init", "connecting", "connected", "disconnected"}]
  /\ addr \in [Conn -> Nsqd]
  /\ timer \in [Conn -> {"null", "idle", "running", "dangling"}]
  /\ lookupd \in 0 .. MaxEndpoints
  /\ poll_timer \in BOOLEAN /\ (poll_timer <=> lookupd > 0)
  /\ requests \in 0 .. MaxRequests
  /\ registered \subseteq Nsqd
  /\ wanted \subseteq Direct
  /\ fault \in {"none", "timer freed twice", "no timer to start",
                "timer of a freed connection"}

\* No reconnect timer is freed twice, started when there is none, or left
\* running when its connection is freed, whichever of the user, the network
\* and nsqlookupd acts when.
MemorySafe == fault = "none"

\* A connection in memory is in somebody's hands: in rdr->conns from the moment
\* its connect is under way until it closes, then in the hands of its running
\* reconnect timer, never in both, and in no-one's once freed.  The one kind
\* that is in nobody's hands, and is never freed, is the connection whose
\* connect() failed at once: no close, timer, lookup or nsqlookupd adds to it.
Orphans == {c \in Conn \ Free : c \notin conns /\ timer[c] # "running"}

OnlyFailedConnectsOrphaned ==
  /\ Orphans = Failed
  /\ \A c \in Conn :
       /\ c \in conns <=> sock[c] \in {"connecting", "connected"}
       /\ timer[c] = "running" <=> sock[c] = "disconnected"
       /\ sock[c] = "free" => timer[c] = "null"

\* A reader has at most one connection to an nsqd, counting those that wait
\* to be replaced: polling nsqlookupd while a connection is being made, or a
\* delayed answer, never makes a second one.
OneConnectionPerNsqd ==
  \A c, e \in Held : addr[c] = addr[e] => c = e

\* While there is no nsqlookupd, an nsqd the user connected the reader to is
\* connected, being connected, or waiting for its reconnect timer.
DirectNsqdKept ==
  lookupd = 0 => wanted \subseteq {addr[c] : c \in Held}

\* Adding the first nsqlookupd hands reconnection over to its poll timer: no
\* reconnect timer runs beside it.
NoTimerBesideLookupd ==
  lookupd > 0 => \A c \in Conn : timer[c] # "running"

\* An nsqd the user connected the reader to is tried again for ever.
DirectNsqdRetried ==
  \A d \in Nsqd : [](d \in wanted => <>(d \in Listed))

\* An nsqd that stays registered with nsqlookupd is tried again for ever,
\* whatever becomes of its connections and of single lookups.
RegisteredNsqdTried ==
  \A d \in Nsqd :
    <>[](lookupd > 0 /\ d \in registered) => []<>(d \in Listed)

\* Each nsqd goes through the phases of NSQDLifecycle.tla.
Phase(d) ==
  IF \E c \in conns : addr[c] = d /\ sock[c] = "connected" THEN "subscribed"
  ELSE IF d \in Listed THEN "trying"
  ELSE IF \E c \in Conn : addr[c] = d /\ timer[c] = "running" THEN "waiting"
  ELSE "absent"

Lifecycle == INSTANCE NSQDLifecycle
  WITH phase <- [d \in Nsqd |-> Phase(d)],
       Retried <- IF MaxEndpoints = 0 THEN Direct ELSE {}

FollowsLifecycle == Lifecycle!Spec
===============================================================================

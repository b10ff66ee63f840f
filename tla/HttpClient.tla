------------------------------ MODULE HttpClient ------------------------------
(***************************************************************************)
(* http.c: how struct HttpClient drives libcurl's multi interface from     *)
(* libev, for the lookups of nsqlookupd.c.                                 *)
(*                                                                         *)
(* libcurl says what it waits for through two callbacks, sock_cb and       *)
(* multi_timer_cb, and is told what happened by curl_multi_socket_action.  *)
(* It calls multi_timer_cb as the last thing of each call it is given; and *)
(* multi_timer_cb calls it back at once for a timeout that is not in the   *)
(* future, so calls nest: a request may be answered and freed inside the   *)
(* curl_multi_add_handle that starts it.  The variable stack holds what is *)
(* left to do of the calls under way; libev chooses what happens next when *)
(* it is empty.                                                            *)
(*                                                                         *)
(* libcurl is external, as http.c uses it (a libcurl that allows calls     *)
(* from its callbacks).  Its clock is reduced to whether a timeout is due. *)
(* One may fall due at any moment, in the middle of a callback too:        *)
(* nsq_lookupd_request_cb connects to the nsqds it finds, and looking up   *)
(* the address of one (getaddrinfo, buffered_socket.c:79) may take a while.*)
(* Each request has a socket of its own.                                   *)
(***************************************************************************)
EXTENDS Integers, Sequences, FiniteSets

CONSTANT Request   \* blocks for requests: how many there can be at a time

VARIABLES
  easy,   \* request -> "free", how far libcurl has got with it, or "called"
          \* from when it is handed to its callback until it is freed
  expiry, \* request -> when libcurl runs it next unless its socket is ready
  sock,   \* request -> [assigned: does libcurl keep its HttpSocket,
          \*             watch: what watchers on its socket wait for]
  told,   \* has multi_timer_cb been called for the earliest timeout
  timer,  \* is timer_event started
  stack   \* what is left to do, the innermost call first

vars == <<easy, expiry, sock, told, timer, stack>>

timeout_run   == <<"timeout">>    \* socket_action(CURL_SOCKET_TIMEOUT)
event_run(r)  == <<"event", r>>   \* socket_action for the socket of r
update        == <<"update">>     \* the end of a call of libcurl
info          == <<"info">>       \* check_multi_info
cleanup(r)    == <<"cleanup", r>> \* what free_http_request does last

Init ==
  /\ easy = [r \in Request |-> "free"]
  /\ expiry = [r \in Request |-> "none"]
  /\ sock = [r \in Request |-> [assigned |-> FALSE, watch |-> {}]]
  /\ told = FALSE
  /\ timer = FALSE
  /\ stack = << >>

-------------------------------------------------------------------------------
(* libcurl. *)

\* What a request may become when it is run because its timeout is due, and
\* when because its socket is ready.
AfterTimeout ==
  [added      |-> {"resolving", "connecting", "done"},
   resolving  |-> {"connecting", "done"},
   connecting |-> {"done"}]
AfterEvent ==
  [connecting |-> {"waiting", "done"},
   waiting    |-> {"reading", "done"},
   reading    |-> {"done"}]

Poll(phase) == CASE phase = "connecting" -> "OUT"
                 [] phase \in {"waiting", "reading"} -> "IN"
                 [] OTHER -> "REMOVE"

Expiry(phase) == IF phase \in {"resolving", "connecting"} THEN "later" ELSE "none"

Due == {r \in Request : expiry[r] = "due"}

Earliest == IF Due # {} THEN "due"
            ELSE IF \E r \in Request : expiry[r] = "later" THEN "later" ELSE "none"

-------------------------------------------------------------------------------
(* The callbacks libcurl is given. *)

\* Fault: libcurl is not told of the HttpSocket.
sock_cb_no_assign(s, what) ==
  IF what = "REMOVE" THEN [assigned |-> FALSE, watch |-> IF s.assigned THEN {} ELSE s.watch]
  ELSE [assigned |-> s.assigned,
        watch |-> (IF s.assigned THEN {} ELSE s.watch) \cup {what}]

\* The HttpSocket s becomes this.  Its watcher can be stopped only through the
\* pointer libcurl hands back.
sock_cb(s, what) ==
  IF what = "REMOVE" THEN [assigned |-> FALSE, watch |-> IF s.assigned THEN {} ELSE s.watch]
  ELSE [assigned |-> TRUE,
        watch |-> (IF s.assigned THEN {} ELSE s.watch) \cup {what}]

\* What timer_cb does.
timer_cb == <<timeout_run, info>>

\* Fault: what is due at once is left alone.
multi_timer_cb_future_only(timeout) ==
  /\ timer' = (timeout = "later")
  /\ stack' = Tail(stack)

\* A timeout in the future starts the timer, cut down to whole seconds, so it
\* may fire early; any other, -1 for none included, runs timer_cb at once.
multi_timer_cb(timeout) ==
  /\ timer' = (timeout = "later")
  /\ stack' = IF timeout = "later" THEN Tail(stack) ELSE timer_cb \o Tail(stack)

-------------------------------------------------------------------------------
(* The calls under way. *)

Doing(call) == stack # << >> /\ Head(stack) = call

\* libcurl runs the requests in todo, those in ready because of their socket,
\* and tells sock_cb what has changed.
RunRequests(todo, ready) ==
  /\ \E f \in [todo -> {"resolving", "connecting", "waiting", "reading", "done"}] :
       /\ \A r \in todo : f[r] \in IF r \in ready THEN AfterEvent[easy[r]]
                                   ELSE AfterTimeout[easy[r]]
       /\ easy' = [r \in Request |-> IF r \in todo THEN f[r] ELSE easy[r]]
  /\ expiry' = [r \in Request |-> IF r \in todo THEN Expiry(easy'[r]) ELSE expiry[r]]
  /\ sock' = [r \in Request |->
                IF Poll(easy'[r]) = Poll(easy[r]) THEN sock[r]
                ELSE sock_cb(sock[r], Poll(easy'[r]))]
  /\ stack' = <<update>> \o Tail(stack)
  /\ UNCHANGED timer

\* Told of a timeout, libcurl will ask for the next one in any case.
socket_action_timeout ==
  /\ Doing(timeout_run)
  /\ RunRequests(Due, {})
  /\ told' = FALSE

\* A socket is ready; what is due is run on the occasion.
socket_action_event(r) ==
  /\ Doing(event_run(r))
  /\ RunRequests(Due \cup {r}, {r})
  /\ UNCHANGED told

\* multi_timer_cb is called when the earliest timeout is another than before.
update_timer ==
  /\ Doing(update)
  /\ \/ /\ told <=> Earliest # "none"
        /\ stack' = Tail(stack)
        /\ UNCHANGED <<told, timer>>
     \/ /\ told \/ Earliest # "none"
        /\ told' = (Earliest # "none")
        /\ multi_timer_cb(Earliest)
  /\ UNCHANGED <<easy, expiry, sock>>

\* curl_multi_remove_handle, then the rest of free_http_request.
free_http_request(r) == stack' = <<update, cleanup(r)>> \o stack

\* Fault: one message is read.
check_multi_info_once ==
  /\ Doing(info)
  /\ \/ /\ \A r \in Request : easy[r] # "done"
        /\ stack' = Tail(stack)
        /\ UNCHANGED easy
     \/ \E r \in Request :
          /\ easy[r] = "done"
          /\ easy' = [easy EXCEPT ![r] = "called"]
          /\ stack' = <<update, cleanup(r)>> \o Tail(stack)
  /\ UNCHANGED <<expiry, sock, told, timer>>

\* Fault: a message stays in libcurl's queue until its callback has returned.
check_multi_info_late ==
  /\ Doing(info)
  /\ \/ /\ \A r \in Request : easy[r] # "done"
        /\ stack' = Tail(stack)
     \/ \E r \in Request :
          /\ easy[r] = "done"
          /\ free_http_request(r)
  /\ UNCHANGED <<easy, expiry, sock, told, timer>>

\* The callbacks of the requests that are done are called, until there is no
\* message left.  nsq_lookupd_request_cb frees the request, unless the body
\* does not parse or has no producers: then it stays in memory, unused.
check_multi_info ==
  /\ Doing(info)
  /\ \/ /\ \A r \in Request : easy[r] # "done"
        /\ stack' = Tail(stack)
        /\ UNCHANGED easy
     \/ \E r \in Request :
          /\ easy[r] = "done"
          /\ easy' = [easy EXCEPT ![r] = "called"]
          /\ free_http_request(r)
     \/ \E r \in Request :
          /\ easy[r] = "done"
          /\ easy' = [easy EXCEPT ![r] = "free"]
          /\ UNCHANGED stack
  /\ UNCHANGED <<expiry, sock, told, timer>>

easy_cleanup(r) ==
  /\ Doing(cleanup(r))
  /\ easy' = [easy EXCEPT ![r] = "free"]
  /\ stack' = Tail(stack)
  /\ UNCHANGED <<expiry, sock, told, timer>>

-------------------------------------------------------------------------------
(* What libev and the reader start. *)

\* nsq_reader_lookupd_poll_cb makes a request and passes it to libcurl, which
\* forgets what it told multi_timer_cb.
http_client_get(r) ==
  /\ stack = << >>
  /\ easy[r] = "free"
  /\ easy' = [easy EXCEPT ![r] = "added"]
  /\ expiry' = [expiry EXCEPT ![r] = "due"]
  /\ told' = FALSE
  /\ stack' = <<update>>
  /\ UNCHANGED <<sock, timer>>

timer_fires ==
  /\ stack = << >>
  /\ timer
  /\ timer' = FALSE
  /\ stack' = timer_cb
  /\ UNCHANGED <<easy, expiry, sock, told>>

\* The peer took the connection, answered, or either broke.
event_cb(r) ==
  /\ stack = << >>
  /\ sock[r].watch # {}
  /\ stack' = <<event_run(r), info>>
  /\ UNCHANGED <<easy, expiry, sock, told, timer>>

\* A timeout falls due, whatever is being done.
time_passes(r) ==
  /\ expiry[r] = "later"
  /\ expiry' = [expiry EXCEPT ![r] = "due"]
  /\ UNCHANGED <<easy, sock, told, timer, stack>>

\* The innermost call goes on.
GoesOn ==
  \/ socket_action_timeout
  \/ \E r \in Request : socket_action_event(r)
  \/ update_timer
  \/ check_multi_info
  \/ \E r \in Request : easy_cleanup(r)

Next ==
  \/ GoesOn
  \/ \E r \in Request : http_client_get(r)
  \/ timer_fires
  \/ \E r \in Request : event_cb(r)
  \/ \E r \in Request : time_passes(r)

Spec == Init /\ [][Next]_vars

\* Calls return and time passes.  libev serves the timer and each socket that
\* is ready in turn, whatever else is pending; a peer answers or its connection
\* breaks.
Fairness ==
  /\ WF_vars(GoesOn)
  /\ SF_vars(timer_fires)
  /\ \A r \in Request : SF_vars(event_cb(r)) /\ SF_vars(time_passes(r))

FairSpec == Spec /\ Fairness

-------------------------------------------------------------------------------
(* Properties. *)

\* Between callbacks of libev, the watchers wait for exactly what libcurl wants
\* to know of each socket, however requests replaced, dropped and nested.
WatchersFollowCurl ==
  stack = << >> =>
    \A r \in Request :
      sock[r].watch = IF Poll(easy[r]) = "REMOVE" THEN {} ELSE {Poll(easy[r])}

\* Between callbacks of libev, the timer runs while libcurl has a timeout left
\* and nothing that is done waits for its callback: no request is forgotten.
NothingForgotten ==
  stack = << >> =>
    /\ (\E r \in Request : expiry[r] # "none") => timer
    /\ \A r \in Request : easy[r] \notin {"added", "done", "called"}

\* A callback may run inside that of another request, when a timeout falls due
\* in one that blocks and free_http_request calls libcurl next.  Still each
\* request handed to its callback is freed once, by the call that is under way
\* for it; and when it is, nothing waits for its socket or its timeout any more.
FreedOnce ==
  \A r \in Request :
    LET frees == {i \in DOMAIN stack : stack[i] = cleanup(r)}
    IN  /\ Cardinality(frees) = IF easy[r] = "called" THEN 1 ELSE 0
        /\ frees # {} => sock[r].watch = {} /\ expiry[r] = "none"

\* Every lookup is answered: its callback is called.
EveryRequestAnswered ==
  \A r \in Request :
    [](easy[r] \notin {"free", "called"} => <>(easy[r] \in {"free", "called"}))
===============================================================================

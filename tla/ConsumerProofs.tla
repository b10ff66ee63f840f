---------------------------- MODULE ConsumerProofs ----------------------------
(***************************************************************************)
(* What a channel promises, for any number of messages, readers and links, *)
(* and however often links break, answers are late and the handler fails.  *)
(***************************************************************************)
EXTENDS Consumer, FiniteSetTheorems, SequenceTheorems, TLAPS

Command(n) ==
  {Sub, Rdy(n)} \cup {Fin(m) : m \in Message} \cup {Req(m) : m \in Message}

Typed ==
  /\ max_in_flight \in InFlightSizes
  /\ client \in [Link -> BOOLEAN] /\ nsqd \in [Link -> BOOLEAN]
  /\ to_client \in [Link -> Seq(Message)]
  /\ to_nsqd \in [Link -> Seq(Command(max_in_flight))]
  /\ rdy \in [Link -> 0 .. max_in_flight] /\ credit \in [Link -> 0 .. max_in_flight]
  /\ owner \in [Message -> Link \cup {NoLink}]
  /\ queue \subseteq Message /\ \A m \in queue : owner[m] = NoLink
  /\ handled \in [Message -> Nat] /\ excuses \in [Message -> Nat]
  /\ late \in [Link -> Nat]

(***************************************************************************)
(* Why a link is paced: what is unread or answered on it is in flight      *)
(* there, as far as nsqd knows, unless nsqd gave up waiting for it, and    *)
(* nsqd pushes only while less is in flight than RDY allows.               *)
(***************************************************************************)
Bound(n, open, ms, cs, held, gave_up) ==
  /\ IsFiniteSet(held) /\ Cardinality(held) <= n
  /\ open => Len(ms) + Cardinality(AnswersIn(cs)) <= Cardinality(held) + gave_up
  /\ ~open => cs = << >> /\ Len(ms) <= n + gave_up

PacedInv ==
  \A l \in Link :
    Bound(max_in_flight, nsqd[l], to_client[l], to_nsqd[l], InFlight(l), late[l])

(***************************************************************************)
(* Why a message is not handled again for no reason: each place it has in  *)
(* the channel's queue, on its way to a client, or on its way back to the  *)
(* queue in a REQ, is one more time it may be handled, and only what       *)
(* counts as an excuse makes a new place.                                  *)
(***************************************************************************)
Spots == {"unread", "returned", "queued"} \X (Link \cup {NoLink}) \X Nat

IsPlace(m, p, incoming, outgoing, q) ==
  \/ /\ p[1] = "unread" /\ p[2] \in Link
     /\ p[3] \in DOMAIN incoming[p[2]] /\ incoming[p[2]][p[3]] = m
  \/ /\ p[1] = "returned" /\ p[2] \in Link
     /\ p[3] \in DOMAIN outgoing[p[2]] /\ outgoing[p[2]][p[3]] = Req(m)
  \/ /\ p[1] = "queued" /\ p[2] = NoLink /\ p[3] = 0
     /\ m \in q

PlacesIn(m, incoming, outgoing, q) ==
  {p \in Spots : IsPlace(m, p, incoming, outgoing, q)}

Places(m) == PlacesIn(m, to_client, to_nsqd, queue)

OnceEach ==
  \A m \in Message :
    /\ IsFiniteSet(Places(m))
    /\ handled[m] + Cardinality(Places(m)) <= 1 + excuses[m]

\* nsqd is told that a message is finished only after it was handled.
FinishedLast ==
  \A l \in Link, m \in Message :
    (\E k \in DOMAIN to_nsqd[l] : to_nsqd[l][k] = Fin(m)) => handled[m] > 0

IInv == Typed /\ PacedInv /\ OnceEach /\ FinishedLast

-------------------------------------------------------------------------------

(***************************************************************************)
(* Commands, and parts of what is on its way.                              *)
(***************************************************************************)
LEMMA CommandIs ==
  ASSUME NEW n, NEW c \in Command(n)
  PROVE  \/ c = Sub /\ c[1] = "SUB"
         \/ c = Rdy(n) /\ c[1] = "RDY" /\ c[2] = n
         \/ c[1] = "FIN" /\ c[2] \in Message /\ c = Fin(c[2])
         \/ c[1] = "REQ" /\ c[2] \in Message /\ c = Req(c[2])
BY DEF Command, Sub, Rdy, Fin, Req

LEMMA Beginning ==
  ASSUME NEW S, NEW s \in Seq(S), NEW k \in 0 .. Len(s)
  PROVE  /\ SubSeq(s, 1, k) \in Seq(S) /\ Len(SubSeq(s, 1, k)) = k
         /\ \A i \in 1 .. k : SubSeq(s, 1, k)[i] = s[i]
<1>1. Len(s) \in Nat /\ k \in Nat
  OBVIOUS
<1>2. CASE k = 0
  BY <1>2
<1>3. CASE k # 0
  <2>1. 1 \in 1 .. Len(s) /\ k \in 1 .. Len(s)
    BY <1>1, <1>3
  <2> QED
    BY <1>1, <2>1
<1> QED
  BY <1>2, <1>3

LEMMA TailIs ==
  ASSUME NEW S, NEW s \in Seq(S), s # << >>
  PROVE  /\ Head(s) \in S /\ Head(s) = s[1] /\ 1 \in DOMAIN s
         /\ Tail(s) \in Seq(S) /\ Len(Tail(s)) = Len(s) - 1
         /\ \A k \in DOMAIN Tail(s) : k + 1 \in DOMAIN s /\ Tail(s)[k] = s[k + 1]
         /\ DOMAIN s = 1 .. Len(s) /\ Len(s) \in Nat
BY HeadTailProperties

LEMMA WithTwo ==
  ASSUME NEW S, NEW s \in Seq(S), NEW a \in Seq(S), Len(a) = 2
  PROVE  /\ s \o a \in Seq(S) /\ Len(s) \in Nat /\ Len(s \o a) = Len(s) + 2
         /\ DOMAIN s = 1 .. Len(s) /\ DOMAIN (s \o a) = 1 .. Len(s) + 2
         /\ \A i \in 1 .. Len(s) + 2 :
              \/ i \in 1 .. Len(s) /\ (s \o a)[i] = s[i]
              \/ i = Len(s) + 1 /\ (s \o a)[i] = a[1]
              \/ i = Len(s) + 2 /\ (s \o a)[i] = a[2]
<1> DEFINE u == s \o a
<1>1. /\ u \in Seq(S) /\ Len(u) = Len(s) + Len(a)
      /\ \A i \in 1 .. Len(s) + Len(a) : u[i] = IF i <= Len(s) THEN s[i] ELSE a[i - Len(s)]
  BY ONLY s \in Seq(S), a \in Seq(S), ConcatProperties
<1>2. Len(s) \in Nat /\ DOMAIN s = 1 .. Len(s)
  BY ONLY s \in Seq(S)
<1> HIDE DEF u
<1>3. u \in Seq(S) /\ Len(u) = Len(s) + 2
  BY ONLY <1>1, Len(a) = 2
<1>4. DOMAIN u = 1 .. Len(s) + 2
  BY ONLY <1>3
<1>5. ASSUME NEW i \in 1 .. Len(s) + 2
      PROVE  \/ i \in 1 .. Len(s) /\ u[i] = s[i]
             \/ i = Len(s) + 1 /\ u[i] = a[1]
             \/ i = Len(s) + 2 /\ u[i] = a[2]
  <2>1. u[i] = IF i <= Len(s) THEN s[i] ELSE a[i - Len(s)]
    BY ONLY <1>1, Len(a) = 2, i \in 1 .. Len(s) + 2
  <2>2. \/ i \in 1 .. Len(s) /\ i <= Len(s)
        \/ i = Len(s) + 1 /\ ~(i <= Len(s)) /\ i - Len(s) = 1
        \/ i = Len(s) + 2 /\ ~(i <= Len(s)) /\ i - Len(s) = 2
    BY ONLY <1>2, i \in 1 .. Len(s) + 2
  <2> QED
    BY ONLY <2>1, <2>2
<1> QED
  BY <1>2, <1>3, <1>4, <1>5 DEF u

LEMMA AnswerIs ==
  ASSUME Typed, NEW m \in Message, NEW succeeded \in BOOLEAN
  PROVE  /\ Answer(m, succeeded) \in Seq(Command(max_in_flight))
         /\ Len(Answer(m, succeeded)) = 2
         /\ Answer(m, succeeded)[1] = IF succeeded THEN Fin(m) ELSE Req(m)
         /\ Answer(m, succeeded)[2] = Rdy(max_in_flight)
<1>1. /\ Fin(m) \in Command(max_in_flight) /\ Req(m) \in Command(max_in_flight)
      /\ Rdy(max_in_flight) \in Command(max_in_flight)
  BY DEF Command
<1> QED
  BY <1>1 DEF Answer

LEMMA InitTyped == Init => Typed
<1> SUFFICES ASSUME Init PROVE Typed
  OBVIOUS
<1>1. max_in_flight \in InFlightSizes /\ max_in_flight \in Nat
  BY ConsumerAssumption DEF Init
<1>2. 0 \in 0 .. max_in_flight
  BY <1>1
<1> QED
  BY <1>1, <1>2 DEF Init, Typed

LEMMA ClosingTyped ==
  ASSUME Typed, NEW l \in Link, buffered_socket_close(l)
  PROVE  Typed'
<1>1. PICK k \in 0 .. Len(to_nsqd[l]) : to_nsqd' = [to_nsqd EXCEPT ![l] = SubSeq(@, 1, k)]
  BY DEF buffered_socket_close
<1>2. to_nsqd' \in [Link -> Seq(Command(max_in_flight))]
  <2>1. to_nsqd \in [Link -> Seq(Command(max_in_flight))]
    BY DEF Typed
  <2> DEFINE D == Command(max_in_flight)
             sent == SubSeq(to_nsqd[l], 1, k)
  <2>2. to_nsqd \in [Link -> Seq(D)] /\ sent \in Seq(D)
    BY <2>1, Beginning
  <2>3. to_nsqd' = [to_nsqd EXCEPT ![l] = sent]
    BY <1>1
  <2> HIDE DEF D, sent
  <2>4. to_nsqd' \in [Link -> Seq(D)]
    BY ONLY <2>2, <2>3
  <2> QED
    BY <2>4 DEF D
<1>3. to_client' \in [Link -> Seq(Message)] /\ client' \in [Link -> BOOLEAN]
  BY DEF buffered_socket_close, Typed
<1> QED
  BY <1>2, <1>3 DEF Typed, buffered_socket_close, Command

LEMMA PartingTyped ==
  ASSUME Typed, NEW l \in Link, nsqd_closes(l), to_client' \in [Link -> Seq(Message)]
  PROVE  Typed'
<1>1. nsqd' \in [Link -> BOOLEAN] /\ to_nsqd' \in [Link -> Seq(Command(max_in_flight))]
  <2>1. << >> \in Seq(Command(max_in_flight))
    OBVIOUS
  <2> QED
    BY <2>1 DEF nsqd_closes, Typed
<1>2. owner' \in [Message -> Link \cup {NoLink}] /\ excuses' \in [Message -> Nat]
  BY DEF nsqd_closes, Typed
<1>3. queue' \subseteq Message /\ \A m \in queue' : owner'[m] = NoLink
  BY DEF nsqd_closes, Typed, InFlight
<1> QED
  BY <1>1, <1>2, <1>3 DEF Typed, nsqd_closes, Command

LEMMA NextTyped == Typed /\ [Next]_vars => Typed'
<1> SUFFICES ASSUME Typed, [Next]_vars PROVE Typed'
  OBVIOUS
<1>1. max_in_flight \in Nat \ {0} /\ 0 \in 0 .. max_in_flight /\ max_in_flight \in 0 .. max_in_flight
  BY ConsumerAssumption DEF Typed
<1>2. ASSUME NEW l \in Link, nsq_reader_connect_cb(l)
      PROVE  Typed'
  <2>1. <<Sub, Rdy(max_in_flight)>> \in Seq(Command(max_in_flight))
    BY DEF Command
  <2>2. to_nsqd' \in [Link -> Seq(Command(max_in_flight))]
    BY <1>2, <2>1 DEF nsq_reader_connect_cb, Typed
  <2>3. client' \in [Link -> BOOLEAN] /\ nsqd' \in [Link -> BOOLEAN]
    BY <1>2 DEF nsq_reader_connect_cb, Typed
  <2>4. to_client' \in [Link -> Seq(Message)]
    <3>1. << >> \in Seq(Message)
      OBVIOUS
    <3> QED
      BY <1>2, <3>1 DEF nsq_reader_connect_cb, Typed
  <2>5. rdy' \in [Link -> 0 .. max_in_flight] /\ credit' \in [Link -> 0 .. max_in_flight]
    BY <1>1, <1>2 DEF nsq_reader_connect_cb, Typed
  <2>6. late' \in [Link -> Nat]
    BY <1>2 DEF nsq_reader_connect_cb, Typed
  <2>7. UNCHANGED <<max_in_flight, owner, queue, handled, excuses>>
    BY <1>2 DEF nsq_reader_connect_cb
  <2> QED
    BY <2>2, <2>3, <2>4, <2>5, <2>6, <2>7 DEF Typed
<1>3. ASSUME NEW l \in Link, NEW succeeded \in BOOLEAN, message_handler(l, succeeded)
      PROVE  Typed'
  <2> DEFINE m == Head(to_client[l])
  <2>1. m \in Message /\ Tail(to_client[l]) \in Seq(Message)
    BY <1>3, TailIs DEF message_handler, Typed
  <2>2. to_nsqd[l] \o Answer(m, succeeded) \in Seq(Command(max_in_flight))
    BY <2>1, AnswerIs, ConcatProperties DEF Typed
  <2>3. to_nsqd' \in [Link -> Seq(Command(max_in_flight))]
    BY <1>3, <2>2 DEF message_handler, Typed
  <2>4. to_client' \in [Link -> Seq(Message)] /\ handled' \in [Message -> Nat]
    BY <1>3, <2>1, SMTT(30) DEF message_handler, Typed
  <2> QED
    BY <1>3, <2>3, <2>4 DEF message_handler, Typed, Command
<1>4. ASSUME NEW l \in Link, client_breaks(l) \/ read_cb_end(l)
      PROVE  Typed'
  BY <1>4, ClosingTyped DEF client_breaks, read_cb_end
<1>5. ASSUME NEW l \in Link, NEW m \in Message, nsqd_pushes(l, m)
      PROVE  Typed'
  <2>1. to_client' \in [Link -> Seq(Message)]
    <3>1. Append(to_client[l], m) \in Seq(Message)
      BY DEF Typed
    <3> QED
      BY <1>5, <3>1 DEF nsqd_pushes, Typed
  <2>2. credit' \in [Link -> 0 .. max_in_flight]
    <3>1. credit[l] \in 0 .. max_in_flight /\ credit[l] > 0
      BY <1>5 DEF nsqd_pushes, Typed
    <3>2. credit[l] - 1 \in 0 .. max_in_flight
      BY <1>1, <3>1
    <3> QED
      BY <1>5, <3>2 DEF nsqd_pushes, Typed
  <2>3. /\ owner' \in [Message -> Link \cup {NoLink}]
        /\ queue' \subseteq Message /\ \A p \in queue' : owner'[p] = NoLink
    BY <1>5 DEF nsqd_pushes, Typed
  <2> QED
    BY <1>5, <2>1, <2>2, <2>3 DEF nsqd_pushes, Typed, Command
<1>6. ASSUME NEW l \in Link, nsqd_receives(l)
      PROVE  Typed'
  <2> DEFINE c == Head(to_nsqd[l])
  <2>1. c \in Command(max_in_flight) /\ Tail(to_nsqd[l]) \in Seq(Command(max_in_flight))
    BY <1>6, TailIs DEF nsqd_receives, Typed
  <2>2. to_nsqd' \in [Link -> Seq(Command(max_in_flight))]
    BY <1>6, <2>1 DEF nsqd_receives, Typed
  <2>3. /\ rdy' \in [Link -> 0 .. max_in_flight] /\ credit' \in [Link -> 0 .. max_in_flight]
        /\ owner' \in [Message -> Link \cup {NoLink}]
        /\ queue' \subseteq Message /\ \A m \in queue' : owner'[m] = NoLink
    <3>1. CASE c[1] = "SUB"
      BY <1>6, <3>1 DEF nsqd_receives, Typed
    <3>2. CASE c[1] = "RDY"
      <4>1. c[2] = max_in_flight
        BY <2>1, <3>2, CommandIs
      <4> QED
        BY <1>1, <1>6, <3>2, <4>1 DEF nsqd_receives, Typed
    <3>3. CASE c[1] \in {"FIN", "REQ"}
      <4>1. c[2] \in Message
        BY <2>1, <3>3, CommandIs
      <4> HIDE DEF c
      <4>2. /\ owner' = IF owner[c[2]] = l THEN [owner EXCEPT ![c[2]] = NoLink] ELSE owner
            /\ queue' = IF owner[c[2]] = l /\ c[1] = "REQ" THEN queue \cup {c[2]} ELSE queue
            /\ UNCHANGED <<rdy, credit>>
        BY <1>6, <3>3 DEF nsqd_receives, c
      <4> QED
        BY <4>1, <4>2 DEF Typed
    <3> QED
      BY <2>1, <3>1, <3>2, <3>3, CommandIs
  <2> QED
    BY <1>6, <2>2, <2>3 DEF nsqd_receives, Typed, Command
<1>7. ASSUME NEW m \in Message, nsqd_times_out(m)
      PROVE  Typed'
  <2>1. owner[m] \in Link
    BY <1>7 DEF nsqd_times_out, Typed
  <2>2. owner' \in [Message -> Link \cup {NoLink}] /\ excuses' \in [Message -> Nat]
    BY <1>7 DEF nsqd_times_out, Typed
  <2>3. queue' \subseteq Message /\ \A p \in queue' : owner'[p] = NoLink
    BY <1>7 DEF nsqd_times_out, Typed
  <2>4. late' \in [Link -> Nat]
    BY <1>7, <2>1 DEF nsqd_times_out, Typed
  <2>5. UNCHANGED <<max_in_flight, client, nsqd, to_client, to_nsqd, rdy, credit, handled>>
    BY <1>7 DEF nsqd_times_out, links
  <2> QED
    BY <2>2, <2>3, <2>4, <2>5 DEF Typed
<1>8. ASSUME NEW l \in Link, nsqd_breaks(l)
      PROVE  Typed'
  <2>1. PICK k \in 0 .. Len(to_client[l]) : to_client' = [to_client EXCEPT ![l] = SubSeq(@, 1, k)]
    BY <1>8 DEF nsqd_breaks
  <2>2. to_client' \in [Link -> Seq(Message)]
    <3> DEFINE arrived == SubSeq(to_client[l], 1, k)
    <3>1. to_client \in [Link -> Seq(Message)]
      BY DEF Typed
    <3>2. arrived \in Seq(Message)
      BY <3>1, Beginning
    <3> HIDE DEF arrived
    <3>3. to_client' = [to_client EXCEPT ![l] = arrived]
      BY <2>1 DEF arrived
    <3> QED
      BY ONLY <3>1, <3>2, <3>3
  <2> QED
    BY <1>8, <2>2, PartingTyped DEF nsqd_breaks
<1>9. ASSUME NEW l \in Link, nsqd_notices(l)
      PROVE  Typed'
  <2>1. to_client' \in [Link -> Seq(Message)]
    BY <1>9 DEF nsqd_notices, Typed
  <2> QED
    BY <1>9, <2>1, PartingTyped DEF nsqd_notices
<1>10. CASE at_rest \/ UNCHANGED vars
  BY <1>10 DEF at_rest, vars, Typed, Command
<1> QED
  BY <1>2, <1>3, <1>4, <1>5, <1>6, <1>7, <1>8, <1>9, <1>10
     DEF Next, message_succeeds, message_fails

(***************************************************************************)
(* The variables keep their types, and a message is never both queued and  *)
(* in flight.                                                              *)
(***************************************************************************)
THEOREM TypeCorrect == Spec => []TypeOK
<1>1. Typed => TypeOK
  <2> SUFFICES ASSUME Typed PROVE TypeOK
    OBVIOUS
  <2> DEFINE All == {Sub} \cup {Rdy(n) : n \in InFlightSizes}
                      \cup {Fin(m) : m \in Message} \cup {Req(m) : m \in Message}
  <2>1. Command(max_in_flight) \subseteq All
    BY DEF Typed, Command
  <2> HIDE DEF All
  <2>2. \A l \in Link : to_nsqd[l] \in Seq(All)
    <3>1. ASSUME NEW l \in Link PROVE to_nsqd[l] \in Seq(All)
      <4>1. to_nsqd[l] \in Seq(Command(max_in_flight))
        BY DEF Typed
      <4> QED
        BY <2>1, <4>1
    <3> QED
      BY <3>1
  <2>3. {rdy, credit} \subseteq [Link -> InFlightSizes \cup (0 .. max_in_flight)]
    BY DEF Typed
  <2> QED
    BY <2>2, <2>3 DEF TypeOK, Typed, All
<1> QED
  BY <1>1, InitTyped, NextTyped, PTL DEF Spec

-------------------------------------------------------------------------------

(***************************************************************************)
(* Counting answers.                                                       *)
(***************************************************************************)
LEMMA Counted ==
  ASSUME NEW S, NEW T, IsFiniteSet(T), NEW f \in [S -> T],
         \A a, b \in S : f[a] = f[b] => a = b
  PROVE  /\ IsFiniteSet(S) /\ Cardinality(S) <= Cardinality(T)
         /\ Cardinality(S) \in Nat /\ Cardinality(T) \in Nat
<1>1. f \in Injection(S, T)
  BY DEF Injection, IsInjective
<1>2. IsFiniteSet(S) /\ Cardinality(S) <= Cardinality(T)
  BY <1>1, FS_Injection
<1> QED
  BY <1>2, FS_CardinalityType

LEMMA AnswersAre ==
  ASSUME NEW C, NEW cs \in Seq(C)
  PROVE  IsFiniteSet(AnswersIn(cs)) /\ Cardinality(AnswersIn(cs)) \in Nat
<1>1. AnswersIn(cs) \in SUBSET (1 .. Len(cs)) /\ Len(cs) \in Int
  BY DEF AnswersIn
<1>2. IsFiniteSet(1 .. Len(cs))
  BY <1>1, FS_Interval
<1>3. IsFiniteSet(AnswersIn(cs))
  BY <1>1, <1>2, FS_Subset
<1> QED
  BY <1>3, FS_CardinalityType

LEMMA AnswersEmpty == AnswersIn(<< >>) = {} /\ Cardinality(AnswersIn(<< >>)) = 0
<1>1. AnswersIn(<< >>) = {}
  BY DEF AnswersIn
<1> QED
  BY <1>1, FS_EmptySet

LEMMA AnswersTail ==
  ASSUME NEW C, NEW cs \in Seq(C), cs # << >>
  PROVE  /\ Cardinality(AnswersIn(Tail(cs))) <= Cardinality(AnswersIn(cs))
         /\ Head(cs)[1] \in {"FIN", "REQ"} =>
              Cardinality(AnswersIn(Tail(cs))) + 1 <= Cardinality(AnswersIn(cs))
<1> DEFINE S == AnswersIn(Tail(cs))
           A == AnswersIn(cs)
           T == A \ {1}
           f == [k \in S |-> k + 1]
<1>1. /\ Head(cs) = cs[1] /\ 1 \in DOMAIN cs /\ Tail(cs) \in Seq(C)
      /\ \A k \in DOMAIN Tail(cs) : k + 1 \in DOMAIN cs /\ Tail(cs)[k] = cs[k + 1]
  BY TailIs
<1>2. IsFiniteSet(A) /\ Cardinality(A) \in Nat
  BY AnswersAre
<1>3. IsFiniteSet(T) /\ Cardinality(T) = IF 1 \in A THEN Cardinality(A) - 1 ELSE Cardinality(A)
  BY <1>2, FS_RemoveElement
<1>4. S \subseteq 1 .. Len(Tail(cs)) /\ Len(Tail(cs)) \in Nat
  BY <1>1 DEF AnswersIn
<1>5. f \in [S -> T] /\ \A a, b \in S : f[a] = f[b] => a = b
  <2>1. ASSUME NEW k \in S PROVE k + 1 \in T
    <3>1. k \in DOMAIN Tail(cs) /\ Tail(cs)[k][1] \in {"FIN", "REQ"} /\ k + 1 # 1
      BY <1>4 DEF AnswersIn
    <3> QED
      BY <1>1, <3>1 DEF AnswersIn
  <2> QED
    BY <1>4, <2>1
<1>6. Cardinality(S) <= Cardinality(T) /\ Cardinality(S) \in Nat
  <2> HIDE DEF S, T, f
  <2> QED
    BY <1>3, <1>5, Counted
<1>7. Head(cs)[1] \in {"FIN", "REQ"} => 1 \in A
  BY <1>1 DEF AnswersIn
<1> HIDE DEF S, A, T
<1>8. /\ Cardinality(S) <= Cardinality(A)
      /\ 1 \in A => Cardinality(S) + 1 <= Cardinality(A)
  BY <1>2, <1>3, <1>6
<1> QED
  BY <1>7, <1>8 DEF S, A

LEMMA AnswersBegin ==
  ASSUME NEW C, NEW cs \in Seq(C), NEW k \in 0 .. Len(cs)
  PROVE  Cardinality(AnswersIn(SubSeq(cs, 1, k))) <= Cardinality(AnswersIn(cs))
<1>1. AnswersIn(SubSeq(cs, 1, k)) \in SUBSET AnswersIn(cs)
  <2>1. /\ SubSeq(cs, 1, k) \in Seq(C) /\ Len(SubSeq(cs, 1, k)) = k
        /\ \A i \in 1 .. k : SubSeq(cs, 1, k)[i] = cs[i]
    BY Beginning
  <2>2. DOMAIN SubSeq(cs, 1, k) = 1 .. k /\ DOMAIN cs = 1 .. Len(cs) /\ Len(cs) \in Nat
    BY <2>1
  <2>3. 1 .. k \subseteq 1 .. Len(cs)
    BY <2>2
  <2> QED
    BY <2>1, <2>2, <2>3 DEF AnswersIn
<1>2. IsFiniteSet(AnswersIn(cs))
  BY AnswersAre
<1> QED
  BY <1>1, <1>2, FS_Subset

LEMMA AnswersMore ==
  ASSUME Typed, NEW cs \in Seq(Command(max_in_flight)),
         NEW m \in Message, NEW succeeded \in BOOLEAN
  PROVE  Cardinality(AnswersIn(cs \o Answer(m, succeeded))) <= Cardinality(AnswersIn(cs)) + 1
<1> DEFINE a == Answer(m, succeeded)
           u == cs \o a
           S == AnswersIn(u)
           A == AnswersIn(cs)
           n == Len(cs) + 1
<1>1. a \in Seq(Command(max_in_flight)) /\ Len(a) = 2 /\ a[2] = Rdy(max_in_flight)
  BY AnswerIs
<1> HIDE DEF a
<1>2. /\ u \in Seq(Command(max_in_flight)) /\ Len(cs) \in Nat /\ Len(u) = Len(cs) + 2
      /\ DOMAIN cs = 1 .. Len(cs) /\ DOMAIN u = 1 .. Len(cs) + 2
      /\ \A i \in 1 .. Len(cs) + 2 :
           \/ i \in 1 .. Len(cs) /\ u[i] = cs[i]
           \/ i = Len(cs) + 1 /\ u[i] = a[1]
           \/ i = Len(cs) + 2 /\ u[i] = a[2]
  BY ONLY cs \in Seq(Command(max_in_flight)), <1>1, WithTwo
<1>3. a[2][1] \notin {"FIN", "REQ"}
  BY <1>1 DEF Rdy
<1> HIDE DEF u
<1>4. S \in SUBSET (A \cup {n})
  <2>1. ASSUME NEW k \in S PROVE k \in A \cup {n}
    <3>1. k \in 1 .. Len(cs) + 2 /\ u[k][1] \in {"FIN", "REQ"}
      BY <1>2 DEF AnswersIn
    <3>2. CASE k \in 1 .. Len(cs) /\ u[k] = cs[k]
      BY <1>2, <3>1, <3>2 DEF AnswersIn
    <3>3. CASE k = Len(cs) + 1
      BY <3>3
    <3>4. CASE u[k] = a[2]
      BY <1>3, <3>1, <3>4
    <3> QED
      BY <1>2, <3>1, <3>2, <3>3, <3>4
  <2> QED
    BY <2>1
<1>5. IsFiniteSet(A) /\ Cardinality(A) \in Nat
  BY AnswersAre
<1>6. /\ IsFiniteSet(A \cup {n})
      /\ Cardinality(A \cup {n}) = IF n \in A THEN Cardinality(A) ELSE Cardinality(A) + 1
  BY <1>5, FS_AddElement
<1> HIDE DEF S, A, n
<1>7. Cardinality(S) <= Cardinality(A \cup {n}) /\ IsFiniteSet(S)
  BY <1>4, <1>6, FS_Subset
<1>8. Cardinality(S) \in Nat
  BY <1>7, FS_CardinalityType
<1>9. Cardinality(S) <= Cardinality(A) + 1
  BY <1>5, <1>6, <1>7, <1>8
<1> QED
  BY <1>9 DEF S, A, u, a

-------------------------------------------------------------------------------

(***************************************************************************)
(* The pace of a link.                                                     *)
(***************************************************************************)
LEMMA BoundFields ==
  ASSUME Typed, PacedInv, NEW l \in Link
  PROVE  /\ Bound(max_in_flight, nsqd[l], to_client[l], to_nsqd[l], InFlight(l), late[l])
         /\ to_client[l] \in Seq(Message) /\ Len(to_client[l]) \in Nat
         /\ to_nsqd[l] \in Seq(Command(max_in_flight))
         /\ Cardinality(AnswersIn(to_nsqd[l])) \in Nat
         /\ IsFiniteSet(InFlight(l)) /\ Cardinality(InFlight(l)) \in Nat
         /\ late[l] \in Nat /\ max_in_flight \in Nat /\ nsqd[l] \in BOOLEAN
<1>1. Bound(max_in_flight, nsqd[l], to_client[l], to_nsqd[l], InFlight(l), late[l])
  BY DEF PacedInv
<1>2. IsFiniteSet(InFlight(l))
  BY <1>1 DEF Bound
<1>3. Cardinality(InFlight(l)) \in Nat
  BY <1>2, FS_CardinalityType
<1>4. to_client[l] \in Seq(Message) /\ to_nsqd[l] \in Seq(Command(max_in_flight))
  BY DEF Typed
<1>5. late[l] \in Nat /\ max_in_flight \in Nat /\ nsqd[l] \in BOOLEAN
  BY ConsumerAssumption DEF Typed
<1>6. Cardinality(AnswersIn(to_nsqd[l])) \in Nat
  BY <1>4, AnswersAre
<1> QED
  BY <1>1, <1>2, <1>3, <1>4, <1>5, <1>6

LEMMA InitPaced == Init => PacedInv
<1> SUFFICES ASSUME Init, NEW l \in Link
             PROVE  Bound(max_in_flight, nsqd[l], to_client[l], to_nsqd[l], InFlight(l), late[l])
  BY DEF PacedInv
<1>1. /\ max_in_flight \in Nat /\ nsqd[l] = FALSE /\ late[l] = 0
      /\ to_client[l] = << >> /\ to_nsqd[l] = << >>
  BY ConsumerAssumption DEF Init
<1>2. InFlight(l) = {}
  BY ConsumerAssumption DEF Init, InFlight
<1>3. Len(<< >>) = 0
  OBVIOUS
<1> QED
  BY <1>1, <1>2, <1>3, FS_EmptySet DEF Bound

\* The client's end closes.
LEMMA ClosingPaced ==
  ASSUME Typed, PacedInv, NEW l \in Link, buffered_socket_close(l)
  PROVE  PacedInv'
<1> SUFFICES ASSUME NEW k \in Link
             PROVE  Bound(max_in_flight', nsqd'[k], to_client'[k], to_nsqd'[k], InFlight(k)', late'[k])
  BY DEF PacedInv
<1>1. UNCHANGED <<max_in_flight, nsqd, late>> /\ InFlight(k)' = InFlight(k)
  BY DEF buffered_socket_close, InFlight
<1>2. CASE k = l
  <2>1. PICK i \in 0 .. Len(to_nsqd[l]) : to_nsqd' = [to_nsqd EXCEPT ![l] = SubSeq(@, 1, i)]
    BY DEF buffered_socket_close
  <2> DEFINE sent == SubSeq(to_nsqd[l], 1, i)
  <2>2. /\ sent \in Seq(Command(max_in_flight)) /\ Len(sent) = i
        /\ Cardinality(AnswersIn(sent)) \in Nat
        /\ Cardinality(AnswersIn(sent)) <= Cardinality(AnswersIn(to_nsqd[l]))
    <3>1. to_nsqd[l] \in Seq(Command(max_in_flight))
      BY BoundFields
    <3>2. sent \in Seq(Command(max_in_flight)) /\ Len(sent) = i
      BY ONLY <3>1, i \in 0 .. Len(to_nsqd[l]), Beginning
    <3>3. Cardinality(AnswersIn(sent)) <= Cardinality(AnswersIn(to_nsqd[l]))
      BY ONLY <3>1, i \in 0 .. Len(to_nsqd[l]), AnswersBegin
    <3> HIDE DEF sent
    <3> QED
      BY ONLY <3>2, <3>3, AnswersAre
  <2>3. to_nsqd'[k] = sent /\ to_client'[k] = << >>
    BY <1>2, <2>1 DEF buffered_socket_close, Typed
  <2>4. to_nsqd[l] = << >> => sent = << >>
    BY <2>2
  <2>5. Len(<< >>) = 0
    OBVIOUS
  <2> HIDE DEF sent
  <2>6. Bound(max_in_flight, nsqd[k], to_client[k], to_nsqd[k], InFlight(k), late[k])
    BY BoundFields
  <2>7. IsFiniteSet(InFlight(k)) /\ Cardinality(InFlight(k)) <= max_in_flight
    BY <2>6 DEF Bound
  <2>8. ASSUME nsqd[k]
        PROVE  0 + Cardinality(AnswersIn(sent)) <= Cardinality(InFlight(k)) + late[k]
    BY <1>2, <2>2, <2>6, <2>8, BoundFields DEF Bound
  <2>9. ASSUME ~nsqd[k] PROVE sent = << >> /\ 0 <= max_in_flight + late[k]
    BY <1>2, <2>4, <2>6, <2>9, BoundFields DEF Bound
  <2> QED
    BY ONLY <1>1, <2>3, <2>5, <2>7, <2>8, <2>9 DEF Bound
<1>3. CASE k # l
  <2>1. to_client'[k] = to_client[k] /\ to_nsqd'[k] = to_nsqd[k]
    BY <1>3 DEF buffered_socket_close, Typed
  <2> QED
    BY <1>1, <2>1, BoundFields
<1> QED
  BY <1>2, <1>3

\* nsqd's end closes.
LEMMA PartingPaced ==
  ASSUME Typed, PacedInv, NEW l \in Link, nsqd[l], nsqd_closes(l),
         to_client'[l] \in Seq(Message), Len(to_client'[l]) <= Len(to_client[l]),
         \A k \in Link \ {l} : to_client'[k] = to_client[k]
  PROVE  PacedInv'
<1> SUFFICES ASSUME NEW k \in Link
             PROVE  Bound(max_in_flight', nsqd'[k], to_client'[k], to_nsqd'[k], InFlight(k)', late'[k])
  BY DEF PacedInv
<1>1. UNCHANGED <<max_in_flight, late>>
  BY DEF nsqd_closes
<1>2. CASE k = l
  <2>1. nsqd'[k] = FALSE /\ to_nsqd'[k] = << >>
    BY <1>2 DEF nsqd_closes, Typed
  <2>2. InFlight(k)' = {}
    BY <1>2, ConsumerAssumption DEF nsqd_closes, InFlight
  <2>3. IsFiniteSet({}) /\ Cardinality({}) = 0
    BY FS_EmptySet
  <2>4. Len(to_client'[l]) \in Nat
    OBVIOUS
  <2>5. Len(to_client'[k]) <= max_in_flight + late[k]
    BY <1>2, <2>4, BoundFields DEF Bound
  <2>6. max_in_flight \in Nat /\ 0 <= max_in_flight
    BY BoundFields
  <2> QED
    BY <1>1, <2>1, <2>2, <2>3, <2>5, <2>6 DEF Bound
<1>3. CASE k # l
  <2>1. to_client'[k] = to_client[k] /\ to_nsqd'[k] = to_nsqd[k] /\ nsqd'[k] = nsqd[k]
    BY <1>3 DEF nsqd_closes, Typed
  <2>2. InFlight(k)' = InFlight(k)
    BY <1>3, ConsumerAssumption DEF nsqd_closes, InFlight, Typed
  <2> QED
    BY <1>1, <2>1, <2>2, BoundFields
<1> QED
  BY <1>2, <1>3

LEMMA HandlerPaced ==
  ASSUME Typed, PacedInv, NEW l \in Link, NEW succeeded \in BOOLEAN,
         message_handler(l, succeeded)
  PROVE  PacedInv'
<1> SUFFICES ASSUME NEW k \in Link
             PROVE  Bound(max_in_flight', nsqd'[k], to_client'[k], to_nsqd'[k], InFlight(k)', late'[k])
  BY DEF PacedInv
<1>1. UNCHANGED <<max_in_flight, nsqd, late>> /\ InFlight(k)' = InFlight(k)
  BY DEF message_handler, InFlight
<1>2. CASE k = l
  <2> DEFINE m == Head(to_client[l])
             more == to_nsqd[l] \o Answer(m, succeeded)
  <2>1. m \in Message /\ Len(Tail(to_client[l])) = Len(to_client[l]) - 1
    BY TailIs, BoundFields DEF message_handler
  <2>2. /\ more \in Seq(Command(max_in_flight)) /\ Cardinality(AnswersIn(more)) \in Nat
        /\ Cardinality(AnswersIn(more)) <= Cardinality(AnswersIn(to_nsqd[l])) + 1
    <3>1. more \in Seq(Command(max_in_flight))
      BY <2>1, BoundFields, AnswerIs, ConcatProperties
    <3>2. Cardinality(AnswersIn(more)) <= Cardinality(AnswersIn(to_nsqd[l])) + 1
      BY <2>1, BoundFields, AnswersMore
    <3> HIDE DEF more
    <3> QED
      BY <3>1, <3>2, AnswersAre
  <2>3. /\ to_client'[k] = Tail(to_client[l])
        /\ to_nsqd'[k] = IF nsqd[l] THEN more ELSE to_nsqd[l]
    BY <1>2 DEF message_handler, Typed
  <2> HIDE DEF m, more
  <2> QED
    BY <1>1, <1>2, <2>1, <2>2, <2>3, BoundFields, SMTT(30) DEF Bound
<1>3. CASE k # l
  <2>1. to_client'[k] = to_client[k] /\ to_nsqd'[k] = to_nsqd[k]
    BY <1>3 DEF message_handler, Typed
  <2> QED
    BY <1>1, <2>1, BoundFields
<1> QED
  BY <1>2, <1>3

LEMMA PushPaced ==
  ASSUME Typed, PacedInv, NEW l \in Link, NEW m \in Message, nsqd_pushes(l, m)
  PROVE  PacedInv'
<1> SUFFICES ASSUME NEW k \in Link
             PROVE  Bound(max_in_flight', nsqd'[k], to_client'[k], to_nsqd'[k], InFlight(k)', late'[k])
  BY DEF PacedInv
<1>1. UNCHANGED <<max_in_flight, nsqd, to_nsqd, late>> /\ owner[m] = NoLink /\ nsqd[l]
  BY DEF nsqd_pushes, Typed
<1>2. CASE k = l
  <2>1. InFlight(k)' = InFlight(k) \cup {m} /\ m \notin InFlight(k)
    BY <1>1, <1>2, ConsumerAssumption DEF nsqd_pushes, InFlight, Typed
  <2>2. /\ IsFiniteSet(InFlight(k)')
        /\ Cardinality(InFlight(k)') = Cardinality(InFlight(k)) + 1
    BY <2>1, BoundFields, FS_AddElement
  <2>3. Cardinality(InFlight(k)) < max_in_flight
    <3>1. Cardinality(InFlight(k)) < rdy[k] /\ rdy[k] \in 0 .. max_in_flight
      BY <1>2 DEF nsqd_pushes, Typed
    <3> QED
      BY <3>1, BoundFields
  <2>4. Len(to_client'[k]) \in {Len(to_client[k]), Len(to_client[k]) + 1}
    <3>1. Len(Append(to_client[l], m)) = Len(to_client[l]) + 1
      BY BoundFields
    <3>2. to_client'[k] = IF client[l] THEN Append(to_client[l], m) ELSE to_client[l]
      BY <1>2 DEF nsqd_pushes, Typed
    <3> QED
      BY <1>2, <3>1, <3>2
  <2>5. /\ nsqd'[k] = TRUE /\ nsqd[k] = TRUE /\ to_nsqd'[k] = to_nsqd[k]
        /\ max_in_flight' = max_in_flight /\ late'[k] = late[k]
    BY <1>1, <1>2 DEF Typed
  <2>6. /\ Len(to_client[k]) + Cardinality(AnswersIn(to_nsqd[k])) <= Cardinality(InFlight(k)) + late[k]
        /\ Len(to_client[k]) \in Nat /\ Cardinality(AnswersIn(to_nsqd[k])) \in Nat
        /\ Cardinality(InFlight(k)) \in Nat /\ late[k] \in Nat /\ max_in_flight \in Nat
    BY <2>5, BoundFields DEF Bound
  <2>7. /\ Cardinality(InFlight(k)') <= max_in_flight
        /\ Len(to_client'[k]) + Cardinality(AnswersIn(to_nsqd[k]))
             <= Cardinality(InFlight(k)') + late[k]
    BY ONLY <2>2, <2>3, <2>4, <2>6, SMTT(30)
  <2> QED
    BY ONLY <2>2, <2>5, <2>7 DEF Bound
<1>3. CASE k # l
  <2>1. to_client'[k] = to_client[k]
    BY <1>3 DEF nsqd_pushes, Typed
  <2>2. InFlight(k)' = InFlight(k)
    BY <1>1, <1>3, ConsumerAssumption DEF nsqd_pushes, InFlight, Typed
  <2> QED
    BY <1>1, <2>1, <2>2, BoundFields
<1> QED
  BY <1>2, <1>3

LEMMA ReceivePaced ==
  ASSUME Typed, PacedInv, NEW l \in Link, nsqd_receives(l)
  PROVE  PacedInv'
<1> SUFFICES ASSUME NEW k \in Link
             PROVE  Bound(max_in_flight', nsqd'[k], to_client'[k], to_nsqd'[k], InFlight(k)', late'[k])
  BY DEF PacedInv
<1> DEFINE c == Head(to_nsqd[l])
<1>1. UNCHANGED <<max_in_flight, nsqd, to_client, late>>
  BY DEF nsqd_receives
<1>2. c \in Command(max_in_flight)
  BY TailIs, BoundFields DEF nsqd_receives
<1>3. \/ c[1] \in {"SUB", "RDY"} /\ owner' = owner
      \/ /\ c[1] \in {"FIN", "REQ"} /\ c[2] \in Message
         /\ owner' = IF owner[c[2]] = l THEN [owner EXCEPT ![c[2]] = NoLink] ELSE owner
  <2>1. c[1] \in {"FIN", "REQ"} => c[2] \in Message
    BY <1>2, CommandIs
  <2> QED
    BY <2>1 DEF nsqd_receives
<1> HIDE DEF c
<1>4. CASE k = l
  <2>1. /\ nsqd[l] /\ to_nsqd'[k] = Tail(to_nsqd[l]) /\ to_nsqd[l] # << >>
    BY <1>4 DEF nsqd_receives, Typed
  <2>2. /\ Cardinality(AnswersIn(Tail(to_nsqd[l]))) <= Cardinality(AnswersIn(to_nsqd[l]))
        /\ c[1] \in {"FIN", "REQ"} =>
             Cardinality(AnswersIn(Tail(to_nsqd[l]))) + 1 <= Cardinality(AnswersIn(to_nsqd[l]))
    BY <2>1, BoundFields, AnswersTail DEF c
  <2>3. Cardinality(AnswersIn(Tail(to_nsqd[l]))) \in Nat
    <3>1. Tail(to_nsqd[l]) \in Seq(Command(max_in_flight))
      BY <2>1, BoundFields, TailIs
    <3> QED
      BY <3>1, AnswersAre
  <2>4. /\ IsFiniteSet(InFlight(k)') /\ Cardinality(InFlight(k)') \in Nat
        /\ Cardinality(InFlight(k)') <= Cardinality(InFlight(k))
        /\ \/ Cardinality(InFlight(k)') = Cardinality(InFlight(k))
           \/ /\ Cardinality(InFlight(k)') + 1 = Cardinality(InFlight(k))
              /\ c[1] \in {"FIN", "REQ"}
    <3>1. CASE owner' = owner
      BY <3>1, BoundFields DEF InFlight
    <3>2. CASE /\ c[1] \in {"FIN", "REQ"} /\ c[2] \in Message /\ owner[c[2]] = l
               /\ owner' = [owner EXCEPT ![c[2]] = NoLink]
      <4>1. InFlight(k)' = InFlight(k) \ {c[2]} /\ c[2] \in InFlight(k)
        BY <1>4, <3>2, ConsumerAssumption DEF InFlight, Typed
      <4> DEFINE held == InFlight(k)
      <4>2. IsFiniteSet(held) /\ c[2] \in held
        BY <4>1, BoundFields
      <4>3. IsFiniteSet(held \ {c[2]}) /\ Cardinality(held \ {c[2]}) = Cardinality(held) - 1
        BY ONLY <4>2, FS_RemoveElement
      <4>4. /\ IsFiniteSet(InFlight(k)')
            /\ Cardinality(InFlight(k)') = Cardinality(InFlight(k)) - 1
        BY <4>1, <4>3
      <4>5. Cardinality(InFlight(k)') \in Nat
        BY <4>4, FS_CardinalityType
      <4> QED
        BY <3>2, <4>4, <4>5, BoundFields
    <3> QED
      BY <1>3, <3>1, <3>2
  <2> QED
    BY <1>1, <1>4, <2>1, <2>2, <2>3, <2>4, BoundFields DEF Bound
<1>5. CASE k # l
  <2>1. to_nsqd'[k] = to_nsqd[k]
    BY <1>5 DEF nsqd_receives, Typed
  <2>2. InFlight(k)' = InFlight(k)
    BY <1>3, <1>5, ConsumerAssumption DEF InFlight, Typed
  <2> QED
    BY <1>1, <2>1, <2>2, BoundFields
<1> QED
  BY <1>4, <1>5

LEMMA TimeoutPaced ==
  ASSUME Typed, PacedInv, NEW m \in Message, nsqd_times_out(m)
  PROVE  PacedInv'
<1> SUFFICES ASSUME NEW k \in Link
             PROVE  Bound(max_in_flight', nsqd'[k], to_client'[k], to_nsqd'[k], InFlight(k)', late'[k])
  BY DEF PacedInv
<1>1. UNCHANGED <<max_in_flight, nsqd, to_client, to_nsqd>> /\ owner[m] \in Link
  BY DEF nsqd_times_out, links, Typed
<1>2. CASE k = owner[m]
  <2>1. InFlight(k)' = InFlight(k) \ {m} /\ m \in InFlight(k) /\ late'[k] = late[k] + 1
    BY <1>2, ConsumerAssumption DEF nsqd_times_out, InFlight, Typed
  <2>2. /\ IsFiniteSet(InFlight(k)')
        /\ Cardinality(InFlight(k)') = Cardinality(InFlight(k)) - 1
    BY <2>1, BoundFields, FS_RemoveElement
  <2> QED
    BY <1>1, <2>1, <2>2, BoundFields DEF Bound
<1>3. CASE k # owner[m]
  <2>1. InFlight(k)' = InFlight(k) /\ late'[k] = late[k]
    BY <1>3, ConsumerAssumption DEF nsqd_times_out, InFlight, Typed
  <2> QED
    BY <1>1, <2>1, BoundFields
<1> QED
  BY <1>2, <1>3

LEMMA ConnectPaced ==
  ASSUME Typed, PacedInv, NEW l \in Link, nsq_reader_connect_cb(l)
  PROVE  PacedInv'
<1> SUFFICES ASSUME NEW k \in Link
             PROVE  Bound(max_in_flight', nsqd'[k], to_client'[k], to_nsqd'[k], InFlight(k)', late'[k])
  BY DEF PacedInv
<1>1. max_in_flight' = max_in_flight /\ InFlight(k)' = InFlight(k)
  BY DEF nsq_reader_connect_cb, InFlight
<1>2. CASE k = l
  <2> DEFINE cs == <<Sub, Rdy(max_in_flight)>>
  <2>1. /\ to_client'[k] = << >> /\ to_nsqd'[k] = cs /\ nsqd'[k] = TRUE
        /\ late'[k] = 0 /\ Len(<< >>) = 0
    BY <1>2 DEF nsq_reader_connect_cb, Typed
  <2>2. AnswersIn(cs) = {}
    BY DEF AnswersIn, Sub, Rdy
  <2>3. Cardinality(AnswersIn(cs)) = 0
    BY <2>2, FS_EmptySet
  <2> HIDE DEF cs
  <2> QED
    BY <1>1, <2>1, <2>3, BoundFields DEF Bound
<1>3. CASE k # l
  <2>1. /\ to_client'[k] = to_client[k] /\ to_nsqd'[k] = to_nsqd[k]
        /\ nsqd'[k] = nsqd[k] /\ late'[k] = late[k]
    BY <1>3 DEF nsq_reader_connect_cb, Typed
  <2> QED
    BY <1>1, <2>1, BoundFields
<1> QED
  BY <1>2, <1>3

LEMMA NextPaced == Typed /\ PacedInv /\ [Next]_vars => PacedInv'
<1> SUFFICES ASSUME Typed, PacedInv, [Next]_vars PROVE PacedInv'
  OBVIOUS
<1>1. ASSUME NEW l \in Link, nsqd_breaks(l) PROVE PacedInv'
  <2>1. PICK k \in 0 .. Len(to_client[l]) : to_client' = [to_client EXCEPT ![l] = SubSeq(@, 1, k)]
    BY <1>1 DEF nsqd_breaks
  <2> DEFINE arrived == SubSeq(to_client[l], 1, k)
  <2>2. arrived \in Seq(Message) /\ Len(arrived) = k /\ k <= Len(to_client[l])
    BY BoundFields, Beginning
  <2> HIDE DEF arrived
  <2>3. to_client'[l] = arrived /\ \A j \in Link \ {l} : to_client'[j] = to_client[j]
    BY <2>1 DEF Typed, arrived
  <2> QED
    BY <1>1, <2>2, <2>3, PartingPaced DEF nsqd_breaks
<1>2. ASSUME NEW l \in Link, nsqd_notices(l) PROVE PacedInv'
  <2>1. /\ to_client' = to_client /\ to_client[l] \in Seq(Message)
        /\ Len(to_client[l]) <= Len(to_client[l])
    BY <1>2, BoundFields DEF nsqd_notices
  <2> QED
    BY <1>2, <2>1, PartingPaced DEF nsqd_notices
<1>3. CASE at_rest \/ UNCHANGED vars
  BY <1>3 DEF at_rest, vars, PacedInv, InFlight
<1> QED
  BY <1>1, <1>2, <1>3, ConnectPaced, HandlerPaced, ClosingPaced, PushPaced,
     ReceivePaced, TimeoutPaced
     DEF Next, message_succeeds, message_fails, client_breaks, read_cb_end

(***************************************************************************)
(* However often a message is repeated, a link breaks or RDY is sent       *)
(* again, no link carries more than max_in_flight messages and answers,    *)
(* but for those nsqd gave up waiting for.                                 *)
(***************************************************************************)
THEOREM PaceKept == Spec => []Paced
<1>1. Typed /\ PacedInv => Paced
  <2> SUFFICES ASSUME Typed, PacedInv, NEW l \in Link
               PROVE  Len(to_client[l]) + Cardinality(AnswersIn(to_nsqd[l]))
                        <= max_in_flight + late[l]
    BY DEF Paced
  <2>1. CASE nsqd[l]
    BY <2>1, BoundFields DEF Bound
  <2>2. CASE ~nsqd[l]
    BY <2>2, BoundFields, AnswersEmpty DEF Bound
  <2> QED
    BY <2>1, <2>2
<1> QED
  BY <1>1, InitTyped, NextTyped, InitPaced, NextPaced, PTL DEF Spec

-------------------------------------------------------------------------------

(***************************************************************************)
(* The places of a message.                                                *)
(***************************************************************************)

LEMMA TripleIs ==
  ASSUME NEW A, NEW B, NEW C, NEW p
  PROVE  p \in A \X B \X C <=>
           p = <<p[1], p[2], p[3]>> /\ p[1] \in A /\ p[2] \in B /\ p[3] \in C
<1>1. p \in A \X B \X C => \E a \in A, b \in B, c \in C : p = <<a, b, c>>
  OBVIOUS
<1>2. ASSUME NEW a \in A, NEW b \in B, NEW c \in C, p = <<a, b, c>>
      PROVE  p = <<p[1], p[2], p[3]>> /\ p[1] \in A /\ p[2] \in B /\ p[3] \in C
  BY <1>2
<1>3. ASSUME p = <<p[1], p[2], p[3]>>, p[1] \in A, p[2] \in B, p[3] \in C
      PROVE  p \in A \X B \X C
  BY <1>3
<1> QED
  BY <1>1, <1>2, <1>3

LEMMA SpotIs ==
  ASSUME NEW p
  PROVE  p \in Spots <=>
           /\ p = <<p[1], p[2], p[3]>>
           /\ p[1] \in {"unread", "returned", "queued"}
           /\ p[2] \in Link \cup {NoLink} /\ p[3] \in Nat
<1> DEFINE A == {"unread", "returned", "queued"}
           B == Link \cup {NoLink}
           C == Nat
<1>1. Spots = A \X B \X C
  BY DEF Spots
<1> HIDE DEF A, B, C
<1>2. p \in Spots <=> p = <<p[1], p[2], p[3]>> /\ p[1] \in A /\ p[2] \in B /\ p[3] \in C
  BY <1>1, TripleIs
<1> QED
  BY <1>2 DEF A, B, C

\* All places but new were there before, those at one end of one link one
\* further on, and none of them at old; new comes from old.
LEMMA Moved ==
  ASSUME NEW S \in SUBSET Spots, NEW T, IsFiniteSet(T), NEW what, NEW l, NEW new, NEW old,
         \A p \in S : p # new =>
           (IF p[1] = what /\ p[2] = l THEN <<what, l, p[3] + 1>> ELSE p) \in T \ {old},
         new \in S => old \in T
  PROVE  /\ IsFiniteSet(S) /\ Cardinality(S) \in Nat /\ Cardinality(T) \in Nat
         /\ Cardinality(S) <= Cardinality(T)
         /\ new \notin S /\ old \in T => Cardinality(S) + 1 <= Cardinality(T)
<1> DEFINE Before(p) == IF p[1] = what /\ p[2] = l THEN <<what, l, p[3] + 1>> ELSE p
           R == S \ {new}
           f == [p \in R |-> Before(p)]
           U == T \ {old}
<1>1. \A p \in S : p = <<p[1], p[2], p[3]>> /\ p[3] \in Nat
  BY SpotIs
<1>2. \A p, q \in S : Before(p) = Before(q) => p = q
  <2> SUFFICES ASSUME NEW p \in S, NEW q \in S, Before(p) = Before(q) PROVE p = q
    OBVIOUS
  <2>1. ASSUME NEW a, NEW b, NEW c
        PROVE <<a, b, c>>[1] = a /\ <<a, b, c>>[2] = b /\ <<a, b, c>>[3] = c
    OBVIOUS
  <2>2. CASE p[1] = what /\ p[2] = l
    <3>1. q[1] = what /\ q[2] = l /\ p[3] + 1 = q[3] + 1
      BY <2>2
    <3>2. p[3] = q[3]
      BY <1>1, <3>1
    <3> QED
      BY <1>1, <2>2, <3>1, <3>2
  <2>3. CASE ~(p[1] = what /\ p[2] = l)
    <3>1. ~(q[1] = what /\ q[2] = l)
      BY <2>3
    <3> QED
      BY <2>3, <3>1
  <2> QED
    BY <2>2, <2>3
<1>3. f \in [R -> U] /\ \A p, q \in R : f[p] = f[q] => p = q
  <2>1. \A p \in R : Before(p) \in U
    OBVIOUS
  <2> HIDE DEF Before, U
  <2> QED
    BY <1>2, <2>1
<1>4. /\ IsFiniteSet(U) /\ Cardinality(T) \in Nat
      /\ Cardinality(U) = IF old \in T THEN Cardinality(T) - 1 ELSE Cardinality(T)
  BY FS_RemoveElement, FS_CardinalityType
<1> HIDE DEF f, U
<1>5. IsFiniteSet(R) /\ Cardinality(R) \in Nat /\ Cardinality(R) <= Cardinality(U)
  <2> HIDE DEF R
  <2> QED
    BY <1>3, <1>4, Counted
<1>6. CASE new \in S
  <2>1. S = R \cup {new} /\ new \notin R
    BY <1>6
  <2> HIDE DEF R
  <2>2. IsFiniteSet(S) /\ Cardinality(S) = Cardinality(R) + 1
    BY <1>5, <2>1, FS_AddElement
  <2> QED
    BY <1>4, <1>5, <1>6, <2>2
<1>7. CASE new \notin S
  <2>1. S = R
    BY <1>7
  <2> HIDE DEF R
  <2> QED
    BY <1>4, <1>5, <1>7, <2>1
<1> QED
  BY <1>6, <1>7

LEMMA PlaceIs ==
  ASSUME NEW incoming \in [Link -> Seq(Message)], NEW C, NEW outgoing \in [Link -> Seq(C)],
         NEW q, NEW m, NEW p
  PROVE  p \in PlacesIn(m, incoming, outgoing, q) <=>
           /\ p = <<p[1], p[2], p[3]>>
           /\ \/ /\ p[1] = "unread" /\ p[2] \in Link
                 /\ p[3] \in 1 .. Len(incoming[p[2]]) /\ incoming[p[2]][p[3]] = m
              \/ /\ p[1] = "returned" /\ p[2] \in Link
                 /\ p[3] \in 1 .. Len(outgoing[p[2]]) /\ outgoing[p[2]][p[3]] = Req(m)
              \/ p[1] = "queued" /\ p[2] = NoLink /\ p[3] = 0 /\ m \in q
<1>1. \A l \in Link : /\ DOMAIN incoming[l] = 1 .. Len(incoming[l])
                      /\ DOMAIN outgoing[l] = 1 .. Len(outgoing[l])
                      /\ Len(incoming[l]) \in Nat /\ Len(outgoing[l]) \in Nat
  OBVIOUS
<1>2. ASSUME p \in PlacesIn(m, incoming, outgoing, q)
      PROVE  p = <<p[1], p[2], p[3]>> /\ IsPlace(m, p, incoming, outgoing, q)
  BY <1>2, SpotIs DEF PlacesIn
<1>3. ASSUME p = <<p[1], p[2], p[3]>>, IsPlace(m, p, incoming, outgoing, q)
      PROVE  p \in PlacesIn(m, incoming, outgoing, q)
  <2>1. /\ p[1] \in {"unread", "returned", "queued"}
        /\ p[2] \in Link \cup {NoLink} /\ p[3] \in Nat
    BY <1>1, <1>3 DEF IsPlace
  <2>2. p \in Spots
    BY <1>3, <2>1, SpotIs
  <2> QED
    BY <1>3, <2>2 DEF PlacesIn
<1> QED
  BY <1>1, <1>2, <1>3 DEF IsPlace

LEMMA InitOnce == Init => OnceEach /\ FinishedLast
<1> SUFFICES ASSUME Init PROVE OnceEach /\ FinishedLast
  OBVIOUS
<1>1. Typed
  BY InitTyped
<1>2. ASSUME NEW m \in Message
      PROVE  IsFiniteSet(Places(m)) /\ handled[m] + Cardinality(Places(m)) <= 1 + excuses[m]
  <2> DEFINE q == <<"queued", NoLink, 0>>
  <2>1. ASSUME NEW p \in Places(m) PROVE p \in {q}
    <3>1. \A l \in Link : Len(to_client[l]) = 0 /\ Len(to_nsqd[l]) = 0 /\ 1 .. 0 = {}
      BY DEF Init
    <3>2. /\ to_client \in [Link -> Seq(Message)]
          /\ to_nsqd \in [Link -> Seq(Command(max_in_flight))]
          /\ p \in PlacesIn(m, to_client, to_nsqd, queue)
      BY <1>1, <2>1 DEF Typed, Places
    <3>3. p = <<p[1], p[2], p[3]>> /\ p[1] = "queued" /\ p[2] = NoLink /\ p[3] = 0
      BY ONLY <3>1, <3>2, PlaceIs
    <3> QED
      BY <3>3
  <2>2. Places(m) \in SUBSET ({} \cup {q})
    BY <2>1
  <2> HIDE DEF q
  <2>3. IsFiniteSet({} \cup {q}) /\ Cardinality({} \cup {q}) = 1
    <3> DEFINE none == {}
    <3>1. IsFiniteSet(none) /\ Cardinality(none) = 0 /\ q \notin none
      BY FS_EmptySet
    <3> HIDE DEF none
    <3>2. /\ IsFiniteSet(none \cup {q})
          /\ Cardinality(none \cup {q}) = IF q \in none THEN Cardinality(none) ELSE Cardinality(none) + 1
      BY ONLY <3>1, FS_AddElement
    <3> QED
      BY <3>1, <3>2 DEF none
  <2>4. IsFiniteSet(Places(m)) /\ Cardinality(Places(m)) <= 1
    BY <2>2, <2>3, FS_Subset
  <2>5. Cardinality(Places(m)) \in Nat
    BY <2>4, FS_CardinalityType
  <2>6. handled[m] = 0 /\ excuses[m] = 0
    BY DEF Init
  <2> QED
    BY <2>4, <2>5, <2>6
<1>3. FinishedLast
  BY DEF Init, FinishedLast
<1> QED
  BY <1>2, <1>3 DEF OnceEach

Queued == <<"queued", NoLink, 0>>

\* What is still on its way was on its way before.
Remains(m) ==
  \A k \in Link :
    /\ \A i \in 1 .. Len(to_client'[k]) :
         to_client'[k][i] = m => i \in 1 .. Len(to_client[k]) /\ to_client[k][i] = m
    /\ \A i \in 1 .. Len(to_nsqd'[k]) :
         to_nsqd'[k][i] = Req(m) => i \in 1 .. Len(to_nsqd[k]) /\ to_nsqd[k][i] = Req(m)

LEMMA PlacesFields ==
  ASSUME Typed, OnceEach, NEW m \in Message
  PROVE  /\ IsFiniteSet(Places(m)) /\ Cardinality(Places(m)) \in Nat
         /\ handled[m] \in Nat /\ excuses[m] \in Nat
         /\ handled[m] + Cardinality(Places(m)) <= 1 + excuses[m]
         /\ Places(m) = PlacesIn(m, to_client, to_nsqd, queue)
         /\ to_client \in [Link -> Seq(Message)]
         /\ to_nsqd \in [Link -> Seq(Command(max_in_flight))]
<1>1. IsFiniteSet(Places(m)) /\ handled[m] + Cardinality(Places(m)) <= 1 + excuses[m]
  BY DEF OnceEach
<1>2. Cardinality(Places(m)) \in Nat
  BY <1>1, FS_CardinalityType
<1> QED
  BY <1>1, <1>2 DEF Typed, Places

LEMMA OnceKept ==
  ASSUME Typed, Typed', OnceEach, NEW m \in Message, Remains(m),
         handled'[m] = handled[m],
         \/ m \in queue' => m \in queue
         \/ excuses'[m] = excuses[m] + 1,
         excuses'[m] \in {excuses[m], excuses[m] + 1}
  PROVE  /\ IsFiniteSet(Places(m)')
         /\ handled'[m] + Cardinality(Places(m)') <= 1 + excuses'[m]
<1> DEFINE S == PlacesIn(m, to_client', to_nsqd', queue')
           T == Places(m)
<1>1. /\ to_client' \in [Link -> Seq(Message)]
      /\ to_nsqd' \in [Link -> Seq(Command(max_in_flight'))]
  BY DEF Typed
<1>2. ASSUME NEW p \in S PROVE p \in T \/ (p = Queued /\ m \in queue')
  <2>1. /\ p = <<p[1], p[2], p[3]>>
        /\ \/ /\ p[1] = "unread" /\ p[2] \in Link
              /\ p[3] \in 1 .. Len(to_client'[p[2]]) /\ to_client'[p[2]][p[3]] = m
           \/ /\ p[1] = "returned" /\ p[2] \in Link
              /\ p[3] \in 1 .. Len(to_nsqd'[p[2]]) /\ to_nsqd'[p[2]][p[3]] = Req(m)
           \/ p[1] = "queued" /\ p[2] = NoLink /\ p[3] = 0 /\ m \in queue'
    BY ONLY <1>1, p \in S, PlaceIs
  <2>2. CASE /\ p[1] = "unread" /\ p[2] \in Link
             /\ p[3] \in 1 .. Len(to_client'[p[2]]) /\ to_client'[p[2]][p[3]] = m
    <3>1. p[3] \in 1 .. Len(to_client[p[2]]) /\ to_client[p[2]][p[3]] = m
      BY <2>2 DEF Remains
    <3>2. p \in PlacesIn(m, to_client, to_nsqd, queue)
      BY <2>1, <2>2, <3>1, PlacesFields, PlaceIs
    <3> QED
      BY <3>2, PlacesFields
  <2>3. CASE /\ p[1] = "returned" /\ p[2] \in Link
             /\ p[3] \in 1 .. Len(to_nsqd'[p[2]]) /\ to_nsqd'[p[2]][p[3]] = Req(m)
    <3>1. p[3] \in 1 .. Len(to_nsqd[p[2]]) /\ to_nsqd[p[2]][p[3]] = Req(m)
      BY <2>3 DEF Remains
    <3>2. p \in PlacesIn(m, to_client, to_nsqd, queue)
      BY <2>1, <2>3, <3>1, PlacesFields, PlaceIs
    <3> QED
      BY <3>2, PlacesFields
  <2>4. CASE p[1] = "queued" /\ p[2] = NoLink /\ p[3] = 0 /\ m \in queue'
    BY <2>1, <2>4 DEF Queued
  <2> QED
    BY <2>1, <2>2, <2>3, <2>4
<1>3. /\ IsFiniteSet(T) /\ Cardinality(T) \in Nat /\ handled[m] \in Nat /\ excuses[m] \in Nat
      /\ handled[m] + Cardinality(T) <= 1 + excuses[m]
  BY PlacesFields
<1>4. Queued \in T <=> m \in queue
  <2> DEFINE p == Queued
  <2>1. p = <<p[1], p[2], p[3]>> /\ p[1] = "queued" /\ p[2] = NoLink /\ p[3] = 0
    BY DEF Queued
  <2> HIDE DEF p
  <2>2. p \in PlacesIn(m, to_client, to_nsqd, queue) <=> m \in queue
    BY <2>1, PlacesFields, PlaceIs
  <2> QED
    BY <2>2, PlacesFields DEF p
<1> HIDE DEF S, T
<1>5. CASE m \in queue' => m \in queue
  <2>1. S \in SUBSET T
    BY <1>2, <1>4, <1>5
  <2>2. IsFiniteSet(S) /\ Cardinality(S) <= Cardinality(T)
    BY <1>3, <2>1, FS_Subset
  <2>3. Cardinality(S) \in Nat
    BY <2>2, FS_CardinalityType
  <2>4. handled'[m] + Cardinality(S) <= 1 + excuses'[m]
    BY <1>3, <2>2, <2>3
  <2> QED
    BY <2>2, <2>4 DEF Places, S
<1>6. CASE excuses'[m] = excuses[m] + 1
  <2>1. S \in SUBSET (T \cup {Queued})
    BY <1>2
  <2>2. /\ IsFiniteSet(T \cup {Queued})
        /\ Cardinality(T \cup {Queued}) = IF Queued \in T THEN Cardinality(T) ELSE Cardinality(T) + 1
    BY <1>3, FS_AddElement
  <2>3. IsFiniteSet(S) /\ Cardinality(S) <= Cardinality(T \cup {Queued})
    BY <2>1, <2>2, FS_Subset
  <2>4. Cardinality(S) \in Nat
    BY <2>3, FS_CardinalityType
  <2>5. handled'[m] + Cardinality(S) <= 1 + excuses'[m]
    BY <1>3, <1>6, <2>2, <2>3, <2>4
  <2> QED
    BY <2>3, <2>5 DEF Places, S
<1> QED
  BY <1>5, <1>6

\* Membership, before and after a step.
LEMMA PlacesAre ==
  ASSUME Typed, Typed', NEW m \in Message, NEW p
  PROVE  /\ p \in Places(m) <=>
              /\ p = <<p[1], p[2], p[3]>>
              /\ \/ /\ p[1] = "unread" /\ p[2] \in Link
                    /\ p[3] \in 1 .. Len(to_client[p[2]]) /\ to_client[p[2]][p[3]] = m
                 \/ /\ p[1] = "returned" /\ p[2] \in Link
                    /\ p[3] \in 1 .. Len(to_nsqd[p[2]]) /\ to_nsqd[p[2]][p[3]] = Req(m)
                 \/ p[1] = "queued" /\ p[2] = NoLink /\ p[3] = 0 /\ m \in queue
         /\ p \in Places(m)' <=>
              /\ p = <<p[1], p[2], p[3]>>
              /\ \/ /\ p[1] = "unread" /\ p[2] \in Link
                    /\ p[3] \in 1 .. Len(to_client'[p[2]]) /\ to_client'[p[2]][p[3]] = m
                 \/ /\ p[1] = "returned" /\ p[2] \in Link
                    /\ p[3] \in 1 .. Len(to_nsqd'[p[2]]) /\ to_nsqd'[p[2]][p[3]] = Req(m)
                 \/ p[1] = "queued" /\ p[2] = NoLink /\ p[3] = 0 /\ m \in queue'
         /\ Places(m)' \in SUBSET Spots
<1>1. /\ to_client \in [Link -> Seq(Message)] /\ to_client' \in [Link -> Seq(Message)]
      /\ to_nsqd \in [Link -> Seq(Command(max_in_flight))]
      /\ to_nsqd' \in [Link -> Seq(Command(max_in_flight'))]
  BY DEF Typed
<1>2. /\ Places(m) = PlacesIn(m, to_client, to_nsqd, queue)
      /\ Places(m)' = PlacesIn(m, to_client', to_nsqd', queue')
  BY DEF Places
<1>3. PlacesIn(m, to_client', to_nsqd', queue') \in SUBSET Spots
  BY DEF PlacesIn
<1>4. p \in PlacesIn(m, to_client, to_nsqd, queue) <=>
        /\ p = <<p[1], p[2], p[3]>>
        /\ \/ /\ p[1] = "unread" /\ p[2] \in Link
              /\ p[3] \in 1 .. Len(to_client[p[2]]) /\ to_client[p[2]][p[3]] = m
           \/ /\ p[1] = "returned" /\ p[2] \in Link
              /\ p[3] \in 1 .. Len(to_nsqd[p[2]]) /\ to_nsqd[p[2]][p[3]] = Req(m)
           \/ p[1] = "queued" /\ p[2] = NoLink /\ p[3] = 0 /\ m \in queue
  BY ONLY <1>1, PlaceIs
<1>5. p \in PlacesIn(m, to_client', to_nsqd', queue') <=>
        /\ p = <<p[1], p[2], p[3]>>
        /\ \/ /\ p[1] = "unread" /\ p[2] \in Link
              /\ p[3] \in 1 .. Len(to_client'[p[2]]) /\ to_client'[p[2]][p[3]] = m
           \/ /\ p[1] = "returned" /\ p[2] \in Link
              /\ p[3] \in 1 .. Len(to_nsqd'[p[2]]) /\ to_nsqd'[p[2]][p[3]] = Req(m)
           \/ p[1] = "queued" /\ p[2] = NoLink /\ p[3] = 0 /\ m \in queue'
  BY ONLY <1>1, PlaceIs
<1> QED
  BY <1>2, <1>3, <1>4, <1>5

LEMMA HandlerOnce ==
  ASSUME Typed, Typed', OnceEach, NEW m \in Message,
         NEW l \in Link, NEW succeeded \in BOOLEAN, message_handler(l, succeeded)
  PROVE  /\ IsFiniteSet(Places(m)')
         /\ handled'[m] + Cardinality(Places(m)') <= 1 + excuses'[m]
<1> DEFINE S == Places(m)'
           T == Places(m)
           h == Head(to_client[l])
           n == Len(to_nsqd[l]) + 1
           new == <<"returned", l, n>>
           old == <<"unread", l, 1>>
           Before(p) == IF p[1] = "unread" /\ p[2] = l THEN <<"unread", l, p[3] + 1>> ELSE p
<1>1. /\ h \in Message /\ h = to_client[l][1] /\ 1 \in 1 .. Len(to_client[l])
      /\ to_client'[l] = Tail(to_client[l])
      /\ \A i \in 1 .. Len(Tail(to_client[l])) :
           /\ i + 1 \in 1 .. Len(to_client[l]) /\ i + 1 # 1
           /\ Tail(to_client[l])[i] = to_client[l][i + 1]
  <2>1. to_client[l] \in Seq(Message) /\ to_client[l] # << >>
    BY DEF message_handler, Typed
  <2>2. Tail(to_client[l]) \in Seq(Message) /\ Len(Tail(to_client[l])) = Len(to_client[l]) - 1
    BY <2>1, TailIs
  <2>3. DOMAIN Tail(to_client[l]) = 1 .. Len(Tail(to_client[l]))
    BY <2>2
  <2>4. /\ h \in Message /\ h = to_client[l][1] /\ 1 \in DOMAIN to_client[l]
        /\ \A i \in DOMAIN Tail(to_client[l]) :
             i + 1 \in DOMAIN to_client[l] /\ Tail(to_client[l])[i] = to_client[l][i + 1]
        /\ DOMAIN to_client[l] = 1 .. Len(to_client[l])
    BY <2>1, TailIs
  <2>5. to_client'[l] = Tail(to_client[l])
    BY DEF message_handler, Typed
  <2>6. \A i \in 1 .. Len(Tail(to_client[l])) : i + 1 # 1
    OBVIOUS
  <2> QED
    BY ONLY <2>3, <2>4, <2>5, <2>6
<1>2. /\ n - 1 = Len(to_nsqd[l]) /\ n \in Nat
      /\ \A i \in 1 .. Len(to_nsqd'[l]) :
           \/ i \in 1 .. Len(to_nsqd[l]) /\ to_nsqd'[l][i] = to_nsqd[l][i]
           \/ i = n /\ to_nsqd'[l][i] = IF succeeded THEN Fin(h) ELSE Req(h)
           \/ to_nsqd'[l][i] = Rdy(max_in_flight)
  <2> DEFINE a == Answer(h, succeeded)
             s == to_nsqd[l]
  <2>1. s \in Seq(Command(max_in_flight))
    BY DEF Typed
  <2>2. /\ a \in Seq(Command(max_in_flight)) /\ Len(a) = 2
        /\ a[1] = (IF succeeded THEN Fin(h) ELSE Req(h)) /\ a[2] = Rdy(max_in_flight)
    BY <1>1, AnswerIs
  <2>3. to_nsqd'[l] = IF nsqd[l] THEN s \o a ELSE s
    BY DEF message_handler, Typed
  <2> HIDE DEF a
  <2>4. /\ s \o a \in Seq(Command(max_in_flight)) /\ Len(s) \in Nat /\ Len(s \o a) = Len(s) + 2
        /\ DOMAIN s = 1 .. Len(s) /\ DOMAIN (s \o a) = 1 .. Len(s) + 2
        /\ \A i \in 1 .. Len(s) + 2 :
             \/ i \in 1 .. Len(s) /\ (s \o a)[i] = s[i]
             \/ i = Len(s) + 1 /\ (s \o a)[i] = a[1]
             \/ i = Len(s) + 2 /\ (s \o a)[i] = a[2]
    BY ONLY <2>1, <2>2, WithTwo
  <2> HIDE DEF s
  <2>5. CASE nsqd[l]
    BY ONLY <2>2, <2>3, <2>4, <2>5 DEF s
  <2>6. CASE ~nsqd[l]
    BY ONLY <2>3, <2>4, <2>6 DEF s
  <2> QED
    BY <2>5, <2>6
<1>3. /\ \A k \in Link \ {l} : to_client'[k] = to_client[k] /\ to_nsqd'[k] = to_nsqd[k]
      /\ queue' = queue /\ excuses' = excuses
      /\ handled'[m] = IF succeeded /\ m = h THEN handled[m] + 1 ELSE handled[m]
  BY <1>1 DEF message_handler, Typed
<1>4. old \in T <=> h = m
  <2>1. old[1] = "unread" /\ old[2] = l /\ old[3] = 1 /\ old = <<old[1], old[2], old[3]>>
    OBVIOUS
  <2> HIDE DEF old, T
  <2> QED
    BY <1>1, <2>1, PlacesAre DEF T
<1>5. Req(m) # Fin(h) /\ Req(m) # Rdy(max_in_flight) /\ (Req(m) = Req(h) => m = h)
  BY DEF Req, Fin, Rdy
<1>6. new \in S => h = m /\ ~succeeded
  <2>1. new[1] = "returned" /\ new[2] = l /\ new[3] = n
    OBVIOUS
  <2> HIDE DEF new, S, T, n, h
  <2>2. ASSUME new \in S PROVE n \in 1 .. Len(to_nsqd'[l]) /\ to_nsqd'[l][n] = Req(m)
    BY <2>1, <2>2, PlacesAre DEF S
  <2>3. n \notin 1 .. Len(to_nsqd[l])
    BY <1>2
  <2> QED
    BY <1>2, <1>5, <2>2, <2>3
<1>7. ASSUME NEW p \in S, p # new PROVE Before(p) \in T \ {old}
  <2> HIDE DEF S, T, h
  <2>1. /\ p = <<p[1], p[2], p[3]>>
        /\ \/ /\ p[1] = "unread" /\ p[2] \in Link
              /\ p[3] \in 1 .. Len(to_client'[p[2]]) /\ to_client'[p[2]][p[3]] = m
           \/ /\ p[1] = "returned" /\ p[2] \in Link
              /\ p[3] \in 1 .. Len(to_nsqd'[p[2]]) /\ to_nsqd'[p[2]][p[3]] = Req(m)
           \/ p[1] = "queued" /\ p[2] = NoLink /\ p[3] = 0 /\ m \in queue'
    BY PlacesAre DEF S
  <2>2. CASE p[1] = "unread" /\ p[2] = l
    <3> DEFINE q == <<"unread", l, p[3] + 1>>
    <3>1. /\ p[3] + 1 \in 1 .. Len(to_client[l]) /\ p[3] + 1 # 1
          /\ to_client[l][p[3] + 1] = m
      BY <1>1, <2>1, <2>2
    <3>2. q[1] = "unread" /\ q[2] = l /\ q[3] = p[3] + 1 /\ q = <<q[1], q[2], q[3]>>
      OBVIOUS
    <3>3. q # old
      BY <3>1
    <3>4. Before(p) = q
      BY <2>2
    <3> HIDE DEF q, Before, old
    <3>5. q \in T
      BY <3>1, <3>2, PlacesAre DEF T
    <3> QED
      BY <3>3, <3>4, <3>5
  <2>3. CASE ~(p[1] = "unread" /\ p[2] = l)
    <3>1. Before(p) = p /\ p # old
      BY <2>3
    <3>2. CASE p[1] = "unread"
      <4>1. p[2] \in Link \ {l} /\ p[3] \in 1 .. Len(to_client'[p[2]]) /\ to_client'[p[2]][p[3]] = m
        BY <2>1, <2>3, <3>2
      <4>2. to_client'[p[2]] = to_client[p[2]]
        BY <1>3, <4>1
      <4>3. p \in T
        BY <2>1, <3>2, <4>1, <4>2, PlacesAre DEF T
      <4> QED
        BY <3>1, <4>3
    <3>3. CASE p[1] = "returned"
      <4>1. /\ p[2] \in Link
            /\ p[3] \in 1 .. Len(to_nsqd'[p[2]]) /\ to_nsqd'[p[2]][p[3]] = Req(m)
        BY <2>1, <3>3
      <4>2. p[3] \in 1 .. Len(to_nsqd[p[2]]) /\ to_nsqd[p[2]][p[3]] = Req(m)
        <5>1. CASE p[2] = l
          <6>1. p[3] # n
            BY <1>7, <2>1, <3>3, <5>1
          <6> QED
            BY <1>2, <1>5, <4>1, <5>1, <6>1
        <5>2. CASE p[2] # l
          BY <1>3, <4>1, <5>2
        <5> QED
          BY <5>1, <5>2
      <4>3. p \in T
        BY <2>1, <3>3, <4>1, <4>2, PlacesAre DEF T
      <4> QED
        BY <3>1, <4>3
    <3>4. CASE p[1] = "queued"
      <4>1. p \in T
        BY <1>3, <2>1, <3>4, PlacesAre DEF T
      <4> QED
        BY <3>1, <4>1
    <3> QED
      BY <2>1, <3>2, <3>3, <3>4
  <2> QED
    BY <2>2, <2>3
<1>8. S \in SUBSET Spots
  BY PlacesAre
<1>9. /\ IsFiniteSet(T) /\ handled[m] \in Nat /\ excuses[m] \in Nat
      /\ handled[m] + Cardinality(T) <= 1 + excuses[m]
  BY PlacesFields
<1>10. /\ IsFiniteSet(S) /\ Cardinality(S) \in Nat /\ Cardinality(T) \in Nat
       /\ Cardinality(S) <= Cardinality(T)
       /\ new \notin S /\ old \in T => Cardinality(S) + 1 <= Cardinality(T)
  <2>1. \A p \in S : p # new =>
          (IF p[1] = "unread" /\ p[2] = l THEN <<"unread", l, p[3] + 1>> ELSE p) \in T \ {old}
    BY <1>7
  <2>2. new \in S => old \in T
    BY <1>4, <1>6
  <2> HIDE DEF S, T, new, old
  <2> QED
    BY ONLY <1>8, <1>9, <2>1, <2>2, Moved
<1> HIDE DEF S, T, new, old, h
<1>11. handled'[m] + Cardinality(S) <= 1 + excuses'[m]
  <2>1. CASE succeeded /\ m = h
    <3>1. new \notin S /\ old \in T
      BY <1>4, <1>6, <2>1
    <3>2. handled'[m] = handled[m] + 1 /\ excuses'[m] = excuses[m]
      BY <1>3, <2>1
    <3> QED
      BY <1>9, <1>10, <3>1, <3>2
  <2>2. CASE ~(succeeded /\ m = h)
    <3>1. handled'[m] = handled[m] /\ excuses'[m] = excuses[m]
      BY <1>3, <2>2
    <3> QED
      BY <1>9, <1>10, <3>1
  <2> QED
    BY <2>1, <2>2
<1> QED
  BY <1>10, <1>11 DEF S

LEMMA PushOnce ==
  ASSUME Typed, Typed', OnceEach, NEW m \in Message,
         NEW l \in Link, NEW pushed \in Message, nsqd_pushes(l, pushed)
  PROVE  /\ IsFiniteSet(Places(m)')
         /\ handled'[m] + Cardinality(Places(m)') <= 1 + excuses'[m]
<1>1. /\ to_nsqd' = to_nsqd /\ handled' = handled /\ excuses' = excuses
      /\ queue' = queue \ {pushed} /\ pushed \in queue
      /\ \A k \in Link \ {l} : to_client'[k] = to_client[k]
      /\ to_client'[l] = IF client[l] THEN Append(to_client[l], pushed) ELSE to_client[l]
  BY DEF nsqd_pushes, Typed
<1>2. /\ to_client[l] \in Seq(Message) /\ Len(to_client[l]) \in Nat
      /\ Len(Append(to_client[l], pushed)) = Len(to_client[l]) + 1
      /\ \A i \in 1 .. Len(to_client[l]) : Append(to_client[l], pushed)[i] = to_client[l][i]
      /\ Append(to_client[l], pushed)[Len(to_client[l]) + 1] = pushed
  BY SMTT(30) DEF Typed
<1>3. \A i \in 1 .. Len(to_client'[l]) :
        \/ i \in 1 .. Len(to_client[l]) /\ to_client'[l][i] = to_client[l][i]
        \/ i = Len(to_client[l]) + 1 /\ to_client'[l][i] = pushed /\ client[l]
  <2>1. CASE client[l]
    <3> DEFINE s == to_client[l]
               a == Append(to_client[l], pushed)
    <3>1. to_client'[l] = a
      BY <1>1, <2>1
    <3>2. /\ Len(s) \in Nat /\ Len(a) = Len(s) + 1 /\ a[Len(s) + 1] = pushed
          /\ \A i \in 1 .. Len(s) : a[i] = s[i]
      BY <1>2
    <3> HIDE DEF a, s
    <3>3. \A i \in 1 .. Len(a) :
            \/ i \in 1 .. Len(s) /\ a[i] = s[i]
            \/ i = Len(s) + 1 /\ a[i] = pushed
      BY ONLY <3>2
    <3> QED
      BY <2>1, <3>1, <3>3 DEF s
  <2>2. CASE ~client[l]
    BY <1>1, <2>2
  <2> QED
    BY <2>1, <2>2
<1>4. CASE pushed = m /\ client[l]
  <2> DEFINE S == Places(m)'
             T == Places(m)
             n == Len(to_client[l]) + 1
             new == <<"unread", l, n>>
  <2>1. Queued \in T
    <3> DEFINE q == Queued
    <3>1. q = <<q[1], q[2], q[3]>> /\ q[1] = "queued" /\ q[2] = NoLink /\ q[3] = 0
      BY DEF Queued
    <3> HIDE DEF q
    <3>2. q \in Places(m)
      BY <1>1, <1>4, <3>1, PlacesAre
    <3> QED
      BY <3>2 DEF q
  <2>2. ASSUME NEW p \in S, p # new PROVE p \in T \ {Queued}
    <3> HIDE DEF S, T, new
    <3>1. /\ p = <<p[1], p[2], p[3]>>
          /\ \/ /\ p[1] = "unread" /\ p[2] \in Link
                /\ p[3] \in 1 .. Len(to_client'[p[2]]) /\ to_client'[p[2]][p[3]] = m
             \/ /\ p[1] = "returned" /\ p[2] \in Link
                /\ p[3] \in 1 .. Len(to_nsqd'[p[2]]) /\ to_nsqd'[p[2]][p[3]] = Req(m)
             \/ p[1] = "queued" /\ p[2] = NoLink /\ p[3] = 0 /\ m \in queue'
      BY PlacesAre DEF S
    <3>2. ~(p[1] = "queued" /\ p[2] = NoLink /\ p[3] = 0 /\ m \in queue')
      BY <1>1, <1>4
    <3>3. p # Queued
      BY <3>1, <3>2 DEF Queued
    <3>4. CASE p[1] = "unread"
      <4>1. /\ p[2] \in Link
            /\ p[3] \in 1 .. Len(to_client'[p[2]]) /\ to_client'[p[2]][p[3]] = m
        BY <3>1, <3>4
      <4>2. p[3] \in 1 .. Len(to_client[p[2]]) /\ to_client[p[2]][p[3]] = m
        <5>1. CASE p[2] = l
          <6>1. p[3] # n
            BY <2>2, <3>1, <3>4, <5>1 DEF new
          <6> QED
            BY <1>3, <4>1, <5>1, <6>1
        <5>2. CASE p[2] # l
          BY <1>1, <4>1, <5>2
        <5> QED
          BY <5>1, <5>2
      <4>3. p \in T
        BY <3>1, <3>4, <4>1, <4>2, PlacesAre DEF T
      <4> QED
        BY <3>3, <4>3
    <3>5. CASE p[1] = "returned"
      <4>1. p \in T
        BY <1>1, <3>1, <3>5, PlacesAre DEF T
      <4> QED
        BY <3>3, <4>1
    <3> QED
      BY <3>1, <3>2, <3>4, <3>5
  <2>3. S \in SUBSET Spots
    BY PlacesAre
  <2>4. /\ IsFiniteSet(T) /\ handled[m] \in Nat /\ excuses[m] \in Nat
        /\ handled[m] + Cardinality(T) <= 1 + excuses[m]
    BY PlacesFields
  <2>5. /\ IsFiniteSet(S) /\ Cardinality(S) \in Nat /\ Cardinality(T) \in Nat
        /\ Cardinality(S) <= Cardinality(T)
    <3> DEFINE old == Queued
               what == "none"
               elsewhere == NoLink
    <3>1. \A p \in S : p[1] # what
      BY <2>3, SpotIs
    <3>2. \A p \in S : p # new => p \in T \ {old}
      BY <2>2
    <3>3. new \in S => old \in T
      BY <2>1
    <3> HIDE DEF S, T, new, old, what, elsewhere
    <3>4. \A p \in S : p # new =>
            (IF p[1] = what /\ p[2] = elsewhere THEN <<what, elsewhere, p[3] + 1>> ELSE p)
              \in T \ {old}
      BY ONLY <3>1, <3>2
    <3>5. /\ IsFiniteSet(S) /\ Cardinality(S) \in Nat /\ Cardinality(T) \in Nat
          /\ Cardinality(S) <= Cardinality(T)
          /\ new \notin S /\ old \in T => Cardinality(S) + 1 <= Cardinality(T)
      BY ONLY <2>3, <2>4, <3>3, <3>4, Moved
    <3> QED
      BY <3>5
  <2> HIDE DEF S, T
  <2>6. handled'[m] + Cardinality(S) <= 1 + excuses'[m]
    BY <1>1, <2>4, <2>5
  <2> QED
    BY <2>5, <2>6 DEF S
<1>5. CASE ~(pushed = m /\ client[l])
  <2>1. Remains(m)
    <3> SUFFICES ASSUME NEW k \in Link, NEW i \in 1 .. Len(to_client'[k]), to_client'[k][i] = m
                 PROVE  i \in 1 .. Len(to_client[k]) /\ to_client[k][i] = m
      BY <1>1 DEF Remains
    <3>1. CASE k = l
      BY <1>3, <1>5, <3>1
    <3>2. CASE k # l
      BY <1>1, <3>2
    <3> QED
      BY <3>1, <3>2
  <2>2. /\ handled'[m] = handled[m] /\ excuses'[m] \in {excuses[m], excuses[m] + 1}
        /\ m \in queue' => m \in queue
    BY <1>1
  <2> QED
    BY <2>1, <2>2, OnceKept
<1> QED
  BY <1>4, <1>5

LEMMA ReceiveOnce ==
  ASSUME Typed, Typed', OnceEach, NEW m \in Message, NEW l \in Link, nsqd_receives(l)
  PROVE  /\ IsFiniteSet(Places(m)')
         /\ handled'[m] + Cardinality(Places(m)') <= 1 + excuses'[m]
<1> DEFINE S == Places(m)'
           T == Places(m)
           c == Head(to_nsqd[l])
           new == IF m \in queue THEN <<"none", NoLink, 0>> ELSE Queued
           old == <<"returned", l, 1>>
           Before(p) == IF p[1] = "returned" /\ p[2] = l THEN <<"returned", l, p[3] + 1>> ELSE p
<1>1. /\ c \in Command(max_in_flight) /\ c = to_nsqd[l][1] /\ 1 \in 1 .. Len(to_nsqd[l])
      /\ to_nsqd'[l] = Tail(to_nsqd[l])
      /\ \A i \in 1 .. Len(Tail(to_nsqd[l])) :
           /\ i + 1 \in 1 .. Len(to_nsqd[l]) /\ i + 1 # 1
           /\ Tail(to_nsqd[l])[i] = to_nsqd[l][i + 1]
  <2>1. to_nsqd[l] \in Seq(Command(max_in_flight)) /\ to_nsqd[l] # << >>
    BY DEF nsqd_receives, Typed
  <2>2. /\ Tail(to_nsqd[l]) \in Seq(Command(max_in_flight))
        /\ Len(Tail(to_nsqd[l])) = Len(to_nsqd[l]) - 1
    BY ONLY <2>1, TailIs
  <2>3. DOMAIN Tail(to_nsqd[l]) = 1 .. Len(Tail(to_nsqd[l]))
    BY ONLY <2>2
  <2>4. /\ c \in Command(max_in_flight) /\ c = to_nsqd[l][1] /\ 1 \in DOMAIN to_nsqd[l]
        /\ \A i \in DOMAIN Tail(to_nsqd[l]) :
             i + 1 \in DOMAIN to_nsqd[l] /\ Tail(to_nsqd[l])[i] = to_nsqd[l][i + 1]
        /\ DOMAIN to_nsqd[l] = 1 .. Len(to_nsqd[l])
    BY ONLY <2>1, TailIs
  <2>5. to_nsqd'[l] = Tail(to_nsqd[l])
    BY DEF nsqd_receives, Typed
  <2>6. \A i \in 1 .. Len(Tail(to_nsqd[l])) : i + 1 # 1
    OBVIOUS
  <2> QED
    BY ONLY <2>3, <2>4, <2>5, <2>6
<1>2. /\ to_client' = to_client /\ handled' = handled /\ excuses' = excuses
      /\ \A k \in Link \ {l} : to_nsqd'[k] = to_nsqd[k]
  BY DEF nsqd_receives, Typed
<1>3. queue \subseteq queue' /\ (m \in queue' => m \in queue \/ c = Req(m))
  <2>1. \/ queue' = queue
        \/ c[1] = "REQ" /\ queue' = queue \cup {c[2]}
    BY DEF nsqd_receives
  <2>2. c[1] = "REQ" => c = Req(c[2])
    <3> HIDE DEF c
    <3> QED
      BY <1>1, CommandIs DEF Req, Fin, Rdy, Sub
  <2> HIDE DEF c
  <2> QED
    BY <2>1, <2>2
<1>4. c = Req(m) => old \in T
  <2>1. old[1] = "returned" /\ old[2] = l /\ old[3] = 1 /\ old = <<old[1], old[2], old[3]>>
    OBVIOUS
  <2> HIDE DEF old, T, c
  <2> QED
    BY <1>1, <2>1, PlacesAre DEF T
<1>5. /\ Queued = <<Queued[1], Queued[2], Queued[3]>>
      /\ Queued[1] = "queued" /\ Queued[2] = NoLink /\ Queued[3] = 0
  BY DEF Queued
<1>6. S \in SUBSET Spots
  BY PlacesAre
<1>7. new \in S => old \in T
  <2> HIDE DEF S, T, c, old
  <2>1. CASE m \in queue
    <3>1. <<"none", NoLink, 0>> \notin S
      <4> DEFINE x == <<"none", NoLink, 0>>
      <4>1. x[1] = "none"
        OBVIOUS
      <4> HIDE DEF x
      <4>2. x \notin S
        BY <1>6, <4>1, SpotIs
      <4> QED
        BY <4>2 DEF x
    <3> QED
      BY <2>1, <3>1
  <2>2. CASE m \notin queue
    <3>1. Queued \in S => m \in queue'
      BY <1>5, PlacesAre DEF S
    <3> QED
      BY <1>3, <1>4, <2>2, <3>1
  <2> QED
    BY <2>1, <2>2
<1>8. ASSUME NEW p \in S, p # new PROVE Before(p) \in T \ {old}
  <2> HIDE DEF S, T, c, new
  <2>1. /\ p = <<p[1], p[2], p[3]>>
        /\ \/ /\ p[1] = "unread" /\ p[2] \in Link
              /\ p[3] \in 1 .. Len(to_client'[p[2]]) /\ to_client'[p[2]][p[3]] = m
           \/ /\ p[1] = "returned" /\ p[2] \in Link
              /\ p[3] \in 1 .. Len(to_nsqd'[p[2]]) /\ to_nsqd'[p[2]][p[3]] = Req(m)
           \/ p[1] = "queued" /\ p[2] = NoLink /\ p[3] = 0 /\ m \in queue'
    BY PlacesAre DEF S
  <2>2. CASE p[1] = "returned" /\ p[2] = l
    <3> DEFINE q == <<"returned", l, p[3] + 1>>
    <3>1. /\ p[3] + 1 \in 1 .. Len(to_nsqd[l]) /\ p[3] + 1 # 1
          /\ to_nsqd[l][p[3] + 1] = Req(m)
      BY <1>1, <2>1, <2>2
    <3>2. q[1] = "returned" /\ q[2] = l /\ q[3] = p[3] + 1 /\ q = <<q[1], q[2], q[3]>>
      OBVIOUS
    <3>3. q # old
      BY <3>1
    <3>4. Before(p) = q
      BY <2>2
    <3> HIDE DEF q, Before, old
    <3>5. q \in T
      BY <3>1, <3>2, PlacesAre DEF T
    <3> QED
      BY <3>3, <3>4, <3>5
  <2>3. CASE ~(p[1] = "returned" /\ p[2] = l)
    <3>1. Before(p) = p /\ p # old
      BY <2>3
    <3>2. CASE p[1] = "unread"
      <4>1. p \in T
        BY <1>2, <2>1, <3>2, PlacesAre DEF T
      <4> QED
        BY <3>1, <4>1
    <3>3. CASE p[1] = "returned"
      <4>1. /\ p[2] \in Link \ {l}
            /\ p[3] \in 1 .. Len(to_nsqd'[p[2]]) /\ to_nsqd'[p[2]][p[3]] = Req(m)
        BY <2>1, <2>3, <3>3
      <4>2. to_nsqd'[p[2]] = to_nsqd[p[2]]
        BY <1>2, <4>1
      <4>3. p \in T
        BY <2>1, <3>3, <4>1, <4>2, PlacesAre DEF T
      <4> QED
        BY <3>1, <4>3
    <3>4. CASE p[1] = "queued"
      <4>1. p = Queued
        BY <2>1, <3>4 DEF Queued
      <4>2. m \in queue
        BY <1>8, <4>1 DEF new
      <4>3. p \in T
        BY <2>1, <3>4, <4>2, PlacesAre DEF T
      <4> QED
        BY <3>1, <4>3
    <3> QED
      BY <2>1, <3>2, <3>3, <3>4
  <2> QED
    BY <2>2, <2>3
<1>9. /\ IsFiniteSet(T) /\ handled[m] \in Nat /\ excuses[m] \in Nat
      /\ handled[m] + Cardinality(T) <= 1 + excuses[m]
  BY PlacesFields
<1>10. /\ IsFiniteSet(S) /\ Cardinality(S) \in Nat /\ Cardinality(T) \in Nat
       /\ Cardinality(S) <= Cardinality(T)
       /\ new \notin S /\ old \in T => Cardinality(S) + 1 <= Cardinality(T)
  <2>1. \A p \in S : p # new =>
          (IF p[1] = "returned" /\ p[2] = l THEN <<"returned", l, p[3] + 1>> ELSE p) \in T \ {old}
    BY <1>8
  <2> HIDE DEF S, T, new, old
  <2> QED
    BY ONLY <1>6, <1>7, <1>9, <2>1, Moved
<1> HIDE DEF S, T
<1>11. handled'[m] + Cardinality(S) <= 1 + excuses'[m]
  BY <1>2, <1>9, <1>10
<1> QED
  BY <1>10, <1>11 DEF S

LEMMA PartingOnce ==
  ASSUME Typed, Typed', OnceEach, NEW m \in Message, NEW l \in Link, nsqd_closes(l),
         \A k \in Link : \A i \in 1 .. Len(to_client'[k]) :
           i \in 1 .. Len(to_client[k]) /\ to_client'[k][i] = to_client[k][i]
  PROVE  /\ IsFiniteSet(Places(m)')
         /\ handled'[m] + Cardinality(Places(m)') <= 1 + excuses'[m]
<1>1. Remains(m)
  <2>1. to_nsqd'[l] = << >> /\ \A k \in Link \ {l} : to_nsqd'[k] = to_nsqd[k]
    BY DEF nsqd_closes, Typed
  <2>2. \A i \in 1 .. Len(to_nsqd'[l]) : FALSE
    BY <2>1
  <2> QED
    BY <2>1, <2>2 DEF Remains
<1>2. /\ handled'[m] = handled[m] /\ excuses'[m] \in {excuses[m], excuses[m] + 1}
      /\ \/ m \in queue' => m \in queue
         \/ excuses'[m] = excuses[m] + 1
  BY DEF nsqd_closes, InFlight
<1> QED
  BY <1>1, <1>2, OnceKept

LEMMA NextOnce == Typed /\ Typed' /\ OnceEach /\ [Next]_vars => OnceEach'
<1> SUFFICES ASSUME Typed, Typed', OnceEach, [Next]_vars, NEW m \in Message
             PROVE  /\ IsFiniteSet(Places(m)')
                    /\ handled'[m] + Cardinality(Places(m)') <= 1 + excuses'[m]
  BY DEF OnceEach
<1>1. ASSUME NEW l \in Link, nsq_reader_connect_cb(l)
      PROVE  /\ IsFiniteSet(Places(m)')
             /\ handled'[m] + Cardinality(Places(m)') <= 1 + excuses'[m]
  <2>1. /\ to_client'[l] = << >> /\ to_nsqd'[l] = <<Sub, Rdy(max_in_flight)>>
        /\ \A k \in Link \ {l} : to_client'[k] = to_client[k] /\ to_nsqd'[k] = to_nsqd[k]
    BY <1>1 DEF nsq_reader_connect_cb, Typed
  <2>2. \A i \in 1 .. Len(to_client'[l]) : FALSE
    BY <2>1
  <2>3. \A i \in 1 .. Len(to_nsqd'[l]) : to_nsqd'[l][i] # Req(m)
    <3>1. Sub # Req(m) /\ Rdy(max_in_flight) # Req(m)
      BY DEF Sub, Rdy, Req
    <3>2. ASSUME NEW a, NEW b, NEW i \in 1 .. Len(<<a, b>>)
          PROVE  <<a, b>>[i] \in {a, b}
      OBVIOUS
    <3> QED
      BY <2>1, <3>1, <3>2
  <2>4. Remains(m)
    BY <2>1, <2>2, <2>3 DEF Remains
  <2>5. UNCHANGED <<queue, handled, excuses>>
    BY <1>1 DEF nsq_reader_connect_cb
  <2> QED
    BY <2>4, <2>5, OnceKept
<1>2. ASSUME NEW l \in Link, client_breaks(l) \/ read_cb_end(l)
      PROVE  /\ IsFiniteSet(Places(m)')
             /\ handled'[m] + Cardinality(Places(m)') <= 1 + excuses'[m]
  <2>1. buffered_socket_close(l)
    BY <1>2 DEF client_breaks, read_cb_end
  <2>2. PICK k \in 0 .. Len(to_nsqd[l]) : to_nsqd' = [to_nsqd EXCEPT ![l] = SubSeq(@, 1, k)]
    BY <2>1 DEF buffered_socket_close
  <2>3. /\ to_nsqd'[l] = SubSeq(to_nsqd[l], 1, k) /\ to_client'[l] = << >>
        /\ \A j \in Link \ {l} : to_client'[j] = to_client[j] /\ to_nsqd'[j] = to_nsqd[j]
    BY <2>1, <2>2 DEF buffered_socket_close, Typed
  <2>4. \A i \in 1 .. Len(to_nsqd'[l]) :
          i \in 1 .. Len(to_nsqd[l]) /\ to_nsqd'[l][i] = to_nsqd[l][i]
    <3>1. to_nsqd[l] \in Seq(Command(max_in_flight)) /\ Len(to_nsqd[l]) \in Nat
      BY DEF Typed
    <3>2. /\ Len(SubSeq(to_nsqd[l], 1, k)) = k
          /\ \A i \in 1 .. k : SubSeq(to_nsqd[l], 1, k)[i] = to_nsqd[l][i]
      BY <3>1, Beginning
    <3>3. \A i \in 1 .. k : i \in 1 .. Len(to_nsqd[l])
      BY ONLY <3>1, k \in 0 .. Len(to_nsqd[l])
    <3> QED
      BY ONLY <2>3, <3>2, <3>3
  <2>5. \A i \in 1 .. Len(to_client'[l]) : FALSE
    BY <2>3
  <2>6. Remains(m)
    BY <2>3, <2>4, <2>5 DEF Remains
  <2>7. UNCHANGED <<queue, handled, excuses>>
    BY <2>1 DEF buffered_socket_close
  <2> QED
    BY <2>6, <2>7, OnceKept
<1>3. ASSUME NEW p \in Message, nsqd_times_out(p)
      PROVE  /\ IsFiniteSet(Places(m)')
             /\ handled'[m] + Cardinality(Places(m)') <= 1 + excuses'[m]
  <2>1. Remains(m)
    BY <1>3 DEF nsqd_times_out, links, Remains
  <2>2. /\ handled'[m] = handled[m] /\ excuses'[m] \in {excuses[m], excuses[m] + 1}
        /\ \/ m \in queue' => m \in queue
           \/ excuses'[m] = excuses[m] + 1
    BY <1>3 DEF nsqd_times_out, Typed
  <2> QED
    BY <2>1, <2>2, OnceKept
<1>4. ASSUME NEW l \in Link, nsqd_breaks(l)
      PROVE  /\ IsFiniteSet(Places(m)')
             /\ handled'[m] + Cardinality(Places(m)') <= 1 + excuses'[m]
  <2>1. PICK k \in 0 .. Len(to_client[l]) : to_client' = [to_client EXCEPT ![l] = SubSeq(@, 1, k)]
    BY <1>4 DEF nsqd_breaks
  <2>2. /\ to_client'[l] = SubSeq(to_client[l], 1, k)
        /\ \A j \in Link \ {l} : to_client'[j] = to_client[j]
    BY <2>1 DEF Typed
  <2>3. to_client[l] \in Seq(Message) /\ Len(to_client[l]) \in Nat
    BY DEF Typed
  <2>4. /\ Len(SubSeq(to_client[l], 1, k)) = k
        /\ \A i \in 1 .. k : SubSeq(to_client[l], 1, k)[i] = to_client[l][i]
    BY <2>3, Beginning
  <2>5. \A i \in 1 .. k : i \in 1 .. Len(to_client[l])
    BY ONLY <2>3, k \in 0 .. Len(to_client[l])
  <2>6. \A j \in Link : \A i \in 1 .. Len(to_client'[j]) :
          i \in 1 .. Len(to_client[j]) /\ to_client'[j][i] = to_client[j][i]
    <3>1. \A i \in 1 .. Len(to_client'[l]) :
            i \in 1 .. Len(to_client[l]) /\ to_client'[l][i] = to_client[l][i]
      BY ONLY <2>2, <2>4, <2>5
    <3> QED
      BY ONLY <2>2, <3>1
  <2> QED
    BY <1>4, <2>6, PartingOnce DEF nsqd_breaks
<1>5. ASSUME NEW l \in Link, nsqd_notices(l)
      PROVE  /\ IsFiniteSet(Places(m)')
             /\ handled'[m] + Cardinality(Places(m)') <= 1 + excuses'[m]
  BY <1>5, PartingOnce DEF nsqd_notices
<1>6. CASE at_rest \/ UNCHANGED vars
  <2>1. UNCHANGED vars
    BY <1>6 DEF at_rest
  <2>2. Remains(m)
    BY <2>1 DEF vars, Remains
  <2>3. UNCHANGED <<queue, handled, excuses>>
    BY <2>1 DEF vars
  <2> QED
    BY <2>2, <2>3, OnceKept
<1> QED
  BY <1>1, <1>2, <1>3, <1>4, <1>5, <1>6, HandlerOnce, PushOnce, ReceiveOnce
     DEF Next, message_succeeds, message_fails

(***************************************************************************)
(* A message is handled with success a second time only because nsqd put   *)
(* it back, after a timeout or a broken connection: whatever else          *)
(* message_handler and nsqd do, a message has at most one more place to    *)
(* come from than it had excuses for.                                      *)
(***************************************************************************)
THEOREM RepeatsExcused == Spec => []NoRepeatUnprovoked
<1>1. Typed /\ OnceEach => NoRepeatUnprovoked
  <2> SUFFICES ASSUME Typed, OnceEach, NEW m \in Message
               PROVE  handled[m] <= 1 + excuses[m]
    BY DEF NoRepeatUnprovoked
  <2> QED
    BY PlacesFields
<1> QED
  BY <1>1, InitTyped, NextTyped, InitOnce, NextOnce, PTL DEF Spec

-------------------------------------------------------------------------------

(***************************************************************************)
(* What the channel promises of its messages.                              *)
(***************************************************************************)

\* The FINs on their way were on their way before, or are for a message that
\* the handler has just succeeded on.
Earned ==
  /\ \A m \in Message : handled'[m] > 0 \/ handled'[m] = handled[m]
  /\ \A k \in Link, m \in Message : \A i \in 1 .. Len(to_nsqd'[k]) :
       to_nsqd'[k][i] = Fin(m) =>
         \/ handled'[m] > 0
         \/ \E j \in 1 .. Len(to_nsqd[k]) : to_nsqd[k][j] = Fin(m)

LEMMA EarnedKept ==
  ASSUME Typed, Typed', FinishedLast, Earned
  PROVE  FinishedLast'
<1> SUFFICES ASSUME NEW l \in Link, NEW m \in Message, NEW i \in DOMAIN to_nsqd'[l],
                    to_nsqd'[l][i] = Fin(m)
             PROVE  handled'[m] > 0
  BY DEF FinishedLast
<1>1. /\ DOMAIN to_nsqd'[l] = 1 .. Len(to_nsqd'[l])
      /\ DOMAIN to_nsqd[l] = 1 .. Len(to_nsqd[l])
  BY DEF Typed
<1>2. CASE \E j \in 1 .. Len(to_nsqd[l]) : to_nsqd[l][j] = Fin(m)
  BY <1>1, <1>2 DEF FinishedLast, Earned
<1> QED
  BY <1>1, <1>2 DEF Earned

LEMMA HandlerEarns ==
  ASSUME Typed, NEW l \in Link, NEW succeeded \in BOOLEAN, message_handler(l, succeeded)
  PROVE  Earned
<1> DEFINE h == Head(to_client[l])
           a == Answer(h, succeeded)
           s == to_nsqd[l]
<1>1. h \in Message
  BY TailIs DEF message_handler, Typed
<1>2. \A m \in Message : /\ handled'[m] > 0 \/ handled'[m] = handled[m]
                         /\ succeeded /\ m = h => handled'[m] > 0
  BY <1>1 DEF message_handler, Typed
<1>3. s \in Seq(Command(max_in_flight))
  BY DEF Typed
<1>4. /\ a \in Seq(Command(max_in_flight)) /\ Len(a) = 2
      /\ a[1] = (IF succeeded THEN Fin(h) ELSE Req(h)) /\ a[2] = Rdy(max_in_flight)
  BY <1>1, AnswerIs
<1>5. /\ to_nsqd'[l] = IF nsqd[l] THEN s \o a ELSE s
      /\ \A k \in Link \ {l} : to_nsqd'[k] = to_nsqd[k]
  BY DEF message_handler, Typed
<1> HIDE DEF a, s
<1>6. /\ s \o a \in Seq(Command(max_in_flight)) /\ Len(s) \in Nat /\ Len(s \o a) = Len(s) + 2
      /\ DOMAIN s = 1 .. Len(s) /\ DOMAIN (s \o a) = 1 .. Len(s) + 2
      /\ \A i \in 1 .. Len(s) + 2 :
           \/ i \in 1 .. Len(s) /\ (s \o a)[i] = s[i]
           \/ i = Len(s) + 1 /\ (s \o a)[i] = a[1]
           \/ i = Len(s) + 2 /\ (s \o a)[i] = a[2]
  BY ONLY <1>3, <1>4, WithTwo
<1>7. ASSUME NEW m \in Message, NEW i \in 1 .. Len(to_nsqd'[l]), to_nsqd'[l][i] = Fin(m)
      PROVE  handled'[m] > 0 \/ \E j \in 1 .. Len(to_nsqd[l]) : to_nsqd[l][j] = Fin(m)
  <2>1. CASE nsqd[l]
    <3>1. Fin(m) # Req(h) /\ Fin(m) # Rdy(max_in_flight) /\ (Fin(m) = Fin(h) => m = h)
      BY DEF Fin, Req, Rdy
    <3>2. i \in 1 .. Len(s) + 2 /\ (s \o a)[i] = Fin(m)
      BY <1>5, <1>6, <1>7, <2>1
    <3>3. CASE i \in 1 .. Len(s) /\ (s \o a)[i] = s[i]
      BY <3>2, <3>3 DEF s
    <3>4. CASE (s \o a)[i] = a[1]
      BY <1>2, <1>4, <3>1, <3>2, <3>4
    <3>5. CASE (s \o a)[i] = a[2]
      BY <1>4, <3>1, <3>2, <3>5
    <3> QED
      BY <1>6, <3>2, <3>3, <3>4, <3>5
  <2>2. CASE ~nsqd[l]
    BY <1>5, <1>7, <2>2 DEF s
  <2> QED
    BY <2>1, <2>2
<1>8. \A k \in Link, m \in Message : \A i \in 1 .. Len(to_nsqd'[k]) :
        to_nsqd'[k][i] = Fin(m) =>
          \/ handled'[m] > 0
          \/ \E j \in 1 .. Len(to_nsqd[k]) : to_nsqd[k][j] = Fin(m)
  BY <1>5, <1>7
<1> QED
  BY <1>2, <1>8 DEF Earned

LEMMA NextFinished == Typed /\ Typed' /\ FinishedLast /\ [Next]_vars => FinishedLast'
<1> SUFFICES ASSUME Typed, [Next]_vars PROVE Earned
  BY EarnedKept
<1>1. ASSUME NEW l \in Link, nsq_reader_connect_cb(l) PROVE Earned
  <2>1. /\ to_nsqd'[l] = <<Sub, Rdy(max_in_flight)>> /\ handled' = handled
        /\ \A k \in Link \ {l} : to_nsqd'[k] = to_nsqd[k]
    BY <1>1 DEF nsq_reader_connect_cb, Typed
  <2>2. \A m \in Message : Sub # Fin(m) /\ Rdy(max_in_flight) # Fin(m)
    BY DEF Sub, Rdy, Fin
  <2>3. ASSUME NEW a, NEW b, NEW i \in 1 .. Len(<<a, b>>)
        PROVE  <<a, b>>[i] \in {a, b}
    OBVIOUS
  <2> QED
    BY <2>1, <2>2, <2>3 DEF Earned
<1>2. ASSUME NEW l \in Link, client_breaks(l) \/ read_cb_end(l) PROVE Earned
  <2>1. PICK k \in 0 .. Len(to_nsqd[l]) : to_nsqd' = [to_nsqd EXCEPT ![l] = SubSeq(@, 1, k)]
    BY <1>2 DEF client_breaks, read_cb_end, buffered_socket_close
  <2>2. /\ to_nsqd'[l] = SubSeq(to_nsqd[l], 1, k) /\ handled' = handled
        /\ \A j \in Link \ {l} : to_nsqd'[j] = to_nsqd[j]
    BY <1>2, <2>1 DEF client_breaks, read_cb_end, buffered_socket_close, Typed
  <2>3. to_nsqd[l] \in Seq(Command(max_in_flight)) /\ Len(to_nsqd[l]) \in Nat
    BY DEF Typed
  <2>4. /\ Len(SubSeq(to_nsqd[l], 1, k)) = k
        /\ \A i \in 1 .. k : SubSeq(to_nsqd[l], 1, k)[i] = to_nsqd[l][i]
    BY <2>3, Beginning
  <2>5. \A i \in 1 .. k : i \in 1 .. Len(to_nsqd[l])
    BY ONLY <2>3, k \in 0 .. Len(to_nsqd[l])
  <2>6. \A i \in 1 .. Len(to_nsqd'[l]) :
          i \in 1 .. Len(to_nsqd[l]) /\ to_nsqd'[l][i] = to_nsqd[l][i]
    BY ONLY <2>2, <2>4, <2>5
  <2> QED
    BY <2>2, <2>6 DEF Earned
<1>3. ASSUME NEW l \in Link, nsqd_receives(l) PROVE Earned
  <2>1. to_nsqd[l] \in Seq(Command(max_in_flight)) /\ to_nsqd[l] # << >>
    BY <1>3 DEF nsqd_receives, Typed
  <2>2. /\ to_nsqd'[l] = Tail(to_nsqd[l]) /\ handled' = handled
        /\ \A k \in Link \ {l} : to_nsqd'[k] = to_nsqd[k]
    BY <1>3 DEF nsqd_receives, Typed
  <2>3. /\ \A i \in DOMAIN Tail(to_nsqd[l]) :
             i + 1 \in DOMAIN to_nsqd[l] /\ Tail(to_nsqd[l])[i] = to_nsqd[l][i + 1]
        /\ DOMAIN to_nsqd[l] = 1 .. Len(to_nsqd[l])
        /\ Tail(to_nsqd[l]) \in Seq(Command(max_in_flight))
    BY ONLY <2>1, TailIs
  <2>4. DOMAIN Tail(to_nsqd[l]) = 1 .. Len(Tail(to_nsqd[l]))
    BY ONLY <2>3
  <2>5. \A i \in 1 .. Len(to_nsqd'[l]) :
          i + 1 \in 1 .. Len(to_nsqd[l]) /\ to_nsqd'[l][i] = to_nsqd[l][i + 1]
    BY ONLY <2>2, <2>3, <2>4
  <2>6. ASSUME NEW k \in Link, NEW i \in 1 .. Len(to_nsqd'[k])
        PROVE  \E j \in 1 .. Len(to_nsqd[k]) : to_nsqd'[k][i] = to_nsqd[k][j]
    <3>1. CASE k = l
      BY <2>5, <3>1
    <3>2. CASE k # l
      BY <2>2, <3>2
    <3> QED
      BY <3>1, <3>2
  <2> QED
    BY <2>2, <2>6 DEF Earned
<1>4. ASSUME NEW l \in Link, nsqd_closes(l) PROVE Earned
  <2>1. /\ to_nsqd'[l] = << >> /\ handled' = handled
        /\ \A k \in Link \ {l} : to_nsqd'[k] = to_nsqd[k]
    BY <1>4 DEF nsqd_closes, Typed
  <2>2. \A i \in 1 .. Len(to_nsqd'[l]) : FALSE
    BY <2>1
  <2> QED
    BY <2>1, <2>2 DEF Earned
<1>5. ASSUME UNCHANGED <<to_nsqd, handled>> PROVE Earned
  BY <1>5 DEF Earned
<1> QED
  BY <1>1, <1>2, <1>3, <1>4, <1>5, HandlerEarns
     DEF Next, message_succeeds, message_fails, nsqd_pushes, nsqd_times_out, nsqd_breaks,
         nsqd_notices, at_rest, vars, links

\* nsqd is not done with m.
Pending(m) == m \in queue \/ owner[m] # NoLink

stage == [m \in Message |-> Progress(m)]

\* A step that handles no message and finishes none shows nothing.
LEMMA Unseen ==
  ASSUME \A m \in Message : (Pending(m)' <=> Pending(m)) /\ handled'[m] = handled[m]
  PROVE  stage' = stage
BY DEF Pending, Progress, stage

LEMMA InitStage == Init => Promise!Init
<1> SUFFICES ASSUME Init, NEW m \in Message PROVE Progress(m) = "owed"
  BY DEF Promise!Init
<1> QED
  BY DEF Init, Progress

LEMMA HandlerStage ==
  ASSUME Typed, NEW l \in Link, NEW succeeded \in BOOLEAN, message_handler(l, succeeded)
  PROVE  Promise!Next \/ stage' = stage
<1>1. PICK h \in Message : h = Head(to_client[l])
  BY TailIs DEF message_handler, Typed
<1>2. UNCHANGED <<queue, owner>>
  BY DEF message_handler
<1>3. CASE succeeded /\ Progress(h) = "owed"
  <2>1. handled' = [handled EXCEPT ![h] = @ + 1]
    BY <1>1, <1>3 DEF message_handler
  <2>2. handled'[h] > 0 /\ \A m \in Message \ {h} : handled'[m] = handled[m]
    BY <1>1, <2>1 DEF Typed
  <2>3. Progress(h)' = "handled"
    BY <1>2, <1>3, <2>2 DEF Progress
  <2>4. \A m \in Message \ {h} : Progress(m)' = Progress(m)
    BY <1>2, <2>2 DEF Progress
  <2>5. stage' = [stage EXCEPT ![h] = "handled"] /\ stage[h] = "owed"
    BY <1>1, <1>3, <2>3, <2>4 DEF stage
  <2>6. Promise!Handle(h)
    BY <2>5 DEF Promise!Handle, stage
  <2> QED
    BY <1>1, <2>6 DEF Promise!Next
<1>4. CASE ~(succeeded /\ Progress(h) = "owed")
  <2>1. handled' = IF succeeded THEN [handled EXCEPT ![h] = @ + 1] ELSE handled
    BY <1>1 DEF message_handler
  <2>2. \A m \in Message \ {h} : handled'[m] = handled[m]
    BY <1>1, <2>1 DEF Typed
  <2>3. Progress(h)' = Progress(h)
    <3>1. CASE succeeded
      <4>1. handled'[h] = handled[h] + 1 /\ handled[h] \in Nat
        BY <1>1, <2>1, <3>1 DEF Typed
      <4>2. handled'[h] > 0
        BY <4>1
      <4>3. Progress(h) # "owed"
        BY <1>4, <3>1
      <4> QED
        BY <1>2, <4>2, <4>3 DEF Progress
    <3>2. CASE ~succeeded
      BY <1>2, <2>1, <3>2 DEF Progress
    <3> QED
      BY <3>1, <3>2
  <2>4. \A m \in Message : Progress(m)' = Progress(m)
    BY <1>2, <2>2, <2>3 DEF Progress
  <2> QED
    BY <2>4 DEF stage
<1> QED
  BY <1>3, <1>4

LEMMA ReceiveStage ==
  ASSUME Typed, FinishedLast, NEW l \in Link, nsqd_receives(l)
  PROVE  Promise!Next \/ stage' = stage
<1>1. PICK c \in Command(max_in_flight) :
        c = Head(to_nsqd[l]) /\ c = to_nsqd[l][1] /\ 1 \in DOMAIN to_nsqd[l]
  BY TailIs DEF nsqd_receives, Typed
<1>2. handled' = handled
  BY DEF nsqd_receives
<1> DEFINE m == c[2]
<1>3. CASE c[1] \in {"FIN", "REQ"} /\ m \in Message /\ owner[m] = l
  <2>1. /\ owner' = [owner EXCEPT ![m] = NoLink]
        /\ queue' = IF c[1] = "REQ" THEN queue \cup {m} ELSE queue
    <3>1. c[1] # "SUB" /\ c[1] # "RDY"
      BY <1>3
    <3> QED
      BY <1>1, <1>3, <3>1 DEF nsqd_receives
  <2> HIDE DEF m
  <2>2. /\ owner[m] # NoLink /\ m \notin queue /\ owner'[m] = NoLink
        /\ \A p \in Message \ {m} : owner'[p] = owner[p]
    BY <1>3, <2>1, ConsumerAssumption DEF Typed
  <2>3. CASE c[1] = "REQ"
    <3>1. \A p \in Message : Pending(p)' <=> Pending(p)
      BY <1>3, <2>1, <2>2, <2>3 DEF Pending
    <3> QED
      BY <1>2, <3>1, Unseen
  <2>4. CASE c[1] = "FIN"
    <3>1. c = Fin(m)
      BY <1>1, <2>4, CommandIs DEF Sub, Rdy, Fin, Req, m
    <3>2. handled[m] > 0
      BY <1>1, <1>3, <3>1 DEF FinishedLast
    <3>3. queue' = queue
      BY <2>1, <2>4
    <3>4. Progress(m) = "handled" /\ Progress(m)' = "finished"
      BY <2>2, <3>2, <3>3 DEF Progress
    <3>5. \A p \in Message \ {m} : Progress(p)' = Progress(p)
      BY <1>2, <2>2, <3>3 DEF Progress
    <3>6. stage' = [stage EXCEPT ![m] = "finished"] /\ stage[m] = "handled"
      BY <1>3, <3>4, <3>5 DEF stage
    <3>7. Promise!Finish(m)
      BY <3>6 DEF Promise!Finish, stage
    <3> QED
      BY <1>3, <3>7 DEF Promise!Next
  <2> QED
    BY <1>3, <2>3, <2>4
<1>4. CASE ~(c[1] \in {"FIN", "REQ"} /\ m \in Message /\ owner[m] = l)
  <2>1. owner' = owner /\ queue' = queue
    <3>1. c[1] \in {"FIN", "REQ"} => m \in Message
      BY <1>1, CommandIs
    <3> QED
      BY <1>1, <1>4, <3>1 DEF nsqd_receives
  <2>2. \A p \in Message : Pending(p)' <=> Pending(p)
    BY <2>1 DEF Pending
  <2> QED
    BY <1>2, <2>2, Unseen
<1> QED
  BY <1>3, <1>4

LEMMA NextStage == Typed /\ FinishedLast /\ [Next]_vars => [Promise!Next]_stage
<1> SUFFICES ASSUME Typed, FinishedLast, [Next]_vars PROVE Promise!Next \/ stage' = stage
  OBVIOUS
<1>1. ASSUME NEW l \in Link, nsqd_closes(l) PROVE stage' = stage
  <2>1. \A m \in Message : Pending(m)' <=> Pending(m)
    BY <1>1, ConsumerAssumption DEF nsqd_closes, Pending, InFlight, Typed
  <2>2. handled' = handled
    BY <1>1 DEF nsqd_closes
  <2> QED
    BY <2>1, <2>2, Unseen
<1>2. ASSUME NEW m \in Message, nsqd_times_out(m) PROVE stage' = stage
  <2>1. \A p \in Message : Pending(p)' <=> Pending(p)
    BY <1>2 DEF nsqd_times_out, Pending, Typed
  <2>2. handled' = handled
    BY <1>2 DEF nsqd_times_out
  <2> QED
    BY <2>1, <2>2, Unseen
<1>3. ASSUME NEW l \in Link, NEW m \in Message, nsqd_pushes(l, m) PROVE stage' = stage
  <2>1. \A p \in Message : Pending(p)' <=> Pending(p)
    BY <1>3, ConsumerAssumption DEF nsqd_pushes, Pending, Typed
  <2>2. handled' = handled
    BY <1>3 DEF nsqd_pushes
  <2> QED
    BY <2>1, <2>2, Unseen
<1>4. ASSUME UNCHANGED <<queue, owner, handled>> PROVE stage' = stage
  BY <1>4, Unseen DEF Pending
<1> QED
  BY <1>1, <1>2, <1>3, <1>4, HandlerStage, ReceiveStage
     DEF Next, message_succeeds, message_fails, nsq_reader_connect_cb, client_breaks,
         read_cb_end, buffered_socket_close, nsqd_breaks, nsqd_notices, at_rest, vars

(***************************************************************************)
(* nsqd is done with a message only after a handler succeeded on it, and   *)
(* never sends it afterwards: the part of the channel's promise that is no *)
(* matter of time.                                                         *)
(***************************************************************************)
THEOREM DeliversSafely == Spec => Promise!Safety
<1>1. Init => FinishedLast
  BY InitOnce
<1>2. Typed /\ FinishedLast /\ [Next]_vars => [Promise!Next]_[m \in Message |-> Progress(m)]
  BY NextStage DEF stage
<1> QED
  BY <1>1, <1>2, InitTyped, NextTyped, NextFinished, InitStage, PTL DEF Spec, Promise!Safety
===============================================================================

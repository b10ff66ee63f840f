---------------------------- MODULE HttpClientProofs ----------------------------
(***************************************************************************)
(* The safety of the HTTP client, for any number of requests at a time and *)
(* however deep their callbacks nest.                                      *)
(***************************************************************************)
EXTENDS HttpClient, FiniteSetTheorems, SequenceTheorems, TLAPS

Phase == {"free", "added", "resolving", "connecting", "waiting", "reading", "done", "called"}

Frame == {timeout_run, update, info} \cup {event_run(r) : r \in Request}
                                     \cup {cleanup(r) : r \in Request}

TypeOK ==
  /\ easy \in [Request -> Phase]
  /\ expiry \in [Request -> {"none", "later", "due"}]
  /\ sock \in [Request -> [assigned : BOOLEAN, watch : SUBSET {"IN", "OUT"}]]
  /\ told \in BOOLEAN
  /\ timer \in BOOLEAN

(***************************************************************************)
(* The inductive invariant.  Each request's socket and expiry follow its   *)
(* phase at all times.  The calls under way may be nested to any depth:    *)
(* what is known of the stack is that only check_multi_info and the rest   *)
(* of free_http_request can wait below its top, that check_multi_info is   *)
(* at its bottom once requests have run, and that the requests handed over *)
(* are those with a cleanup on it, one each.  What the timer and the       *)
(* phases satisfy depends on the top alone.                                *)
(***************************************************************************)
SocketFits ==
  \A r \in Request :
    sock[r] = IF Poll(easy[r]) = "REMOVE"
              THEN [assigned |-> FALSE, watch |-> {}]
              ELSE [assigned |-> TRUE, watch |-> {Poll(easy[r])}]

ExpiryFits ==
  \A r \in Request :
    /\ expiry[r] # "none" <=> easy[r] \in DOMAIN AfterTimeout
    /\ easy[r] = "added" => expiry[r] = "due"

WaitingBelow(s) ==
  \A i \in 2 .. Len(s) : s[i] = info \/ \E r \in Request : s[i] = cleanup(r)

EndsInInfo(s) == s # << >> /\ s[Len(s)] = info

Handed(e, s) ==
  \A r \in Request :
    /\ e[r] = "called" <=> \E i \in 1 .. Len(s) : s[i] = cleanup(r)
    /\ \A i, j \in 1 .. Len(s) : s[i] = cleanup(r) /\ s[j] = cleanup(r) => i = j

StackFits ==
  /\ stack \in Seq(Frame)
  /\ WaitingBelow(stack)
  /\ stack \in {<< >>, <<update>>} \/ EndsInInfo(stack)
  /\ Handed(easy, stack)

\* A request is only "added" until the calls under way run it, and only "done"
\* while one of them will look for messages; the socket of one is run while
\* libcurl waits for it.
PhasesFit ==
  /\ \A r \in Request : easy[r] = "added" =>
       Doing(timeout_run) \/ (stack = <<update>> /\ ~told)
  /\ \A r \in Request : easy[r] = "done" => EndsInInfo(stack)
  /\ \A r \in Request : Doing(event_run(r)) => easy[r] \in DOMAIN AfterEvent

Running == Doing(timeout_run) \/ Doing(update) \/ \E r \in Request : Doing(event_run(r))

\* The timer runs if multi_timer_cb was told of a timeout, and it was told if
\* there is one, unless a call that will see to it is the next to go on.
TimerFits ==
  /\ told => timer \/ Doing(timeout_run)
  /\ \A r \in Request : expiry[r] # "none" => told \/ Running

IInv == TypeOK /\ SocketFits /\ ExpiryFits /\ StackFits /\ PhasesFit /\ TimerFits

(***************************************************************************)
(* Frames of the stack are told apart by their kind, and by their request. *)
(***************************************************************************)
LEMMA FramesDiffer ==
  /\ timeout_run # update /\ timeout_run # info /\ update # info
  /\ \A r : /\ event_run(r) \notin {timeout_run, update, info}
            /\ cleanup(r) \notin {timeout_run, update, info}
  /\ \A r, q : /\ event_run(r) # cleanup(q)
               /\ event_run(r) = event_run(q) => r = q
               /\ cleanup(r) = cleanup(q) => r = q
BY DEF timeout_run, update, info, event_run, cleanup

(***************************************************************************)
(* What becomes of a stack: its top is taken off, replaced by one call or  *)
(* by the two of timer_cb, or a request is handed over above it.           *)
(***************************************************************************)
LEMMA AtLeastTwo == \A n \in Nat : n >= 1 /\ n # 1 => n \in 2 .. n
OBVIOUS

LEMMA Popped ==
  ASSUME NEW s \in Seq(Frame), s # << >>
  PROVE  /\ Tail(s) \in Seq(Frame)
         /\ Len(Tail(s)) = Len(s) - 1
         /\ \A i \in 1 .. Len(s) - 1 : Tail(s)[i] = s[i + 1]
BY HeadTailProperties

LEMMA OnTop ==
  ASSUME NEW a \in Frame, NEW t \in Seq(Frame)
  PROVE  /\ <<a>> \o t \in Seq(Frame)
         /\ Len(<<a>> \o t) = Len(t) + 1
         /\ (<<a>> \o t)[1] = a
         /\ \A i \in 1 .. Len(t) : (<<a>> \o t)[i + 1] = t[i]
<1>1. <<a>> \in Seq(Frame) /\ Len(<<a>>) = 1 /\ <<a>>[1] = a
  OBVIOUS
<1> QED BY <1>1, ConcatProperties

LEMMA TwoOnTop ==
  ASSUME NEW a \in Frame, NEW b \in Frame, NEW t \in Seq(Frame)
  PROVE  /\ <<a, b>> \o t \in Seq(Frame)
         /\ Len(<<a, b>> \o t) = Len(t) + 2
         /\ (<<a, b>> \o t)[1] = a
         /\ (<<a, b>> \o t)[2] = b
         /\ \A i \in 1 .. Len(t) : (<<a, b>> \o t)[i + 2] = t[i]
<1>1. /\ <<a, b>> \in Seq(Frame) /\ Len(<<a, b>>) = 2
      /\ <<a, b>>[1] = a /\ <<a, b>>[2] = b
  OBVIOUS
<1> QED BY <1>1, ConcatProperties

LEMMA PopKeeps ==
  ASSUME NEW s \in Seq(Frame), s # << >>, NEW e,
         \A r \in Request : Head(s) # cleanup(r), WaitingBelow(s), Handed(e, s)
  PROVE  /\ Tail(s) \in Seq(Frame) /\ WaitingBelow(Tail(s)) /\ Handed(e, Tail(s))
         /\ EndsInInfo(s) => Tail(s) = << >> \/ EndsInInfo(Tail(s))
         /\ Tail(s) # << >> =>
              Head(Tail(s)) = info \/ \E r \in Request : Head(Tail(s)) = cleanup(r)
<1> DEFINE t == Tail(s)
<1>1. /\ t \in Seq(Frame) /\ Len(t) = Len(s) - 1
      /\ \A i \in 1 .. Len(s) - 1 : t[i] = s[i + 1]
  BY Popped
<1>2. Len(s) \in Nat /\ Len(s) >= 1 /\ Head(s) = s[1]
  BY LenProperties, EmptySeq
<1>3. t # << >> => Len(t) >= 1 /\ Head(t) = t[1]
  BY <1>1, LenProperties, EmptySeq
<1> HIDE DEF t
<1>4. \A i \in 1 .. Len(t) : t[i] = s[i + 1] /\ i + 1 \in 2 .. Len(s)
  BY <1>1, <1>2
<1>5. WaitingBelow(t)
  BY <1>1, <1>2, <1>4 DEF WaitingBelow
<1>6. ASSUME NEW r \in Request
      PROVE  /\ (\E i \in 1 .. Len(s) : s[i] = cleanup(r)) <=> \E i \in 1 .. Len(t) : t[i] = cleanup(r)
             /\ \A i, j \in 1 .. Len(t) : t[i] = cleanup(r) /\ t[j] = cleanup(r) => i = j
  <2>1. ASSUME NEW i \in 1 .. Len(s), s[i] = cleanup(r)
        PROVE  \E k \in 1 .. Len(t) : t[k] = cleanup(r)
    <3>1. i # 1
      BY <1>2, <2>1
    <3>2. i - 1 \in 1 .. Len(t) /\ (i - 1) + 1 = i
      BY <1>1, <1>2, <3>1
    <3>3. t[i - 1] = cleanup(r)
      BY <1>4, <2>1, <3>2
    <3> QED BY <3>2, <3>3
  <2>2. ASSUME NEW i \in 1 .. Len(t), t[i] = cleanup(r)
        PROVE  \E k \in 1 .. Len(s) : s[k] = cleanup(r)
    BY <1>2, <1>4, <2>2
  <2>3. ASSUME NEW i \in 1 .. Len(t), NEW j \in 1 .. Len(t), t[i] = cleanup(r), t[j] = cleanup(r)
        PROVE  i = j
    <3>1. i + 1 \in 1 .. Len(s) /\ j + 1 \in 1 .. Len(s) /\ s[i + 1] = cleanup(r) /\ s[j + 1] = cleanup(r)
      BY <1>2, <1>4, <2>3
    <3>2. i + 1 = j + 1
      BY <3>1 DEF Handed
    <3> QED BY <1>1, <1>2, <3>2
  <2> QED BY <2>1, <2>2, <2>3
<1>7. Handed(e, t)
  BY <1>6 DEF Handed
<1>8. EndsInInfo(s) => t = << >> \/ EndsInInfo(t)
  <2> SUFFICES ASSUME EndsInInfo(s), t # << >> PROVE EndsInInfo(t)
    OBVIOUS
  <2>1. Len(t) \in 1 .. Len(t) /\ Len(t) + 1 = Len(s)
    BY <1>1, <1>2, <1>3
  <2>2. t[Len(t)] = s[Len(s)]
    BY <1>4, <2>1
  <2> QED BY <2>2 DEF EndsInInfo
<1>9. t # << >> => t[1] = info \/ \E r \in Request : t[1] = cleanup(r)
  <2> SUFFICES ASSUME t # << >> PROVE t[1] = info \/ \E r \in Request : t[1] = cleanup(r)
    OBVIOUS
  <2>1. 1 \in 1 .. Len(t) /\ 2 \in 2 .. Len(s) /\ t[1] = s[2]
    BY <1>1, <1>2, <1>3, <1>4
  <2> QED BY <2>1 DEF WaitingBelow
<1> QED BY <1>1, <1>3, <1>5, <1>7, <1>8, <1>9 DEF t

LEMMA ReplaceKeeps ==
  ASSUME NEW s \in Seq(Frame), s # << >>, NEW e, NEW a \in Frame,
         \A r \in Request : Head(s) # cleanup(r) /\ a # cleanup(r),
         WaitingBelow(s), Handed(e, s), EndsInInfo(s), Head(s) # info
  PROVE  LET u == <<a>> \o Tail(s)
         IN  /\ u \in Seq(Frame) /\ WaitingBelow(u) /\ Handed(e, u) /\ EndsInInfo(u)
             /\ u # << >> /\ Head(u) = a /\ Len(u) = Len(s)
<1> DEFINE t == Tail(s)
           u == <<a>> \o t
<1>1. /\ t \in Seq(Frame) /\ Len(t) = Len(s) - 1
      /\ \A i \in 1 .. Len(s) - 1 : t[i] = s[i + 1]
  BY Popped
<1>2. Len(s) \in Nat /\ Len(s) >= 1 /\ Head(s) = s[1]
  BY LenProperties, EmptySeq
<1> HIDE DEF t
<1>3. /\ u \in Seq(Frame) /\ Len(u) = Len(t) + 1 /\ u[1] = a
      /\ \A i \in 1 .. Len(t) : u[i + 1] = t[i]
  BY <1>1, OnTop
<1>4. u # << >> /\ Head(u) = u[1]
  BY <1>1, <1>2, <1>3, LenProperties, EmptySeq
<1> HIDE DEF u
<1>5. Len(u) = Len(s)
  BY <1>1, <1>2, <1>3
<1>6. ASSUME NEW i \in 2 .. Len(s) PROVE u[i] = s[i]
  <2>1. i - 1 \in 1 .. Len(t) /\ (i - 1) + 1 = i /\ i - 1 \in 1 .. Len(s) - 1
    BY <1>1, <1>2
  <2>2. u[(i - 1) + 1] = t[i - 1] /\ t[i - 1] = s[(i - 1) + 1]
    BY <1>1, <1>3, <2>1
  <2> QED BY <2>1, <2>2
<1>7. WaitingBelow(u)
  BY <1>5, <1>6 DEF WaitingBelow
<1>8. Len(s) >= 2 /\ EndsInInfo(u)
  <2>1. Len(s) # 1
    BY <1>2 DEF EndsInInfo
  <2>2. Len(s) \in 2 .. Len(s)
    BY <1>2, <2>1, AtLeastTwo
  <2>3. u[Len(u)] = info
    BY <1>5, <1>6, <2>2 DEF EndsInInfo
  <2> QED BY <1>2, <1>4, <2>1, <2>3 DEF EndsInInfo
<1>9. ASSUME NEW r \in Request, NEW i \in 1 .. Len(s)
      PROVE  u[i] = cleanup(r) <=> s[i] = cleanup(r)
  <2>1. CASE i = 1
    BY <1>2, <1>3, <2>1
  <2>2. CASE i \in 2 .. Len(s)
    BY <1>6, <2>2
  <2> QED BY <1>2, <2>1, <2>2
<1>10. Handed(e, u)
  BY <1>5, <1>9 DEF Handed
<1> QED BY <1>3, <1>4, <1>5, <1>7, <1>8, <1>10 DEF u, t

LEMMA TimerCbKeeps ==
  ASSUME NEW s \in Seq(Frame), s # << >>, NEW e,
         \A r \in Request : Head(s) # cleanup(r),
         WaitingBelow(s), Handed(e, s), s = <<update>> \/ EndsInInfo(s), Head(s) # info
  PROVE  LET u == timer_cb \o Tail(s)
         IN  /\ u \in Seq(Frame) /\ WaitingBelow(u) /\ Handed(e, u) /\ EndsInInfo(u)
             /\ u # << >> /\ Head(u) = timeout_run
<1> DEFINE t == Tail(s)
           u == <<timeout_run, info>> \o t
<1>1. /\ t \in Seq(Frame) /\ Len(t) = Len(s) - 1
      /\ \A i \in 1 .. Len(s) - 1 : t[i] = s[i + 1]
  BY Popped
<1>2. Len(s) \in Nat /\ Len(s) >= 1 /\ Head(s) = s[1]
  BY LenProperties, EmptySeq
<1> HIDE DEF t
<1>3. timeout_run \in Frame /\ info \in Frame
  BY DEF Frame
<1>4. /\ u \in Seq(Frame) /\ Len(u) = Len(t) + 2 /\ u[1] = timeout_run /\ u[2] = info
      /\ \A i \in 1 .. Len(t) : u[i + 2] = t[i]
  BY <1>1, <1>3, TwoOnTop
<1>5. u # << >> /\ Head(u) = u[1]
  BY <1>1, <1>2, <1>4, LenProperties, EmptySeq
<1> HIDE DEF u
<1>6. Len(u) = Len(s) + 1
  BY <1>1, <1>2, <1>4
<1>7. ASSUME NEW i \in 2 .. Len(s) PROVE u[i + 1] = s[i]
  <2>1. i - 1 \in 1 .. Len(t) /\ (i - 1) + 1 = i /\ (i - 1) + 2 = i + 1 /\ i - 1 \in 1 .. Len(s) - 1
    BY <1>1, <1>2
  <2>2. u[(i - 1) + 2] = t[i - 1] /\ t[i - 1] = s[(i - 1) + 1]
    BY <1>1, <1>4, <2>1
  <2> QED BY <2>1, <2>2
<1>8. WaitingBelow(u)
  <2>1. ASSUME NEW i \in 2 .. Len(u) PROVE u[i] = info \/ \E r \in Request : u[i] = cleanup(r)
    <3>1. CASE i = 2
      BY <1>4, <3>1
    <3>2. CASE i # 2
      <4>1. i - 1 \in 2 .. Len(s) /\ (i - 1) + 1 = i
        BY <1>2, <1>6, <3>2
      <4>2. u[i] = s[i - 1]
        BY <1>7, <4>1
      <4> QED BY <4>1, <4>2 DEF WaitingBelow
    <3> QED BY <3>1, <3>2
  <2> QED BY <2>1 DEF WaitingBelow
<1>9. EndsInInfo(u)
  <2>1. CASE Len(s) = 1
    <3>1. Len(u) = 2
      BY ONLY <1>6, <2>1
    <3> QED BY ONLY <1>4, <1>5, <3>1 DEF EndsInInfo
  <2>2. CASE Len(s) # 1
    <3>1. s # <<update>>
      BY <2>2
    <3>2. Len(s) \in 2 .. Len(s)
      BY <1>2, <2>2, AtLeastTwo
    <3>3. u[Len(s) + 1] = info
      BY <1>7, <3>1, <3>2 DEF EndsInInfo
    <3> QED BY <1>5, <1>6, <3>3 DEF EndsInInfo
  <2> QED BY <2>1, <2>2
<1>10. ASSUME NEW r \in Request
       PROVE  /\ (\E i \in 1 .. Len(s) : s[i] = cleanup(r)) <=> \E i \in 1 .. Len(u) : u[i] = cleanup(r)
              /\ \A i, j \in 1 .. Len(u) : u[i] = cleanup(r) /\ u[j] = cleanup(r) => i = j
  <2>1. cleanup(r) # timeout_run /\ cleanup(r) # info
    BY FramesDiffer
  <2>2. ASSUME NEW i \in 1 .. Len(s), s[i] = cleanup(r)
        PROVE  \E k \in 1 .. Len(u) : u[k] = cleanup(r)
    <3>1. i \in 2 .. Len(s)
      BY <1>2, <2>2
    <3>2. i + 1 \in 1 .. Len(u) /\ u[i + 1] = cleanup(r)
      BY <1>2, <1>6, <1>7, <2>2, <3>1
    <3> QED BY <3>2
  <2>3. ASSUME NEW i \in 1 .. Len(u), u[i] = cleanup(r)
        PROVE  i - 1 \in 1 .. Len(s) /\ s[i - 1] = cleanup(r)
    <3>1. i # 1 /\ i # 2
      BY <1>4, <2>1, <2>3
    <3>2. i - 1 \in 2 .. Len(s) /\ (i - 1) + 1 = i
      BY <1>2, <1>6, <3>1
    <3>3. s[i - 1] = u[i]
      BY <1>7, <3>2
    <3> QED BY <1>2, <2>3, <3>2, <3>3
  <2>4. ASSUME NEW i \in 1 .. Len(u), NEW j \in 1 .. Len(u), u[i] = cleanup(r), u[j] = cleanup(r)
        PROVE  i = j
    <3>1. i - 1 \in 1 .. Len(s) /\ s[i - 1] = cleanup(r) /\ j - 1 \in 1 .. Len(s) /\ s[j - 1] = cleanup(r)
      BY <2>3, <2>4
    <3>2. i - 1 = j - 1
      BY <3>1 DEF Handed
    <3>3. Len(u) \in Nat
      BY <1>2, <1>6
    <3> QED BY <3>2, <3>3
  <2> QED BY <2>2, <2>3, <2>4
<1>11. Handed(e, u)
  BY <1>10 DEF Handed
<1> QED BY <1>4, <1>5, <1>8, <1>9, <1>11 DEF u, t, timer_cb

LEMMA HandOverKeeps ==
  ASSUME NEW s \in Seq(Frame), s # << >>, NEW e, NEW f, NEW r \in Request,
         Head(s) = info, WaitingBelow(s), Handed(e, s), EndsInInfo(s),
         e[r] # "called", f[r] = "called", \A q \in Request \ {r} : f[q] = e[q]
  PROVE  LET u == <<update, cleanup(r)>> \o s
         IN  /\ u \in Seq(Frame) /\ WaitingBelow(u) /\ Handed(f, u) /\ EndsInInfo(u)
             /\ u # << >> /\ Head(u) = update
<1> DEFINE u == <<update, cleanup(r)>> \o s
<1>1. Len(s) \in Nat /\ Len(s) >= 1 /\ Head(s) = s[1]
  BY LenProperties, EmptySeq
<1>2. update \in Frame /\ cleanup(r) \in Frame
  BY DEF Frame
<1>3. /\ u \in Seq(Frame) /\ Len(u) = Len(s) + 2 /\ u[1] = update /\ u[2] = cleanup(r)
      /\ \A i \in 1 .. Len(s) : u[i + 2] = s[i]
  BY <1>2, TwoOnTop
<1>4. u # << >> /\ Head(u) = u[1]
  BY <1>1, <1>3, LenProperties, EmptySeq
<1> HIDE DEF u
<1>5. ASSUME NEW i \in 1 .. Len(u), i > 2
      PROVE  i - 2 \in 1 .. Len(s) /\ u[i] = s[i - 2]
  <2>1. i - 2 \in 1 .. Len(s) /\ (i - 2) + 2 = i
    BY <1>1, <1>3, <1>5
  <2> QED BY <1>3, <2>1
<1>6. WaitingBelow(u)
  <2>1. ASSUME NEW i \in 2 .. Len(u) PROVE u[i] = info \/ \E q \in Request : u[i] = cleanup(q)
    <3>1. CASE i = 2
      BY <1>3, <3>1
    <3>2. CASE i > 2
      <4>1. i - 2 \in 1 .. Len(s) /\ u[i] = s[i - 2]
        BY <1>1, <1>3, <1>5, <3>2
      <4>2. i - 2 = 1 \/ i - 2 \in 2 .. Len(s)
        BY <1>1, <4>1
      <4> QED BY <1>1, <4>1, <4>2 DEF WaitingBelow
    <3> QED BY <3>1, <3>2
  <2> QED BY <2>1 DEF WaitingBelow
<1>7. EndsInInfo(u)
  <2>1. Len(s) \in 1 .. Len(s)
    BY <1>1
  <2>2. u[Len(s) + 2] = info
    BY <1>3, <2>1 DEF EndsInInfo
  <2> QED BY <1>3, <1>4, <2>2 DEF EndsInInfo
<1>8. \A i \in 1 .. Len(s) : s[i] # cleanup(r)
  BY DEF Handed
<1>9. f[r] = "called" /\ \E i \in 1 .. Len(u) : u[i] = cleanup(r)
  BY <1>1, <1>3
<1>10. ASSUME NEW i \in 1 .. Len(u), u[i] = cleanup(r) PROVE i = 2
  <2>1. i # 1
    BY <1>3, <1>10, FramesDiffer
  <2>2. ~(i > 2)
    BY <1>5, <1>8, <1>10
  <2> QED BY <1>1, <1>3, <2>1, <2>2
<1>11. ASSUME NEW q \in Request \ {r}
       PROVE  /\ (\E i \in 1 .. Len(s) : s[i] = cleanup(q)) <=> \E i \in 1 .. Len(u) : u[i] = cleanup(q)
              /\ \A i, j \in 1 .. Len(u) : u[i] = cleanup(q) /\ u[j] = cleanup(q) => i = j
  <2>1. cleanup(q) # update /\ cleanup(q) # cleanup(r)
    BY FramesDiffer
  <2>2. ASSUME NEW i \in 1 .. Len(s), s[i] = cleanup(q)
        PROVE  \E k \in 1 .. Len(u) : u[k] = cleanup(q)
    <3>1. i + 2 \in 1 .. Len(u) /\ u[i + 2] = cleanup(q)
      BY <1>1, <1>3, <2>2
    <3> QED BY <3>1
  <2>3. ASSUME NEW i \in 1 .. Len(u), u[i] = cleanup(q)
        PROVE  i - 2 \in 1 .. Len(s) /\ s[i - 2] = cleanup(q)
    <3>1. i # 1 /\ i # 2
      BY <1>3, <2>1, <2>3
    <3>2. i > 2
      BY <1>1, <1>3, <3>1
    <3> QED BY <1>5, <2>3, <3>2
  <2>4. ASSUME NEW i \in 1 .. Len(u), NEW j \in 1 .. Len(u), u[i] = cleanup(q), u[j] = cleanup(q)
        PROVE  i = j
    <3>1. i - 2 \in 1 .. Len(s) /\ s[i - 2] = cleanup(q) /\ j - 2 \in 1 .. Len(s) /\ s[j - 2] = cleanup(q)
      BY <2>3, <2>4
    <3>2. i - 2 = j - 2
      BY <3>1 DEF Handed
    <3>3. Len(u) \in Nat
      BY <1>1, <1>3
    <3> QED BY <3>2, <3>3
  <2> QED BY <2>2, <2>3, <2>4
<1>12. Handed(f, u)
  <2>1. ASSUME NEW q \in Request
        PROVE  /\ f[q] = "called" <=> \E i \in 1 .. Len(u) : u[i] = cleanup(q)
               /\ \A i, j \in 1 .. Len(u) : u[i] = cleanup(q) /\ u[j] = cleanup(q) => i = j
    <3>1. CASE q = r
      BY <1>9, <1>10, <3>1
    <3>2. CASE q # r
      BY <1>11, <3>2 DEF Handed
    <3> QED BY <3>1, <3>2
  <2> QED BY <2>1 DEF Handed
<1> QED BY <1>3, <1>4, <1>6, <1>7, <1>12 DEF u

LEMMA FreeKeeps ==
  ASSUME NEW s \in Seq(Frame), s # << >>, NEW e, NEW f, NEW r \in Request,
         Head(s) = cleanup(r), WaitingBelow(s), Handed(e, s), EndsInInfo(s),
         f[r] # "called", \A q \in Request \ {r} : f[q] = e[q]
  PROVE  /\ Tail(s) \in Seq(Frame) /\ WaitingBelow(Tail(s)) /\ Handed(f, Tail(s))
         /\ EndsInInfo(Tail(s))
         /\ Head(Tail(s)) = info \/ \E q \in Request : Head(Tail(s)) = cleanup(q)
<1> DEFINE t == Tail(s)
<1>1. /\ t \in Seq(Frame) /\ Len(t) = Len(s) - 1
      /\ \A i \in 1 .. Len(s) - 1 : t[i] = s[i + 1]
  BY Popped
<1>2. Len(s) \in Nat /\ Len(s) >= 1 /\ Head(s) = s[1]
  BY LenProperties, EmptySeq
<1>3. Len(s) >= 2
  <2>1. Len(s) # 1
    BY <1>2, FramesDiffer DEF EndsInInfo
  <2> QED BY <1>2, <2>1
<1>4. t # << >> /\ Head(t) = t[1]
  BY <1>1, <1>2, <1>3, LenProperties, EmptySeq
<1> HIDE DEF t
<1>5. \A i \in 1 .. Len(t) : t[i] = s[i + 1] /\ i + 1 \in 2 .. Len(s)
  BY <1>1, <1>2
<1>6. WaitingBelow(t)
  BY <1>1, <1>2, <1>5 DEF WaitingBelow
<1>7. EndsInInfo(t)
  <2>1. Len(t) \in 1 .. Len(t) /\ Len(t) + 1 = Len(s)
    BY <1>1, <1>2, <1>3
  <2>2. t[Len(t)] = s[Len(s)]
    BY <1>5, <2>1
  <2> QED BY <1>4, <2>2 DEF EndsInInfo
<1>8. t[1] = info \/ \E q \in Request : t[1] = cleanup(q)
  <2>1. 1 \in 1 .. Len(t) /\ 2 \in 2 .. Len(s) /\ t[1] = s[2]
    BY <1>1, <1>2, <1>3, <1>5
  <2> QED BY <2>1 DEF WaitingBelow
<1>9. ASSUME NEW q \in Request, NEW i \in 1 .. Len(t), t[i] = cleanup(q)
      PROVE  i + 1 \in 1 .. Len(s) /\ s[i + 1] = cleanup(q)
  BY <1>2, <1>5, <1>9
<1>10. \A i \in 1 .. Len(t) : t[i] # cleanup(r)
  <2> SUFFICES ASSUME NEW i \in 1 .. Len(t), t[i] = cleanup(r) PROVE FALSE
    OBVIOUS
  <2>1. i + 1 \in 1 .. Len(s) /\ s[i + 1] = cleanup(r) /\ 1 \in 1 .. Len(s) /\ s[1] = cleanup(r)
    BY <1>2, <1>9
  <2>2. i + 1 = 1
    BY <2>1 DEF Handed
  <2> QED BY <2>2
<1>11. ASSUME NEW q \in Request \ {r}
       PROVE  /\ (\E i \in 1 .. Len(s) : s[i] = cleanup(q)) <=> \E i \in 1 .. Len(t) : t[i] = cleanup(q)
              /\ \A i, j \in 1 .. Len(t) : t[i] = cleanup(q) /\ t[j] = cleanup(q) => i = j
  <2>1. ASSUME NEW i \in 1 .. Len(s), s[i] = cleanup(q)
        PROVE  \E k \in 1 .. Len(t) : t[k] = cleanup(q)
    <3>1. i # 1
      BY <1>2, <2>1, FramesDiffer
    <3>2. i - 1 \in 1 .. Len(t) /\ (i - 1) + 1 = i
      BY <1>1, <1>2, <3>1
    <3>3. t[i - 1] = cleanup(q)
      BY <1>5, <2>1, <3>2
    <3> QED BY <3>2, <3>3
  <2>2. ASSUME NEW i \in 1 .. Len(t), NEW j \in 1 .. Len(t), t[i] = cleanup(q), t[j] = cleanup(q)
        PROVE  i = j
    <3>1. i + 1 \in 1 .. Len(s) /\ s[i + 1] = cleanup(q) /\ j + 1 \in 1 .. Len(s) /\ s[j + 1] = cleanup(q)
      BY <1>9, <2>2
    <3>2. i + 1 = j + 1
      BY <3>1 DEF Handed
    <3> QED BY <3>2
  <2> QED BY <1>9, <2>1, <2>2
<1>12. Handed(f, t)
  <2>1. ASSUME NEW q \in Request
        PROVE  /\ f[q] = "called" <=> \E i \in 1 .. Len(t) : t[i] = cleanup(q)
               /\ \A i, j \in 1 .. Len(t) : t[i] = cleanup(q) /\ t[j] = cleanup(q) => i = j
    <3>1. CASE q = r
      BY <1>10, <3>1
    <3>2. CASE q # r
      BY <1>11, <3>2 DEF Handed
    <3> QED BY <3>1, <3>2
  <2> QED BY <2>1 DEF Handed
<1> QED BY <1>1, <1>4, <1>6, <1>7, <1>8, <1>12 DEF t

LEMMA WatchFits ==
  ASSUME SocketFits, NEW r \in Request
  PROVE  sock[r].watch = IF Poll(easy[r]) = "REMOVE" THEN {} ELSE {Poll(easy[r])}
<1>1. CASE Poll(easy[r]) = "REMOVE"
  <2>1. sock[r] = [assigned |-> FALSE, watch |-> {}]
    BY <1>1 DEF SocketFits
  <2> QED BY <1>1, <2>1
<1>2. CASE Poll(easy[r]) # "REMOVE"
  <2>1. sock[r] = [assigned |-> TRUE, watch |-> {Poll(easy[r])}]
    BY <1>2 DEF SocketFits
  <2> QED BY <1>2, <2>1
<1> QED BY <1>1, <1>2

(***************************************************************************)
(* What running the requests in todo does, if those not ready are due: all *)
(* that was due has been run, nothing is left in phase "added", and what   *)
(* has been handed over is left alone.                                     *)
(***************************************************************************)
LEMMA RunRequestsEffect ==
  ASSUME TypeOK, SocketFits, ExpiryFits,
         NEW todo \in SUBSET Request, NEW ready \in SUBSET todo,
         todo = Due \cup ready,
         \A r \in ready : easy[r] \in DOMAIN AfterEvent,
         told' \in BOOLEAN,
         RunRequests(todo, ready)
  PROVE  /\ TypeOK' /\ SocketFits' /\ ExpiryFits'
         /\ \A r \in Request : easy'[r] # "added"
         /\ \A r \in Request : easy'[r] = "called" <=> easy[r] = "called"
         /\ timer' = timer
         /\ stack' = <<update>> \o Tail(stack)
<1>1. PICK f \in [todo -> {"resolving", "connecting", "waiting", "reading", "done"}] :
        /\ \A r \in todo : f[r] \in IF r \in ready THEN AfterEvent[easy[r]]
                                    ELSE AfterTimeout[easy[r]]
        /\ easy' = [r \in Request |-> IF r \in todo THEN f[r] ELSE easy[r]]
  BY DEF RunRequests
<1>2. ASSUME NEW r \in Request
      PROVE  /\ easy'[r] \in Phase
             /\ easy'[r] # "added"
             /\ easy'[r] = "called" <=> easy[r] = "called"
             /\ r \notin todo => easy'[r] = easy[r]
             /\ r \in todo => easy'[r] # "added"
  <2>1. CASE r \in todo
    <3>1. easy'[r] \in {"resolving", "connecting", "waiting", "reading", "done"}
      BY <1>1, <2>1
    <3>2. easy[r] \in DOMAIN AfterTimeout \/ easy[r] \in DOMAIN AfterEvent
      <4>1. CASE r \in ready
        BY <4>1
      <4>2. CASE r \notin ready
        BY <2>1, <4>2 DEF Due, ExpiryFits
      <4> QED BY <4>1, <4>2
    <3>3. easy[r] # "called"
      BY <3>2 DEF AfterTimeout, AfterEvent
    <3> QED BY <2>1, <3>1, <3>3 DEF Phase
  <2>2. CASE r \notin todo
    <3>1. easy'[r] = easy[r] /\ expiry[r] # "due"
      BY <1>1, <2>2 DEF Due
    <3>2. easy[r] # "added"
      BY <3>1 DEF ExpiryFits
    <3> QED BY <2>2, <3>1, <3>2 DEF TypeOK
  <2> QED BY <2>1, <2>2
<1>3. ASSUME NEW r \in Request
      PROVE  /\ expiry'[r] = IF r \in todo THEN Expiry(easy'[r]) ELSE expiry[r]
             /\ sock'[r] = IF Poll(easy'[r]) = Poll(easy[r]) THEN sock[r]
                           ELSE sock_cb(sock[r], Poll(easy'[r]))
  BY DEF RunRequests
<1>4. easy' \in [Request -> Phase]
  BY <1>1, <1>2
<1>5. ASSUME NEW r \in Request
      PROVE  /\ expiry'[r] \in {"none", "later"}
             /\ expiry'[r] # "none" <=> easy'[r] \in DOMAIN AfterTimeout
  <2>1. CASE r \in todo
    BY <1>2, <1>3, <2>1 DEF Expiry, AfterTimeout
  <2>2. CASE r \notin todo
    <3>1. expiry'[r] = expiry[r] /\ easy'[r] = easy[r] /\ expiry[r] # "due"
      BY <1>2, <1>3, <2>2 DEF Due
    <3> QED BY <3>1 DEF TypeOK, ExpiryFits
  <2> QED BY <2>1, <2>2
<1>6. expiry' \in [Request -> {"none", "later", "due"}]
  BY <1>5 DEF RunRequests
<1>7. ASSUME NEW r \in Request
      PROVE  sock'[r] = IF Poll(easy'[r]) = "REMOVE"
                        THEN [assigned |-> FALSE, watch |-> {}]
                        ELSE [assigned |-> TRUE, watch |-> {Poll(easy'[r])}]
  <2>1. CASE Poll(easy'[r]) = Poll(easy[r])
    BY <1>3, <2>1 DEF SocketFits
  <2>2. CASE Poll(easy'[r]) # Poll(easy[r])
    <3>1. sock'[r] = sock_cb(sock[r], Poll(easy'[r]))
      BY <1>3, <2>2
    <3>2. CASE Poll(easy[r]) = "REMOVE"
      <4>1. sock[r] = [assigned |-> FALSE, watch |-> {}]
        BY <3>2 DEF SocketFits
      <4> QED BY <2>2, <3>1, <3>2, <4>1 DEF sock_cb
    <3>3. CASE Poll(easy[r]) # "REMOVE"
      <4>1. sock[r] = [assigned |-> TRUE, watch |-> {Poll(easy[r])}]
        BY <3>3 DEF SocketFits
      <4>2. sock[r].assigned = TRUE
        BY ONLY <4>1
      <4> QED BY <3>1, <4>2 DEF sock_cb
    <3> QED BY <3>2, <3>3
  <2> QED BY <2>1, <2>2
<1>8. \A r \in Request : Poll(easy'[r]) \in {"IN", "OUT", "REMOVE"}
  BY DEF Poll
<1>9. sock' \in [Request -> [assigned : BOOLEAN, watch : SUBSET {"IN", "OUT"}]]
  <2>1. ASSUME NEW r \in Request
        PROVE  sock'[r] \in [assigned : BOOLEAN, watch : SUBSET {"IN", "OUT"}]
    <3>1. CASE Poll(easy'[r]) = "REMOVE"
      <4>1. sock'[r] = [assigned |-> FALSE, watch |-> {}]
        BY <1>7, <3>1
      <4> QED BY ONLY <4>1
    <3>2. CASE Poll(easy'[r]) # "REMOVE"
      <4>1. {Poll(easy'[r])} \in SUBSET {"IN", "OUT"}
        BY <1>8, <3>2
      <4>2. sock'[r] = [assigned |-> TRUE, watch |-> {Poll(easy'[r])}]
        BY <1>7, <3>2
      <4> QED BY ONLY <4>1, <4>2
    <3> QED BY <3>1, <3>2
  <2>2. sock' = [r \in Request |-> sock'[r]]
    BY DEF RunRequests
  <2> QED BY <2>1, <2>2
<1>10. timer' = timer /\ stack' = <<update>> \o Tail(stack)
  BY DEF RunRequests
<1>11. TypeOK'
  BY <1>4, <1>6, <1>9, <1>10 DEF TypeOK
<1>12. SocketFits'
  BY <1>7 DEF SocketFits
<1>13. ExpiryFits'
  BY <1>2, <1>5 DEF ExpiryFits
<1> QED BY <1>2, <1>10, <1>11, <1>12, <1>13

-------------------------------------------------------------------------------
(* The invariant holds at first and is kept by each action. *)

LEMMA InitIInv == Init => IInv
<1> SUFFICES ASSUME Init PROVE IInv
  OBVIOUS
<1>1. TypeOK
  BY DEF Init, TypeOK, Phase
<1>2. SocketFits
  BY DEF Init, SocketFits, Poll
<1>3. ExpiryFits
  BY DEF Init, ExpiryFits, AfterTimeout
<1>4. StackFits
  <2>1. stack \in Seq(Frame) /\ Len(stack) = 0 /\ stack = << >>
    BY DEF Init
  <2>2. \A r \in Request : easy[r] # "called"
    BY DEF Init
  <2> QED BY <2>1, <2>2 DEF StackFits, WaitingBelow, Handed
<1>5. PhasesFit
  BY DEF Init, PhasesFit, Doing
<1>6. TimerFits
  BY DEF Init, TimerFits
<1> QED BY <1>1, <1>2, <1>3, <1>4, <1>5, <1>6 DEF IInv

\* Handed says nothing of a request but whether it is handed over.
LEMMA HandedAlike ==
  ASSUME NEW e, NEW f, NEW s, Handed(e, s),
         \A r \in Request : f[r] = "called" <=> e[r] = "called"
  PROVE  Handed(f, s)
BY DEF Handed

LEMMA TopIs ==
  ASSUME NEW call, Doing(call)
  PROVE  /\ stack # << >> /\ Head(stack) = call
         /\ \A other : Doing(other) <=> other = call
BY DEF Doing

\* What is left when libcurl has run the requests in todo is to be told of the
\* next timeout.
LEMMA RunIInv ==
  ASSUME IInv, NEW a \in {timeout_run} \cup {event_run(r) : r \in Request}, Doing(a),
         NEW todo \in SUBSET Request, NEW ready \in SUBSET todo,
         todo = Due \cup ready,
         \A r \in ready : easy[r] \in DOMAIN AfterEvent,
         told' \in BOOLEAN, a = timeout_run => ~told', told' => told,
         RunRequests(todo, ready)
  PROVE  IInv'
<1>1. /\ TypeOK' /\ SocketFits' /\ ExpiryFits'
      /\ \A r \in Request : easy'[r] # "added"
      /\ \A r \in Request : easy'[r] = "called" <=> easy[r] = "called"
      /\ timer' = timer
      /\ stack' = <<update>> \o Tail(stack)
  BY RunRequestsEffect DEF IInv
<1>2. /\ stack \in Seq(Frame) /\ WaitingBelow(stack) /\ Handed(easy, stack)
      /\ stack \in {<< >>, <<update>>} \/ EndsInInfo(stack)
  BY DEF IInv, StackFits
<1>3. stack # << >> /\ Head(stack) = a
  BY DEF Doing
<1>4. a # update /\ a # info /\ \A r \in Request : a # cleanup(r) /\ update # cleanup(r)
  BY FramesDiffer
<1>5. EndsInInfo(stack)
  BY <1>2, <1>3, <1>4
<1>6. Handed(easy', stack)
  BY <1>1, <1>2, HandedAlike
<1>7. update \in Frame
  BY DEF Frame
<1>8. /\ stack' \in Seq(Frame) /\ WaitingBelow(stack') /\ Handed(easy', stack')
      /\ EndsInInfo(stack') /\ stack' # << >> /\ Head(stack') = update
  BY <1>1, <1>2, <1>3, <1>4, <1>5, <1>6, <1>7, ReplaceKeeps
<1>9. StackFits'
  BY <1>8 DEF StackFits
<1>10. Doing(update)' /\ \A r \in Request : ~Doing(event_run(r))'
  BY <1>8, FramesDiffer DEF Doing
<1>11. PhasesFit'
  BY <1>1, <1>8, <1>10 DEF PhasesFit
<1>12. TimerFits'
  <2>1. told' => timer'
    <3>1. CASE a = timeout_run
      BY <3>1
    <3>2. CASE a # timeout_run
      BY <1>1, <3>2 DEF IInv, TimerFits, Doing
    <3> QED BY <3>1, <3>2
  <2>2. Running'
    BY <1>10 DEF Running
  <2> QED BY <2>1, <2>2 DEF TimerFits
<1> QED BY <1>1, <1>9, <1>11, <1>12 DEF IInv

LEMMA TimeoutIInv == IInv /\ socket_action_timeout => IInv'
<1> SUFFICES ASSUME IInv, socket_action_timeout PROVE IInv'
  OBVIOUS
<1>1. Due \in SUBSET Request /\ Due = Due \cup {} /\ {} \in SUBSET Due
  BY DEF Due
<1>2. Doing(timeout_run) /\ RunRequests(Due, {}) /\ told' = FALSE
  BY DEF socket_action_timeout
<1>3. told' \in BOOLEAN /\ ~told'
  BY <1>2
<1> QED BY <1>1, <1>2, <1>3, RunIInv

LEMMA EventIInv ==
  ASSUME IInv, NEW r \in Request, socket_action_event(r)
  PROVE  IInv'
<1>1. /\ Doing(event_run(r)) /\ RunRequests(Due \cup {r}, {r}) /\ told' = told
      /\ Due \cup {r} \in SUBSET Request /\ {r} \in SUBSET (Due \cup {r})
  BY DEF Due, socket_action_event
<1>2. easy[r] \in DOMAIN AfterEvent
  BY <1>1 DEF IInv, PhasesFit
<1>3. told' \in BOOLEAN
  BY <1>1 DEF IInv, TypeOK
<1>4. event_run(r) # timeout_run
  BY FramesDiffer
<1>5. event_run(r) \in {timeout_run} \cup {event_run(q) : q \in Request}
  OBVIOUS
<1>6. \A q \in {r} : easy[q] \in DOMAIN AfterEvent
  BY <1>2
<1> QED BY <1>1, <1>3, <1>4, <1>5, <1>6, RunIInv

LEMMA EarliestIs ==
  ASSUME TypeOK
  PROVE  /\ Earliest \in {"none", "later", "due"}
         /\ Earliest # "none" <=> \E r \in Request : expiry[r] # "none"
         /\ (\E r \in Request : expiry[r] = "due") => Earliest = "due"
BY DEF TypeOK, Earliest, Due

\* libcurl tells of its earliest timeout: the call is over, or timer_cb is
\* called in its place.
LEMMA UpdateIInv == IInv /\ update_timer => IInv'
<1> SUFFICES ASSUME IInv, update_timer PROVE IInv'
  OBVIOUS
<1>1. /\ Doing(update) /\ easy' = easy /\ expiry' = expiry /\ sock' = sock
      /\ \/ /\ told <=> Earliest # "none"
            /\ stack' = Tail(stack) /\ told' = told /\ timer' = timer
         \/ /\ told \/ Earliest # "none"
            /\ told' = (Earliest # "none")
            /\ timer' = (Earliest = "later")
            /\ stack' = IF Earliest = "later" THEN Tail(stack) ELSE timer_cb \o Tail(stack)
  BY DEF update_timer, multi_timer_cb
<1>2. told' \in BOOLEAN /\ timer' \in BOOLEAN
  BY <1>1 DEF IInv, TypeOK
<1>3. TypeOK'
  BY <1>1, <1>2 DEF IInv, TypeOK
<1>4. SocketFits' /\ ExpiryFits'
  BY <1>1 DEF IInv, SocketFits, ExpiryFits, Poll
<1>5. /\ stack \in Seq(Frame) /\ WaitingBelow(stack) /\ Handed(easy, stack)
      /\ stack = <<update>> \/ EndsInInfo(stack)
      /\ stack # << >> /\ Head(stack) = update
  BY <1>1 DEF IInv, StackFits, Doing
<1>6. update # info /\ \A r \in Request : update # cleanup(r)
  BY FramesDiffer
<1>7. TypeOK
  BY DEF IInv
<1>8. ASSUME stack' = Tail(stack), told' <=> Earliest # "none", told' => timer',
             \A r \in Request : easy[r] = "added" => EndsInInfo(stack)
      PROVE  IInv'
  <2>1. /\ Tail(stack) \in Seq(Frame) /\ WaitingBelow(Tail(stack)) /\ Handed(easy, Tail(stack))
        /\ EndsInInfo(stack) => Tail(stack) = << >> \/ EndsInInfo(Tail(stack))
        /\ Tail(stack) # << >> =>
             Head(Tail(stack)) = info \/ \E r \in Request : Head(Tail(stack)) = cleanup(r)
    BY <1>5, <1>6, PopKeeps
  <2>2. stack = <<update>> => Tail(stack) = << >>
    OBVIOUS
  <2>3. StackFits'
    <3>1. stack' \in {<< >>, <<update>>} \/ EndsInInfo(stack')
      BY <1>5, <1>8, <2>1, <2>2
    <3> QED BY <1>1, <1>8, <2>1, <3>1 DEF StackFits
  <2>4. /\ ~Doing(timeout_run)' /\ ~Doing(update)' /\ \A r \in Request : ~Doing(event_run(r))'
    BY <1>8, <2>1, FramesDiffer DEF Doing
  <2>5. PhasesFit'
    <3>1. ASSUME NEW r \in Request PROVE easy'[r] # "added"
      <4> SUFFICES ASSUME easy[r] = "added" PROVE FALSE
        BY <1>1
      <4>1. EndsInInfo(stack)
        BY <1>8
      <4>2. stack = <<update>>
        BY <1>1, TopIs, FramesDiffer DEF IInv, PhasesFit
      <4> QED BY <1>6, <4>1, <4>2 DEF EndsInInfo
    <3>2. ASSUME NEW r \in Request, easy'[r] = "done" PROVE EndsInInfo(stack')
      <4>1. EndsInInfo(stack)
        BY <1>1, <3>2 DEF IInv, PhasesFit
      <4>2. Len(stack) # 1
        BY <1>5, <1>6, <4>1 DEF EndsInInfo
      <4>3. Tail(stack) # << >>
        <5>1. stack \in Seq(Frame) /\ stack # << >> /\ Len(stack) # 1
          BY <1>5, <4>2
        <5>2. Len(Tail(stack)) = Len(stack) - 1 /\ Len(stack) \in Nat
          BY ONLY <5>1, Popped
        <5>3. Len(<< >>) = 0
          OBVIOUS
        <5>4. \A n \in Nat : n # 1 => n - 1 # 0
          OBVIOUS
        <5>5. Len(Tail(stack)) # 0
          BY ONLY <5>1, <5>2, <5>4
        <5> QED BY ONLY <5>3, <5>5
      <4> QED BY <1>8, <2>1, <4>1, <4>3
    <3> QED BY <2>4, <3>1, <3>2 DEF PhasesFit
  <2>6. TimerFits'
    <3>1. \A r \in Request : expiry'[r] # "none" => told'
      BY <1>1, <1>7, <1>8, EarliestIs
    <3> QED BY <1>8, <3>1 DEF TimerFits
  <2> QED BY <1>3, <1>4, <2>3, <2>5, <2>6 DEF IInv
<1>9. CASE stack' = timer_cb \o Tail(stack) /\ (told' <=> Earliest # "none")
  <2>1. /\ stack' \in Seq(Frame) /\ WaitingBelow(stack') /\ Handed(easy, stack')
        /\ EndsInInfo(stack') /\ stack' # << >> /\ Head(stack') = timeout_run
    BY <1>5, <1>6, <1>9, TimerCbKeeps
  <2>2. StackFits'
    BY <1>1, <2>1 DEF StackFits
  <2>3. Doing(timeout_run)' /\ \A r \in Request : ~Doing(event_run(r))'
    BY <2>1, FramesDiffer DEF Doing
  <2>4. PhasesFit'
    BY <2>1, <2>3 DEF PhasesFit
  <2>5. TimerFits'
    BY <2>3 DEF TimerFits, Running
  <2> QED BY <1>3, <1>4, <2>2, <2>4, <2>5 DEF IInv
<1>10. ASSUME told <=> Earliest # "none", stack' = Tail(stack), told' = told, timer' = timer
       PROVE  IInv'
  <2>1. told' => timer'
    BY <1>1, <1>10, TopIs, FramesDiffer DEF IInv, TimerFits
  <2>2. (\E r \in Request : easy[r] = "added") => EndsInInfo(stack)
    <3> SUFFICES ASSUME NEW r \in Request, easy[r] = "added" PROVE FALSE
      OBVIOUS
    <3>1. ~told
      BY <1>1, TopIs, FramesDiffer DEF IInv, PhasesFit
    <3>2. expiry[r] # "none"
      BY DEF IInv, ExpiryFits
    <3> QED BY <1>7, <1>10, <3>1, <3>2, EarliestIs
  <2> QED BY <1>8, <1>10, <2>1, <2>2
<1>11. ASSUME told' = (Earliest # "none"), timer' = (Earliest = "later"),
              stack' = IF Earliest = "later" THEN Tail(stack) ELSE timer_cb \o Tail(stack)
       PROVE  IInv'
  <2>1. (told' <=> Earliest # "none") /\ (timer' <=> Earliest = "later")
    BY <1>11, Zenon
  <2>2. CASE Earliest = "later"
    <3>1. \A r \in Request : easy[r] # "added"
      BY <1>7, <2>2, EarliestIs DEF IInv, ExpiryFits
    <3> QED BY <1>8, <1>11, <2>1, <2>2, <3>1
  <2>3. CASE Earliest # "later"
    BY <1>9, <1>11, <2>1, <2>3
  <2> QED BY <2>2, <2>3
<1> QED BY <1>1, <1>10, <1>11

(***************************************************************************)
(* A request that is done has neither watcher nor expiry, so that being    *)
(* called and freed disturbs nothing of it.                                *)
(***************************************************************************)
LEMMA ForgettingKeeps ==
  ASSUME IInv, NEW r \in Request, easy[r] \in {"done", "called"},
         NEW phase \in {"called", "free"},
         easy' = [easy EXCEPT ![r] = phase], UNCHANGED <<expiry, sock, told, timer>>
  PROVE  /\ TypeOK' /\ SocketFits' /\ ExpiryFits'
         /\ easy'[r] = phase
         /\ \A q \in Request \ {r} : easy'[q] = easy[q]
<1>1. easy \in [Request -> Phase]
  BY DEF IInv, TypeOK
<1>2. easy'[r] = phase /\ \A q \in Request \ {r} : easy'[q] = easy[q]
  BY <1>1
<1>3. easy' \in [Request -> Phase]
  BY <1>1 DEF Phase
<1>4. TypeOK'
  BY <1>3 DEF IInv, TypeOK
<1>5. \A q \in Request : Poll(easy'[q]) = Poll(easy[q])
  BY <1>2 DEF Poll
<1>6. SocketFits'
  BY <1>5 DEF IInv, SocketFits
<1>7. \A q \in Request : /\ easy'[q] \in DOMAIN AfterTimeout <=> easy[q] \in DOMAIN AfterTimeout
                         /\ easy'[q] = "added" => easy[q] = "added"
  BY <1>2 DEF AfterTimeout
<1>8. ExpiryFits'
  BY <1>7 DEF IInv, ExpiryFits
<1> QED BY <1>2, <1>4, <1>6, <1>8

\* With check_multi_info or the rest of free_http_request on top, nothing is
\* "added", and what the timer satisfies does not depend on which of the two.
LEMMA BetweenCalls ==
  ASSUME IInv, NEW call, Doing(call), call = info \/ \E r \in Request : call = cleanup(r)
  PROVE  /\ \A r \in Request : easy[r] # "added"
         /\ told => timer
         /\ \A r \in Request : expiry[r] # "none" => told
         /\ EndsInInfo(stack)
<1>1. /\ ~Doing(timeout_run) /\ ~Doing(update) /\ \A r \in Request : ~Doing(event_run(r))
  BY TopIs, FramesDiffer
<1>2. stack # << >> /\ stack # <<update>>
  BY <1>1 DEF Doing
<1> QED BY <1>1, <1>2 DEF IInv, PhasesFit, TimerFits, Running, StackFits

LEMMA InfoIInv == IInv /\ check_multi_info => IInv'
<1> SUFFICES ASSUME IInv, check_multi_info PROVE IInv'
  OBVIOUS
<1>1. Doing(info) /\ UNCHANGED <<expiry, sock, told, timer>>
  BY DEF check_multi_info
<1>2. /\ \A r \in Request : easy[r] # "added"
      /\ told => timer
      /\ \A r \in Request : expiry[r] # "none" => told
      /\ EndsInInfo(stack)
  BY <1>1, BetweenCalls
<1>3. /\ stack \in Seq(Frame) /\ WaitingBelow(stack) /\ Handed(easy, stack)
      /\ stack # << >> /\ Head(stack) = info
  BY <1>1 DEF IInv, StackFits, Doing
<1>4. \A r \in Request : info # cleanup(r)
  BY FramesDiffer
<1>5. CASE (\A r \in Request : easy[r] # "done") /\ stack' = Tail(stack) /\ UNCHANGED easy
  <2>1. /\ Tail(stack) \in Seq(Frame) /\ WaitingBelow(Tail(stack)) /\ Handed(easy, Tail(stack))
        /\ EndsInInfo(stack) => Tail(stack) = << >> \/ EndsInInfo(Tail(stack))
        /\ Tail(stack) # << >> =>
             Head(Tail(stack)) = info \/ \E r \in Request : Head(Tail(stack)) = cleanup(r)
    BY <1>3, <1>4, PopKeeps
  <2>2. TypeOK' /\ SocketFits' /\ ExpiryFits'
    BY <1>1, <1>5 DEF IInv, TypeOK, SocketFits, Poll, ExpiryFits
  <2>3. StackFits'
    BY <1>2, <1>5, <2>1 DEF StackFits
  <2>4. \A r \in Request : ~Doing(event_run(r))'
    BY <1>5, <2>1, FramesDiffer DEF Doing
  <2>5. PhasesFit'
    BY <1>2, <1>5, <2>4 DEF PhasesFit
  <2>6. TimerFits'
    BY <1>1, <1>2 DEF TimerFits
  <2> QED BY <2>2, <2>3, <2>5, <2>6 DEF IInv
<1>6. ASSUME NEW r \in Request, easy[r] = "done", easy' = [easy EXCEPT ![r] = "called"],
             free_http_request(r)
      PROVE  IInv'
  <2>1. /\ TypeOK' /\ SocketFits' /\ ExpiryFits'
        /\ easy'[r] = "called"
        /\ \A q \in Request \ {r} : easy'[q] = easy[q]
    BY <1>1, <1>6, ForgettingKeeps
  <2>2. stack' = <<update, cleanup(r)>> \o stack /\ easy[r] # "called"
    BY <1>6 DEF free_http_request
  <2>3. /\ stack' \in Seq(Frame) /\ WaitingBelow(stack') /\ Handed(easy', stack')
        /\ EndsInInfo(stack') /\ stack' # << >> /\ Head(stack') = update
    BY <1>2, <1>3, <2>1, <2>2, HandOverKeeps
  <2>4. StackFits'
    BY <2>3 DEF StackFits
  <2>5. Doing(update)' /\ \A q \in Request : ~Doing(event_run(q))'
    BY <2>3, FramesDiffer DEF Doing
  <2>6. PhasesFit'
    BY <1>2, <2>1, <2>3, <2>5 DEF PhasesFit
  <2>7. TimerFits'
    BY <1>1, <1>2 DEF TimerFits
  <2> QED BY <2>1, <2>4, <2>6, <2>7 DEF IInv
<1>7. ASSUME NEW r \in Request, easy[r] = "done", easy' = [easy EXCEPT ![r] = "free"],
             UNCHANGED stack
      PROVE  IInv'
  <2>1. /\ TypeOK' /\ SocketFits' /\ ExpiryFits'
        /\ easy'[r] = "free"
        /\ \A q \in Request \ {r} : easy'[q] = easy[q]
    BY <1>1, <1>7, ForgettingKeeps
  <2>2. \A q \in Request : easy'[q] = "called" <=> easy[q] = "called"
    BY <1>7, <2>1
  <2>3. Handed(easy', stack)
    BY <1>3, <2>2, HandedAlike
  <2>4. StackFits'
    BY <1>2, <1>3, <1>7, <2>3 DEF StackFits
  <2>5. \A q \in Request : ~Doing(event_run(q))'
    BY <1>3, <1>7, FramesDiffer DEF Doing
  <2>6. PhasesFit'
    BY <1>2, <1>7, <2>1, <2>5 DEF PhasesFit
  <2>7. TimerFits'
    BY <1>1, <1>2 DEF TimerFits
  <2> QED BY <2>1, <2>4, <2>6, <2>7 DEF IInv
<1> QED BY <1>5, <1>6, <1>7 DEF check_multi_info

LEMMA CleanupIInv ==
  ASSUME IInv, NEW r \in Request, easy_cleanup(r)
  PROVE  IInv'
<1>1. /\ Doing(cleanup(r)) /\ UNCHANGED <<expiry, sock, told, timer>>
      /\ easy' = [easy EXCEPT ![r] = "free"] /\ stack' = Tail(stack)
  BY DEF easy_cleanup
<1>2. /\ \A q \in Request : easy[q] # "added"
      /\ told => timer
      /\ \A q \in Request : expiry[q] # "none" => told
      /\ EndsInInfo(stack)
  BY <1>1, BetweenCalls
<1>3. /\ stack \in Seq(Frame) /\ WaitingBelow(stack) /\ Handed(easy, stack)
      /\ stack # << >> /\ Head(stack) = cleanup(r)
  BY <1>1 DEF IInv, StackFits, Doing
<1>4. easy[r] = "called"
  <2>1. Len(stack) \in Nat /\ Len(stack) >= 1 /\ stack[1] = cleanup(r)
    BY <1>3, LenProperties, EmptySeq
  <2>2. 1 \in 1 .. Len(stack)
    BY <2>1
  <2> QED BY <1>3, <2>1, <2>2 DEF Handed
<1>5. /\ TypeOK' /\ SocketFits' /\ ExpiryFits'
      /\ easy'[r] = "free"
      /\ \A q \in Request \ {r} : easy'[q] = easy[q]
  BY <1>1, <1>4, ForgettingKeeps
<1>6. /\ stack' \in Seq(Frame) /\ WaitingBelow(stack') /\ Handed(easy', stack')
      /\ EndsInInfo(stack')
      /\ Head(stack') = info \/ \E q \in Request : Head(stack') = cleanup(q)
  BY <1>1, <1>2, <1>3, <1>5, FreeKeeps
<1>7. StackFits'
  BY <1>6 DEF StackFits
<1>8. \A q \in Request : ~Doing(event_run(q))'
  BY <1>6, FramesDiffer DEF Doing
<1>9. PhasesFit'
  BY <1>2, <1>5, <1>6, <1>8 DEF PhasesFit
<1>10. TimerFits'
  BY <1>1, <1>2 DEF TimerFits
<1> QED BY <1>5, <1>7, <1>9, <1>10 DEF IInv

\* Between callbacks of libev.
LEMMA AtRest ==
  ASSUME IInv, stack = << >>
  PROVE  /\ told => timer
         /\ \A r \in Request : expiry[r] # "none" => told
         /\ \A r \in Request : easy[r] \notin {"added", "done", "called"}
<1>1. \A call : ~Doing(call)
  BY DEF Doing
<1>2. \A r \in Request : easy[r] # "called"
  <2>1. Len(stack) = 0
    OBVIOUS
  <2> QED BY <2>1 DEF IInv, StackFits, Handed
<1>3. \A r \in Request : easy[r] \notin {"added", "done"}
  BY <1>1 DEF IInv, PhasesFit, EndsInInfo
<1> QED BY <1>1, <1>2, <1>3 DEF IInv, TimerFits, Running

\* What libev or the reader starts is on an empty stack.
LEMMA StartKeeps ==
  ASSUME IInv, stack = << >>, \A r \in Request : easy'[r] # "called",
         NEW a \in {timeout_run} \cup {event_run(r) : r \in Request},
         stack' = <<update>> \/ stack' = <<a, info>>
  PROVE  /\ StackFits'
         /\ stack' = <<update>> => Doing(update)'
         /\ stack' = <<a, info>> => Doing(a)'
<1>1. CASE stack' = <<update>>
  <2>1. stack' \in Seq(Frame) /\ Len(stack') = 1 /\ stack'[1] = update /\ Head(stack') = update
        /\ stack' # << >>
    BY <1>1 DEF Frame
  <2>2. \A r \in Request : update # cleanup(r)
    BY FramesDiffer
  <2>3. Handed(easy', stack')
    BY <2>1, <2>2 DEF Handed
  <2>4. WaitingBelow(stack')
    BY <2>1 DEF WaitingBelow
  <2>5. stack' # <<a, info>>
    BY <1>1
  <2> QED BY <1>1, <2>1, <2>3, <2>4, <2>5 DEF StackFits, Doing
<1>2. CASE stack' = <<a, info>>
  <2>1. a \in Frame /\ info \in Frame
    BY DEF Frame
  <2>2. stack' \in Seq(Frame) /\ Len(stack') = 2 /\ stack'[1] = a /\ stack'[2] = info
        /\ Head(stack') = a /\ stack' # << >> /\ stack' # <<update>>
    BY <1>2, <2>1
  <2>3. \A r \in Request : a # cleanup(r) /\ info # cleanup(r)
    BY FramesDiffer
  <2>4. Handed(easy', stack')
    BY <2>2, <2>3 DEF Handed
  <2>5. WaitingBelow(stack') /\ EndsInInfo(stack')
    BY <2>2 DEF WaitingBelow, EndsInInfo
  <2> QED BY <2>2, <2>4, <2>5 DEF StackFits, Doing
<1> QED BY <1>1, <1>2

LEMMA GetIInv ==
  ASSUME IInv, NEW r \in Request, http_client_get(r)
  PROVE  IInv'
<1>1. /\ stack = << >> /\ easy[r] = "free" /\ easy' = [easy EXCEPT ![r] = "added"]
      /\ expiry' = [expiry EXCEPT ![r] = "due"]
      /\ ~told' /\ stack' = <<update>> /\ sock' = sock /\ timer' = timer /\ told' \in BOOLEAN
  BY DEF http_client_get
<1>2. \A q \in Request : easy[q] \notin {"added", "done", "called"}
  BY <1>1, AtRest
<1>3. easy \in [Request -> Phase] /\ expiry \in [Request -> {"none", "later", "due"}]
  BY DEF IInv, TypeOK
<1>4. /\ easy'[r] = "added" /\ expiry'[r] = "due"
      /\ \A q \in Request \ {r} : easy'[q] = easy[q] /\ expiry'[q] = expiry[q]
  BY <1>1, <1>3
<1>5. TypeOK'
  BY <1>1, <1>3 DEF IInv, TypeOK, Phase
<1>6. SocketFits'
  <2>1. \A q \in Request : Poll(easy'[q]) = Poll(easy[q])
    BY <1>1, <1>4 DEF Poll
  <2> QED BY <1>1, <2>1 DEF IInv, SocketFits
<1>7. ExpiryFits'
  BY <1>4 DEF IInv, ExpiryFits, AfterTimeout
<1>8. \A q \in Request : easy'[q] \notin {"done", "called"}
  BY <1>2, <1>4
<1>9. StackFits' /\ Doing(update)'
  BY <1>1, <1>8, StartKeeps
<1>10. \A q \in Request : ~Doing(event_run(q))'
  BY <1>9, FramesDiffer DEF Doing
<1>11. PhasesFit'
  BY <1>1, <1>8, <1>10 DEF PhasesFit
<1>12. TimerFits'
  BY <1>1, <1>9 DEF TimerFits, Running
<1> QED BY <1>5, <1>6, <1>7, <1>9, <1>11, <1>12 DEF IInv

LEMMA NextIInv == IInv /\ [Next]_vars => IInv'
<1> SUFFICES ASSUME IInv, [Next]_vars PROVE IInv'
  OBVIOUS
<1>1. CASE socket_action_timeout
  BY <1>1, TimeoutIInv
<1>2. ASSUME NEW r \in Request, socket_action_event(r) PROVE IInv'
  BY <1>2, EventIInv
<1>3. CASE update_timer
  BY <1>3, UpdateIInv
<1>4. CASE check_multi_info
  BY <1>4, InfoIInv
<1>5. ASSUME NEW r \in Request, easy_cleanup(r) PROVE IInv'
  BY <1>5, CleanupIInv
<1>6. ASSUME NEW r \in Request, http_client_get(r) PROVE IInv'
  BY <1>6, GetIInv
<1>7. CASE timer_fires
  <2>1. stack = << >> /\ easy' = easy /\ stack' = <<timeout_run, info>>
    BY <1>7 DEF timer_fires, timer_cb
  <2>2. TypeOK' /\ SocketFits' /\ ExpiryFits'
    BY <1>7 DEF timer_fires, IInv, TypeOK, SocketFits, Poll, ExpiryFits
  <2>3. \A r \in Request : easy'[r] \notin {"added", "done", "called"}
    BY <2>1, AtRest
  <2>4. StackFits' /\ Doing(timeout_run)'
    BY <2>1, <2>3, StartKeeps
  <2>5. \A r \in Request : ~Doing(event_run(r))'
    BY <2>4, FramesDiffer DEF Doing
  <2>6. PhasesFit'
    BY <2>3, <2>5 DEF PhasesFit
  <2>7. TimerFits'
    BY <2>4 DEF TimerFits, Running
  <2> QED BY <2>2, <2>4, <2>6, <2>7 DEF IInv
<1>8. ASSUME NEW r \in Request, event_cb(r) PROVE IInv'
  <2>1. /\ stack = << >> /\ easy' = easy /\ stack' = <<event_run(r), info>>
        /\ sock[r].watch # {} /\ told' = told /\ timer' = timer /\ expiry' = expiry
    BY <1>8 DEF event_cb
  <2>2. TypeOK' /\ SocketFits' /\ ExpiryFits'
    BY <1>8 DEF event_cb, IInv, TypeOK, SocketFits, Poll, ExpiryFits
  <2>3. /\ told => timer
        /\ \A q \in Request : easy'[q] \notin {"added", "done", "called"}
    BY <2>1, AtRest
  <2>4. StackFits' /\ Doing(event_run(r))'
    <3>1. event_run(r) \in {timeout_run} \cup {event_run(q) : q \in Request}
      OBVIOUS
    <3> QED BY <2>1, <2>3, <3>1, StartKeeps
  <2>5. Poll(easy[r]) # "REMOVE"
    BY <2>1, WatchFits DEF IInv
  <2>6. easy'[r] \in DOMAIN AfterEvent
    BY <2>1, <2>5 DEF Poll, AfterEvent
  <2>7. \A q \in Request : Doing(event_run(q))' => q = r
    BY <2>4, FramesDiffer DEF Doing
  <2>8. PhasesFit'
    BY <2>3, <2>6, <2>7 DEF PhasesFit
  <2>9. TimerFits'
    BY <2>1, <2>3, <2>4 DEF TimerFits, Running
  <2> QED BY <2>2, <2>4, <2>8, <2>9 DEF IInv
<1>9. ASSUME NEW r \in Request, time_passes(r) PROVE IInv'
  <2>1. /\ expiry[r] = "later" /\ expiry' = [expiry EXCEPT ![r] = "due"]
        /\ UNCHANGED <<easy, sock, told, timer, stack>>
    BY <1>9 DEF time_passes
  <2>2. expiry'[r] = "due" /\ \A q \in Request \ {r} : expiry'[q] = expiry[q]
    BY <2>1 DEF IInv, TypeOK
  <2>3. TypeOK'
    BY <2>1 DEF IInv, TypeOK
  <2>4. SocketFits' /\ ExpiryFits'
    BY <2>1, <2>2 DEF IInv, SocketFits, ExpiryFits, Poll
  <2>5. StackFits' /\ PhasesFit'
    BY <2>1 DEF IInv, StackFits, PhasesFit, Doing
  <2>6. \A q \in Request : expiry'[q] # "none" => expiry[q] # "none"
    BY <2>1, <2>2
  <2>7. TimerFits'
    BY <2>1, <2>6 DEF IInv, TimerFits, Running, Doing
  <2> QED BY <2>3, <2>4, <2>5, <2>7 DEF IInv
<1>10. CASE UNCHANGED vars
  BY <1>10 DEF vars, IInv, TypeOK, SocketFits, Poll, ExpiryFits, StackFits, PhasesFit,
               TimerFits, Running, Doing
<1> QED BY <1>1, <1>2, <1>3, <1>4, <1>5, <1>6, <1>7, <1>8, <1>9, <1>10 DEF Next, GoesOn

-------------------------------------------------------------------------------
(* The theorems. *)

\* The invariant holds in every state: in particular each variable has its
\* type.
THEOREM Invariant == Spec => []IInv
BY InitIInv, NextIInv, PTL DEF Spec

\* Between callbacks of libev, the watchers wait for exactly what libcurl wants
\* to know of each socket (http.c: sock_cb).
THEOREM WatchersFollow == Spec => []WatchersFollowCurl
<1>1. IInv => WatchersFollowCurl
  BY WatchFits DEF IInv, WatchersFollowCurl
<1> QED BY <1>1, Invariant, PTL

\* Between callbacks of libev, no request is forgotten: the timer runs while a
\* timeout is left, and nothing that is done waits (http.c: multi_timer_cb,
\* check_multi_info).
THEOREM NoneForgotten == Spec => []NothingForgotten
<1>1. IInv => NothingForgotten
  BY AtRest DEF NothingForgotten
<1> QED BY <1>1, Invariant, PTL

\* However many callbacks run inside one another, a request handed to its
\* callback is freed once, by the call under way for it, and nothing waits for
\* its socket or its timeout by then (http.c: check_multi_info,
\* free_http_request, multi_timer_cb).
THEOREM EachFreedOnce == Spec => []FreedOnce
<1>1. IInv => FreedOnce
  <2> SUFFICES ASSUME IInv, NEW r \in Request
               PROVE  LET frees == {i \in DOMAIN stack : stack[i] = cleanup(r)}
                      IN  /\ Cardinality(frees) = IF easy[r] = "called" THEN 1 ELSE 0
                          /\ frees # {} => sock[r].watch = {} /\ expiry[r] = "none"
    BY DEF FreedOnce
  <2> DEFINE frees == {i \in DOMAIN stack : stack[i] = cleanup(r)}
  <2>1. DOMAIN stack = 1 .. Len(stack) /\ Handed(easy, stack)
    BY LenProperties DEF IInv, StackFits
  <2>2. easy[r] = "called" <=> \E i \in 1 .. Len(stack) : stack[i] = cleanup(r)
    BY <2>1 DEF Handed
  <2>3. \A i, j \in 1 .. Len(stack) : stack[i] = cleanup(r) /\ stack[j] = cleanup(r) => i = j
    BY <2>1 DEF Handed
  <2>4. CASE easy[r] = "called"
    <3>1. PICK i \in 1 .. Len(stack) : stack[i] = cleanup(r)
      BY <2>2, <2>4
    <3>2. frees = {i}
      BY <2>1, <2>3, <3>1
    <3>3. Cardinality(frees) = 1
      BY <3>2, FS_Singleton
    <3>4. Poll(easy[r]) = "REMOVE" /\ easy[r] \notin DOMAIN AfterTimeout
      BY <2>4 DEF Poll, AfterTimeout
    <3>5. sock[r].watch = {} /\ expiry[r] = "none"
      BY <3>4, WatchFits DEF IInv, ExpiryFits
    <3> QED BY <2>4, <3>3, <3>5
  <2>5. CASE easy[r] # "called"
    <3>1. frees = {}
      BY <2>1, <2>2, <2>5
    <3>2. Cardinality(frees) = 0
      BY <3>1, FS_EmptySet
    <3> QED BY <2>5, <3>1, <3>2
  <2> QED BY <2>4, <2>5
<1> QED BY <1>1, Invariant, PTL

===============================================================================

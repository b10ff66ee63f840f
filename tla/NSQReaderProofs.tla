---------------------------- MODULE NSQReaderProofs ----------------------------
(***************************************************************************)
(* The safety of a reader, for any number of nsqds, nsqlookupds,           *)
(* connections and lookups in flight.  Part of it is for a reader that is  *)
(* used in one of its two ways: connected directly to nsqds, or through    *)
(* nsqlookupds.                                                            *)
(***************************************************************************)
EXTENDS NSQReader, TLAPS

\* The user names nsqds or nsqlookupds, not both.
OneWay == Direct = {} \/ MaxEndpoints = 0

(***************************************************************************)
(* The inductive invariant.  That no timer is mishandled rests on which    *)
(* connections have one: the listed ones exactly while there is no         *)
(* nsqlookupd.  That this survives the arrival of the first nsqlookupd     *)
(* rests on there being no connection yet when it comes, hence on no       *)
(* lookup being in flight before.  That a new connection is the only one   *)
(* to its nsqd rests on who may be waiting: nobody in a reader with        *)
(* nsqlookupds, only connections to nsqds the user named in the other.     *)
(***************************************************************************)
InOneHand ==
  \A c \in Conn :
    /\ c \in conns <=> sock[c] \in {"connecting", "connected"}
    /\ timer[c] = "running" <=> sock[c] = "disconnected"
    /\ sock[c] = "free" => timer[c] = "null"

TimersFit ==
  \A c \in conns : timer[c] = IF lookupd = 0 THEN "idle" ELSE "null"

LookupFirst ==
  /\ requests > 0 => lookupd > 0
  /\ Direct = {} /\ lookupd = 0 => conns = {}

WhoWaits ==
  \A c \in Held :
    /\ Direct = {} => sock[c] # "disconnected"
    /\ MaxEndpoints = 0 => addr[c] \in wanted

IInv ==
  /\ TypeOK
  /\ MemorySafe
  /\ InOneHand
  /\ OneConnectionPerNsqd
  /\ TimersFit
  /\ LookupFirst
  /\ WhoWaits

(***************************************************************************)
(* Who holds a connection says which connections nobody holds.             *)
(***************************************************************************)
LEMMA OrphansAreFailed == TypeOK /\ InOneHand => OnlyFailedConnectsOrphaned
<1> SUFFICES ASSUME TypeOK, InOneHand PROVE Orphans = Failed
  BY DEF InOneHand, OnlyFailedConnectsOrphaned
<1>1. ASSUME NEW c \in Conn
      PROVE  c \in Orphans <=> c \in Failed
  <2>1. sock[c] \in {"free", "init", "connecting", "connected", "disconnected"}
    BY DEF TypeOK
  <2> QED
    BY <2>1 DEF InOneHand, Orphans, Failed, Free
<1> QED
  BY <1>1 DEF Orphans, Failed

(***************************************************************************)
(* Connect keeps the types, however connections are chosen.                *)
(***************************************************************************)
LEMMA ConnectTyped ==
  ASSUME TypeOK, NEW M \in SUBSET Nsqd, NEW f \in Injection(M, Free), NEW F,
         NEW gone \in SUBSET Conn, Connect(f, F, gone)
  PROVE  /\ conns' \subseteq Conn
         /\ sock' \in [Conn -> {"free", "init", "connecting", "connected", "disconnected"}]
         /\ addr' \in [Conn -> Nsqd]
         /\ timer' \in [Conn -> {"null", "idle", "running", "dangling"}]
<1>1. f \in [M -> Free] /\ DOMAIN f = M
  BY DEF Injection
<1>2. Range(f) \subseteq Conn /\ {f[d] : d \in DOMAIN f \ F} \subseteq Conn
  BY <1>1 DEF Range, Free
<1>3. \A c \in Range(f) : (CHOOSE d \in DOMAIN f : f[d] = c) \in Nsqd
  BY <1>1 DEF Range
<1>4. ASSUME NEW c \in Conn
      PROVE  /\ sock'[c] \in {"free", "init", "connecting", "connected", "disconnected"}
             /\ timer'[c] \in {"null", "idle", "running", "dangling"}
  BY DEF Connect, TypeOK, TimerMade
<1>5. conns' \subseteq Conn
  BY <1>2 DEF Connect, TypeOK
<1>6. sock' \in [Conn -> {"free", "init", "connecting", "connected", "disconnected"}]
  <2>1. sock' = [c \in Conn |-> sock'[c]]
    BY Zenon DEF Connect
  <2> QED
    BY <1>4, <2>1
<1>7. addr' \in [Conn -> Nsqd]
  <2> DEFINE g(c) == IF c \in Range(f) THEN CHOOSE d \in DOMAIN f : f[d] = c ELSE addr[c]
  <2>1. addr' = [c \in Conn |-> g(c)]
    BY DEF Connect
  <2>2. \A c \in Conn : g(c) \in Nsqd
    BY <1>3 DEF TypeOK
  <2> HIDE DEF g
  <2> QED
    BY <2>1, <2>2
<1>8. timer' \in [Conn -> {"null", "idle", "running", "dangling"}]
  <2>1. timer' = [c \in Conn |-> timer'[c]]
    BY Zenon DEF Connect
  <2> QED
    BY <1>4, <2>1
<1> QED
  BY <1>5, <1>6, <1>7, <1>8

(***************************************************************************)
(* What Connect does to each block: a new one is connecting, each to its   *)
(* own nsqd, or lost if its connect fails; those in gone are free, the     *)
(* others are as they were.                                                *)
(***************************************************************************)
BecomesNew(c, f, F) ==
  /\ c \in Free /\ c \in conns'
  /\ sock'[c] = "connecting" /\ timer'[c] = TimerMade
  /\ addr'[c] \in DOMAIN f \ F /\ f[addr'[c]] = c

BecomesLost(c) ==
  /\ c \in Free /\ (c \in conns' <=> c \in conns)
  /\ sock'[c] = "init" /\ timer'[c] = TimerMade

BecomesFree(c) ==
  /\ c \notin conns'
  /\ sock'[c] = "free" /\ timer'[c] = "null" /\ addr'[c] = addr[c]

StaysAsIs(c) ==
  /\ c \in conns' <=> c \in conns
  /\ sock'[c] = sock[c] /\ timer'[c] = timer[c] /\ addr'[c] = addr[c]

LEMMA ConnectEffect ==
  ASSUME TypeOK, NEW M \in SUBSET Nsqd, NEW f \in Injection(M, Free), NEW F,
         NEW gone \in SUBSET Conn, gone \cap conns = {}, gone \cap Free = {},
         Connect(f, F, gone)
  PROVE  /\ conns' \subseteq Conn
         /\ sock' \in [Conn -> {"free", "init", "connecting", "connected", "disconnected"}]
         /\ addr' \in [Conn -> Nsqd]
         /\ timer' \in [Conn -> {"null", "idle", "running", "dangling"}]
         /\ \A c \in Conn : \/ BecomesNew(c, f, F)
                            \/ BecomesLost(c)
                            \/ c \in gone /\ BecomesFree(c)
                            \/ c \notin gone /\ StaysAsIs(c)
<1> DEFINE listed == {f[d] : d \in DOMAIN f \ F}
<1>1. f \in [M -> Free] /\ DOMAIN f = M /\ \A a, b \in M : f[a] = f[b] => a = b
  BY DEF Injection, IsInjective
<1>2. listed \subseteq Range(f) /\ Range(f) \subseteq Free /\ Free \subseteq Conn
  BY <1>1 DEF Range, Free
<1>3. \A c \in listed : /\ (CHOOSE d \in DOMAIN f : f[d] = c) \in M \ F
                       /\ f[CHOOSE d \in DOMAIN f : f[d] = c] = c
  <2> SUFFICES ASSUME NEW e \in M \ F
               PROVE  /\ (CHOOSE d \in M : f[d] = f[e]) = e
    BY <1>1
  <2> QED
    BY <1>1
<1>4. ASSUME NEW c \in Conn
      PROVE  \/ BecomesNew(c, f, F)
             \/ BecomesLost(c)
             \/ c \in gone /\ BecomesFree(c)
             \/ c \notin gone /\ StaysAsIs(c)
  <2>1. CASE c \in listed
    <3>1. /\ sock'[c] = "connecting" /\ timer'[c] = TimerMade /\ c \in conns'
          /\ addr'[c] = CHOOSE d \in DOMAIN f : f[d] = c
      BY <1>2, <1>4, <2>1 DEF Connect, TimerMade
    <3>2. addr'[c] \in M \ F /\ f[addr'[c]] = c
      BY <1>3, <2>1, <3>1
    <3> QED
      BY <1>1, <1>2, <2>1, <3>1, <3>2 DEF BecomesNew, TimerMade
  <2>2. CASE c \in Range(f) \ listed
    <3>1. sock'[c] = "init" /\ timer'[c] = TimerMade /\ (c \in conns' <=> c \in conns)
      BY <1>4, <2>2 DEF Connect, TimerMade
    <3> QED
      BY <1>2, <2>2, <3>1 DEF BecomesLost
  <2>3. CASE c \notin Range(f)
    BY <1>2, <1>4, <2>3 DEF Connect, TypeOK, BecomesFree, StaysAsIs
  <2> QED
    BY <1>2, <2>1, <2>2, <2>3
<1>5. /\ conns' \subseteq Conn
      /\ sock' \in [Conn -> {"free", "init", "connecting", "connected", "disconnected"}]
      /\ addr' \in [Conn -> Nsqd]
      /\ timer' \in [Conn -> {"null", "idle", "running", "dangling"}]
  BY ConnectTyped
<1> QED
  BY <1>4, <1>5

LEMMA InitIInv == Init => IInv
<1> SUFFICES ASSUME Init PROVE IInv
  OBVIOUS
<1> USE DEF Init
<1>1. TypeOK /\ MemorySafe
  <2>1. /\ sock \in [Conn -> {"free", "init", "connecting", "connected", "disconnected"}]
        /\ timer \in [Conn -> {"null", "idle", "running", "dangling"}]
        /\ addr \in [Conn -> Nsqd]
    OBVIOUS
  <2>2. lookupd \in 0 .. MaxEndpoints /\ requests \in 0 .. MaxRequests
    BY ReaderAssumption
  <2>3. poll_timer \in BOOLEAN /\ (poll_timer <=> lookupd > 0)
    <3>1. ~(lookupd > 0)
      OBVIOUS
    <3> QED
      BY <3>1, Zenon
  <2> QED
    BY <2>1, <2>2, <2>3 DEF TypeOK, MemorySafe
<1>2. InOneHand
  BY DEF InOneHand
<1>3. Held = {}
  BY DEF Held, Free
<1>4. OneConnectionPerNsqd /\ TimersFit /\ LookupFirst /\ WhoWaits
  BY <1>3 DEF OneConnectionPerNsqd, TimersFit, LookupFirst, WhoWaits
<1> QED
  BY <1>1, <1>2, <1>4 DEF IInv

(***************************************************************************)
(* Whichever way a connection closes, its handler keeps the invariant.     *)
(***************************************************************************)
LEMMA CloseKeepsIInv ==
  ASSUME OneWay, IInv, NEW c \in Conn, c \in conns,
         nsq_reader_close_cb(c),
         UNCHANGED <<lookupd, poll_timer, requests, registered, wanted>>
  PROVE  IInv'
<1> USE DEF IInv
<1>1. CASE lookupd = 0
  <2>1. /\ conns' = conns \ {c} /\ addr' = addr
        /\ sock' = [sock EXCEPT ![c] = "disconnected"]
        /\ timer' = [timer EXCEPT ![c] = "running"]
        /\ fault' = fault
    BY <1>1 DEF nsq_reader_close_cb, TimersFit
  <2>2. Direct # {}
    BY <1>1 DEF LookupFirst
  <2>3. TypeOK' /\ MemorySafe'
    BY <2>1 DEF TypeOK, MemorySafe
  <2>4. InOneHand'
    BY <2>1 DEF TypeOK, InOneHand
  <2>5. Held' = Held
    BY <2>1 DEF TypeOK, InOneHand, Free, Failed, Held
  <2>6. OneConnectionPerNsqd'
    BY <2>1, <2>5 DEF OneConnectionPerNsqd
  <2>7. TimersFit' /\ LookupFirst'
    BY <2>1 DEF TypeOK, TimersFit, LookupFirst
  <2>8. WhoWaits'
    BY <2>1, <2>2, <2>5 DEF WhoWaits
  <2> QED
    BY <2>3, <2>4, <2>6, <2>7, <2>8
<1>2. CASE lookupd # 0
  <2>1. /\ conns' = conns \ {c} /\ addr' = addr
        /\ sock' = [sock EXCEPT ![c] = "free"]
        /\ timer' = [timer EXCEPT ![c] = "null"]
        /\ fault' = fault
    BY <1>2 DEF nsq_reader_close_cb, TimersFit, StopTimerFault
  <2>2. TypeOK' /\ MemorySafe'
    BY <2>1 DEF TypeOK, MemorySafe
  <2>3. InOneHand'
    BY <2>1 DEF TypeOK, InOneHand
  <2>4. Held' = Held \ {c}
    BY <2>1 DEF TypeOK, Free, Failed, Held
  <2>5. OneConnectionPerNsqd'
    BY <2>1, <2>4 DEF OneConnectionPerNsqd
  <2>6. TimersFit' /\ LookupFirst'
    BY <2>1 DEF TypeOK, TimersFit, LookupFirst
  <2>7. WhoWaits'
    BY <2>1, <2>4 DEF WhoWaits, TypeOK, Held
  <2> QED
    BY <2>2, <2>3, <2>5, <2>6, <2>7
<1> QED
  BY <1>1, <1>2

(***************************************************************************)
(* Connecting to nsqds none of which has a connection that is to remain.   *)
(***************************************************************************)
LEMMA ConnectKeepsIInv ==
  ASSUME IInv, NEW M \in SUBSET Nsqd, NEW f \in Injection(M, Free), NEW F,
         NEW gone \in SUBSET Conn, gone \cap conns = {}, gone \cap Free = {},
         Connect(f, F, gone),
         \A c \in Held \ gone : addr[c] \notin M,
         M # {} /\ Direct = {} => lookupd > 0,
         MaxEndpoints = 0 => M \ F \subseteq wanted',
         wanted \subseteq wanted', wanted' \subseteq Direct,
         requests' \in 0 .. MaxRequests, requests' > 0 => lookupd > 0,
         fault' = "none", UNCHANGED <<lookupd, poll_timer, registered>>
  PROVE  IInv'
<1>0. /\ TypeOK /\ InOneHand /\ OneConnectionPerNsqd
      /\ TimersFit /\ LookupFirst /\ WhoWaits
  BY DEF IInv
<1>1. f \in [M -> Free] /\ DOMAIN f = M
  BY DEF Injection
<1>2. TypeOK
  BY <1>0
<1>3. /\ conns' \subseteq Conn
      /\ sock' \in [Conn -> {"free", "init", "connecting", "connected", "disconnected"}]
      /\ addr' \in [Conn -> Nsqd]
      /\ timer' \in [Conn -> {"null", "idle", "running", "dangling"}]
      /\ \A c \in Conn : \/ BecomesNew(c, f, F)
                         \/ BecomesLost(c)
                         \/ c \in gone /\ BecomesFree(c)
                         \/ c \notin gone /\ StaysAsIs(c)
  BY <1>2, ConnectEffect, Zenon
<1>4. TypeOK' /\ MemorySafe'
  BY <1>0, <1>3 DEF TypeOK, MemorySafe
<1>5. InOneHand'
  BY <1>0, <1>3 DEF InOneHand, BecomesNew, BecomesLost, BecomesFree, StaysAsIs, TimerMade, Free
<1>6. \A c \in Held' : \/ BecomesNew(c, f, F)
                       \/ c \in Held \ gone /\ StaysAsIs(c)
  <2> SUFFICES ASSUME NEW c \in Held'
               PROVE  \/ BecomesNew(c, f, F)
                      \/ c \in Held \ gone /\ StaysAsIs(c)
    OBVIOUS
  <2>1. c \in Conn /\ sock'[c] # "free" /\ sock'[c] # "init"
    BY DEF Held, Free, Failed
  <2> QED
    BY <1>3, <2>1 DEF BecomesLost, BecomesFree, StaysAsIs, Held, Free, Failed
<1>7. OneConnectionPerNsqd'
  <2>1. ASSUME NEW c \in Held', NEW e \in Held', addr'[c] = addr'[e]
        PROVE  c = e
    <3>1. CASE BecomesNew(c, f, F) /\ BecomesNew(e, f, F)
      BY <2>1, <3>1 DEF BecomesNew
    <3>2. CASE /\ c \in Held \ gone /\ StaysAsIs(c)
               /\ e \in Held \ gone /\ StaysAsIs(e)
      BY <1>0, <2>1, <3>2 DEF StaysAsIs, OneConnectionPerNsqd
    <3>3. CASE BecomesNew(c, f, F) /\ e \in Held \ gone /\ StaysAsIs(e)
      BY <1>1, <2>1, <3>3 DEF StaysAsIs, BecomesNew
    <3>4. CASE BecomesNew(e, f, F) /\ c \in Held \ gone /\ StaysAsIs(c)
      BY <1>1, <2>1, <3>4 DEF StaysAsIs, BecomesNew
    <3> QED
      BY <1>6, <3>1, <3>2, <3>3, <3>4
  <2> QED
    BY <2>1 DEF OneConnectionPerNsqd
<1>8. TimersFit'
  <2>1. ASSUME NEW c \in conns'
        PROVE  timer'[c] = IF lookupd = 0 THEN "idle" ELSE "null"
    <3>1. c \in Conn
      BY <1>4 DEF TypeOK
    <3> QED
      BY <1>0, <1>3, <2>1, <3>1
      DEF TimersFit, InOneHand, Free, BecomesNew, BecomesLost, BecomesFree, StaysAsIs, TimerMade
  <2> QED
    BY <2>1 DEF TimersFit
<1>9. LookupFirst'
  <2>1. ASSUME Direct = {}, lookupd = 0 PROVE conns' = {}
    <3>1. M = {} /\ conns = {}
      <4>1. ~(lookupd > 0)
        BY <2>1
      <4>2. conns = {}
        BY <1>0, <2>1 DEF LookupFirst
      <4>3. M = {}
        BY ONLY <2>1, <4>1, M # {} /\ Direct = {} => lookupd > 0
      <4> QED
        BY <4>2, <4>3
    <3>2. ASSUME NEW c \in conns' PROVE FALSE
      <4>1. c \in Conn
        BY <1>4, <3>2 DEF TypeOK
      <4>2. ~BecomesNew(c, f, F)
        BY <1>1, <3>1 DEF BecomesNew
      <4> QED
        BY <1>3, <3>1, <3>2, <4>1, <4>2 DEF BecomesLost, BecomesFree, StaysAsIs
    <3> QED
      BY <3>2
  <2> QED
    BY <2>1 DEF LookupFirst
<1>10. WhoWaits'
  BY <1>0, <1>1, <1>6 DEF WhoWaits, BecomesNew, StaysAsIs
<1> QED
  BY <1>4, <1>5, <1>7, <1>8, <1>9, <1>10 DEF IInv

LEMMA BlocksAreInjections ==
  ASSUME NEW N, NEW F, NEW f \in Blocks(N, F)
  PROVE  \E M \in SUBSET N : N \ F \subseteq M /\ f \in Injection(M, Free)
<1>1. CASE Cardinality(Failed) + Cardinality(F) <= MaxOrphans
  BY <1>1 DEF Blocks
<1>2. CASE ~(Cardinality(Failed) + Cardinality(F) <= MaxOrphans)
  BY <1>2 DEF Blocks
<1> QED
  BY <1>1, <1>2

LEMMA CountsBounded ==
  ASSUME TypeOK
  PROVE  /\ MaxEndpoints \in Nat /\ lookupd \in Nat /\ lookupd <= MaxEndpoints
         /\ MaxRequests \in Nat /\ requests \in Nat /\ requests <= MaxRequests
<1>1. lookupd \in 0 .. MaxEndpoints /\ requests \in 0 .. MaxRequests
  BY DEF TypeOK
<1>2. MaxEndpoints \in Nat /\ MaxRequests \in Nat
  BY ReaderAssumption
<1> QED
  BY ONLY <1>1, <1>2

LEMMA LookupKeepsIInv ==
  ASSUME OneWay, IInv, NEW P \in SUBSET Nsqd, LookupAnswered(P)
  PROVE  IInv'
<1>1. /\ TypeOK /\ MemorySafe /\ InOneHand /\ LookupFirst /\ WhoWaits
  BY DEF IInv
<1>0. /\ MaxEndpoints \in Nat /\ lookupd \in Nat /\ lookupd <= MaxEndpoints
      /\ MaxRequests \in Nat /\ requests \in Nat /\ requests <= MaxRequests
  BY <1>1, CountsBounded
<1>2. /\ requests > 0 /\ requests' = requests - 1
      /\ UNCHANGED <<lookupd, poll_timer, registered, wanted, fault>>
  BY DEF LookupAnswered
<1>3F. PICK F \in MayFail(P \ Listed, "lookup") :
        \E f \in Blocks(P \ Listed, F) : Connect(f, F, {})
  BY DEF LookupAnswered
<1>3. PICK f \in Blocks(P \ Listed, F) : Connect(f, F, {})
  BY <1>3F
<1>4. PICK M \in SUBSET (P \ Listed) : f \in Injection(M, Free)
  BY BlocksAreInjections
<1>5. lookupd > 0 /\ MaxEndpoints # 0 /\ Direct = {}
  <2>1. lookupd > 0
    BY <1>1, <1>2 DEF LookupFirst
  <2>2. MaxEndpoints # 0
    BY ONLY <1>0, <2>1
  <2> QED
    BY <2>1, <2>2 DEF OneWay
<1>6. ASSUME NEW c \in Held \ {} PROVE addr[c] \notin M
  <2>1. sock[c] \in {"connecting", "connected"} /\ c \in Conn
    BY <1>1, <1>5, <1>6 DEF WhoWaits, TypeOK, Held, Free, Failed
  <2>2. addr[c] \in Listed
    BY <1>1, <1>6, <2>1 DEF InOneHand, Listed
  <2> QED
    BY <1>4, <2>2
<1>7. requests' \in 0 .. MaxRequests
  BY ONLY <1>0, <1>2
<1>8. wanted' = wanted /\ wanted \subseteq Direct /\ fault' = "none"
  BY <1>1, <1>2 DEF TypeOK, MemorySafe
<1>9. M \in SUBSET Nsqd
  BY <1>4
<1> QED
  BY <1>2, <1>3, <1>4, <1>5, <1>6, <1>7, <1>8, <1>9, ConnectKeepsIInv

LEMMA NextIInv == OneWay /\ IInv /\ [Next]_vars => IInv'
<1> SUFFICES ASSUME OneWay, IInv, [Next]_vars PROVE IInv'
  OBVIOUS
<1>0. /\ TypeOK /\ MemorySafe /\ InOneHand /\ OneConnectionPerNsqd
      /\ TimersFit /\ LookupFirst /\ WhoWaits
  BY DEF IInv
<1>bounds. /\ MaxEndpoints \in Nat /\ lookupd \in Nat /\ lookupd <= MaxEndpoints
           /\ MaxRequests \in Nat /\ requests \in Nat /\ requests <= MaxRequests
  BY <1>0, CountsBounded
<1>1. ASSUME NEW d \in Nsqd, nsq_reader_connect_to_nsqd(d) PROVE IInv'
  <2>1. PICK F \in MayFail({d}, "user") :
          /\ \E f \in Blocks({d}, F) : Connect(f, F, {})
          /\ wanted' = wanted \cup ({d} \ F)
    BY <1>1 DEF nsq_reader_connect_to_nsqd
  <2>2. /\ d \in Direct /\ d \notin wanted
        /\ UNCHANGED <<lookupd, poll_timer, requests, registered, fault>>
    BY <1>1 DEF nsq_reader_connect_to_nsqd
  <2>f. PICK f \in Blocks({d}, F) : Connect(f, F, {})
    BY <2>1
  <2>m. PICK M \in SUBSET {d} : f \in Injection(M, Free)
    BY BlocksAreInjections
  <2>3. \A c \in Held \ {} : addr[c] \notin M
    BY <1>0, <2>2 DEF OneWay, WhoWaits
  <2>4. /\ M \in SUBSET Nsqd
        /\ M \ F \subseteq wanted' /\ wanted \subseteq wanted' /\ wanted' \subseteq Direct
        /\ Direct # {} /\ fault' = "none"
    BY <1>0, <2>1, <2>2 DEF TypeOK, MemorySafe
  <2>5. requests' \in 0 .. MaxRequests /\ (requests' > 0 => lookupd > 0)
    BY <1>0, <2>2 DEF TypeOK, LookupFirst
  <2> QED
    BY <2>2, <2>f, <2>m, <2>3, <2>4, <2>5, ConnectKeepsIInv
<1>2. CASE nsq_reader_add_nsqlookupd_endpoint
  <2>1. /\ lookupd \in Nat /\ lookupd < MaxEndpoints /\ lookupd' = lookupd + 1
        /\ UNCHANGED <<conns, sock, addr, requests, registered, wanted>>
    BY <1>bounds, <1>2 DEF nsq_reader_add_nsqlookupd_endpoint
  <2>2. Direct = {}
    BY <2>1, ReaderAssumption DEF OneWay
  <2>3. timer' = timer /\ fault' = fault /\ poll_timer' = TRUE
    <3>1. CASE lookupd = 0
      <4>1. conns = {}
        BY <1>0, <2>2, <3>1 DEF LookupFirst
      <4>2. timer' = [c \in Conn |-> timer[c]]
        BY <1>2, <3>1, <4>1 DEF nsq_reader_add_nsqlookupd_endpoint
      <4>3. timer' = timer
        BY <1>0, <4>2 DEF TypeOK
      <4> QED
        BY <1>2, <3>1, <4>1, <4>3 DEF nsq_reader_add_nsqlookupd_endpoint
    <3>2. CASE lookupd # 0
      <4>1. poll_timer = TRUE
        <5>1. lookupd > 0
          BY ONLY <1>bounds, <3>2
        <5> QED
          BY ONLY <1>0, <5>1 DEF TypeOK
      <4> QED
        BY <1>2, <3>2, <4>1 DEF nsq_reader_add_nsqlookupd_endpoint
    <3> QED
      BY <3>1, <3>2
  <2>4. TypeOK'
    <3>1. lookupd' \in 0 .. MaxEndpoints /\ lookupd' > 0
      BY ONLY <1>bounds, <2>1
    <3> QED
      BY <1>0, <2>1, <2>3, <3>1 DEF TypeOK
  <2>5. MemorySafe' /\ InOneHand' /\ OneConnectionPerNsqd' /\ WhoWaits'
    BY <1>0, <2>1, <2>3
    DEF MemorySafe, InOneHand, OneConnectionPerNsqd, WhoWaits, Held, Failed, Free
  <2>6. TimersFit' /\ LookupFirst'
    BY <1>0, <2>1, <2>2, <2>3 DEF TimersFit, LookupFirst
  <2> QED
    BY <2>4, <2>5, <2>6 DEF IInv
<1>3. ASSUME NEW c \in Conn, nsqd_connection_disconnect(c) PROVE IInv'
  BY <1>3, CloseKeepsIInv DEF nsqd_connection_disconnect
<1>4. ASSUME NEW c \in Conn, connect_succeeds(c) PROVE IInv'
  <2>1. /\ sock[c] = "connecting" /\ sock' = [sock EXCEPT ![c] = "connected"]
        /\ UNCHANGED <<conns, addr, timer, lookupd, poll_timer, requests, registered,
                       wanted, fault>>
    BY <1>4 DEF connect_succeeds
  <2>2. TypeOK' /\ MemorySafe' /\ TimersFit' /\ LookupFirst'
    BY <1>0, <2>1 DEF TypeOK, MemorySafe, TimersFit, LookupFirst
  <2>3. InOneHand' /\ Held' = Held
    BY <1>0, <2>1 DEF TypeOK, InOneHand, Held, Failed, Free
  <2>4. OneConnectionPerNsqd' /\ WhoWaits'
    BY <1>0, <2>1, <2>3 DEF TypeOK, OneConnectionPerNsqd, WhoWaits, Held
  <2> QED
    BY <2>2, <2>3, <2>4 DEF IInv
<1>5. ASSUME NEW c \in Conn, connect_fails(c) PROVE IInv'
  <2>1. c \in conns
    BY <1>0, <1>5 DEF connect_fails, InOneHand
  <2> QED
    BY <1>5, <2>1, CloseKeepsIInv DEF connect_fails
<1>6. ASSUME NEW c \in Conn, connection_lost(c) PROVE IInv'
  <2>1. c \in conns
    BY <1>0, <1>6 DEF connection_lost, InOneHand
  <2> QED
    BY <1>6, <2>1, CloseKeepsIInv DEF connection_lost
<1>7. ASSUME NEW c \in Conn, nsq_reader_reconnect_cb(c) PROVE IInv'
  <2>1. sock[c] = "disconnected" /\ c \in Held /\ c \notin Free /\ c \notin conns
    BY <1>0, <1>7 DEF nsq_reader_reconnect_cb, InOneHand, Held, Failed, Free
  <2>2. MaxEndpoints = 0 /\ lookupd = 0 /\ Direct # {}
    <3>1. Direct # {}
      BY <1>0, <2>1 DEF WhoWaits
    <3>2. MaxEndpoints = 0
      BY <3>1 DEF OneWay
    <3> QED
      BY ONLY <1>bounds, <3>1, <3>2
  <2>3. addr[c] \in wanted /\ addr[c] \in Nsqd
    BY <1>0, <2>1, <2>2 DEF WhoWaits, TypeOK
  <2>4F. PICK F \in MayFail({addr[c]}, "timer") :
          \E f \in Blocks({addr[c]}, F) : Connect(f, F, {c})
    BY <1>7, <2>2 DEF nsq_reader_reconnect_cb
  <2>4. PICK f \in Blocks({addr[c]}, F) : Connect(f, F, {c})
    BY <2>4F
  <2>5. PICK M \in SUBSET {addr[c]} : f \in Injection(M, Free)
    BY BlocksAreInjections
  <2>6. /\ UNCHANGED <<lookupd, poll_timer, requests, registered, wanted>>
        /\ fault' = "none"
    BY <1>0, <1>7, <2>1 DEF nsq_reader_reconnect_cb, Free, MemorySafe
  <2>7. \A e \in Held \ {c} : addr[e] \notin M
    BY <1>0, <2>1, <2>5 DEF OneConnectionPerNsqd
  <2>8. /\ M \in SUBSET Nsqd /\ M \ F \subseteq wanted' /\ wanted' \subseteq Direct
        /\ {c} \in SUBSET Conn /\ {c} \cap conns = {} /\ {c} \cap Free = {}
    BY <1>0, <2>1, <2>3, <2>5, <2>6 DEF TypeOK
  <2>9. requests' \in 0 .. MaxRequests /\ (requests' > 0 => lookupd > 0)
    BY <1>0, <2>6 DEF TypeOK, LookupFirst
  <2> QED
    BY <2>2, <2>4, <2>5, <2>6, <2>7, <2>8, <2>9, ConnectKeepsIInv
<1>8. CASE nsq_reader_lookupd_poll_cb \/ lookup_failed \/ registration_changes
  <2>1. /\ UNCHANGED <<conns, sock, addr, timer, lookupd, poll_timer, wanted, fault>>
        /\ requests' \in 0 .. MaxRequests /\ registered' \subseteq Nsqd
        /\ requests' > 0 => lookupd > 0
    <3>1. CASE nsq_reader_lookupd_poll_cb
      <4>1. /\ UNCHANGED <<conns, sock, addr, timer, lookupd, poll_timer, wanted, fault>>
            /\ requests' = requests + 1 /\ requests < MaxRequests
            /\ registered' = registered /\ lookupd > 0
        BY <3>1 DEF nsq_reader_lookupd_poll_cb, connVars
      <4>2. requests' \in 0 .. MaxRequests
        BY ONLY <1>bounds, <4>1
      <4> QED
        BY <1>0, <4>1, <4>2 DEF TypeOK
    <3>2. CASE lookup_failed
      <4>1. /\ UNCHANGED <<conns, sock, addr, timer, lookupd, poll_timer, wanted, fault>>
            /\ requests' = requests - 1 /\ requests > 0
            /\ registered' = registered
        BY <3>2 DEF lookup_failed, connVars
      <4>2. requests' \in 0 .. MaxRequests
        BY ONLY <1>bounds, <4>1
      <4>3. lookupd > 0
        BY <1>0, <4>1 DEF LookupFirst
      <4> QED
        BY <1>0, <4>1, <4>2, <4>3 DEF TypeOK
    <3>3. CASE registration_changes
      BY <1>0, <1>bounds, <3>3 DEF registration_changes, connVars, TypeOK
    <3> QED
      BY <1>8, <3>1, <3>2, <3>3
  <2>2. TypeOK' /\ MemorySafe' /\ TimersFit' /\ LookupFirst'
    BY <1>0, <2>1 DEF TypeOK, MemorySafe, TimersFit, LookupFirst
  <2>3. InOneHand' /\ OneConnectionPerNsqd' /\ WhoWaits'
    BY <1>0, <2>1 DEF InOneHand, OneConnectionPerNsqd, WhoWaits, Held, Failed, Free
  <2> QED
    BY <2>2, <2>3 DEF IInv
<1>9. CASE lookup_answered
  BY <1>0, <1>9, LookupKeepsIInv DEF lookup_answered, TypeOK
<1>10. CASE stale_lookup_answered
  BY <1>10, LookupKeepsIInv DEF stale_lookup_answered
<1>11. CASE UNCHANGED vars
  BY <1>0, <1>11
  DEF vars, IInv, TypeOK, MemorySafe, InOneHand, OneConnectionPerNsqd, TimersFit,
      LookupFirst, WhoWaits, Held, Failed, Free
<1> QED
  BY <1>1, <1>2, <1>3, <1>4, <1>5, <1>6, <1>7, <1>8, <1>9, <1>10, <1>11 DEF Next

(***************************************************************************)
(* Types are kept however the reader is used.                              *)
(***************************************************************************)
LEMMA CloseKeepsTypes ==
  ASSUME TypeOK, NEW c \in Conn, nsq_reader_close_cb(c),
         UNCHANGED <<lookupd, poll_timer, requests, registered, wanted>>
  PROVE  TypeOK'
<1>1. CASE lookupd = 0
  BY <1>1 DEF nsq_reader_close_cb, TypeOK
<1>2. CASE lookupd # 0
  BY <1>2 DEF nsq_reader_close_cb, StopTimerFault, TypeOK
<1> QED
  BY <1>1, <1>2

LEMMA NextTypeOK == TypeOK /\ [Next]_vars => TypeOK'
<1> SUFFICES ASSUME TypeOK, [Next]_vars PROVE TypeOK'
  OBVIOUS
<1>bounds. /\ MaxEndpoints \in Nat /\ lookupd \in Nat /\ lookupd <= MaxEndpoints
           /\ MaxRequests \in Nat /\ requests \in Nat /\ requests <= MaxRequests
  BY CountsBounded
<1>1. ASSUME NEW N \in SUBSET Nsqd, NEW F, NEW f \in Blocks(N, F),
             NEW gone \in SUBSET Conn, Connect(f, F, gone), UNCHANGED <<lookupd, poll_timer, registered>>,
             requests' \in 0 .. MaxRequests, wanted' \subseteq Direct,
             fault' \in {"none", "timer freed twice", "no timer to start",
                         "timer of a freed connection"}
      PROVE  TypeOK'
  <2>1. PICK M \in SUBSET N : f \in Injection(M, Free)
    BY BlocksAreInjections
  <2>2. M \in SUBSET Nsqd
    OBVIOUS
  <2>3. /\ conns' \subseteq Conn
        /\ sock' \in [Conn -> {"free", "init", "connecting", "connected", "disconnected"}]
        /\ addr' \in [Conn -> Nsqd]
        /\ timer' \in [Conn -> {"null", "idle", "running", "dangling"}]
    BY <1>1, <2>1, <2>2, ConnectTyped
  <2> QED
    BY <1>1, <2>3 DEF TypeOK
<1>2. ASSUME NEW d \in Nsqd, nsq_reader_connect_to_nsqd(d) PROVE TypeOK'
  <2>1. PICK F \in MayFail({d}, "user") :
          /\ \E f \in Blocks({d}, F) : Connect(f, F, {})
          /\ wanted' = wanted \cup ({d} \ F)
    BY <1>2 DEF nsq_reader_connect_to_nsqd
  <2>2. PICK f \in Blocks({d}, F) : Connect(f, F, {})
    BY <2>1
  <2>3. /\ UNCHANGED <<lookupd, poll_timer, requests, registered, fault>>
        /\ wanted' \subseteq Direct
    BY <1>2, <2>1 DEF nsq_reader_connect_to_nsqd, TypeOK
  <2>4. /\ requests' \in 0 .. MaxRequests
        /\ fault' \in {"none", "timer freed twice", "no timer to start",
                       "timer of a freed connection"}
    BY <2>3 DEF TypeOK
  <2> QED
    BY <1>1, <2>1, <2>2, <2>3, <2>4
<1>3. CASE nsq_reader_add_nsqlookupd_endpoint
  <2>1. /\ lookupd < MaxEndpoints /\ lookupd' = lookupd + 1
        /\ UNCHANGED <<conns, sock, addr, requests, registered, wanted>>
    BY <1>3 DEF nsq_reader_add_nsqlookupd_endpoint
  <2>2. lookupd' \in 0 .. MaxEndpoints /\ lookupd' > 0
    BY ONLY <1>bounds, <2>1
  <2>3. /\ timer' \in [Conn -> {"null", "idle", "running", "dangling"}]
        /\ fault' \in {"none", "timer freed twice", "no timer to start",
                       "timer of a freed connection"}
    BY <1>3 DEF nsq_reader_add_nsqlookupd_endpoint, TypeOK
  <2>4. poll_timer' = TRUE
    <3>1. CASE lookupd = 0
      BY <1>3, <3>1 DEF nsq_reader_add_nsqlookupd_endpoint
    <3>2. CASE lookupd # 0
      <4>1. lookupd > 0
        BY ONLY <1>bounds, <3>2
      <4>2. poll_timer = TRUE
        BY ONLY TypeOK, <4>1 DEF TypeOK
      <4> QED
        BY <1>3, <3>2, <4>2 DEF nsq_reader_add_nsqlookupd_endpoint
    <3> QED
      BY <3>1, <3>2
  <2> QED
    BY <2>1, <2>2, <2>3, <2>4 DEF TypeOK
<1>4. ASSUME NEW c \in Conn, nsqd_connection_disconnect(c) PROVE TypeOK'
  BY <1>4, CloseKeepsTypes DEF nsqd_connection_disconnect
<1>5. ASSUME NEW c \in Conn, connect_succeeds(c) PROVE TypeOK'
  BY <1>5 DEF connect_succeeds, TypeOK
<1>6. ASSUME NEW c \in Conn, connect_fails(c) PROVE TypeOK'
  BY <1>6, CloseKeepsTypes DEF connect_fails
<1>7. ASSUME NEW c \in Conn, connection_lost(c) PROVE TypeOK'
  BY <1>7, CloseKeepsTypes DEF connection_lost
<1>8. ASSUME NEW c \in Conn, nsq_reader_reconnect_cb(c) PROVE TypeOK'
  <2>1. /\ UNCHANGED <<lookupd, poll_timer, requests, registered, wanted>>
        /\ fault' \in {"none", "timer freed twice", "no timer to start",
                       "timer of a freed connection"}
    BY <1>8 DEF nsq_reader_reconnect_cb, TypeOK
  <2>2. wanted' \subseteq Direct /\ requests' \in 0 .. MaxRequests
    BY <2>1 DEF TypeOK
  <2> DEFINE N == IF lookupd = 0 THEN {addr[c]} ELSE {}
  <2>3F. PICK F \in MayFail(N, "timer") :
          \E f \in Blocks(N, F) : Connect(f, F, {c})
    BY <1>8 DEF nsq_reader_reconnect_cb
  <2>3. PICK f \in Blocks(N, F) : Connect(f, F, {c})
    BY <2>3F
  <2>4. N \in SUBSET Nsqd /\ {c} \in SUBSET Conn
    BY DEF TypeOK
  <2> HIDE DEF N
  <2> QED
    BY <1>1, <2>1, <2>2, <2>3, <2>4
<1>9. CASE nsq_reader_lookupd_poll_cb
  <2>1. requests' \in 0 .. MaxRequests
    <3>1. requests' = requests + 1 /\ requests < MaxRequests
      BY <1>9 DEF nsq_reader_lookupd_poll_cb
    <3> QED
      BY ONLY <1>bounds, <3>1
  <2> QED
    BY <1>9, <2>1 DEF nsq_reader_lookupd_poll_cb, connVars, TypeOK
<1>10. ASSUME NEW P \in SUBSET Nsqd, LookupAnswered(P) PROVE TypeOK'
  <2>1F. PICK F \in MayFail(P \ Listed, "lookup") :
          \E f \in Blocks(P \ Listed, F) : Connect(f, F, {})
    BY <1>10 DEF LookupAnswered
  <2>1. PICK f \in Blocks(P \ Listed, F) : Connect(f, F, {})
    BY <2>1F
  <2>2. /\ requests > 0 /\ requests' = requests - 1
        /\ UNCHANGED <<lookupd, poll_timer, registered, wanted, fault>>
    BY <1>10 DEF LookupAnswered
  <2>3. requests' \in 0 .. MaxRequests
    BY ONLY <1>bounds, <2>2
  <2>4. wanted' \subseteq Direct /\ fault' \in {"none", "timer freed twice", "no timer to start",
                                                "timer of a freed connection"}
    BY <2>2 DEF TypeOK
  <2>5. P \ Listed \in SUBSET Nsqd
    OBVIOUS
  <2> QED
    BY <1>1, <2>1, <2>2, <2>3, <2>4, <2>5
<1>11. CASE lookup_answered
  BY <1>10, <1>11 DEF lookup_answered, TypeOK
<1>12. CASE stale_lookup_answered
  BY <1>10, <1>12 DEF stale_lookup_answered
<1>13. CASE lookup_failed
  <2>1. requests' \in 0 .. MaxRequests
    <3>1. requests' = requests - 1 /\ requests > 0
      BY <1>13 DEF lookup_failed
    <3> QED
      BY ONLY <1>bounds, <3>1
  <2> QED
    BY <1>13, <2>1 DEF lookup_failed, connVars, TypeOK
<1>14. CASE registration_changes
  BY <1>14 DEF registration_changes, connVars, TypeOK
<1>15. CASE UNCHANGED vars
  BY <1>15 DEF vars, TypeOK
<1> QED
  BY <1>2, <1>3, <1>4, <1>5, <1>6, <1>7, <1>8, <1>9, <1>11, <1>12, <1>13, <1>14, <1>15 DEF Next

(***************************************************************************)
(* The variables keep their types, in whichever ways the reader is used.   *)
(***************************************************************************)
THEOREM TypeCorrect == Spec => []TypeOK
<1>1. Init => TypeOK
  BY InitIInv DEF IInv
<1> QED
  BY <1>1, NextTypeOK, PTL DEF Spec

(***************************************************************************)
(* A reader used in one way frees every reconnect timer once, starts none  *)
(* that is not there and none outlives its connection, whatever the user,  *)
(* the network and nsqlookupd do.                                          *)
(***************************************************************************)
THEOREM TimersSafe == ASSUME OneWay PROVE Spec => []MemorySafe
<1>1. IInv => MemorySafe
  BY DEF IInv
<1> QED
  BY InitIInv, NextIInv, <1>1, PTL DEF Spec

(***************************************************************************)
(* It loses track of the connections whose connect() failed at once, which *)
(* are in nobody's hands and never freed, and of no other: each is in      *)
(* rdr->conns, or in the hands of its reconnect timer, or freed.           *)
(***************************************************************************)
THEOREM OthersKeptTrackOf == ASSUME OneWay PROVE Spec => []OnlyFailedConnectsOrphaned
<1>1. IInv => OnlyFailedConnectsOrphaned
  BY OrphansAreFailed DEF IInv
<1> QED
  BY InitIInv, NextIInv, <1>1, PTL DEF Spec

(***************************************************************************)
(* And it never has two connections to the same nsqd.                      *)
(***************************************************************************)
THEOREM NoSecondConnection == ASSUME OneWay PROVE Spec => []OneConnectionPerNsqd
<1>1. IInv => OneConnectionPerNsqd
  BY DEF IInv
<1> QED
  BY InitIInv, NextIInv, <1>1, PTL DEF Spec

-------------------------------------------------------------------------------
(***************************************************************************)
(* Nsqds the user connects to, of a reader used in either way or in both.  *)
(* While there is no nsqlookupd no connection is freed but by the timer    *)
(* that replaces it, if no connect() of such a timer fails at once.        *)
(***************************************************************************)
KeptInv ==
  /\ TypeOK
  /\ lookupd = 0 => requests = 0 /\ InOneHand /\ DirectNsqdKept

LEMMA KeptByClose ==
  ASSUME TypeOK, InOneHand, DirectNsqdKept, lookupd = 0, NEW c \in Conn,
         sock[c] \in {"connecting", "connected"},
         nsq_reader_close_cb(c), UNCHANGED <<lookupd, poll_timer, requests, registered, wanted>>
  PROVE  InOneHand' /\ DirectNsqdKept'
<1>1. /\ conns' = conns \ {c} /\ addr' = addr
      /\ sock' = [sock EXCEPT ![c] = "disconnected"]
      /\ timer' = [timer EXCEPT ![c] = "running"]
  BY DEF nsq_reader_close_cb
<1>2. InOneHand'
  BY <1>1 DEF TypeOK, InOneHand
<1>3. Held' = Held
  BY <1>1 DEF TypeOK, Held, Failed, Free
<1> QED
  BY <1>1, <1>2, <1>3 DEF DirectNsqdKept

LEMMA KeptByConnect ==
  ASSUME TypeOK, InOneHand, DirectNsqdKept, lookupd = 0, lookupd' = 0,
         NEW N \in SUBSET Nsqd, NEW F, NEW f \in Blocks(N, F),
         NEW gone \in SUBSET Conn, gone \cap conns = {}, gone \cap Free = {},
         \A c \in gone : addr[c] \in N \ F, Connect(f, F, gone),
         wanted' \subseteq wanted \cup (N \ F)
  PROVE  InOneHand' /\ DirectNsqdKept'
<1>m. PICK M \in SUBSET N : N \ F \subseteq M /\ f \in Injection(M, Free)
  BY BlocksAreInjections
<1>1. f \in [M -> Free] /\ DOMAIN f = M /\ \A a, b \in M : f[a] = f[b] => a = b
  BY <1>m DEF Injection, IsInjective
<1>e. /\ conns' \subseteq Conn
      /\ sock' \in [Conn -> {"free", "init", "connecting", "connected", "disconnected"}]
      /\ addr' \in [Conn -> Nsqd]
      /\ timer' \in [Conn -> {"null", "idle", "running", "dangling"}]
      /\ \A c \in Conn : \/ BecomesNew(c, f, F)
                         \/ BecomesLost(c)
                         \/ c \in gone /\ BecomesFree(c)
                         \/ c \notin gone /\ StaysAsIs(c)
  <2>1. M \in SUBSET Nsqd
    OBVIOUS
  <2> QED
    BY <1>m, <2>1, ConnectEffect, Zenon
<1>2. \A c \in Conn : \/ BecomesNew(c, f, F)
                      \/ BecomesLost(c)
                      \/ c \in gone /\ BecomesFree(c)
                      \/ c \notin gone /\ StaysAsIs(c)
  BY <1>e
<1>3. InOneHand'
  BY <1>2 DEF InOneHand, BecomesNew, BecomesLost, BecomesFree, StaysAsIs, TimerMade, Free
<1>4. ASSUME NEW d \in wanted'
      PROVE  \E c \in Held' : addr'[c] = d
  <2>1. CASE d \in N \ F
    <3>1. d \in M \ F /\ f[d] \in Conn /\ f[d] \in Range(f) /\ f[d] \in {f[e] : e \in DOMAIN f \ F}
      BY <1>m, <1>1, <2>1 DEF Range, Free
    <3>2. sock'[f[d]] = "connecting" /\ addr'[f[d]] = CHOOSE e \in DOMAIN f : f[e] = f[d]
      BY <3>1 DEF Connect
    <3>3. (CHOOSE e \in DOMAIN f : f[e] = f[d]) = d
      BY <1>1, <3>1
    <3>4. f[d] \in Held'
      BY <3>1, <3>2 DEF Held, Free, Failed
    <3> QED
      BY <3>2, <3>3, <3>4
  <2>2. CASE d \notin N \ F
    <3>1. PICK c \in Held : addr[c] = d
      BY <1>4, <2>2 DEF DirectNsqdKept
    <3>2. c \in Conn /\ c \notin Free /\ c \notin gone
      BY <2>2, <3>1 DEF Held
    <3>3. StaysAsIs(c)
      BY <1>2, <3>2 DEF BecomesNew, BecomesLost
    <3>4. c \in Held'
      BY <3>1, <3>3 DEF StaysAsIs, Held, Free, Failed
    <3> QED
      BY <3>1, <3>3, <3>4 DEF StaysAsIs
  <2> QED
    BY <2>1, <2>2
<1> QED
  BY <1>3, <1>4 DEF DirectNsqdKept

LEMMA NextKeptInv == ("timer" \notin FailsAtOnce) /\ KeptInv /\ [Next]_vars => KeptInv'
<1> SUFFICES ASSUME "timer" \notin FailsAtOnce, KeptInv, [Next]_vars, lookupd' = 0
             PROVE  requests' = 0 /\ InOneHand' /\ DirectNsqdKept'
  BY NextTypeOK DEF KeptInv
<1>0. /\ MaxEndpoints \in Nat /\ lookupd \in Nat /\ lookupd <= MaxEndpoints
      /\ MaxRequests \in Nat /\ requests \in Nat /\ requests <= MaxRequests
  BY CountsBounded DEF KeptInv
<1>1. lookupd = 0 /\ ~nsq_reader_add_nsqlookupd_endpoint
  <2>1. nsq_reader_add_nsqlookupd_endpoint => lookupd' = lookupd + 1
    BY DEF nsq_reader_add_nsqlookupd_endpoint
  <2>2. ~nsq_reader_add_nsqlookupd_endpoint
    BY ONLY <1>0, <2>1, lookupd' = 0
  <2>3. lookupd' = lookupd
    BY <2>2 DEF Next, vars, nsq_reader_connect_to_nsqd, nsqd_connection_disconnect,
                connect_succeeds, connect_fails, connection_lost, nsq_reader_reconnect_cb,
                nsq_reader_lookupd_poll_cb, lookup_answered, stale_lookup_answered,
                LookupAnswered, lookup_failed, registration_changes
  <2> QED
    BY <2>2, <2>3
<1>2. TypeOK /\ InOneHand /\ DirectNsqdKept /\ requests = 0
  BY <1>1 DEF KeptInv
<1>3. ASSUME NEW d \in Nsqd, nsq_reader_connect_to_nsqd(d)
      PROVE  requests' = 0 /\ InOneHand' /\ DirectNsqdKept'
  <2>1. PICK F \in MayFail({d}, "user") :
          /\ \E f \in Blocks({d}, F) : Connect(f, F, {})
          /\ wanted' = wanted \cup ({d} \ F)
    BY <1>3 DEF nsq_reader_connect_to_nsqd
  <2>2. PICK f \in Blocks({d}, F) : Connect(f, F, {})
    BY <2>1
  <2>3. requests' = requests /\ {d} \in SUBSET Nsqd /\ {} \in SUBSET Conn
    BY <1>3 DEF nsq_reader_connect_to_nsqd
  <2>4. InOneHand' /\ DirectNsqdKept'
    BY <1>1, <1>2, <2>1, <2>2, <2>3, KeptByConnect
  <2> QED
    BY <1>2, <2>3, <2>4
<1>4. ASSUME NEW c \in Conn,
             nsqd_connection_disconnect(c) \/ connect_fails(c) \/ connection_lost(c)
      PROVE  requests' = 0 /\ InOneHand' /\ DirectNsqdKept'
  <2>1. /\ sock[c] \in {"connecting", "connected"} /\ nsq_reader_close_cb(c)
        /\ UNCHANGED <<lookupd, poll_timer, requests, registered, wanted>>
    BY <1>4 DEF nsqd_connection_disconnect, connect_fails, connection_lost
  <2> QED
    BY <1>1, <1>2, <2>1, KeptByClose
<1>5. ASSUME NEW c \in Conn, connect_succeeds(c)
      PROVE  requests' = 0 /\ InOneHand' /\ DirectNsqdKept'
  <2>1. /\ sock[c] = "connecting" /\ sock' = [sock EXCEPT ![c] = "connected"]
        /\ UNCHANGED <<conns, addr, timer, requests, wanted>>
    BY <1>5 DEF connect_succeeds
  <2>2. InOneHand' /\ Held' = Held
    BY <1>2, <2>1 DEF TypeOK, InOneHand, Held, Failed, Free
  <2> QED
    BY <1>1, <1>2, <2>1, <2>2 DEF DirectNsqdKept
<1>6. ASSUME NEW c \in Conn, nsq_reader_reconnect_cb(c)
      PROVE  requests' = 0 /\ InOneHand' /\ DirectNsqdKept'
  <2>1F. PICK F \in MayFail({addr[c]}, "timer") :
          \E f \in Blocks({addr[c]}, F) : Connect(f, F, {c})
    BY <1>1, <1>6 DEF nsq_reader_reconnect_cb
  <2>1. PICK f \in Blocks({addr[c]}, F) : Connect(f, F, {c})
    BY <2>1F
  <2>2. F = {}
    BY DEF MayFail
  <2>3. sock[c] = "disconnected" /\ c \notin conns /\ c \notin Free
    BY <1>2, <1>6 DEF nsq_reader_reconnect_cb, InOneHand, Free
  <2>4. /\ {addr[c]} \in SUBSET Nsqd /\ {c} \in SUBSET Conn
        /\ {c} \cap conns = {} /\ {c} \cap Free = {}
        /\ requests' = requests /\ wanted' = wanted
    BY <1>2, <1>6, <2>3 DEF TypeOK, nsq_reader_reconnect_cb
  <2>5. \A e \in {c} : addr[e] \in {addr[c]} \ F
    BY <2>2
  <2>6. InOneHand' /\ DirectNsqdKept'
    BY <1>1, <1>2, <2>1, <2>4, <2>5, KeptByConnect
  <2> QED
    BY <1>2, <2>4, <2>6
<1>7. ~nsq_reader_lookupd_poll_cb /\ ~lookup_answered /\ ~stale_lookup_answered
      /\ ~lookup_failed /\ ~registration_changes
  <2>1. ~(lookupd > 0) /\ ~(requests > 0)
    BY ONLY <1>1, <1>2
  <2> QED
    BY <2>1 DEF nsq_reader_lookupd_poll_cb, lookup_answered, stale_lookup_answered,
                LookupAnswered, lookup_failed, registration_changes
<1>8. CASE UNCHANGED vars
  BY <1>1, <1>2, <1>8 DEF vars, InOneHand, DirectNsqdKept, Held, Failed, Free
<1> QED
  BY <1>1, <1>3, <1>4, <1>5, <1>6, <1>7, <1>8 DEF Next

(***************************************************************************)
(* If no connect() a reconnect timer makes fails at once, an nsqd the user *)
(* connected the reader to keeps a connection, made or being made, or a    *)
(* reconnect timer, as long as no nsqlookupd is added.                     *)
(***************************************************************************)
THEOREM DirectKept == ASSUME "timer" \notin FailsAtOnce PROVE Spec => []DirectNsqdKept
<1>1. Init => KeptInv
  BY InitIInv DEF IInv, KeptInv, DirectNsqdKept, Init
<1>2. KeptInv => DirectNsqdKept
  BY DEF KeptInv, DirectNsqdKept
<1> QED
  BY <1>1, <1>2, NextKeptInv, PTL DEF Spec

-------------------------------------------------------------------------------

(***************************************************************************)
(* A reader used in one of its two ways implements NSQDLifecycle.tla, step *)
(* by step: its connections, timers, lookups and polls, of any number,     *)
(* show each nsqd going only through the phases allowed there.             *)
(***************************************************************************)
phase == [d \in Nsqd |-> Phase(d)]

(***************************************************************************)
(* While the invariant holds, the phase of an nsqd says what becomes of    *)
(* the one connection to it, if there is one.                              *)
(***************************************************************************)
PhaseOf(state) == CASE state = "connected"    -> "subscribed"
                    [] state = "connecting"   -> "trying"
                    [] state = "disconnected" -> "waiting"

To(c, d) == c \in Held /\ addr[c] = d

PhaseFits ==
  \A d \in Nsqd :
    /\ \A c \in Conn : To(c, d) => Phase(d) = PhaseOf(sock[c])
    /\ (\A c \in Conn : ~To(c, d)) => Phase(d) = "absent"

LEMMA IInvPhaseFits == IInv => PhaseFits
<1> SUFFICES ASSUME IInv, NEW d \in Nsqd
             PROVE  /\ \A c \in Conn : To(c, d) => Phase(d) = PhaseOf(sock[c])
                    /\ (\A c \in Conn : ~To(c, d)) => Phase(d) = "absent"
  BY DEF PhaseFits
<1>0. TypeOK /\ InOneHand /\ OneConnectionPerNsqd
  BY DEF IInv
<1>1. \A c \in Conn : /\ c \in conns => c \in Held
                      /\ timer[c] = "running" => c \in Held
  BY <1>0 DEF InOneHand, Held, Failed, Free
<1>2. ASSUME NEW c \in Conn, To(c, d)
      PROVE  Phase(d) = PhaseOf(sock[c])
  <2>1. /\ \A e \in conns : addr[e] = d => e = c
        /\ \A e \in Conn : addr[e] = d /\ timer[e] = "running" => e = c
    BY <1>0, <1>1, <1>2 DEF To, OneConnectionPerNsqd, TypeOK
  <2>2. CASE sock[c] = "connected"
    <3>1. c \in conns /\ addr[c] = d
      BY <1>0, <1>2, <2>2 DEF InOneHand, To
    <3> QED
      BY <2>2, <3>1 DEF Phase, PhaseOf
  <2>3. CASE sock[c] = "connecting"
    <3>1. c \in conns /\ addr[c] = d
      BY <1>0, <1>2, <2>3 DEF InOneHand, To
    <3>2. d \in Listed /\ ~\E e \in conns : addr[e] = d /\ sock[e] = "connected"
      BY <2>1, <2>3, <3>1 DEF Listed
    <3> QED
      BY <2>3, <3>2 DEF Phase, PhaseOf
  <2>4. CASE sock[c] = "disconnected"
    <3>1. c \notin conns /\ addr[c] = d /\ timer[c] = "running"
      BY <1>0, <1>2, <2>4 DEF InOneHand, To
    <3>2. d \notin Listed /\ ~\E e \in conns : addr[e] = d /\ sock[e] = "connected"
      BY <2>1, <3>1 DEF Listed
    <3> QED
      BY <2>4, <3>1, <3>2 DEF Phase, PhaseOf
  <2> QED
    BY <1>0, <1>2, <2>2, <2>3, <2>4 DEF To, TypeOK, Held, Failed, Free
<1>3. ASSUME \A c \in Conn : ~To(c, d)
      PROVE  Phase(d) = "absent"
  BY <1>0, <1>1, <1>3 DEF To, Phase, Listed, TypeOK
<1> QED
  BY <1>2, <1>3

(***************************************************************************)
(* The ways of use the refinement is for.  With nsqds named by the user, a *)
(* connect() that fails at once in a reconnect timer loses the nsqd; one   *)
(* that fails in the user's own call leaves the phase as it was.           *)
(***************************************************************************)
Covered == OneWay /\ ("timer" \in FailsAtOnce => Direct = {})

(***************************************************************************)
(* An nsqd whose connection, if any, is as it was, is in the same phase.   *)
(***************************************************************************)
LEMMA PhaseKept ==
  ASSUME PhaseFits, PhaseFits', NEW d \in Nsqd,
         \A c \in Conn : /\ To(c, d) <=> To(c, d)'
                         /\ To(c, d) => sock'[c] = sock[c]
  PROVE  phase'[d] = phase[d]
<1>1. CASE \E c \in Conn : To(c, d)
  <2>1. PICK c \in Conn : To(c, d)
    BY <1>1
  <2>2. Phase(d) = PhaseOf(sock[c]) /\ Phase(d)' = PhaseOf(sock'[c])
    BY <2>1 DEF PhaseFits, PhaseOf
  <2> QED
    BY <2>1, <2>2 DEF phase
<1>2. CASE \A c \in Conn : ~To(c, d)
  <2>1. Phase(d) = "absent" /\ Phase(d)' = "absent"
    BY <1>2 DEF PhaseFits
  <2> QED
    BY <2>1 DEF phase
<1> QED
  BY <1>1, <1>2

LEMMA InitLifecycle == Init => Lifecycle!Init
<1> SUFFICES ASSUME Init PROVE \A d \in Nsqd : Phase(d) = "absent"
  BY DEF Lifecycle!Init
<1> QED
  BY DEF Init, Phase, Listed

(***************************************************************************)
(* A connection that closes: the nsqd waits for the reconnect timer, or is *)
(* left to the next poll.                                                  *)
(***************************************************************************)
LEMMA CloseIsLose ==
  ASSUME Covered, IInv, PhaseFits, PhaseFits', NEW c \in Conn,
         sock[c] \in {"connecting", "connected"},
         nsq_reader_close_cb(c), UNCHANGED <<lookupd, poll_timer, requests, registered, wanted>>
  PROVE  addr[c] \in Nsqd /\ Lifecycle!Lose(addr[c])
<1>0. /\ TypeOK /\ InOneHand /\ OneConnectionPerNsqd /\ LookupFirst /\ WhoWaits
  BY DEF IInv
<1>1. c \in conns /\ To(c, addr[c]) /\ addr[c] \in Nsqd /\ addr' = addr
  BY <1>0 DEF InOneHand, To, Held, Failed, Free, TypeOK, nsq_reader_close_cb
<1>2. phase[addr[c]] \in {"trying", "subscribed"}
  BY <1>1 DEF PhaseFits, PhaseOf, phase
<1>3. \A e \in Conn \ {c} : sock'[e] = sock[e] /\ (addr[e] # addr[c] \/ e \notin Held)
  BY <1>0, <1>1 DEF nsq_reader_close_cb, TypeOK, OneConnectionPerNsqd, To
<1>4. ASSUME NEW d \in Nsqd, d # addr[c]
      PROVE  phase'[d] = phase[d]
  <2>1. \A e \in Conn : /\ To(e, d) <=> To(e, d)'
                        /\ To(e, d) => sock'[e] = sock[e]
    BY <1>1, <1>3, <1>4 DEF To, Held, Failed, Free
  <2> QED
    BY <2>1, PhaseKept
<1> DEFINE Retried == IF MaxEndpoints = 0 THEN Direct ELSE {}
<1>5. phase'[addr[c]] = IF addr[c] \in Retried THEN "waiting" ELSE "absent"
  <2>1. CASE lookupd = 0
    <3>1. addr[c] \in Retried
      <4>1. MaxEndpoints = 0
        BY <1>0, <1>1, <2>1 DEF LookupFirst, Covered, OneWay
      <4> QED
        BY <1>0, <1>1, <4>1 DEF WhoWaits, To, TypeOK
    <3>2. sock'[c] = "disconnected"
      BY <1>0, <2>1 DEF nsq_reader_close_cb, TypeOK
    <3>3. To(c, addr[c])'
      BY <1>1, <3>2 DEF To, Held, Failed, Free
    <3>4. Phase(addr[c])' = "waiting"
      BY <1>1, <3>2, <3>3 DEF PhaseFits, PhaseOf
    <3> QED
      BY <1>1, <3>1, <3>4 DEF phase
  <2>2. CASE lookupd # 0
    <3>1. addr[c] \notin Retried
      <4>1. lookupd \in Nat /\ lookupd <= MaxEndpoints
        BY <1>0, CountsBounded
      <4>2. MaxEndpoints # 0
        BY ONLY <2>2, <4>1
      <4> QED
        BY <4>2
    <3>2. sock'[c] = "free"
      BY <1>0, <2>2 DEF nsq_reader_close_cb, TypeOK
    <3>3. \A e \in Conn : ~To(e, addr[c])'
      BY <1>1, <1>3, <3>2 DEF To, Held, Failed, Free
    <3>4. Phase(addr[c])' = "absent"
      BY <1>1, <3>3 DEF PhaseFits
    <3> QED
      BY <1>1, <3>1, <3>4 DEF phase
  <2> QED
    BY <2>1, <2>2
<1>6. phase' = [phase EXCEPT ![addr[c]] = IF addr[c] \in Retried THEN "waiting" ELSE "absent"]
  BY <1>4, <1>5, Zenon DEF phase
<1> QED
  BY <1>1, <1>2, <1>6 DEF Lifecycle!Lose, phase

(***************************************************************************)
(* Connecting is a try of each nsqd to which connect() does not fail; the  *)
(* others stay in the phase they were in.                                  *)
(***************************************************************************)
LEMMA ConnectIsTry ==
  ASSUME IInv, PhaseFits, PhaseFits', NEW M \in SUBSET Nsqd,
         NEW f \in Injection(M, Free), NEW F,
         NEW gone \in SUBSET Conn, gone \cap conns = {}, gone \cap Free = {},
         \A c \in Held \ gone : addr[c] \notin M,
         \A c \in gone : addr[c] \in M \ F,
         Connect(f, F, gone)
  PROVE  Lifecycle!Next \/ UNCHANGED phase
<1>0. TypeOK /\ InOneHand
  BY DEF IInv
<1>1. f \in [M -> Free] /\ DOMAIN f = M /\ \A a, b \in M : f[a] = f[b] => a = b
  BY DEF Injection, IsInjective
<1>e. /\ conns' \subseteq Conn
      /\ sock' \in [Conn -> {"free", "init", "connecting", "connected", "disconnected"}]
      /\ addr' \in [Conn -> Nsqd]
      /\ timer' \in [Conn -> {"null", "idle", "running", "dangling"}]
      /\ \A c \in Conn : \/ BecomesNew(c, f, F)
                         \/ BecomesLost(c)
                         \/ c \in gone /\ BecomesFree(c)
                         \/ c \notin gone /\ StaysAsIs(c)
  BY <1>0, ConnectEffect, Zenon
<1>2. \A c \in Conn : \/ BecomesNew(c, f, F)
                      \/ BecomesLost(c)
                      \/ c \in gone /\ BecomesFree(c)
                      \/ c \notin gone /\ StaysAsIs(c)
  BY <1>e
<1>3. ASSUME NEW d \in M \ F
      PROVE  phase[d] \in {"absent", "waiting"}
  <2>1. CASE \E c \in Conn : To(c, d)
    <3>1. PICK c \in Conn : To(c, d)
      BY <2>1
    <3>2. c \in gone
      BY <3>1 DEF To
    <3>3. sock[c] = "disconnected"
      BY <1>0, <3>1, <3>2 DEF InOneHand, TypeOK, To, Held, Failed, Free
    <3>4. Phase(d) = "waiting"
      BY <3>1, <3>3 DEF PhaseFits, PhaseOf
    <3> QED
      BY <3>4 DEF phase
  <2>2. CASE \A c \in Conn : ~To(c, d)
    BY <2>2 DEF PhaseFits, phase
  <2> QED
    BY <2>1, <2>2
<1>4. ASSUME NEW d \in M \ F
      PROVE  phase'[d] = "trying"
  <2>1. f[d] \in Conn /\ f[d] \in Range(f) /\ f[d] \in {f[e] : e \in DOMAIN f \ F}
    BY <1>1 DEF Range, Free
  <2>2. sock'[f[d]] = "connecting" /\ addr'[f[d]] = CHOOSE e \in DOMAIN f : f[e] = f[d]
    BY <2>1 DEF Connect
  <2>3. (CHOOSE e \in DOMAIN f : f[e] = f[d]) = d
    BY <1>1
  <2>4. To(f[d], d)'
    BY <2>1, <2>2, <2>3 DEF To, Held, Failed, Free
  <2>5. Phase(d)' = "trying"
    BY <2>1, <2>2, <2>4 DEF PhaseFits, PhaseOf
  <2> QED
    BY <2>5 DEF phase
<1>5. ASSUME NEW d \in Nsqd \ (M \ F)
      PROVE  phase'[d] = phase[d]
  <2>1. ASSUME NEW c \in Conn
        PROVE  /\ To(c, d) <=> To(c, d)'
               /\ To(c, d) => sock'[c] = sock[c]
    <3>1. CASE BecomesNew(c, f, F)
      BY <1>1, <3>1 DEF BecomesNew, To, Held
    <3>2. CASE BecomesLost(c)
      BY <3>2 DEF BecomesLost, To, Held, Failed
    <3>3. CASE c \in gone /\ BecomesFree(c)
      BY <3>3 DEF BecomesFree, To, Held, Free
    <3>4. CASE StaysAsIs(c)
      BY <3>4 DEF StaysAsIs, To, Held, Failed, Free
    <3> QED
      BY <1>2, <3>1, <3>2, <3>3, <3>4
  <2> QED
    BY <2>1, PhaseKept
<1>6. phase' = [d \in Nsqd |-> IF d \in M \ F THEN "trying" ELSE phase[d]]
  BY <1>4, <1>5, Zenon DEF phase
<1>7. CASE M \ F # {}
  <2>1. Lifecycle!Try(M \ F)
    BY <1>3, <1>6, <1>7 DEF Lifecycle!Try, phase
  <2> QED
    BY <2>1 DEF Lifecycle!Next
<1>8. CASE M \ F = {}
  <2>1. \A d \in Nsqd : phase'[d] = phase[d]
    BY <1>5, <1>8
  <2> QED
    BY <2>1, Zenon DEF phase
<1> QED
  BY <1>7, <1>8

(***************************************************************************)
(* Each step is one of the lifecycle's or leaves every phase alone.        *)
(***************************************************************************)
LEMMA NextLifecycle ==
  Covered /\ IInv /\ PhaseFits /\ PhaseFits' /\ [Next]_vars
    => Lifecycle!Next \/ UNCHANGED phase
<1> SUFFICES ASSUME Covered, IInv, PhaseFits, PhaseFits', [Next]_vars
             PROVE  Lifecycle!Next \/ UNCHANGED phase
  OBVIOUS
<1>0. /\ TypeOK /\ InOneHand /\ OneConnectionPerNsqd /\ TimersFit /\ LookupFirst /\ WhoWaits
  BY DEF IInv
<1>1. ASSUME UNCHANGED <<sock, addr>>
      PROVE  UNCHANGED phase
  <2>1. \A d \in Nsqd : phase'[d] = phase[d]
    BY <1>1, PhaseKept DEF To, Held, Failed, Free
  <2> QED
    BY <2>1, Zenon DEF phase
<1>2. ASSUME NEW d \in Nsqd, nsq_reader_connect_to_nsqd(d)
      PROVE  Lifecycle!Next \/ UNCHANGED phase
  <2>1. PICK F \in MayFail({d}, "user") :
          /\ \E f \in Blocks({d}, F) : Connect(f, F, {})
          /\ wanted' = wanted \cup ({d} \ F)
    BY <1>2 DEF nsq_reader_connect_to_nsqd
  <2>2. PICK f \in Blocks({d}, F) : Connect(f, F, {})
    BY <2>1
  <2>3. PICK M \in SUBSET {d} : f \in Injection(M, Free)
    BY BlocksAreInjections
  <2>4. d \in Direct /\ d \notin wanted
    BY <1>2 DEF nsq_reader_connect_to_nsqd
  <2>5. \A c \in Held \ {} : addr[c] \notin M
    BY <1>0, <2>4 DEF Covered, OneWay, WhoWaits
  <2>6. M \in SUBSET Nsqd
    OBVIOUS
  <2> QED
    BY <2>2, <2>3, <2>5, <2>6, ConnectIsTry
<1>3. ASSUME NEW c \in Conn,
             nsqd_connection_disconnect(c) \/ connect_fails(c) \/ connection_lost(c)
      PROVE  Lifecycle!Next
  <2>1. /\ sock[c] \in {"connecting", "connected"} /\ nsq_reader_close_cb(c)
        /\ UNCHANGED <<lookupd, poll_timer, requests, registered, wanted>>
    BY <1>3 DEF nsqd_connection_disconnect, connect_fails, connection_lost
  <2> QED
    BY <2>1, CloseIsLose DEF Lifecycle!Next
<1>4. ASSUME NEW c \in Conn, connect_succeeds(c) PROVE Lifecycle!Next
  <2>1. /\ sock[c] = "connecting" /\ sock' = [sock EXCEPT ![c] = "connected"] /\ addr' = addr
    BY <1>4 DEF connect_succeeds
  <2>2. To(c, addr[c]) /\ To(c, addr[c])' /\ addr[c] \in Nsqd
    BY <1>0, <2>1 DEF To, Held, Failed, Free, TypeOK
  <2>3. phase[addr[c]] = "trying" /\ phase'[addr[c]] = "subscribed"
    BY <1>0, <2>1, <2>2 DEF PhaseFits, PhaseOf, phase, TypeOK
  <2>4. ASSUME NEW d \in Nsqd, d # addr[c]
        PROVE  phase'[d] = phase[d]
    <3>1. \A e \in Conn : /\ To(e, d) <=> To(e, d)'
                          /\ To(e, d) => sock'[e] = sock[e]
      BY <1>0, <2>1, <2>4 DEF To, Held, Failed, Free, TypeOK
    <3> QED
      BY <3>1, PhaseKept
  <2>5. phase' = [phase EXCEPT ![addr[c]] = "subscribed"]
    BY <2>3, <2>4, Zenon DEF phase
  <2>6. Lifecycle!Subscribe(addr[c])
    BY <2>3, <2>5 DEF Lifecycle!Subscribe, phase
  <2> QED
    BY <2>2, <2>6 DEF Lifecycle!Next
<1>5. ASSUME NEW c \in Conn, nsq_reader_reconnect_cb(c)
      PROVE  Lifecycle!Next \/ UNCHANGED phase
  <2>1. /\ sock[c] = "disconnected" /\ c \in Held /\ c \notin Free /\ c \notin conns
        /\ addr[c] \in Nsqd
    BY <1>0, <1>5 DEF nsq_reader_reconnect_cb, InOneHand, Held, Failed, Free, TypeOK
  <2>2. Direct # {}
    BY <1>0, <2>1 DEF WhoWaits
  <2>3. ("timer" \notin FailsAtOnce) /\ MaxEndpoints = 0
    BY <2>2 DEF Covered, OneWay
  <2>4. lookupd = 0
    <3>1. lookupd \in Nat /\ lookupd <= MaxEndpoints
      BY <1>0, CountsBounded
    <3> QED
      BY ONLY <2>3, <3>1
  <2>5F. PICK F \in MayFail({addr[c]}, "timer") :
          \E f \in Blocks({addr[c]}, F) : Connect(f, F, {c})
    BY <1>5, <2>4 DEF nsq_reader_reconnect_cb
  <2>5. PICK f \in Blocks({addr[c]}, F) : Connect(f, F, {c})
    BY <2>5F
  <2>6. F = {}
    BY <2>3 DEF MayFail
  <2>m. PICK M \in SUBSET {addr[c]} : {addr[c]} \ F \subseteq M /\ f \in Injection(M, Free)
    BY BlocksAreInjections
  <2>7. \A e \in Held \ {c} : addr[e] \notin M
    BY <1>0, <2>1 DEF OneConnectionPerNsqd
  <2>8. /\ {c} \in SUBSET Conn /\ {c} \cap conns = {} /\ {c} \cap Free = {}
        /\ M \in SUBSET Nsqd /\ \A e \in {c} : addr[e] \in M \ F
    BY <2>1, <2>6, <2>m
  <2> QED
    BY <2>5, <2>m, <2>7, <2>8, ConnectIsTry
<1>6. ASSUME NEW P \in SUBSET Nsqd, LookupAnswered(P) PROVE Lifecycle!Next \/ UNCHANGED phase
  <2>1F. PICK F \in MayFail(P \ Listed, "lookup") :
          \E f \in Blocks(P \ Listed, F) : Connect(f, F, {})
    BY <1>6 DEF LookupAnswered
  <2>1. PICK f \in Blocks(P \ Listed, F) : Connect(f, F, {})
    BY <2>1F
  <2>2. PICK M \in SUBSET (P \ Listed) : f \in Injection(M, Free)
    BY BlocksAreInjections
  <2>3. lookupd > 0 /\ Direct = {}
    <3>1. requests > 0
      BY <1>6 DEF LookupAnswered
    <3>2. lookupd > 0
      BY <1>0, <3>1 DEF LookupFirst
    <3>3. lookupd \in Nat /\ lookupd <= MaxEndpoints
      BY <1>0, CountsBounded
    <3>4. MaxEndpoints # 0
      BY ONLY <3>2, <3>3
    <3> QED
      BY <3>2, <3>4 DEF Covered, OneWay
  <2>4. ASSUME NEW c \in Held \ {} PROVE addr[c] \notin M
    <3>1. sock[c] \in {"connecting", "connected"} /\ c \in Conn
      BY <1>0, <2>3, <2>4 DEF WhoWaits, TypeOK, Held, Failed, Free
    <3>2. addr[c] \in Listed
      BY <1>0, <2>4, <3>1 DEF InOneHand, Listed
    <3> QED
      BY <2>2, <3>2
  <2>5. M \in SUBSET Nsqd /\ {} \in SUBSET Conn
    OBVIOUS
  <2> QED
    BY <2>1, <2>2, <2>4, <2>5, ConnectIsTry
<1>7. CASE lookup_answered
  BY <1>0, <1>6, <1>7 DEF lookup_answered, TypeOK
<1>8. CASE stale_lookup_answered
  BY <1>6, <1>8 DEF stale_lookup_answered
<1>9. CASE \/ nsq_reader_add_nsqlookupd_endpoint \/ nsq_reader_lookupd_poll_cb
           \/ lookup_failed \/ registration_changes \/ UNCHANGED vars
  BY <1>1, <1>9 DEF nsq_reader_add_nsqlookupd_endpoint, nsq_reader_lookupd_poll_cb,
                    lookup_failed, registration_changes, connVars, vars
<1> QED
  BY <1>2, <1>3, <1>4, <1>5, <1>7, <1>8, <1>9 DEF Next

(***************************************************************************)
(* A reader implements what NSQDLifecycle.tla promises of each nsqd, its   *)
(* fairness apart: connected to nsqds directly, if no connect() made by a  *)
(* reconnect timer fails at once, or through nsqlookupds in any case.      *)
(***************************************************************************)
THEOREM ImplementsLifecycle == ASSUME Covered PROVE Spec => Lifecycle!Safety
<1>1. Spec => []IInv
  BY InitIInv, NextIInv, PTL DEF Spec, Covered
<1>2. IInv => PhaseFits
  BY IInvPhaseFits
<1>3. Covered /\ IInv /\ PhaseFits /\ PhaseFits' /\ [Next]_vars
        => [Lifecycle!Next]_[d \in Nsqd |-> Phase(d)]
  BY NextLifecycle DEF phase
<1> QED
  BY InitLifecycle, <1>1, <1>2, <1>3, PTL DEF Spec, Lifecycle!Safety
===============================================================================

---------------------------- MODULE ProtocolProofs ----------------------------
(***************************************************************************)
(* What the commands and messages of Protocol.tla are on the wire, for any *)
(* texts, bodies, widths and sizes of command_buf.  From below: numbers,   *)
(* pieces between separators, items one after the other, lines, blocks and *)
(* commands are read back as they were written (CommandRead, StreamRead);  *)
(* what is composed in command_buf is a command as the protocol has it     *)
(* (CommandAdded); what is on the wire is the commands recorded (WireInv). *)
(***************************************************************************)
EXTENDS Protocol, SharedLemmas

-------------------------------------------------------------------------------
(* Induction and iteration, for sets and functions. *)

LEMMA Induction ==
  ASSUME NEW n \in Nat, NEW P, 0 \in P, \A i \in 1 .. n : i - 1 \in P => i \in P
  PROVE  \A i \in 0 .. n : i \in P
<1> DEFINE Bad == {i \in 0 .. n : i \notin P}
<1> SUFFICES ASSUME Bad # {} PROVE FALSE
  OBVIOUS
<1>1. Bad \in SUBSET Nat
  OBVIOUS
<1> HIDE DEF Bad
<1>2. PICK m \in Bad : \A k \in Bad : m <= k
  BY <1>1, Least
<1>3. m \in 0 .. n /\ m \notin P
  BY <1>2 DEF Bad
<1>4. m \in 1 .. n /\ m - 1 \in 0 .. n /\ ~(m <= m - 1)
  BY <1>3
<1>5. m - 1 \in P
  BY <1>2, <1>4 DEF Bad
<1> QED
  BY <1>3, <1>4, <1>5

\* f is what the steps make of base, one after the other.
Iterates(f, n, base, step) ==
  f[0] = base /\ \A i \in 1 .. n : f[i] = step[i][f[i - 1]]

LEMMA IterationExists ==
  ASSUME NEW T, NEW n \in Nat, NEW base \in T, NEW step \in [1 .. n -> [T -> T]]
  PROVE  \E f \in [0 .. n -> T] : Iterates(f, n, base, step)
<1> DEFINE Upto(g, m) == \A i \in 0 .. m : g[i] = IF i = 0 THEN base ELSE step[i][g[i - 1]]
           P == {m \in 0 .. n : \E g \in [0 .. m -> T] : Upto(g, m)}
<1>1. 0 \in P
  <2> DEFINE h == [i \in 0 .. 0 |-> base]
  <2>1. h \in [0 .. 0 -> T]
    OBVIOUS
  <2>2. Upto(h, 0)
    OBVIOUS
  <2> HIDE DEF h
  <2>3. (\E g \in [0 .. 0 -> T] : Upto(g, 0)) /\ 0 \in 0 .. n
    BY <2>1, <2>2
  <2> QED
    BY <2>3
<1>2. ASSUME NEW m \in 1 .. n, m - 1 \in P PROVE m \in P
  <2>1. PICK g \in [0 .. m - 1 -> T] : Upto(g, m - 1)
    BY <1>2
  <2> DEFINE h == [i \in 0 .. m |-> IF i < m THEN g[i] ELSE step[m][g[m - 1]]]
  <2>2. m \in Nat \ {0}
    OBVIOUS
  <2>3. g[m - 1] \in T
    BY <2>1, <2>2
  <2>4. step[m][g[m - 1]] \in T
    BY <2>3
  <2>5. h \in [0 .. m -> T]
    BY <2>1, <2>2, <2>4
  <2>6. ASSUME NEW i \in 0 .. m PROVE h[i] = IF i = 0 THEN base ELSE step[i][h[i - 1]]
    <3>1. CASE i < m
      <4>1. i \in 0 .. (m - 1)
        BY <2>2, <3>1
      <4>2. g[i] = IF i = 0 THEN base ELSE step[i][g[i - 1]]
        BY <2>1, <4>1
      <4>3. h[i] = g[i] /\ (i # 0 => h[i - 1] = g[i - 1])
        BY <2>2, <3>1
      <4> QED
        BY <4>2, <4>3
    <3>2. CASE i = m
      <4>1. h[i] = step[m][g[m - 1]] /\ h[i - 1] = g[i - 1] /\ i # 0
        BY <2>2, <3>2
      <4> QED
        BY <3>2, <4>1
    <3> QED
      BY <2>2, <3>1, <3>2
  <2> HIDE DEF h
  <2>7. (\E f \in [0 .. m -> T] : Upto(f, m)) /\ m \in 0 .. n
    BY <2>5, <2>6
  <2> QED
    BY <2>7
<1>3. n \in P
  <2> HIDE DEF P
  <2>1. \A i \in 0 .. n : i \in P
    BY <1>1, <1>2, Induction
  <2> QED
    BY <2>1
<1>4. PICK g \in [0 .. n -> T] : Upto(g, n)
  BY <1>3
<1> QED
  BY <1>4 DEF Iterates

-------------------------------------------------------------------------------
(* Numbers. *)

LEMMA ShiftedIs ==
  ASSUME NEW n \in Nat, NEW k \in Nat
  PROVE  \E f : /\ f \in [0 .. k -> Nat]
                /\ f[0] = n /\ \A i \in 1 .. k : f[i] = f[i - 1] \div Radix
                /\ Shifted(n, k) = f[k]
<1> DEFINE Solves(f) == f = [i \in 0 .. k |-> IF i = 0 THEN n ELSE f[i - 1] \div Radix]
           step == [i \in 1 .. k |-> [x \in Nat |-> x \div Radix]]
<1>1. Radix \in Nat \ {0}
  BY ProtocolAssumption
<1>2. \A x \in Nat : x \div Radix \in Nat
  BY <1>1
<1>3. step \in [1 .. k -> [Nat -> Nat]]
  BY <1>2
<1>4. PICK f \in [0 .. k -> Nat] : Iterates(f, k, n, step)
  <2> HIDE DEF step
  <2>1. \E f \in [0 .. k -> Nat] : Iterates(f, k, n, step)
    BY ONLY <1>3, n \in Nat, k \in Nat, IterationExists
  <2> QED
    BY <2>1
<1>5. \A i \in 0 .. k : f[i] = IF i = 0 THEN n ELSE f[i - 1] \div Radix
  <2> TAKE i \in 0 .. k
  <2>1. CASE i = 0
    BY <1>4, <2>1 DEF Iterates
  <2>2. CASE i # 0
    <3>1. i \in 1 .. k /\ f[i - 1] \in Nat
      BY <2>2
    <3>2. f[i] = step[i][f[i - 1]]
      BY <1>4, <3>1 DEF Iterates
    <3> QED
      BY <2>2, <3>1, <3>2
  <2> QED
    BY <2>1, <2>2
<1>6. f = [i \in 0 .. k |-> f[i]]
  OBVIOUS
<1>7. Solves(f)
  BY <1>5, <1>6
<1> DEFINE c == CHOOSE g : Solves(g)
<1>8. Solves(c)
  BY <1>7
<1>9. Shifted(n, k) = c[k]
  BY DEF Shifted
<1> HIDE DEF c
<1>10. c[0] = n /\ \A i \in 1 .. k : c[i] = c[i - 1] \div Radix
  BY <1>8
<1>11. c \in [0 .. k -> Nat]
  <2> DEFINE P == {i \in 0 .. k : c[i] \in Nat}
  <2>1. 0 \in P
    BY <1>10
  <2>2. ASSUME NEW i \in 1 .. k, i - 1 \in P PROVE i \in P
    <3>1. c[i] = c[i - 1] \div Radix /\ c[i - 1] \in Nat
      BY <1>10, <2>2
    <3>2. c[i] \in Nat
      BY <1>2, <3>1
    <3> QED
      BY <3>2
  <2>3. \A i \in 0 .. k : i \in P
    <3> HIDE DEF P
    <3> QED
      BY <2>1, <2>2, Induction
  <2>4. c = [i \in 0 .. k |-> c[i]]
    BY <1>8
  <2> QED
    BY <2>3, <2>4
<1> QED
  BY <1>9, <1>10, <1>11

LEMMA ShiftedStep ==
  ASSUME NEW n \in Nat, NEW k \in Nat
  PROVE  /\ Shifted(n, 0) = n
         /\ Shifted(n, k) \in Nat
         /\ Shifted(n, k + 1) = Shifted(n, k) \div Radix
<1>1. Shifted(n, 0) = n
  BY ShiftedIs
<1>2. PICK f : /\ f \in [0 .. k -> Nat]
               /\ f[0] = n /\ \A i \in 1 .. k : f[i] = f[i - 1] \div Radix
               /\ Shifted(n, k) = f[k]
  BY ShiftedIs
<1>3. PICK g : /\ g \in [0 .. (k + 1) -> Nat]
               /\ g[0] = n /\ \A i \in 1 .. (k + 1) : g[i] = g[i - 1] \div Radix
               /\ Shifted(n, k + 1) = g[k + 1]
  <2>1. k + 1 \in Nat
    OBVIOUS
  <2> QED
    BY <2>1, ShiftedIs
<1> DEFINE P == {i \in 0 .. k : f[i] = g[i]}
<1>4. 0 \in P
  BY <1>2, <1>3
<1>5. \A i \in 1 .. k : i - 1 \in P => i \in P
  BY <1>2, <1>3
<1>6. \A i \in 0 .. k : i \in P
  <2> HIDE DEF P
  <2> QED
    BY <1>4, <1>5, Induction
<1>7. f[k] = g[k] /\ k \in 0 .. k
  BY <1>6
<1> QED
  BY <1>1, <1>2, <1>3, <1>7

LEMMA BigEndianIs ==
  ASSUME NEW n \in Nat, NEW len \in Nat
  PROVE  /\ BigEndian(n, len) \in Seq(Byte) /\ Len(BigEndian(n, len)) = len
         /\ \A k \in 1 .. len : BigEndian(n, len)[k] = <<"byte", Shifted(n, len - k) % Radix>>
<1>1. Radix \in Nat \ {0}
  BY ProtocolAssumption
<1>2. ASSUME NEW k \in 1 .. len PROVE <<"byte", Shifted(n, len - k) % Radix>> \in Byte
  <2>1. Shifted(n, len - k) \in Nat
    <3>1. len - k \in Nat
      OBVIOUS
    <3> QED
      BY <3>1, ShiftedStep
  <2>2. Shifted(n, len - k) % Radix \in Nat
    BY <1>1, <2>1
  <2> QED
    BY <2>2 DEF Byte
<1>3. BigEndian(n, len) = [k \in 1 .. len |-> <<"byte", Shifted(n, len - k) % Radix>>]
  BY DEF BigEndian
<1>4. BigEndian(n, len) \in [1 .. len -> Byte]
  BY <1>2, <1>3
<1>5. BigEndian(n, len) \in Seq(Byte) /\ Len(BigEndian(n, len)) = len
  BY ONLY <1>4, len \in Nat
<1> QED
  BY <1>3, <1>5

LEMMA FromBigEndianIs ==
  ASSUME NEW s \in Seq(Byte)
  PROVE  \E v : /\ v \in [0 .. Len(s) -> Nat]
                /\ v[0] = 0 /\ \A k \in 1 .. Len(s) : v[k] = v[k - 1] * Radix + s[k][2]
                /\ FromBigEndian(s) = v[Len(s)]
<1> DEFINE n == Len(s)
           Solves(v) == v = [k \in 0 .. Len(s) |-> IF k = 0 THEN 0 ELSE v[k - 1] * Radix + s[k][2]]
           step == [k \in 1 .. n |-> [x \in Nat |-> x * Radix + s[k][2]]]
<1>1. Radix \in Nat \ {0}
  BY ProtocolAssumption
<1>2. n \in Nat /\ \A k \in 1 .. n : s[k][2] \in Nat
  BY DEF Byte
<1>3. \A k \in 1 .. n : \A x \in Nat : x * Radix + s[k][2] \in Nat
  BY <1>1, <1>2
<1>4. step \in [1 .. n -> [Nat -> Nat]]
  BY <1>3
<1>5. PICK f \in [0 .. n -> Nat] : Iterates(f, n, 0, step)
  <2> HIDE DEF step, n
  <2> QED
    BY ONLY <1>2, <1>4, 0 \in Nat, IterationExists
<1>6. \A k \in 0 .. n : f[k] = IF k = 0 THEN 0 ELSE f[k - 1] * Radix + s[k][2]
  <2> TAKE k \in 0 .. n
  <2>1. CASE k = 0
    BY <1>5, <2>1 DEF Iterates
  <2>2. CASE k # 0
    <3>1. k \in 1 .. n /\ f[k - 1] \in Nat
      BY <1>2, <2>2, SMTT(20)
    <3>2. f[k] = step[k][f[k - 1]]
      BY <1>5, <3>1 DEF Iterates
    <3> QED
      BY <2>2, <3>1, <3>2
  <2> QED
    BY <2>1, <2>2
<1>7. f = [k \in 0 .. n |-> f[k]]
  OBVIOUS
<1>8. Solves(f)
  BY <1>6, <1>7
<1> DEFINE c == CHOOSE v : Solves(v)
<1>9. Solves(c)
  BY <1>8
<1>10. FromBigEndian(s) = c[n]
  BY DEF FromBigEndian
<1> HIDE DEF c
<1>11. c[0] = 0 /\ \A k \in 1 .. n : c[k] = c[k - 1] * Radix + s[k][2]
  BY <1>2, <1>9
<1>12. c \in [0 .. n -> Nat]
  <2> DEFINE P == {k \in 0 .. n : c[k] \in Nat}
  <2>1. 0 \in P
    BY <1>2, <1>11
  <2>2. ASSUME NEW k \in 1 .. n, k - 1 \in P PROVE k \in P
    <3>1. c[k] = c[k - 1] * Radix + s[k][2] /\ c[k - 1] \in Nat
      BY <1>11, <2>2
    <3>2. c[k] \in Nat
      BY <1>3, <3>1
    <3> QED
      BY <3>2
  <2>3. \A k \in 0 .. n : k \in P
    <3> HIDE DEF P, n
    <3> QED
      BY <1>2, <2>1, <2>2, Induction
  <2>4. c = [k \in 0 .. n |-> c[k]]
    BY <1>9
  <2> QED
    BY <2>3, <2>4
<1> QED
  BY <1>10, <1>11, <1>12

\* A number that fits is read as it was written.
LEMMA NumberRead ==
  ASSUME NEW n \in Nat, NEW len \in Nat, FitsIn(n, len)
  PROVE  FromBigEndian(BigEndian(n, len)) = n
<1> DEFINE s == BigEndian(n, len)
<1>1. /\ s \in Seq(Byte) /\ Len(s) = len
      /\ \A k \in 1 .. len : s[k] = <<"byte", Shifted(n, len - k) % Radix>>
  BY BigEndianIs
<1> HIDE DEF s
<1>2. PICK v : /\ v \in [0 .. Len(s) -> Nat]
               /\ v[0] = 0 /\ \A k \in 1 .. Len(s) : v[k] = v[k - 1] * Radix + s[k][2]
               /\ FromBigEndian(s) = v[Len(s)]
  BY <1>1, FromBigEndianIs
<1> DEFINE P == {k \in 0 .. len : v[k] = Shifted(n, len - k)}
<1>3. 0 \in P
  <2>1. Shifted(n, len - 0) = 0 /\ len - 0 = len
    BY DEF FitsIn
  <2> QED
    BY <1>2, <2>1
<1>4. ASSUME NEW k \in 1 .. len, k - 1 \in P PROVE k \in P
  <2> DEFINE q == Shifted(n, len - k)
             left == Shifted(n, (len - k) + 1)
  <2>1. len - k \in Nat /\ (len - k) + 1 = len - (k - 1)
    OBVIOUS
  <2>2. q \in Nat /\ left = q \div Radix
    BY <2>1, ShiftedStep
  <2>3. v[k - 1] = left
    BY <1>4, <2>1
  <2>4. v[k] = v[k - 1] * Radix + (q % Radix)
    BY <1>1, <1>2
  <2> HIDE DEF q, left
  <2>5. Radix \in Nat \ {0}
    BY ProtocolAssumption
  <2>6. q = (q \div Radix) * Radix + (q % Radix)
    BY <2>2, <2>5
  <2>7. v[k] = q
    BY ONLY <2>2, <2>3, <2>4, <2>6
  <2> QED
    BY <2>7 DEF q
<1>5. \A k \in 0 .. len : k \in P
  <2> HIDE DEF P
  <2> QED
    BY <1>3, <1>4, Induction
<1>6. v[len] = Shifted(n, len - len) /\ len - len = 0
  BY <1>5
<1> QED
  BY <1>1, <1>2, <1>6, ShiftedStep DEF s

LEMMA NumberIs ==
  ASSUME NEW s \in Seq(Byte)
  PROVE  FromBigEndian(s) \in Nat
BY FromBigEndianIs

-------------------------------------------------------------------------------
(* Pieces of sequences. *)

Grouped(a, b, c) == (a \o b) \o c = a \o (b \o c)

LEMMA Group ==
  ASSUME NEW S, NEW a \in Seq(S), NEW b \in Seq(S), NEW c \in Seq(S)
  PROVE  Grouped(a, b, c)
BY ConcatAssociative, SMTT(30) DEF Grouped

LEMMA PieceIs ==
  ASSUME NEW S, NEW a \in Seq(S), NEW b \in Seq(S), NEW c \in Seq(S)
  PROVE  SubSeq((a \o b) \o c, Len(a) + 1, Len(a) + Len(b)) = b
<1> DEFINE ab == a \o b
           s == ab \o c
           u == SubSeq(s, Len(a) + 1, Len(a) + Len(b))
<1>1. Len(a) \in Nat /\ Len(b) \in Nat /\ Len(c) \in Nat
  OBVIOUS
<1>2. /\ ab \in Seq(S) /\ Len(ab) = Len(a) + Len(b)
      /\ \A i \in 1 .. Len(a) + Len(b) : ab[i] = IF i <= Len(a) THEN a[i] ELSE b[i - Len(a)]
  BY ConcatProperties
<1> HIDE DEF ab
<1>3. /\ s \in Seq(S) /\ Len(s) = Len(ab) + Len(c)
      /\ \A i \in 1 .. Len(ab) + Len(c) : s[i] = IF i <= Len(ab) THEN ab[i] ELSE c[i - Len(ab)]
  <2>1. ab \in Seq(S) /\ c \in Seq(S)
    BY <1>2
  <2>2. /\ ab \o c \in Seq(S) /\ Len(ab \o c) = Len(ab) + Len(c)
        /\ \A i \in 1 .. Len(ab) + Len(c) :
             (ab \o c)[i] = IF i <= Len(ab) THEN ab[i] ELSE c[i - Len(ab)]
    BY ONLY <2>1, ConcatProperties
  <2> QED
    BY <2>2
<1> HIDE DEF s
<1>4. ASSUME NEW i \in Len(a) + 1 .. Len(a) + Len(b) PROVE s[i] = b[i - Len(a)] /\ s[i] \in S
  <2>1. i \in 1 .. Len(a) + Len(b) /\ i \in 1 .. Len(ab) + Len(c) /\ ~(i <= Len(a)) /\ i <= Len(ab)
        /\ i - Len(a) \in 1 .. Len(b)
    BY <1>1, <1>2
  <2>2. s[i] = b[i - Len(a)]
    BY <1>2, <1>3, <2>1
  <2> QED
    BY <2>1, <2>2
<1> DEFINE m == Len(a) + 1
           n == Len(a) + Len(b)
<1>5. m \in Int /\ n \in Int /\ \A i \in m .. n : s[i] \in S
  BY <1>1, <1>4
<1>6. /\ SubSeq(s, m, n) \in Seq(S)
      /\ Len(SubSeq(s, m, n)) = IF m <= n THEN n - m + 1 ELSE 0
      /\ \A i \in 1 .. n - m + 1 : SubSeq(s, m, n)[i] = s[m + i - 1]
  <2> HIDE DEF m, n
  <2> QED
    BY ONLY <1>5, SubSeqProperties, SMTT(20)
<1>7. u \in Seq(S) /\ Len(u) = Len(b)
  BY <1>1, <1>6
<1>8. ASSUME NEW i \in 1 .. Len(b) PROVE u[i] = b[i]
  <2>1. i \in 1 .. n - m + 1 /\ m + i - 1 \in Len(a) + 1 .. Len(a) + Len(b)
        /\ (m + i - 1) - Len(a) = i
    BY <1>1
  <2>2. u[i] = s[m + i - 1]
    BY <1>6, <2>1
  <2>3. s[m + i - 1] = b[(m + i - 1) - Len(a)]
    BY <1>4, <2>1
  <2> QED
    BY <2>1, <2>2, <2>3
<1> HIDE DEF u
<1>9. u = b
  BY ONLY <1>7, <1>8, b \in Seq(S), SeqEqual
<1> QED
  BY <1>9 DEF u, s, ab

LEMMA EndsAre ==
  ASSUME NEW S, NEW a \in Seq(S), NEW b \in Seq(S)
  PROVE  /\ a \o b \in Seq(S) /\ Len(a \o b) = Len(a) + Len(b)
         /\ SubSeq(a \o b, 1, Len(a)) = a
         /\ SubSeq(a \o b, Len(a) + 1, Len(a) + Len(b)) = b
<1> DEFINE s == a \o b
           none == << >>
<1>1. s \in Seq(S) /\ Len(s) = Len(a) + Len(b)
  BY ConcatProperties
<1> HIDE DEF s
<1>2. none \in Seq(S) /\ Len(none) = 0 /\ Len(a) \in Nat /\ Len(b) \in Nat
  OBVIOUS
<1>3. none \o a = a /\ s \o none = s
  BY <1>1, ConcatEmptySeq
<1> HIDE DEF none
<1>4. SubSeq((none \o a) \o b, Len(none) + 1, Len(none) + Len(a)) = a
  BY ONLY <1>2, a \in Seq(S), b \in Seq(S), PieceIs
<1>5. SubSeq((a \o b) \o none, Len(a) + 1, Len(a) + Len(b)) = b
  BY ONLY <1>2, a \in Seq(S), b \in Seq(S), PieceIs
<1>6. Len(none) + 1 = 1 /\ Len(none) + Len(a) = Len(a)
  BY <1>2
<1>7. SubSeq(s, 1, Len(a)) = a
  BY <1>3, <1>4, <1>6 DEF s
<1>8. SubSeq(s, Len(a) + 1, Len(a) + Len(b)) = b
  BY <1>3, <1>5 DEF s
<1> QED
  BY <1>1, <1>7, <1>8 DEF s

\* Where a byte is first found, and what is on both sides of it.
LEMMA AtIs ==
  ASSUME NEW S, NEW s \in Seq(S), NEW c
  PROVE  /\ At(s, c) \in 1 .. Len(s) + 1
         /\ Before(s, c) \in Seq(S) /\ After(s, c) \in Seq(S)
<1> DEFINE found == {k \in DOMAIN s : s[k] = c} \cup {Len(s) + 1}
           m == At(s, c)
<1>1. Len(s) \in Nat /\ DOMAIN s = 1 .. Len(s)
  OBVIOUS
<1>2. found \in SUBSET Nat /\ found # {}
  BY <1>1
<1>3. \E k \in found : \A j \in found : k <= j
  <2> HIDE DEF found
  <2> QED
    BY <1>2, Least
<1>4. m \in found
  BY <1>3 DEF At, Min
<1>5. m \in 1 .. Len(s) + 1
  BY <1>1, <1>4
<1> HIDE DEF m
<1>6. SubSeq(s, 1, m - 1) \in Seq(S)
  <2>1. m - 1 \in 0 .. Len(s)
    BY <1>1, <1>5
  <2> QED
    BY <2>1, CutIs
<1>7. SubSeq(s, m + 1, Len(s)) \in Seq(S)
  <2> DEFINE n == m + 1
  <2>1. n \in Int /\ Len(s) \in Int /\ \A i \in n .. Len(s) : s[i] \in S
    BY <1>1, <1>5
  <2> HIDE DEF n
  <2>2. /\ SubSeq(s, n, Len(s)) \in Seq(S)
        /\ Len(SubSeq(s, n, Len(s))) = IF n <= Len(s) THEN Len(s) - n + 1 ELSE 0
        /\ \A i \in 1 .. Len(s) - n + 1 : SubSeq(s, n, Len(s))[i] = s[n + i - 1]
    BY ONLY <2>1, SubSeqProperties
  <2> QED
    BY <2>2 DEF n
<1> QED
  BY <1>5, <1>6, <1>7 DEF m, Before, After

Splits(w, c, s, t) ==
  /\ At(w, c) = Len(s) + 1
  /\ Len(w) = (Len(s) + 1) + Len(t)
  /\ Before(w, c) = s
  /\ After(w, c) = t

LEMMA SplitAt ==
  ASSUME NEW S, NEW c \in S, NEW s \in Seq(S \ {c}), NEW t \in Seq(S),
         NEW w, w = (s \o <<c>>) \o t
  PROVE  w \in Seq(S) /\ Splits(w, c, s, t)
<1> DEFINE one == <<c>>
           a == s \o one
           m == At(w, c)
           found == {k \in DOMAIN w : w[k] = c} \cup {Len(w) + 1}
<1>1. s \in Seq(S) /\ Len(s) \in Nat /\ Len(t) \in Nat
  <2>1. S \ {c} \subseteq S
    OBVIOUS
  <2>2. s \in Seq(S)
    BY <2>1, SeqMonotonic
  <2> QED
    BY <2>2
<1>2. one \in Seq(S) /\ Len(one) = 1 /\ one[1] = c
  OBVIOUS
<1> HIDE DEF one
<1>3. /\ a \in Seq(S) /\ Len(a) = Len(s) + 1
      /\ \A i \in 1 .. Len(s) + 1 : a[i] = IF i <= Len(s) THEN s[i] ELSE one[i - Len(s)]
  <2>1. /\ s \o one \in Seq(S)
        /\ Len(s \o one) = Len(s) + Len(one)
        /\ \A i \in 1 .. Len(s) + Len(one) : (s \o one)[i] =
                    IF i <= Len(s) THEN s[i] ELSE one[i - Len(s)]
    BY ONLY <1>1, <1>2, ConcatProperties
  <2> QED
    BY <1>2, <2>1
<1> HIDE DEF a
<1>4. /\ w \in Seq(S) /\ Len(w) = Len(a) + Len(t)
      /\ \A i \in 1 .. Len(a) + Len(t) : w[i] = IF i <= Len(a) THEN a[i] ELSE t[i - Len(a)]
  <2>1. w = a \o t
    BY DEF a, one
  <2> QED
    BY <1>3, <2>1, ConcatProperties
<1>5. ASSUME NEW i \in 1 .. Len(s) PROVE w[i] = s[i] /\ w[i] # c
  <2>1. i \in 1 .. Len(s) + 1 /\ i \in 1 .. Len(a) + Len(t) /\ i <= Len(a) /\ i <= Len(s)
    BY <1>1, <1>3
  <2>2. w[i] = s[i]
    BY <1>3, <1>4, <2>1
  <2>3. s[i] \in S \ {c}
    OBVIOUS
  <2> QED
    BY <2>2, <2>3
<1>6. w[Len(s) + 1] = c /\ Len(s) + 1 \in 1 .. Len(w)
  <2> DEFINE i == Len(s) + 1
  <2>1. i \in 1 .. Len(s) + 1 /\ i \in 1 .. Len(a) + Len(t) /\ i <= Len(a) /\ ~(i <= Len(s))
        /\ i - Len(s) = 1 /\ i \in 1 .. Len(w)
    BY <1>1, <1>3, <1>4
  <2>2. w[i] = one[1]
    BY <1>3, <1>4, <2>1
  <2> QED
    BY <1>2, <2>1, <2>2
<1>7. DOMAIN w = 1 .. Len(w) /\ Len(w) \in Nat
  BY <1>4
<1>8. Len(s) + 1 \in found /\ \A k \in found : Len(s) + 1 <= k
  <2>1. Len(s) + 1 \in found
    BY <1>6, <1>7
  <2>2. ASSUME NEW k \in 1 .. Len(w), w[k] = c PROVE Len(s) + 1 <= k
    <3> SUFFICES ASSUME ~(Len(s) + 1 <= k) PROVE FALSE
      OBVIOUS
    <3>1. k \in 1 .. Len(s)
      BY <1>1, <1>7
    <3> QED
      BY <1>5, <2>2, <3>1
  <2>3. Len(s) + 1 <= Len(w) + 1
    BY <1>1, <1>6, <1>7
  <2> QED
    BY <1>7, <2>1, <2>2, <2>3
<1>9. m \in found /\ \A k \in found : m <= k
  <2>1. m = CHOOSE k \in found : \A j \in found : k <= j
    BY DEF At, Min
  <2> HIDE DEF found, m
  <2>2. \E k \in found : \A j \in found : k <= j
    BY <1>8
  <2> QED
    BY <2>1, <2>2
<1>10. m = Len(s) + 1
  <2>1. m \in Nat
    BY <1>7, <1>9
  <2>2. m <= Len(s) + 1 /\ Len(s) + 1 <= m
    BY <1>8, <1>9
  <2> QED
    BY <1>1, <2>1, <2>2
<1>11. SubSeq(w, 1, m - 1) = s
  <2>1. m - 1 = Len(s)
    BY <1>1, <1>10
  <2> DEFINE b == one \o t
  <2>2. b \in Seq(S)
    BY <1>2, ConcatProperties
  <2>3. w = s \o b
    BY <1>1, <1>2, ConcatAssociative DEF a, one
  <2> HIDE DEF b
  <2>4. SubSeq(s \o b, 1, Len(s)) = s
    BY ONLY <1>1, <2>2, EndsAre
  <2> QED
    BY <2>1, <2>3, <2>4
<1>12. SubSeq(w, m + 1, Len(w)) = t
  <2>1. SubSeq(a \o t, Len(a) + 1, Len(a) + Len(t)) = t
    BY ONLY <1>3, t \in Seq(S), EndsAre
  <2>2. m + 1 = Len(a) + 1
    BY <1>3, <1>10
  <2> QED
    BY <1>4, <2>1, <2>2 DEF a, one
<1>13. Len(w) = (Len(s) + 1) + Len(t)
  BY <1>3, <1>4
<1>14. Before(w, c) = s /\ After(w, c) = t
  BY <1>11, <1>12 DEF Before, After
<1> HIDE DEF m
<1> QED
  BY <1>4, <1>10, <1>13, <1>14 DEF m, Splits


-------------------------------------------------------------------------------
(* Messages. *)

LEMMA Characters ==
  /\ Space \in Byte /\ Newline \in Byte /\ NUL \in Byte /\ Char("junk") \in Byte
  /\ Space # Newline /\ Space # NUL /\ Newline # NUL
BY DEF Byte, Space, Newline, NUL, Char

LEMMA PlainIs ==
  ASSUME NEW s, Plain(s)
  PROVE  /\ s \in Seq(Byte)
         /\ s \in Seq(Byte \ {Space}) /\ s \in Seq(Byte \ {Newline}) /\ s \in Seq(Byte \ {NUL})
<1> DEFINE quiet == Byte \ {Space, Newline, NUL}
<1>1. /\ quiet \subseteq Byte /\ quiet \subseteq Byte \ {Space}
      /\ quiet \subseteq Byte \ {Newline} /\ quiet \subseteq Byte \ {NUL}
  OBVIOUS
<1>2. s \in Seq(quiet)
  BY DEF Plain
<1> HIDE DEF quiet
<1> QED
  BY <1>1, <1>2, SeqMonotonic

(***************************************************************************)
(* What nsq_decode_message finds in a frame is what nsqd put there.        *)
(***************************************************************************)
LEMMA MessageRead ==
  ASSUME NEW m \in Message, NEW junk \in {NUL, Char("junk")}
  PROVE  LET msg == nsq_reader_msg_cb(nsq_decode_message(MessageData(m), junk))
         IN  /\ CString(msg.id) = m.id
             /\ [msg EXCEPT !.id = m.id] = m
<1> DEFINE a == BigEndian(m.timestamp, TimestampLength)
           b == BigEndian(m.attempts, AttemptsLength)
           ab == a \o b
           abi == ab \o m.id
           data == abi \o m.body
           decoded == nsq_decode_message(data, junk)
           msg == nsq_reader_msg_cb(decoded)
<1>1. /\ m \in [timestamp : Nat, attempts : Nat, id : Seq(Byte), body : Seq(Byte)]
      /\ FitsIn(m.timestamp, TimestampLength) /\ FitsIn(m.attempts, AttemptsLength)
      /\ Plain(m.id) /\ Len(m.id) = IdLength
  BY MessageAssumption
<1>2. /\ m.timestamp \in Nat /\ m.attempts \in Nat /\ m.id \in Seq(Byte) /\ m.body \in Seq(Byte)
      /\ TimestampLength \in Nat /\ AttemptsLength \in Nat /\ IdLength \in Nat
  BY <1>1, ProtocolAssumption
<1>3. a \in Seq(Byte) /\ Len(a) = TimestampLength /\ FromBigEndian(a) = m.timestamp
  BY <1>1, <1>2, BigEndianIs, NumberRead
<1>4. b \in Seq(Byte) /\ Len(b) = AttemptsLength /\ FromBigEndian(b) = m.attempts
  BY <1>1, <1>2, BigEndianIs, NumberRead
<1>5. junk \in Byte /\ NUL \in Byte
  BY Characters
<1>6. MessageData(m) = data
  BY DEF MessageData
<1> HIDE DEF a, b
<1>7. ab \in Seq(Byte) /\ Len(ab) = TimestampLength + AttemptsLength
  BY <1>3, <1>4, ConcatProperties
<1>8. abi \in Seq(Byte) /\ Len(abi) = TimestampLength + AttemptsLength + IdLength
  <2> HIDE DEF ab
  <2>1. abi \in Seq(Byte) /\ Len(abi) = Len(ab) + Len(m.id)
    BY ONLY <1>2, <1>7, EndsAre
  <2> QED
    BY <1>1, <1>7, <2>1
<1>9. SubSeq(data, 1, TimestampLength) = a
  <2> DEFINE t == b \o (m.id \o m.body)
  <2>1. m.id \o m.body \in Seq(Byte)
    BY <1>2, ConcatProperties
  <2>2. t \in Seq(Byte)
    BY <1>4, <2>1, ConcatProperties
  <2>3. Grouped(ab, m.id, m.body)
    <3> HIDE DEF ab
    <3> QED
      BY ONLY <1>2, <1>7, Group
  <2>4. Grouped(a, b, m.id \o m.body)
    BY ONLY <1>3, <1>4, <2>1, Group
  <2>6. data = a \o t
    BY <2>3, <2>4 DEF Grouped
  <2> HIDE DEF t, data
  <2>5. SubSeq(a \o t, 1, Len(a)) = a
    BY ONLY <1>3, <2>2, EndsAre
  <2> QED
    BY <1>3, <2>5, <2>6
<1>10. SubSeq(data, TimestampLength + 1, TimestampLength + AttemptsLength) = b
  <2> DEFINE t == m.id \o m.body
  <2>1. t \in Seq(Byte)
    BY <1>2, ConcatProperties
  <2>2. Grouped(ab, m.id, m.body)
    <3> HIDE DEF ab
    <3> QED
      BY ONLY <1>2, <1>7, Group
  <2>3. data = ab \o t
    BY <2>2 DEF Grouped
  <2> HIDE DEF t, data
  <2>4. SubSeq((a \o b) \o t, Len(a) + 1, Len(a) + Len(b)) = b
    BY ONLY <1>3, <1>4, <2>1, PieceIs
  <2> QED
    BY <1>3, <1>4, <2>3, <2>4
<1> DEFINE id_at == TimestampLength + AttemptsLength
<1>11. SubSeq(data, id_at + 1, id_at + IdLength) = m.id
  <2> HIDE DEF ab
  <2>1. SubSeq((ab \o m.id) \o m.body, Len(ab) + 1, Len(ab) + Len(m.id)) = m.id
    BY ONLY <1>2, <1>7, PieceIs
  <2> QED
    BY <1>1, <1>7, <2>1
<1>12. SubSeq(data, id_at + IdLength + 1, Len(data)) = m.body
  <2> DEFINE y == m.body
  <2>1. abi \in Seq(Byte) /\ y \in Seq(Byte)
    BY <1>2, <1>8
  <2> HIDE DEF abi, y
  <2>2. /\ abi \o y \in Seq(Byte) /\ Len(abi \o y) = Len(abi) + Len(y)
        /\ SubSeq(abi \o y, 1, Len(abi)) = abi
        /\ SubSeq(abi \o y, Len(abi) + 1, Len(abi) + Len(y)) = y
    BY ONLY <2>1, EndsAre
  <2> QED
    BY <1>8, <2>2 DEF y
<1> HIDE DEF data
<1>13. decoded = [timestamp |-> m.timestamp, attempts |-> m.attempts,
                  id |-> m.id \o <<junk>>, body |-> m.body]
  BY <1>3, <1>4, <1>9, <1>10, <1>11, <1>12 DEF nsq_decode_message
<1>14. msg = [timestamp |-> m.timestamp, attempts |-> m.attempts,
              id |-> m.id \o <<NUL>>, body |-> m.body]
  <2> DEFINE open == m.id \o <<junk>>
             closed == m.id \o <<NUL>>
  <2>1. <<junk>> \in Seq(Byte) /\ <<NUL>> \in Seq(Byte) /\ Len(<<junk>>) = 1 /\ Len(<<NUL>>) = 1
        /\ <<NUL>>[1] = NUL
    BY <1>5
  <2>2. /\ open \in Seq(Byte) /\ Len(open) = IdLength + 1
        /\ \A i \in 1 .. IdLength : open[i] = m.id[i]
    BY <1>1, <1>2, <2>1, ConcatProperties
  <2>3. /\ closed \in Seq(Byte) /\ Len(closed) = IdLength + 1
        /\ \A i \in 1 .. IdLength : closed[i] = m.id[i]
        /\ closed[IdLength + 1] = NUL
    BY <1>1, <1>2, <2>1, ConcatProperties
  <2> HIDE DEF open, closed
  <2> DEFINE set == [open EXCEPT ![IdLength + 1] = NUL]
  <2>4. /\ set \in Seq(Byte) /\ Len(set) = IdLength + 1
        /\ \A i \in 1 .. IdLength + 1 : set[i] = IF i = IdLength + 1 THEN NUL ELSE open[i]
    <3>1. IdLength + 1 \in 1 .. Len(open)
      BY <1>2, <2>2
    <3>2. /\ set \in Seq(Byte) /\ Len(set) = Len(open)
          /\ \A i \in 1 .. Len(open) : set[i] = IF i = IdLength + 1 THEN NUL ELSE open[i]
      BY ONLY <1>5, <2>2, <3>1, ExceptSeq DEF set
    <3> QED
      BY <2>2, <3>2
  <2> HIDE DEF set
  <2>5. set = closed
    <3>1. \A i \in 1 .. IdLength + 1 : set[i] = closed[i]
      <4> TAKE i \in 1 .. IdLength + 1
      <4>1. CASE i = IdLength + 1
        BY <2>3, <2>4, <4>1
      <4>2. CASE i # IdLength + 1
        <5>1. i \in 1 .. IdLength
          BY <1>2, <4>2
        <5> QED
          BY <2>2, <2>3, <2>4, <4>2, <5>1
      <4> QED
        BY <4>1, <4>2
    <3> QED
      BY ONLY <2>3, <2>4, <3>1, SeqEqual
  <2>6. msg = [decoded EXCEPT !.id = [decoded.id EXCEPT ![IdLength + 1] = NUL]]
    BY DEF nsq_reader_msg_cb
  <2>7. decoded.id = open
    BY <1>13 DEF open
  <2> HIDE DEF msg, decoded
  <2>8. msg = [decoded EXCEPT !.id = closed]
    BY <2>5, <2>6, <2>7 DEF set
  <2> QED
    BY <1>13, <2>8 DEF closed
<1>15. CString(m.id \o <<NUL>>) = m.id
  <2> DEFINE none == << >>
  <2>1. none \in Seq(Byte) /\ m.id \o <<NUL>> \in Seq(Byte)
    BY <1>2, <1>5, ConcatProperties
  <2>2. (m.id \o <<NUL>>) \o none = m.id \o <<NUL>>
    BY <2>1, ConcatEmptySeq
  <2> HIDE DEF none
  <2>3. m.id \in Seq(Byte \ {NUL})
    BY <1>1, PlainIs
  <2> DEFINE w == m.id \o <<NUL>>
  <2>4. w = (m.id \o <<NUL>>) \o none
    BY <2>2
  <2> HIDE DEF w
  <2>5. Splits(w, NUL, m.id, none)
    BY ONLY <1>5, <2>1, <2>3, <2>4, SplitAt
  <2> QED
    BY <2>5 DEF CString, Splits, w
<1>16. m = [timestamp |-> m.timestamp, attempts |-> m.attempts, id |-> m.id, body |-> m.body]
  BY <1>1
<1> HIDE DEF msg
<1>17. CString(msg.id) = m.id
  BY <1>14, <1>15
<1>18. [msg EXCEPT !.id = m.id] = m
  BY <1>14, <1>16
<1> QED
  BY <1>6, <1>17, <1>18 DEF msg

(***************************************************************************)
(* What the handler is given is what nsqd sent, with its id terminated     *)
(* where it should be, of whatever length timestamps, attempts, ids and    *)
(* bodies are (nsq_decode_message and nsq_reader_msg_cb).                  *)
(***************************************************************************)
THEOREM MessagesArrive == Spec => []MessageDecoded
<1>1. Init => MessageDecoded
  BY DEF Init, MessageDecoded
<1>2. MessageDecoded /\ [Next]_vars => MessageDecoded'
  <2> SUFFICES ASSUME MessageDecoded, [Next]_vars PROVE MessageDecoded'
    OBVIOUS
  <2>1. CASE message_handler
    <3>1. PICK m \in Message, junk \in {NUL, Char("junk")}, failed \in BOOLEAN :
            LET msg == nsq_reader_msg_cb(nsq_decode_message(MessageData(m), junk))
            IN  handed' = <<m, [msg EXCEPT !.id = CString(msg.id)]>>
      BY <2>1 DEF message_handler
    <3> DEFINE msg == nsq_reader_msg_cb(nsq_decode_message(MessageData(m), junk))
    <3>2. CString(msg.id) = m.id /\ [msg EXCEPT !.id = m.id] = m
      BY MessageRead
    <3>3. handed' = <<m, m>>
      BY <3>1, <3>2
    <3> QED
      BY <3>3 DEF MessageDecoded
  <2>2. CASE UNCHANGED handed
    BY <2>2 DEF MessageDecoded
  <2> QED
    BY <2>1, <2>2 DEF Next, vars, subscribe, ready, finish, requeue, nop, publish,
       defer_publish, multi_publish, touch, cleanly_close, auth, identify, Compose,
       write_buffer, reset, over
<1> QED
  BY <1>1, <1>2, PTL DEF Spec


-------------------------------------------------------------------------------
(* Reading one item after the other. *)

Taken(last, read) ==
  IF last.rest = << >> THEN last
  ELSE [items |-> Append(last.items, read[last.rest].item), rest |-> read[last.rest].rest]

Reads(read, S, I) == \A x \in Seq(S) : read[x].item \in I /\ read[x].rest \in Seq(S)

\* got is what is read of s, item by item.
Reading(got, s, read) ==
  /\ got[0] = [items |-> << >>, rest |-> s]
  /\ \A k \in 1 .. Len(s) : got[k] = Taken(got[k - 1], read)
  /\ ReadAll(s, read) = got[Len(s)].items

LEMMA ReadAllIs ==
  ASSUME NEW S, NEW I, NEW read, Reads(read, S, I), NEW s \in Seq(S)
  PROVE  \E got \in [0 .. Len(s) -> [items : Seq(I), rest : Seq(S)]] : Reading(got, s, read)
<1> DEFINE n == Len(s)
           T == [items : Seq(I), rest : Seq(S)]
           base == [items |-> << >>, rest |-> s]
           step == [k \in 1 .. n |-> [x \in T |-> Taken(x, read)]]
           Solves(g) == g = [k \in 0 .. Len(s) |->
             IF k = 0 THEN [items |-> << >>, rest |-> s]
             ELSE LET last  == g[k - 1]
                      first == read[last.rest]
                  IN  IF last.rest = << >> THEN last
                      ELSE [items |-> Append(last.items, first.item), rest |-> first.rest]]
<1>1. n \in Nat /\ base \in T
  OBVIOUS
<1>2. \A x \in T : Taken(x, read) \in T
  <2> TAKE x \in T
  <2>1. x.rest \in Seq(S) /\ x.items \in Seq(I)
    OBVIOUS
  <2>2. read[x.rest].item \in I /\ read[x.rest].rest \in Seq(S)
    BY <2>1 DEF Reads
  <2>3. Append(x.items, read[x.rest].item) \in Seq(I)
    BY <2>1, <2>2, AppendProperties
  <2> QED
    BY <2>2, <2>3 DEF Taken
<1>3. step \in [1 .. n -> [T -> T]]
  BY <1>2
<1>4. PICK f \in [0 .. n -> T] : Iterates(f, n, base, step)
  <2> HIDE DEF step, n, T, base
  <2> QED
    BY ONLY <1>1, <1>3, IterationExists
<1>5. f[0] = base /\ \A k \in 1 .. n : f[k] = Taken(f[k - 1], read)
  <2>1. f[0] = base
    BY <1>4 DEF Iterates
  <2>2. ASSUME NEW k \in 1 .. n PROVE f[k] = Taken(f[k - 1], read)
    <3>1. f[k - 1] \in T
      <4>1. k - 1 \in 0 .. n
        BY <1>1
      <4> HIDE DEF T
      <4> QED
        BY <1>4, <4>1
    <3>2. f[k] = step[k][f[k - 1]]
      BY <1>4 DEF Iterates
    <3> HIDE DEF T
    <3> QED
      BY <3>1, <3>2
  <2> QED
    BY <2>1, <2>2
<1>6. \A k \in 0 .. n : f[k] = IF k = 0 THEN base ELSE Taken(f[k - 1], read)
  <2> TAKE k \in 0 .. n
  <2>1. k = 0 \/ k \in 1 .. n
    BY <1>1
  <2> QED
    BY <1>5, <2>1
<1>7. f = [k \in 0 .. n |-> f[k]]
  <2> HIDE DEF T, n
  <2> QED
    OBVIOUS
<1>8. Solves(f)
  BY <1>6, <1>7 DEF Taken
<1> DEFINE c == CHOOSE g : Solves(g)
<1>9. Solves(c)
  BY <1>8
<1>10. ReadAll(s, read) = c[n].items
  BY DEF ReadAll
<1> HIDE DEF c
<1>11. c[0] = base /\ \A k \in 1 .. n : c[k] = Taken(c[k - 1], read)
  <2>1. c = [k \in 0 .. n |-> IF k = 0 THEN base ELSE Taken(c[k - 1], read)]
    BY <1>9 DEF Taken
  <2> HIDE DEF n, base
  <2>2. 0 \in 0 .. n
    BY <1>1
  <2>3. c[0] = base
    BY ONLY <2>1, <2>2
  <2>4. ASSUME NEW k \in 1 .. n PROVE c[k] = Taken(c[k - 1], read)
    <3>1. k \in 0 .. n /\ k # 0
      BY <1>1
    <3> QED
      BY ONLY <2>1, <3>1
  <2> QED
    BY <2>3, <2>4
<1>12. c \in [0 .. n -> T]
  <2> DEFINE P == {k \in 0 .. n : c[k] \in T}
  <2>1. 0 \in P
    <3> HIDE DEF T, base
    <3> QED
      BY <1>1, <1>11
  <2>2. ASSUME NEW k \in 1 .. n, k - 1 \in P PROVE k \in P
    <3> HIDE DEF T
    <3> QED
      BY <1>2, <1>11, <2>2
  <2>3. \A k \in 0 .. n : k \in P
    <3> HIDE DEF P, n
    <3> QED
      BY <1>1, <2>1, <2>2, Induction
  <2>4. c = [k \in 0 .. n |-> c[k]]
    <3> HIDE DEF T
    <3> QED
      BY <1>9
  <2> HIDE DEF T
  <2> QED
    BY <2>3, <2>4
<1>13. Reading(c, s, read)
  BY <1>10, <1>11 DEF Reading
<1> QED
  BY <1>12, <1>13

\* read takes the item off its code, whatever follows.
Codes(read, S, codes, items) ==
  \A i \in 1 .. Len(codes) :
    /\ codes[i] # << >>
    /\ \A t \in Seq(S) : read[codes[i] \o t].item = items[i] /\ read[codes[i] \o t].rest = t

LEMMA FlattenIn ==
  ASSUME NEW S, NEW ss \in Seq(Seq(S))
  PROVE  FlattenSeq(ss) \in Seq(S)
<1>1. << >> \in Seq(S)
  OBVIOUS
<1> QED
  BY <1>1, FlattenAppend

LEMMA CutNext ==
  ASSUME NEW S, NEW s \in Seq(S), NEW k \in 1 .. Len(s)
  PROVE  /\ SubSeq(s, 1, k - 1) \in Seq(S) /\ SubSeq(s, 1, k) \in Seq(S)
         /\ SubSeq(s, 1, k) = Append(SubSeq(s, 1, k - 1), s[k])
<1>1. k \in 0 .. Len(s) /\ k - 1 \in 0 .. Len(s)
  OBVIOUS
<1>2. SubSeq(s, 1, k - 1) \in Seq(S) /\ SubSeq(s, 1, k) \in Seq(S)
  BY <1>1, CutIs
<1>3. 1 \in 1 .. Len(s) /\ k \in 1 .. Len(s) /\ s[k] \in S
  OBVIOUS
<1>4. SubSeq(s, 1, k) = SubSeq(s, 1, k - 1) \o << s[k] >>
  BY <1>3, SubSeqRecursiveSecond
<1>5. Append(SubSeq(s, 1, k - 1), s[k]) = SubSeq(s, 1, k - 1) \o << s[k] >>
  BY ONLY <1>2, <1>3, AppendIsConcat
<1> QED
  BY <1>2, <1>4, <1>5


LEMMA SameFront ==
  ASSUME NEW S, NEW a \in Seq(S), NEW b \in Seq(S), NEW c \in Seq(S), a \o b = a \o c
  PROVE  b = c
BY ConcatSimplifications

LEMMA PrefixRest ==
  ASSUME NEW S, NEW s \in Seq(S), NEW t \in Seq(S), IsPrefix(s, t)
  PROVE  \E u \in Seq(S) : t = s \o u
<1>1. Len(s) \in 0 .. Len(t) /\ s = SubSeq(t, 1, Len(s))
  BY DEF IsPrefix
<1> DEFINE n == Len(s)
           u == SubSeq(t, n + 1, Len(t))
<1>2. u \in Seq(S) /\ SubSeq(t, 1, n) \o u = t
  <2> HIDE DEF n
  <2> QED
    BY <1>1, CutIs DEF n
<1> QED
  BY <1>1, <1>2

LEMMA FlattenBegins ==
  ASSUME NEW S, NEW ss \in Seq(Seq(S)), NEW k \in 0 .. Len(ss)
  PROVE  \E u \in Seq(S) : FlattenSeq(ss) = FlattenSeq(SubSeq(ss, 1, k)) \o u
<1> DEFINE b == SubSeq(ss, 1, k)
<1>1. b \in Seq(Seq(S)) /\ Len(b) = k /\ \A i \in 1 .. k : b[i] = ss[i]
  BY CutIs
<1> HIDE DEF b
<1>2. IsPrefix(b, ss)
  <2> DEFINE n == Len(ss)
  <2>1. n \in Nat
    OBVIOUS
  <2>2. k \in 0 .. n
    OBVIOUS
  <2> HIDE DEF n
  <2>3. k <= n
    BY ONLY <2>1, <2>2
  <2>4. Len(b) <= Len(ss)
    BY <1>1, <2>3 DEF n
  <2>5. \A i \in 1 .. Len(b) : b[i] = ss[i]
    BY ONLY <1>1
  <2>6. ss \in Seq(Seq(S))
    OBVIOUS
  <2> QED
    BY ONLY <1>1, <2>4, <2>5, <2>6, PrefixIs
<1>3. IsPrefix(FlattenSeq(b), FlattenSeq(ss))
  BY <1>1, <1>2, FlattenPrefix
<1> DEFINE x == FlattenSeq(b)
           y == FlattenSeq(ss)
<1>4. x \in Seq(S) /\ y \in Seq(S)
  BY <1>1, FlattenIn
<1> HIDE DEF x, y
<1>5. IsPrefix(x, y)
  BY <1>3 DEF x, y
<1>6. \E u \in Seq(S) : y = x \o u
  BY ONLY <1>4, <1>5, PrefixRest
<1> QED
  BY <1>6 DEF x, y, b

LEMMA FlattenNext ==
  ASSUME NEW S, NEW ss \in Seq(Seq(S)), NEW k \in 1 .. Len(ss)
  PROVE  FlattenSeq(SubSeq(ss, 1, k)) = FlattenSeq(SubSeq(ss, 1, k - 1)) \o ss[k]
<1> DEFINE b == SubSeq(ss, 1, k - 1)
<1>1. b \in Seq(Seq(S)) /\ SubSeq(ss, 1, k) = Append(b, ss[k])
  <2> DEFINE T == Seq(S)
  <2>1. ss \in Seq(T)
    OBVIOUS
  <2> HIDE DEF T
  <2>2. /\ SubSeq(ss, 1, k - 1) \in Seq(T) /\ SubSeq(ss, 1, k) \in Seq(T)
        /\ SubSeq(ss, 1, k) = Append(SubSeq(ss, 1, k - 1), ss[k])
    BY <2>1, CutNext
  <2> QED
    BY <2>2 DEF T
<1>2. ss[k] \in Seq(S)
  OBVIOUS
<1> HIDE DEF b
<1>3. FlattenSeq(Append(b, ss[k])) = FlattenSeq(b) \o ss[k]
  BY <1>1, <1>2, FlattenAppend
<1> QED
  BY <1>1, <1>3 DEF b

(***************************************************************************)
(* Items written one after the other are read one after the other,         *)
(* whatever comes behind them; and nothing else is when nothing does.      *)
(***************************************************************************)
LEMMA AllRead ==
  ASSUME NEW S, NEW I, NEW read, Reads(read, S, I),
         NEW codes \in Seq(Seq(S)), NEW items \in Seq(I), Len(items) = Len(codes),
         Codes(read, S, codes, items), NEW t \in Seq(S)
  PROVE  /\ IsPrefix(items, ReadAll(FlattenSeq(codes) \o t, read))
         /\ t = << >> => ReadAll(FlattenSeq(codes) \o t, read) = items
<1> DEFINE n == Len(codes)
           all == FlattenSeq(codes)
           s == all \o t
           A(k) == FlattenSeq(SubSeq(codes, 1, k))
<1>1. n \in Nat /\ all \in Seq(S) /\ Len(items) = n
  BY FlattenIn
<1>2. \A k \in 0 .. n : A(k) \in Seq(S)
  <2> TAKE k \in 0 .. n
  <2>1. SubSeq(codes, 1, k) \in Seq(Seq(S))
    BY CutIs
  <2> QED
    BY <2>1, FlattenIn
<1>3. A(0) = << >> /\ A(n) = all
  <2>1. SubSeq(codes, 1, 0) = << >>
    BY 1 \in Int, 0 \in Int, 0 < 1, SubSeqEmpty
  <2>2. SubSeq(codes, 1, n) = codes
    BY SubSeqFull
  <2> QED
    BY <2>1, <2>2, FlattenEmpty
<1>4. ASSUME NEW k \in 1 .. n
      PROVE  A(k) = A(k - 1) \o codes[k] /\ codes[k] \in Seq(S) /\ codes[k] # << >>
  <2>1. A(k) = A(k - 1) \o codes[k]
    BY FlattenNext
  <2>2. codes[k] \in Seq(S)
    OBVIOUS
  <2>3. codes[k] # << >>
    BY DEF Codes
  <2> QED
    BY <2>1, <2>2, <2>3
<1>5. \A k \in 0 .. n : \E u \in Seq(S) : all = A(k) \o u
  BY FlattenBegins
<1> HIDE DEF A, all, n
<1>6. s \in Seq(S) /\ Len(s) \in Nat /\ Len(s) = Len(all) + Len(t) /\ Len(t) \in Nat
  BY <1>1, ConcatProperties
<1>7. n <= Len(s)
  <2> DEFINE P == {k \in 0 .. n : Len(A(k)) >= k}
  <2>1. 0 \in P
    BY <1>1, <1>3
  <2>2. ASSUME NEW k \in 1 .. n, k - 1 \in P PROVE k \in P
    <3>1. Len(A(k - 1)) >= k - 1 /\ k - 1 \in 0 .. n
      BY <2>2
    <3>2. A(k - 1) \in Seq(S) /\ codes[k] \in Seq(S) /\ codes[k] # << >>
      BY <1>2, <1>4, <3>1
    <3>3. Len(A(k)) = Len(A(k - 1)) + Len(codes[k])
      BY <1>4, <3>2, ConcatProperties, ZenonT(40)
    <3>4. Len(codes[k]) \in Nat \ {0} /\ Len(A(k - 1)) \in Nat
      BY <3>2, EmptySeq
    <3>5. Len(A(k)) >= k
      <4> DEFINE x == Len(A(k - 1))
                 y == Len(codes[k])
                 z == Len(A(k))
      <4>1. z = x + y /\ y \in Nat \ {0} /\ x \in Nat /\ x >= k - 1 /\ k \in Nat
        BY <1>1, <3>1, <3>3, <3>4
      <4> HIDE DEF x, y, z
      <4>2. z >= k
        BY ONLY <4>1
      <4> QED
        BY <4>2 DEF z
    <3> QED
      BY <1>1, <3>5
  <2>3. \A k \in 0 .. n : k \in P
    <3> HIDE DEF P
    <3> QED
      BY <1>1, <2>1, <2>2, Induction
  <2>4. Len(A(n)) >= n
    BY <1>1, <2>3
  <2>5. Len(all) \in Nat
    BY <1>1
  <2> QED
    BY <1>1, <1>3, <1>6, <2>4, <2>5
<1> HIDE DEF s
<1>8. PICK got : /\ got \in [0 .. Len(s) -> [items : Seq(I), rest : Seq(S)]]
                 /\ got[0] = [items |-> << >>, rest |-> s]
                 /\ \A k \in 1 .. Len(s) : got[k] = Taken(got[k - 1], read)
                 /\ ReadAll(s, read) = got[Len(s)].items
  <2>1. s \in Seq(S) /\ Reads(read, S, I)
    BY <1>6
  <2>2. PICK got \in [0 .. Len(s) -> [items : Seq(I), rest : Seq(S)]] : Reading(got, s, read)
    BY ONLY <2>1, ReadAllIs
  <2> QED
    BY <2>2 DEF Reading
<1>9. \A k \in 0 .. Len(s) : got[k].items \in Seq(I) /\ got[k].rest \in Seq(S)
  <2> TAKE k \in 0 .. Len(s)
  <2>1. got[k] \in [items : Seq(I), rest : Seq(S)]
    BY <1>8
  <2> QED
    BY <2>1
<1> DEFINE P == {k \in 0 .. n : got[k].items = SubSeq(items, 1, k) /\ A(k) \o got[k].rest = s}
<1>10. 0 \in P
  <2>1. << >> \o s = s
    BY <1>6, ConcatEmptySeq
  <2>2. SubSeq(items, 1, 0) = << >>
    BY 1 \in Int, 0 \in Int, 0 < 1, SubSeqEmpty
  <2>3. got[0].items = << >> /\ got[0].rest = s
    BY <1>8
  <2>4. got[0].items = SubSeq(items, 1, 0) /\ A(0) \o got[0].rest = s
    BY <1>3, <2>1, <2>2, <2>3
  <2> QED
    BY <1>1, <2>4
<1>11. ASSUME NEW k \in 1 .. n, k - 1 \in P PROVE k \in P
  <2> DEFINE last == got[k - 1]
             a == A(k - 1)
             c == codes[k]
  <2>1. last.items = SubSeq(items, 1, k - 1) /\ a \o last.rest = s /\ k - 1 \in 0 .. n
        /\ k \in 1 .. Len(s) /\ k - 1 \in 0 .. Len(s) /\ k \in 0 .. n
    <3>1. last.items = SubSeq(items, 1, k - 1) /\ a \o last.rest = s
      BY <1>11
    <3>2. Len(s) \in Nat /\ n \in Nat /\ n <= Len(s)
      BY <1>1, <1>6, <1>7
    <3>3. /\ k - 1 \in 0 .. n /\ k \in 1 .. Len(s) /\ k - 1 \in 0 .. Len(s) /\ k \in 0 .. n
      BY ONLY <3>2, k \in 1 .. n
    <3> QED
      BY <3>1, <3>3
  <2>2. PICK u \in Seq(S) : all = A(k) \o u
    BY <1>5, <2>1
  <2>3. A(k) = a \o c /\ a \in Seq(S) /\ c \in Seq(S) /\ c # << >>
    BY <1>2, <1>4, <2>1
  <2>4. last.rest \in Seq(S) /\ got[k] = Taken(last, read)
    BY <1>8, <1>9, <2>1
  <2> DEFINE ut == u \o t
  <2>5. ut \in Seq(S) /\ c \o ut \in Seq(S) /\ a \o c \in Seq(S)
    BY <2>3, ConcatProperties
  <2> DEFINE ac == a \o c
             cut == c \o ut
  <2>6. s = ac \o ut /\ s = a \o cut
    <3>1. Grouped(ac, u, t)
      <4> HIDE DEF ac
      <4> QED
        BY <2>5, Group DEF ac
    <3>2. Grouped(a, c, ut)
      <4> HIDE DEF ut, a, c
      <4> QED
        BY <2>3, <2>5, Group
    <3>3. s = (ac \o u) \o t
      BY <2>2, <2>3 DEF s
    <3> HIDE DEF s, a, c
    <3> QED
      BY <3>1, <3>2, <3>3 DEF Grouped
  <2>7. last.rest = cut
    <3> DEFINE r == last.rest
    <3>1. a \in Seq(S) /\ r \in Seq(S) /\ cut \in Seq(S) /\ a \o r = a \o cut
      BY <2>1, <2>3, <2>4, <2>5, <2>6
    <3> HIDE DEF r, cut, a
    <3>2. r = cut
      BY ONLY <3>1, SameFront
    <3> QED
      BY <3>2 DEF r
  <2>8. cut # << >>
    <3> HIDE DEF c, ut
    <3> QED
      BY <2>3, <2>5, ConcatEqualIffEmpty
  <2>9. read[cut].item = items[k] /\ read[cut].rest = ut
    BY <2>5 DEF Codes, n
  <2>10. got[k] = [items |-> Append(last.items, items[k]), rest |-> ut]
    BY <2>4, <2>7, <2>8, <2>9 DEF Taken
  <2>11. SubSeq(items, 1, k) = Append(SubSeq(items, 1, k - 1), items[k])
    BY <1>1, CutNext
  <2>12. got[k].items = SubSeq(items, 1, k) /\ A(k) \o got[k].rest = s
    <3>1. got[k].items = Append(last.items, items[k]) /\ got[k].rest = ut
      <4> HIDE DEF ut, last
      <4> QED
        BY <2>10
    <3>2. got[k].items = SubSeq(items, 1, k)
      BY <2>1, <2>11, <3>1
    <3> HIDE DEF ut, s, a, c
    <3>3. A(k) \o got[k].rest = s
      BY <2>3, <2>6, <3>1
    <3> QED
      BY <3>2, <3>3
  <2> QED
    BY <2>1, <2>12
<1>12. n \in P
  <2> HIDE DEF P
  <2>1. \A k \in 0 .. n : k \in P
    BY <1>1, <1>10, <1>11, Induction
  <2> QED
    BY <1>1, <2>1
<1>13. got[n].items = items /\ got[n].rest = t
  <2>1. SubSeq(items, 1, n) = items
    BY <1>1, SubSeqFull
  <2> DEFINE r == got[n].rest
  <2>2. all \o r = all \o t /\ r \in Seq(S) /\ t \in Seq(S) /\ all \in Seq(S)
    BY <1>1, <1>3, <1>7, <1>6, <1>9, <1>12 DEF s
  <2> HIDE DEF r
  <2>3. r = t
    BY ONLY <2>2, SameFront
  <2> QED
    BY <1>12, <2>1, <2>3 DEF r
<1> DEFINE Q == {k \in 0 .. Len(s) : k >= n => /\ IsPrefix(items, got[k].items)
                                               /\ t = << >> => got[k] = got[n]}
<1>14. IsPrefix(items, got[n].items)
  <2>1. IsPrefix(items, items)
    BY PrefixIs
  <2> QED
    BY <1>13, <2>1
<1>15. 0 \in Q
  <2>1. 0 \in 0 .. Len(s) /\ (0 >= n => n = 0)
    BY <1>1, <1>6
  <2> QED
    BY <1>14, <2>1
<1>16. ASSUME NEW k \in 1 .. Len(s), k - 1 \in Q PROVE k \in Q
  <2> SUFFICES ASSUME k > n
               PROVE  IsPrefix(items, got[k].items) /\ (t = << >> => got[k] = got[n])
    <3>1. k \in 0 .. Len(s) /\ (k >= n => k = n \/ k > n)
      BY <1>1, <1>6
    <3> QED
      BY <1>14, <3>1
  <2> DEFINE last == got[k - 1]
  <2>1. /\ IsPrefix(items, last.items) /\ (t = << >> => last = got[n])
        /\ k - 1 \in 0 .. Len(s)
    <3>1. k - 1 >= n /\ k - 1 \in 0 .. Len(s)
      BY <1>1, <1>6
    <3> QED
      BY <1>16, <3>1
  <2>2. got[k] = Taken(last, read)
    BY <1>8, <2>1
  <2>3. last.items \in Seq(I) /\ last.rest \in Seq(S)
    BY <1>9, <2>1
  <2> HIDE DEF last
  <2>4. IsPrefix(items, got[k].items)
    <3>1. CASE last.rest = << >>
      BY <2>1, <2>2, <3>1 DEF Taken
    <3>2. CASE last.rest # << >>
      <4> DEFINE e == read[last.rest].item
                 one == <<e>>
                 old == last.items
                 new == old \o one
      <4>1. e \in I
        BY <2>3 DEF Reads
      <4>2. got[k].items = Append(old, e)
        BY <2>2, <3>2 DEF Taken
      <4> HIDE DEF e, old
      <4>3. old \in Seq(I) /\ one \in Seq(I) /\ IsPrefix(items, old)
        BY <2>1, <2>3, <4>1 DEF old
      <4>4. Append(old, e) = new
        BY <4>1, <4>3, AppendIsConcat
      <4> HIDE DEF one
      <4>5. new \in Seq(I) /\ IsPrefix(old, new)
        BY <4>3, PrefixOfConcat
      <4> HIDE DEF new
      <4>6. IsPrefix(items, new)
        BY ONLY <4>3, <4>5, items \in Seq(I), PrefixTransitive
      <4> QED
        BY <4>2, <4>4, <4>6
    <3> QED
      BY <3>1, <3>2
  <2>5. ASSUME t = << >> PROVE got[k] = got[n]
    BY <1>13, <2>1, <2>2, <2>5 DEF Taken
  <2> QED
    BY <2>1, <2>4, <2>5
<1>17. Len(s) \in Q
  <2> HIDE DEF Q
  <2>1. \A k \in 0 .. Len(s) : k \in Q
    BY <1>6, <1>15, <1>16, Induction
  <2> QED
    BY <1>6, <2>1
<1>18. Len(s) >= n
  BY <1>1, <1>6, <1>7
<1>19. IsPrefix(items, got[Len(s)].items) /\ (t = << >> => got[Len(s)] = got[n])
  BY <1>17, <1>18
<1>20. /\ IsPrefix(items, ReadAll(s, read))
       /\ t = << >> => ReadAll(s, read) = items
  BY <1>8, <1>13, <1>19
<1> QED
  BY <1>20 DEF s, all


-------------------------------------------------------------------------------
(* Sequences of which every element is encoded. *)

Mapped(f, ss) == [k \in DOMAIN ss |-> f[ss[k]]]

IsImage(m, f, ss, T) ==
  /\ m \in Seq(T) /\ Len(m) = Len(ss)
  /\ \A k \in 1 .. Len(ss) : m[k] = f[ss[k]]

LEMMA MappedIs ==
  ASSUME NEW S, NEW T, NEW f \in [S -> T], NEW ss \in Seq(S)
  PROVE  IsImage(Mapped(f, ss), f, ss, T)
<1>1. DOMAIN ss = 1 .. Len(ss) /\ Len(ss) \in Nat
  OBVIOUS
<1>2. Mapped(f, ss) \in [1 .. Len(ss) -> T]
  BY <1>1 DEF Mapped
<1>3. Mapped(f, ss) \in Seq(T) /\ Len(Mapped(f, ss)) = Len(ss)
  BY ONLY <1>1, <1>2
<1> QED
  BY <1>1, <1>3 DEF Mapped, IsImage

LEMMA MappedAppend ==
  ASSUME NEW S, NEW T, NEW f \in [S -> T], NEW ss \in Seq(S), NEW e \in S
  PROVE  Mapped(f, Append(ss, e)) = Append(Mapped(f, ss), f[e])
<1> DEFINE n == Len(ss)
           tt == Append(ss, e)
           old == Mapped(f, ss)
           new == Mapped(f, tt)
           longer == Append(old, f[e])
<1>1. n \in Nat
  OBVIOUS
<1>2. /\ tt \in Seq(S) /\ Len(tt) = n + 1 /\ \A i \in 1 .. n : tt[i] = ss[i]
      /\ tt[n + 1] = e
  BY AppendProperties
<1> HIDE DEF tt
<1>3. old \in Seq(T) /\ Len(old) = n /\ \A k \in 1 .. n : old[k] = f[ss[k]]
  <2>1. IsImage(Mapped(f, ss), f, ss, T)
    BY ONLY f \in [S -> T], ss \in Seq(S), MappedIs
  <2> QED
    BY <2>1 DEF IsImage
<1>4. new \in Seq(T) /\ Len(new) = n + 1 /\ \A k \in 1 .. n + 1 : new[k] = f[tt[k]]
  <2>1. IsImage(Mapped(f, tt), f, tt, T)
    BY ONLY <1>2, f \in [S -> T], MappedIs
  <2> QED
    BY <1>2, <2>1 DEF IsImage
<1> HIDE DEF old, new, n
<1>5. f[e] \in T
  OBVIOUS
<1>6. /\ longer \in Seq(T) /\ Len(longer) = n + 1
      /\ \A k \in 1 .. n : longer[k] = old[k]
      /\ longer[n + 1] = f[e]
  <2>1. /\ Append(old, f[e]) \in Seq(T) /\ Append(old, f[e]) # << >>
        /\ Len(Append(old, f[e])) = Len(old) + 1
        /\ \A i \in 1 .. Len(old) : Append(old, f[e])[i] = old[i]
        /\ Append(old, f[e])[Len(old) + 1] = f[e]
    BY ONLY <1>3, <1>5, AppendProperties
  <2> QED
    BY <1>3, <2>1
<1> HIDE DEF longer
<1>7. ASSUME NEW k \in 1 .. n + 1 PROVE new[k] = longer[k]
  <2>1. CASE k = n + 1
    BY <1>2, <1>4, <1>6, <2>1
  <2>2. CASE k # n + 1
    <3>1. k \in 1 .. n
      BY <1>1, <2>2
    <3>2. new[k] = f[tt[k]] /\ tt[k] = ss[k] /\ old[k] = f[ss[k]] /\ longer[k] = old[k]
      BY <1>2, <1>3, <1>4, <1>6, <3>1
    <3> QED
      BY <3>2
  <2> QED
    BY <2>1, <2>2
<1>8. new = longer
  BY ONLY <1>4, <1>6, <1>7, SeqEqual
<1> QED
  BY <1>8 DEF new, longer, old, tt

-------------------------------------------------------------------------------
(* Lines. *)

LEMMA LineAppend ==
  ASSUME NEW x \in Seq(Byte), NEW ps \in Seq(Seq(Byte)), NEW p \in Seq(Byte)
  PROVE  /\ Line(x, << >>) = x
         /\ Line(x, ps) \in Seq(Byte)
         /\ Line(x, Append(ps, p)) = (Line(x, ps) \o <<Space>>) \o p
<1> DEFINE T == Seq(Byte)
           one == <<Space>>
           f == [q \in T |-> one \o q]
           F == FlattenSeq(Mapped(f, ps))
<1>1. one \in T
  BY Characters
<1> HIDE DEF one
<1>2. f \in [T -> T] /\ \A q \in T : f[q] = one \o q
  BY <1>1, ConcatProperties
<1>3. \A qs \in Seq(T) : Line(x, qs) = x \o FlattenSeq(Mapped(f, qs))
  <2> TAKE qs \in Seq(T)
  <2>1. \A k \in DOMAIN qs : qs[k] \in T
    OBVIOUS
  <2>2. [k \in DOMAIN qs |-> one \o qs[k]] = Mapped(f, qs)
    BY <1>2, <2>1 DEF Mapped
  <2> QED
    BY <2>2 DEF Line, one
<1> HIDE DEF f
<1>4. Mapped(f, ps) \in Seq(T)
  BY <1>2, MappedIs DEF IsImage
<1>5. Mapped(f, Append(ps, p)) = Append(Mapped(f, ps), one \o p)
  BY <1>2, MappedAppend
<1>6. one \o p \in T
  BY <1>1, ConcatProperties
<1>7. F \in Seq(Byte) /\ FlattenSeq(Append(Mapped(f, ps), one \o p)) = F \o (one \o p)
  BY <1>4, <1>6, FlattenAppend
<1>8. Append(ps, p) \in Seq(T) /\ ps \in Seq(T) /\ << >> \in Seq(T)
  BY AppendProperties
<1> HIDE DEF T
<1>9. Line(x, << >>) = x
  <2>1. Mapped(f, << >>) = << >>
    BY DEF Mapped
  <2>2. Line(x, << >>) = x \o << >>
    BY <1>3, <1>8, <2>1, FlattenEmpty
  <2> QED
    BY <2>2, ConcatEmptySeq
<1> HIDE DEF F
<1>10. Line(x, ps) = x \o F /\ x \o F \in Seq(Byte)
  BY <1>3, <1>7, <1>8, ConcatProperties DEF F
<1>11. Line(x, Append(ps, p)) = x \o (F \o (one \o p))
  BY <1>3, <1>5, <1>7, <1>8
<1> DEFINE xF == x \o F
           op == one \o p
<1>12. Grouped(x, F, op)
  BY <1>6, <1>7, Group DEF T
<1>13. Grouped(xF, one, p)
  <2> HIDE DEF xF
  <2> QED
    BY <1>1, <1>10, Group DEF T, xF
<1>14. Line(x, Append(ps, p)) = (xF \o one) \o p
  BY <1>11, <1>12, <1>13 DEF Grouped
<1> QED
  BY <1>9, <1>10, <1>14 DEF one

LEMMA FieldReads == Reads(ReadField, Byte, Seq(Byte))
BY AtIs DEF Reads, ReadField

(***************************************************************************)
(* A name and parameters without spaces are the fields of their line.      *)
(***************************************************************************)
LEMMA FieldsAre ==
  ASSUME NEW x \in Seq(Byte \ {Space}), NEW ps \in Seq(Seq(Byte \ {Space}))
  PROVE  /\ Line(x, ps) \in Seq(Byte)
         /\ Fields(Line(x, ps)) = <<x>> \o ps
<1> DEFINE T == Seq(Byte)
           U == Seq(Byte \ {Space})
           n == Len(ps)
           one == <<Space>>
           end == [q \in T |-> q \o one]
           front(k) == SubSeq(ps, 1, k)
           all(k) == <<x>> \o front(k)
<1>1. one \in T /\ Space \in Byte /\ n \in Nat
  BY Characters
<1>2. U \subseteq T
  <2>1. Byte \ {Space} \subseteq Byte
    OBVIOUS
  <2> QED
    BY <2>1, SeqMonotonic
<1>3. x \in T /\ ps \in Seq(T)
  <2>1. x \in U /\ ps \in Seq(U)
    OBVIOUS
  <2> HIDE DEF T, U
  <2> QED
    BY <1>2, <2>1, SeqMonotonic
<1> HIDE DEF one
<1>4. end \in [T -> T] /\ \A q \in T : end[q] = q \o one
  BY <1>1, ConcatProperties
<1> HIDE DEF end
<1>5. \A k \in 0 .. n : front(k) \in Seq(T) /\ all(k) \in Seq(T)
  <2> TAKE k \in 0 .. n
  <2> HIDE DEF T
  <2>1. front(k) \in Seq(T)
    BY <1>3, CutIs
  <2>2. <<x>> \in Seq(T)
    BY <1>3
  <2> QED
    BY <2>1, <2>2, ConcatProperties
<1>6. ASSUME NEW k \in 1 .. n
      PROVE  /\ front(k) = Append(front(k - 1), ps[k]) /\ ps[k] \in T
             /\ all(k) = Append(all(k - 1), ps[k])
  <2> HIDE DEF T
  <2>1. front(k) = Append(front(k - 1), ps[k]) /\ ps[k] \in T
    BY <1>3, CutNext
  <2> DEFINE a == <<x>>
             b == front(k - 1)
             c == <<ps[k]>>
             ab == a \o b
  <2>2. a \in Seq(T) /\ b \in Seq(T) /\ c \in Seq(T)
    <3>1. k - 1 \in 0 .. n
      BY <1>1
    <3> QED
      BY <1>3, <1>5, <2>1, <3>1
  <2>3. Append(b, ps[k]) = b \o c
    BY <2>1, <2>2, AppendIsConcat
  <2> HIDE DEF a, b, c
  <2>4. ab \in Seq(T)
    BY <2>2, ConcatProperties
  <2> HIDE DEF ab
  <2>5. Append(ab, ps[k]) = ab \o c
    BY ONLY <2>1, <2>4, AppendIsConcat DEF c
  <2>6. Grouped(a, b, c)
    BY ONLY <2>2, Group
  <2>7. a \o front(k) = ab \o c
    BY <2>1, <2>3, <2>6 DEF Grouped, b, ab
  <2> QED
    BY <2>1, <2>5, <2>7 DEF a, b, ab
<1> HIDE DEF n
<1> DEFINE P == {k \in 0 .. n : Line(x, front(k)) \o one = FlattenSeq(Mapped(end, all(k)))}
<1>7. 0 \in P
  <2>1. front(0) = << >>
    BY 1 \in Int, 0 \in Int, 0 < 1, SubSeqEmpty
  <2> DEFINE xone == x \o one
             none == << >>
  <2>2. all(0) = Append(none, x) /\ none \in Seq(T) /\ Mapped(end, none) = none
    <3> DEFINE only == <<x>>
    <3>1. only \in Seq(T)
      BY <1>3
    <3>2. Append(none, x) = only
      OBVIOUS
    <3> HIDE DEF only
    <3>3. only \o << >> = only
      BY <3>1, ConcatEmptySeq
    <3>4. all(0) = only
      BY <2>1, <3>3 DEF only
    <3>5. Mapped(end, << >>) = << >>
      BY DEF Mapped
    <3>6. none \in Seq(T)
      OBVIOUS
    <3> QED
      BY <3>2, <3>4, <3>5, <3>6
  <2>3. Mapped(end, all(0)) = Append(none, xone)
    <3> HIDE DEF T, none
    <3>1. Mapped(end, Append(none, x)) = Append(Mapped(end, none), end[x])
      BY ONLY <1>3, <1>4, <2>2, MappedAppend
    <3> QED
      BY <1>3, <1>4, <2>2, <3>1
  <2>4. xone \in T
    BY <1>1, <1>3, ConcatProperties
  <2> HIDE DEF xone
  <2>5. FlattenSeq(Append(none, xone)) = FlattenSeq(none) \o xone
    BY <2>2, <2>4, FlattenAppend
  <2>6. FlattenSeq(none) \o xone = xone
    BY <2>4, FlattenEmpty, ConcatEmptySeq
  <2>7. Line(x, front(0)) = x
    BY <1>3, <2>1, LineAppend
  <2>8. Line(x, front(0)) \o one = FlattenSeq(Mapped(end, all(0)))
    <3> HIDE DEF front, all
    <3> QED
      BY <2>3, <2>5, <2>6, <2>7 DEF xone
  <2>9. 0 \in 0 .. n
    BY <1>1
  <2> HIDE DEF front, all
  <2> QED
    BY <2>8, <2>9
<1>8. ASSUME NEW k \in 1 .. n, k - 1 \in P PROVE k \in P
  <2> DEFINE L == Line(x, front(k - 1))
             p == ps[k]
             pone == p \o one
             A == all(k - 1)
             Lone == L \o one
  <2>1. k - 1 \in 0 .. n /\ k \in 0 .. n /\ Lone = FlattenSeq(Mapped(end, A))
    <3>1. k - 1 \in 0 .. n /\ k \in 0 .. n
      BY <1>1
    <3>2. Lone = FlattenSeq(Mapped(end, A))
      BY <1>8
    <3> QED
      BY <3>1, <3>2
  <2>2. p \in T /\ front(k - 1) \in Seq(T) /\ A \in Seq(T)
    BY <1>5, <1>6, <2>1
  <2>3. L \in T /\ Line(x, front(k)) = (L \o one) \o p
    <3> DEFINE fr == front(k - 1)
    <3>1. front(k) = Append(fr, p)
      BY <1>6
    <3>2. x \in Seq(Byte) /\ fr \in Seq(Seq(Byte)) /\ p \in Seq(Byte)
      BY <1>3, <2>2
    <3> HIDE DEF fr, p
    <3>3. /\ Line(x, << >>) = x
          /\ Line(x, fr) \in Seq(Byte)
          /\ Line(x, Append(fr, p)) = (Line(x, fr) \o <<Space>>) \o p
      BY ONLY <3>2, LineAppend
    <3> QED
      BY <3>1, <3>3 DEF one, fr
  <2>4. Mapped(end, all(k)) = Append(Mapped(end, A), pone)
    <3>1. all(k) = Append(A, p)
      BY <1>6
    <3> HIDE DEF T, A, p
    <3>2. Mapped(end, Append(A, p)) = Append(Mapped(end, A), end[p])
      BY ONLY <1>4, <2>2, MappedAppend, ZenonT(40)
    <3> QED
      BY <1>4, <2>2, <3>1, <3>2
  <2>5. Mapped(end, A) \in Seq(T) /\ pone \in T
    <3>1. Mapped(end, A) \in Seq(T)
      <4> HIDE DEF T, A
      <4> QED
        BY ONLY <1>4, <2>2, MappedIs DEF IsImage
    <3> QED
      BY <1>1, <2>2, <3>1, ConcatProperties
  <2> HIDE DEF pone, p, A
  <2>6. FlattenSeq(Append(Mapped(end, A), pone)) = FlattenSeq(Mapped(end, A)) \o pone
    BY <2>5, FlattenAppend
  <2> HIDE DEF L
  <2>7. Lone \in T
    BY <1>1, <2>3, ConcatProperties
  <2> HIDE DEF Lone
  <2>8. Grouped(Lone, p, one)
    BY <1>1, <2>2, <2>7, Group
  <2>9. Line(x, front(k)) \o one = Lone \o pone
    BY <2>3, <2>8 DEF Grouped, Lone, pone
  <2>10. Line(x, front(k)) \o one = FlattenSeq(Mapped(end, all(k)))
    BY <2>1, <2>4, <2>6, <2>9
  <2> QED
    BY <2>1, <2>10
<1>9. n \in P
  <2> HIDE DEF P
  <2>1. \A k \in 0 .. n : k \in P
    BY <1>1, <1>7, <1>8, Induction
  <2> QED
    BY <1>1, <2>1
<1> DEFINE items == <<x>> \o ps
           codes == Mapped(end, items)
           line == Line(x, ps)
<1>10. front(n) = ps /\ n \in 0 .. n
  BY <1>1, SubSeqFull DEF n
<1>11. items \in Seq(T) /\ line \o one = FlattenSeq(codes)
  BY <1>5, <1>9, <1>10
<1>12. line \in T
  BY <1>3, LineAppend
<1>13. codes \in Seq(T) /\ Len(codes) = Len(items)
       /\ \A k \in 1 .. Len(items) : codes[k] = items[k] \o one
  <2> HIDE DEF T, items
  <2>1. codes \in Seq(T) /\ Len(codes) = Len(items)
        /\ \A k \in 1 .. Len(items) : codes[k] = end[items[k]]
    <3>1. items \in Seq(T) /\ end \in [T -> T]
      BY <1>4, <1>11
    <3>2. IsImage(Mapped(end, items), end, items, T)
      BY ONLY <3>1, MappedIs
    <3> QED
      BY <3>2 DEF IsImage
  <2>2. \A k \in 1 .. Len(items) : items[k] \in T
    BY <1>11
  <2> QED
    BY <1>4, <2>1, <2>2
<1>14. \A k \in 1 .. Len(items) : items[k] \in U
  <2>1. x \in U /\ ps \in Seq(U)
    OBVIOUS
  <2> HIDE DEF U
  <2>2. <<x>> \in Seq(U)
    BY <2>1
  <2>3. items \in Seq(U)
    BY <2>1, <2>2, ConcatProperties
  <2> HIDE DEF items
  <2> QED
    BY <2>3
<1> HIDE DEF codes, items, line
<1>15. Codes(ReadField, Byte, codes, items)
  <2> SUFFICES ASSUME NEW i \in 1 .. Len(items)
               PROVE  /\ codes[i] # << >>
                      /\ \A t \in Seq(Byte) : /\ ReadField[codes[i] \o t].item = items[i]
                                              /\ ReadField[codes[i] \o t].rest = t
    BY <1>13 DEF Codes
  <2> DEFINE y == items[i]
             yone == y \o one
  <2>1. codes[i] = yone /\ y \in U /\ y \in T
    BY <1>2, <1>13, <1>14
  <2> HIDE DEF y
  <2>2. yone # << >>
    <3>1. Len(yone) = Len(y) + Len(one) /\ Len(one) = 1 /\ Len(y) \in Nat
      BY <1>1, <2>1, ConcatProperties DEF one
    <3> QED
      BY <3>1
  <2>3. ASSUME NEW t \in Seq(Byte)
        PROVE  ReadField[yone \o t].item = y /\ ReadField[yone \o t].rest = t
    <3> DEFINE w == yone \o t
    <3>1. w = (y \o <<Space>>) \o t /\ y \in Seq(Byte \ {Space})
      BY <2>1 DEF one
    <3> HIDE DEF w
    <3>2. w \in Seq(Byte) /\ Splits(w, Space, y, t)
      BY ONLY <1>1, <3>1, t \in Seq(Byte), SplitAt
    <3>3. ReadField[w].item = y /\ ReadField[w].rest = t
      BY <3>2 DEF ReadField, Splits
    <3> QED
      BY <3>3 DEF w
  <2> QED
    BY <2>1, <2>2, <2>3 DEF y
<1>16. ReadAll(FlattenSeq(codes), ReadField) = items
  <2> DEFINE none == << >>
             s == FlattenSeq(codes)
  <2>1. none \in Seq(Byte)
    OBVIOUS
  <2>2. s \in Seq(Byte)
    BY <1>13, FlattenIn
  <2>3. s \o none = s
    BY <2>2, ConcatEmptySeq
  <2> HIDE DEF s, none
  <2>4. /\ IsPrefix(items, ReadAll(FlattenSeq(codes) \o none, ReadField))
        /\ none = << >> => ReadAll(FlattenSeq(codes) \o none, ReadField) = items
    BY <1>11, <1>13, <1>15, <2>1, FieldReads, AllRead
  <2> QED
    BY <2>3, <2>4 DEF s, none
<1>17. Append(line, Space) = line \o one
  BY <1>1, <1>12, AppendIsConcat DEF one
<1>18. Fields(line) = items
  BY <1>11, <1>16, <1>17 DEF Fields
<1> QED
  BY <1>12, <1>18 DEF line, items


-------------------------------------------------------------------------------
(* Bodies. *)

LEMMA WordIs ==
  ASSUME NEW n \in Nat
  PROVE  /\ Word(n) \in Seq(Byte) /\ Len(Word(n)) = WordLength /\ WordLength \in Nat \ {0}
         /\ FitsIn(n, WordLength) => FromBigEndian(Word(n)) = n
<1>1. WordLength \in Nat \ {0} /\ WordLength \in Nat
  BY ProtocolAssumption
<1> QED
  BY <1>1, BigEndianIs, NumberRead DEF Word

LEMMA CountedIs ==
  ASSUME NEW b \in Seq(Byte)
  PROVE  /\ Counted(b) \in Seq(Byte) /\ Len(Counted(b)) = WordLength + Len(b)
         /\ Counted(b) # << >>
<1>1. Len(b) \in Nat
  OBVIOUS
<1> DEFINE w == Word(Len(b))
<1>2. w \in Seq(Byte) /\ Len(w) = WordLength /\ WordLength \in Nat \ {0}
  BY <1>1, WordIs
<1> HIDE DEF w
<1>3. w \o b \in Seq(Byte) /\ Len(w \o b) = Len(w) + Len(b)
  BY <1>2, ConcatProperties
<1>4. w \o b # << >>
  BY <1>1, <1>2, <1>3
<1> QED
  BY <1>2, <1>3, <1>4 DEF Counted, w

\* A number in front is read whatever follows it.
LEMMA SizeIs ==
  ASSUME NEW n \in Nat, FitsIn(n, WordLength), NEW t \in Seq(Byte)
  PROVE  /\ Word(n) \o t \in Seq(Byte) /\ Len(Word(n) \o t) = WordLength + Len(t)
         /\ Size(Word(n) \o t) = n
         /\ SubSeq(Word(n) \o t, WordLength + 1, Len(Word(n) \o t)) = t
<1> DEFINE w == Word(n)
<1>1. w \in Seq(Byte) /\ Len(w) = WordLength /\ FromBigEndian(w) = n
  BY WordIs
<1> HIDE DEF w
<1>2. /\ w \o t \in Seq(Byte) /\ Len(w \o t) = Len(w) + Len(t)
      /\ SubSeq(w \o t, 1, Len(w)) = w
      /\ SubSeq(w \o t, Len(w) + 1, Len(w) + Len(t)) = t
  <2>1. w \in Seq(Byte) /\ t \in Seq(Byte)
    BY <1>1
  <2> QED
    BY ONLY <2>1, EndsAre
<1>3. Size(w \o t) = n
  BY <1>1, <1>2 DEF Size
<1> QED
  BY <1>1, <1>2, <1>3 DEF w

LEMMA BodyReads == Reads(ReadBody, Byte, Seq(Byte) \cup {NULL})
<1> SUFFICES ASSUME NEW s \in Seq(Byte)
             PROVE  /\ ReadBody[s].item \in Seq(Byte) \cup {NULL}
                    /\ ReadBody[s].rest \in Seq(Byte)
  BY DEF Reads
<1>1. CASE HasBody(s)
  <2> DEFINE n == Size(s)
             k == WordLength + n
  <2>1. WordLength \in Nat /\ Len(s) \in Nat /\ WordLength <= Len(s) /\ k <= Len(s)
    BY <1>1, ProtocolAssumption DEF HasBody
  <2>2. n \in Nat
    <3>1. WordLength \in 0 .. Len(s)
      BY <2>1
    <3>2. SubSeq(s, 1, WordLength) \in Seq(Byte)
      BY <3>1, CutIs
    <3> QED
      BY <3>2, NumberIs DEF Size
  <2> HIDE DEF n
  <2>3. k \in 0 .. Len(s)
    BY <2>1, <2>2
  <2>4. SubSeq(s, k + 1, Len(s)) \in Seq(Byte)
    <3> HIDE DEF k
    <3> QED
      BY ONLY <2>3, s \in Seq(Byte), CutIs
  <2>5. SubSeq(s, WordLength + 1, k) \in Seq(Byte)
    <3> DEFINE m == WordLength + 1
    <3>1. m \in Int /\ k \in Int /\ \A i \in m .. k : s[i] \in Byte
      BY <2>1, <2>3
    <3> HIDE DEF m, k
    <3>2. /\ SubSeq(s, m, k) \in Seq(Byte)
          /\ Len(SubSeq(s, m, k)) = IF m <= k THEN k - m + 1 ELSE 0
          /\ \A i \in 1 .. k - m + 1 : SubSeq(s, m, k)[i] = s[m + i - 1]
      BY ONLY <3>1, SubSeqProperties
    <3> QED
      BY <3>2 DEF m
  <2> QED
    BY <1>1, <2>4, <2>5 DEF ReadBody, n
<1>2. CASE ~HasBody(s)
  <2>1. ReadBody[s] = [item |-> NULL, rest |-> << >>]
    BY <1>2 DEF ReadBody, Unreadable
  <2>2. << >> \in Seq(Byte)
    OBVIOUS
  <2> QED
    BY <2>1, <2>2
<1> QED
  BY <1>1, <1>2

(***************************************************************************)
(* A body with its size in front is read whatever it consists of.          *)
(***************************************************************************)
LEMMA BodyRead ==
  ASSUME NEW b \in Seq(Byte), FitsIn(Len(b), WordLength), NEW t \in Seq(Byte),
         NEW s, s = Counted(b) \o t
  PROVE  s \in Seq(Byte) /\ HasBody(s) /\ ReadBody[s].item = b /\ ReadBody[s].rest = t
<1> DEFINE n == Len(b)
           w == Word(n)
           bt == b \o t
           wb == w \o b
<1>1. n \in Nat /\ Len(t) \in Nat
  OBVIOUS
<1>2. w \in Seq(Byte) /\ Len(w) = WordLength /\ WordLength \in Nat \ {0}
  BY <1>1, WordIs
<1>3. bt \in Seq(Byte) /\ Len(bt) = n + Len(t)
  BY ConcatProperties
<1> HIDE DEF bt, n
<1>4. /\ w \o bt \in Seq(Byte) /\ Len(w \o bt) = WordLength + Len(bt)
      /\ Size(w \o bt) = n
      /\ SubSeq(w \o bt, WordLength + 1, Len(w \o bt)) = bt
  <2>1. FitsIn(n, WordLength)
    BY DEF n
  <2> QED
    BY ONLY <1>1, <1>3, <2>1, SizeIs DEF w
<1> HIDE DEF w
<1>5. Grouped(w, b, t)
  BY <1>2, Group
<1>6. s = w \o bt /\ s = wb \o t
  BY <1>5 DEF Grouped, bt, Counted, w, n
<1>7. s \in Seq(Byte) /\ Size(s) = n /\ Len(s) = WordLength + (n + Len(t))
  BY <1>3, <1>4, <1>6
<1>8. HasBody(s)
  BY <1>1, <1>2, <1>7 DEF HasBody
<1>9. wb \in Seq(Byte) /\ Len(wb) = WordLength + n
  BY <1>2, ConcatProperties DEF n
<1>10. SubSeq(s, WordLength + 1, WordLength + n) = b
  <2>1. SubSeq((w \o b) \o t, Len(w) + 1, Len(w) + Len(b)) = b
    BY ONLY <1>2, b \in Seq(Byte), t \in Seq(Byte), PieceIs
  <2> QED
    BY <1>2, <1>6, <2>1 DEF n
<1> HIDE DEF wb
<1>11. SubSeq(s, WordLength + n + 1, Len(s)) = t
  <2>1. SubSeq(wb \o t, Len(wb) + 1, Len(wb) + Len(t)) = t
    BY ONLY <1>9, t \in Seq(Byte), EndsAre
  <2>2. Len(wb) + Len(t) = Len(s)
    BY <1>1, <1>2, <1>7, <1>9
  <2> QED
    BY <1>6, <1>9, <2>1, <2>2
<1> QED
  BY <1>7, <1>8, <1>10, <1>11 DEF ReadBody

LEMMA GatheredIs ==
  ASSUME NEW bs \in Seq(Seq(Byte))
  PROVE  /\ Gathered(bs) = Word(Len(bs)) \o FlattenSeq(Mapped([b \in Seq(Byte) |-> Counted(b)], bs))
         /\ [b \in Seq(Byte) |-> Counted(b)] \in [Seq(Byte) -> Seq(Byte)]
<1> DEFINE T == Seq(Byte)
           f == [b \in T |-> Counted(b)]
<1>1. f \in [T -> T] /\ \A b \in T : f[b] = Counted(b)
  BY CountedIs
<1> HIDE DEF f
<1>2. \A k \in DOMAIN bs : bs[k] \in T
  OBVIOUS
<1>3. [i \in DOMAIN bs |-> Counted(bs[i])] = Mapped(f, bs)
  <2> HIDE DEF T
  <2> QED
    BY <1>1, <1>2 DEF Mapped
<1> QED
  BY <1>1, <1>3 DEF Gathered, f

(***************************************************************************)
(* The bodies of an MPUB are read back from its block.                     *)
(***************************************************************************)
LEMMA BlockRead ==
  ASSUME NEW bs \in Seq(Seq(Byte)), FitsIn(Len(bs), WordLength),
         \A i \in 1 .. Len(bs) : FitsIn(Len(bs[i]), WordLength)
  PROVE  Gathered(bs) \in Seq(Byte) /\ BodiesIn(Gathered(bs)) = bs
<1> DEFINE T == Seq(Byte)
           f == [b \in T |-> Counted(b)]
           codes == Mapped(f, bs)
           all == FlattenSeq(codes)
           n == Len(bs)
           block == Word(n) \o all
           I == T \cup {NULL}
<1>1. f \in [T -> T] /\ Gathered(bs) = block
  BY GatheredIs
<1>2. \A b \in T : f[b] = Counted(b)
  OBVIOUS
<1>3. n \in Nat
  OBVIOUS
<1> HIDE DEF f
<1>4. codes \in Seq(T) /\ Len(codes) = n /\ \A k \in 1 .. n : codes[k] = Counted(bs[k])
  <2>1. bs \in Seq(T)
    OBVIOUS
  <2>2. \A k \in 1 .. n : bs[k] \in T
    OBVIOUS
  <2> HIDE DEF T
  <2>3. IsImage(Mapped(f, bs), f, bs, T)
    BY ONLY <1>1, <2>1, MappedIs
  <2> QED
    BY <1>2, <2>2, <2>3 DEF IsImage
<1> HIDE DEF codes
<1>5. all \in Seq(Byte)
  BY <1>4, FlattenIn
<1>6. ReadAll(all, ReadBody) = bs
  <2> DEFINE none == << >>
  <2>1. none \in Seq(Byte)
    OBVIOUS
  <2>2. FlattenSeq(codes) \o none = FlattenSeq(codes)
    BY <1>5, ConcatEmptySeq
  <2>3. Codes(ReadBody, Byte, codes, bs)
    <3> SUFFICES ASSUME NEW i \in 1 .. n
                 PROVE  /\ codes[i] # << >>
                        /\ \A t \in Seq(Byte) : /\ ReadBody[codes[i] \o t].item = bs[i]
                                                /\ ReadBody[codes[i] \o t].rest = t
      BY <1>4 DEF Codes
    <3> DEFINE b == bs[i]
    <3>1. codes[i] = Counted(b) /\ b \in Seq(Byte) /\ FitsIn(Len(b), WordLength)
      BY <1>4
    <3> HIDE DEF b
    <3>2. Counted(b) # << >>
      BY <3>1, CountedIs
    <3>3. ASSUME NEW t \in Seq(Byte)
          PROVE  ReadBody[Counted(b) \o t].item = b /\ ReadBody[Counted(b) \o t].rest = t
      BY <3>1, BodyRead
    <3> QED
      BY <3>1, <3>2, <3>3 DEF b
  <2>4. bs \in Seq(I)
    <3>1. bs \in Seq(T) /\ T \subseteq I
      OBVIOUS
    <3> HIDE DEF T, I
    <3> QED
      BY <3>1, SeqMonotonic
  <2>5. codes \in Seq(Seq(Byte)) /\ Len(bs) = Len(codes) /\ Reads(ReadBody, Byte, I)
    BY <1>4, BodyReads
  <2> HIDE DEF none, I
  <2>6. /\ IsPrefix(bs, ReadAll(FlattenSeq(codes) \o none, ReadBody))
        /\ none = << >> => ReadAll(FlattenSeq(codes) \o none, ReadBody) = bs
    BY ONLY <2>1, <2>3, <2>4, <2>5, AllRead
  <2> QED
    BY <2>2, <2>6 DEF none
<1> HIDE DEF all, n
<1>7. /\ block \in Seq(Byte) /\ Len(block) = WordLength + Len(all)
      /\ Size(block) = n
      /\ SubSeq(block, WordLength + 1, Len(block)) = all
  <2>1. FitsIn(n, WordLength)
    BY DEF n
  <2> QED
    BY ONLY <1>3, <1>5, <2>1, SizeIs
<1> HIDE DEF block
<1>8. Len(block) >= WordLength
  BY <1>5, <1>7, ProtocolAssumption
<1>9. BodiesIn(block) = bs
  BY <1>6, <1>7, <1>8 DEF BodiesIn, n
<1> QED
  BY <1>1, <1>7, <1>9


-------------------------------------------------------------------------------
(* Commands. *)

\* What nsqd takes for a command, and 32 bits can count.
Commands ==
  {c \in [name : {Text(<<name>>) : name \in Name},
          params : Seq(Seq(Byte \ {Space, Newline, NUL})),
          bodies : Seq(Seq(Byte))] :
     /\ c.name \notin WithBody => c.bodies = << >>
     /\ c.name \in WithBody => FitsIn(Len(Block(c)), WordLength)
     /\ c.name \in WithBody /\ c.name # Text(<<"MPUB">>) => Len(c.bodies) = 1
     /\ c.name = Text(<<"MPUB">>) =>
          /\ FitsIn(Len(c.bodies), WordLength)
          /\ \A i \in 1 .. Len(c.bodies) : FitsIn(Len(c.bodies[i]), WordLength)}

LEMMA NameIs ==
  ASSUME NEW name \in Name
  PROVE  /\ Text(<<name>>) = << Char(name) >>
         /\ Text(<<name>>) \in Seq(Byte \ {Space, Newline, NUL})
<1>1. Char(name) \in Byte \ {Space, Newline, NUL}
  <2>1. name \notin {"space", "newline", "NUL"}
    BY DEF Name
  <2> QED
    BY <2>1 DEF Byte, Char, Space, Newline, NUL
<1>2. Text(<<name>>) = << Char(name) >>
  BY DEF Text
<1> DEFINE P == Byte \ {Space, Newline, NUL}
           x == Char(name)
<1>3. x \in P
  BY <1>1
<1> HIDE DEF P, x
<1>4. <<x>> \in Seq(P)
  BY <1>3
<1> QED
  BY <1>2, <1>4 DEF P, x

LEMMA ConsIs ==
  ASSUME NEW S, NEW x \in S, NEW s \in Seq(S)
  PROVE  /\ Head(<<x>> \o s) = x /\ Tail(<<x>> \o s) = s
<1> DEFINE a == <<x>>
           w == a \o s
<1>1. a \in Seq(S) /\ Len(a) = 1 /\ a[1] = x /\ Len(s) \in Nat
  OBVIOUS
<1> HIDE DEF a
<1>2. /\ w \in Seq(S) /\ Len(w) = Len(a) + Len(s)
      /\ \A i \in 1 .. Len(a) + Len(s) : w[i] = IF i <= Len(a) THEN a[i] ELSE s[i - Len(a)]
  BY <1>1, ConcatProperties
<1>3. w # << >>
  BY <1>1, <1>2
<1> HIDE DEF w
<1> DEFINE r == Tail(w)
<1>4. /\ Head(w) \in S /\ r \in Seq(S) /\ Len(r) = Len(w) - 1
      /\ \A i \in 1 .. Len(r) : r[i] = w[i + 1]
  BY <1>2, <1>3, HeadTailProperties
<1>5. Head(w) = w[1]
  BY <1>2, <1>3
<1> HIDE DEF r
<1>6. w[1] = x
  BY <1>1, <1>2
<1>7. \A i \in 1 .. Len(s) : r[i] = s[i]
  <2> TAKE i \in 1 .. Len(s)
  <2>1. i \in 1 .. Len(r) /\ i + 1 \in 1 .. Len(a) + Len(s) /\ ~(i + 1 <= Len(a))
        /\ (i + 1) - Len(a) = i
    BY <1>1, <1>2, <1>4
  <2>2. r[i] = w[i + 1]
    BY <1>4, <2>1
  <2>3. w[i + 1] = s[(i + 1) - Len(a)]
    BY <1>2, <2>1
  <2> QED
    BY <2>1, <2>2, <2>3
<1>8. Len(r) = Len(s)
  BY <1>1, <1>2, <1>4
<1>9. r = s
  <2>1. r \in Seq(S) /\ s \in Seq(S)
    BY <1>4
  <2> QED
    BY ONLY <1>7, <1>8, <2>1, SeqEqual
<1> QED
  BY <1>5, <1>6, <1>9 DEF w, a, r

\* Of what name and parameters are free their line is, but for spaces.
LEMMA LineIn ==
  ASSUME NEW S, S \subseteq Byte, Space \in S,
         NEW x \in Seq(S), NEW ps \in Seq(Seq(S))
  PROVE  Line(x, ps) \in Seq(S)
<1> DEFINE T == Seq(S)
           one == <<Space>>
           f == [q \in T |-> one \o q]
           F == FlattenSeq(Mapped(f, ps))
<1>1. one \in T
  OBVIOUS
<1> HIDE DEF one
<1>2. f \in [T -> T] /\ \A q \in T : f[q] = one \o q
  BY <1>1, ConcatProperties
<1> HIDE DEF f
<1>3. Line(x, ps) = x \o F
  <2>1. \A k \in DOMAIN ps : ps[k] \in T
    OBVIOUS
  <2>2. [k \in DOMAIN ps |-> one \o ps[k]] = Mapped(f, ps)
    BY <1>2, <2>1 DEF Mapped
  <2> QED
    BY <2>2 DEF Line, one
<1>4. Mapped(f, ps) \in Seq(T)
  <2>1. ps \in Seq(T)
    OBVIOUS
  <2> HIDE DEF T
  <2>2. IsImage(Mapped(f, ps), f, ps, T)
    BY ONLY <1>2, <2>1, MappedIs
  <2> QED
    BY <2>2 DEF IsImage
<1>5. F \in T
  BY <1>4, FlattenIn
<1> HIDE DEF F
<1> QED
  BY <1>3, <1>5, ConcatProperties

LEMMA CommandReads ==
  Reads(ReadCommand, Byte, {ReadCommand[s].item : s \in Seq(Byte)})
<1> SUFFICES ASSUME NEW s \in Seq(Byte) PROVE ReadCommand[s].rest \in Seq(Byte)
  BY DEF Reads
<1> DEFINE rest == After(s, Newline)
           body == ReadBody[rest]
<1>1. rest \in Seq(Byte)
  BY AtIs
<1>2. body.rest \in Seq(Byte)
  BY <1>1, BodyReads DEF Reads
<1>3. << >> \in Seq(Byte)
  OBVIOUS
<1> HIDE DEF rest, body
<1>4. ReadCommand[s].rest \in {<< >>, rest, body.rest}
  BY DEF ReadCommand, Unreadable, rest, body
<1> QED
  BY <1>1, <1>2, <1>3, <1>4

\* The parts of what is sent for a command.
Tailed(c) == IF c.name \in WithBody THEN Counted(Block(c)) ELSE << >>

LEMMA CommandParts ==
  ASSUME NEW c \in Commands
  PROVE  /\ Line(c.name, c.params) \in Seq(Byte \ {Newline})
         /\ Line(c.name, c.params) \in Seq(Byte)
         /\ Fields(Line(c.name, c.params)) = <<c.name>> \o c.params
         /\ Tailed(c) \in Seq(Byte)
         /\ c.name \in WithBody => Block(c) \in Seq(Byte)
         /\ c.name \in WithBody /\ c.name # Text(<<"MPUB">>) => <<Block(c)>> = c.bodies
         /\ c.name = Text(<<"MPUB">>) => BodiesIn(Block(c)) = c.bodies
<1> DEFINE P == Byte \ {Space, Newline, NUL}
           Q == Byte \ {Newline}
           R == Byte \ {Space}
<1>1. /\ c.name \in {Text(<<name>>) : name \in Name} /\ c.params \in Seq(Seq(P))
      /\ c.bodies \in Seq(Seq(Byte))
  BY DEF Commands
<1>2. c.name \in Seq(P)
  BY <1>1, NameIs
<1>3. P \subseteq Q /\ P \subseteq R /\ Q \subseteq Byte /\ Space \in Q
  BY Characters
<1> HIDE DEF P, Q, R
<1>4. ASSUME NEW S, P \subseteq S PROVE c.name \in Seq(S) /\ c.params \in Seq(Seq(S))
  <2> DEFINE A == Seq(P)
             B == Seq(S)
  <2>1. A \subseteq B
    BY <1>4, SeqMonotonic
  <2>2. c.params \in Seq(A)
    BY <1>1
  <2> HIDE DEF A, B
  <2>3. c.params \in Seq(B)
    BY <2>1, <2>2, SeqMonotonic
  <2> QED
    BY <1>2, <2>1, <2>3 DEF A, B
<1>5. c.name \in Seq(Q) /\ c.params \in Seq(Seq(Q)) /\ c.name \in Seq(R) /\ c.params \in Seq(Seq(R))
  BY <1>3, <1>4
<1>6. Line(c.name, c.params) \in Seq(Q)
  BY <1>3, <1>5, LineIn
<1>7. Line(c.name, c.params) \in Seq(Byte) /\ Fields(Line(c.name, c.params)) = <<c.name>> \o c.params
  BY <1>5, FieldsAre DEF R
<1>8. c.name = Text(<<"MPUB">>) =>
        Block(c) = Gathered(c.bodies) /\ Block(c) \in Seq(Byte) /\ BodiesIn(Block(c)) = c.bodies
  <2> SUFFICES ASSUME c.name = Text(<<"MPUB">>)
               PROVE  Block(c) \in Seq(Byte) /\ BodiesIn(Block(c)) = c.bodies
    BY DEF Block
  <2>1. Block(c) = Gathered(c.bodies)
    BY DEF Block
  <2>2. /\ FitsIn(Len(c.bodies), WordLength)
        /\ \A i \in 1 .. Len(c.bodies) : FitsIn(Len(c.bodies[i]), WordLength)
    BY DEF Commands
  <2>3. Gathered(c.bodies) \in Seq(Byte) /\ BodiesIn(Gathered(c.bodies)) = c.bodies
    BY <1>1, <2>2, BlockRead
  <2> QED
    BY <2>1, <2>3
<1>9. c.name \in WithBody /\ c.name # Text(<<"MPUB">>) =>
        <<Block(c)>> = c.bodies /\ Block(c) \in Seq(Byte)
  <2> SUFFICES ASSUME c.name \in WithBody, c.name # Text(<<"MPUB">>)
               PROVE  <<Block(c)>> = c.bodies /\ Block(c) \in Seq(Byte)
    OBVIOUS
  <2>1. Block(c) = c.bodies[1] /\ Len(c.bodies) = 1
    BY DEF Block, Commands
  <2> DEFINE bs == c.bodies
             T == Seq(Byte)
  <2>2. bs \in Seq(T) /\ Len(bs) = 1
    BY <1>1, <2>1
  <2> HIDE DEF bs, T
  <2>3. bs[1] \in T /\ bs = <<bs[1]>>
    BY <2>2
  <2> QED
    BY <2>1, <2>3 DEF bs, T
<1>10. c.name \in WithBody => Block(c) \in Seq(Byte)
  BY <1>8, <1>9
<1>11. Tailed(c) \in Seq(Byte)
  <2>1. << >> \in Seq(Byte)
    OBVIOUS
  <2> QED
    BY <1>10, <2>1, CountedIs DEF Tailed
<1> QED
  BY <1>6, <1>7, <1>8, <1>9, <1>10, <1>11 DEF Q

LEMMA EncodingIs ==
  ASSUME NEW c \in Commands
  PROVE  /\ Encoding(c) = (Line(c.name, c.params) \o <<Newline>>) \o Tailed(c)
         /\ Encoding(c) \in Seq(Byte) /\ Encoding(c) # << >>
<1> DEFINE l == Line(c.name, c.params)
           one == <<Newline>>
           a == l \o one
           t == Tailed(c)
<1>1. l \in Seq(Byte) /\ t \in Seq(Byte)
  BY CommandParts
<1>2. Encoding(c) = a \o t
  BY DEF Encoding, Tailed
<1>3. one \in Seq(Byte) /\ Len(one) = 1
  BY Characters
<1> HIDE DEF l, one, t
<1>4. a \in Seq(Byte) /\ Len(a) = Len(l) + Len(one)
  BY <1>1, <1>3, ConcatProperties
<1> HIDE DEF a
<1>5. a \o t \in Seq(Byte) /\ Len(a \o t) = Len(a) + Len(t)
  BY <1>1, <1>4, ConcatProperties
<1>6. Len(l) \in Nat /\ Len(t) \in Nat
  BY <1>1
<1>7. a \o t # << >>
  BY <1>3, <1>4, <1>5, <1>6
<1> QED
  BY <1>2, <1>5, <1>7 DEF a, l, one, t

(***************************************************************************)
(* A command is read back from its encoding, whatever follows.             *)
(***************************************************************************)
LEMMA CommandRead ==
  ASSUME NEW c \in Commands, NEW t \in Seq(Byte)
  PROVE  ReadCommand[Encoding(c) \o t].item = c /\ ReadCommand[Encoding(c) \o t].rest = t
<1> DEFINE l == Line(c.name, c.params)
           one == <<Newline>>
           a == l \o one
           b == Tailed(c)
           bt == b \o t
           w == Encoding(c) \o t
<1>1. /\ l \in Seq(Byte \ {Newline}) /\ l \in Seq(Byte)
      /\ Fields(l) = <<c.name>> \o c.params
      /\ b \in Seq(Byte)
  BY CommandParts
<1>2. one \in Seq(Byte) /\ Newline \in Byte
  BY Characters
<1>3. a \in Seq(Byte)
  BY <1>1, <1>2, ConcatProperties
<1>4. bt \in Seq(Byte)
  BY <1>1, ConcatProperties
<1>5. Encoding(c) = a \o b
  BY EncodingIs
<1> HIDE DEF l, b
<1>6. Grouped(a, b, t)
  <2> HIDE DEF a
  <2> QED
    BY <1>1, <1>3, Group
<1>7. w = (l \o <<Newline>>) \o bt
  BY <1>5, <1>6 DEF Grouped
<1> HIDE DEF w, bt
<1>8. w \in Seq(Byte) /\ Splits(w, Newline, l, bt)
  BY ONLY <1>1, <1>2, <1>4, <1>7, SplitAt
<1>9. ~(At(w, Newline) > Len(w))
  <2>1. Len(l) \in Nat /\ Len(bt) \in Nat
    BY <1>1, <1>4
  <2> QED
    BY <1>8, <2>1 DEF Splits
<1>10. Head(Fields(l)) = c.name /\ Tail(Fields(l)) = c.params
  <2> DEFINE T == Seq(Byte \ {Space, Newline, NUL})
  <2>1. c.name \in {Text(<<name>>) : name \in Name} /\ c.params \in Seq(T)
    BY DEF Commands
  <2>2. c.name \in T
    BY <2>1, NameIs
  <2> HIDE DEF T
  <2> QED
    BY <1>1, <2>1, <2>2, ConsIs
<1>11. c = [name |-> c.name, params |-> c.params, bodies |-> c.bodies]
  BY DEF Commands
<1>12. Before(w, Newline) = l /\ After(w, Newline) = bt
  BY <1>8 DEF Splits
<1>13. CASE c.name \notin WithBody
  <2>1. c.bodies = << >> /\ bt = t
    <3>1. b = << >>
      BY <1>13 DEF b, Tailed
    <3>2. bt = t
      BY <3>1, ConcatEmptySeq DEF bt
    <3> QED
      BY <1>13, <3>2 DEF Commands
  <2>2. ReadCommand[w] = [item |-> [name |-> c.name, params |-> c.params, bodies |-> << >>],
                          rest |-> bt]
    BY <1>8, <1>9, <1>10, <1>12, <1>13 DEF ReadCommand
  <2> QED
    BY <1>11, <2>1, <2>2 DEF w
<1>14. CASE c.name \in WithBody
  <2>1. /\ Block(c) \in Seq(Byte) /\ FitsIn(Len(Block(c)), WordLength)
        /\ bt = Counted(Block(c)) \o t
    <3>1. bt = Counted(Block(c)) \o t
      BY <1>14 DEF bt, b, Tailed
    <3> QED
      BY <1>14, <3>1, CommandParts DEF Commands
  <2>2. HasBody(bt) /\ ReadBody[bt].item = Block(c) /\ ReadBody[bt].rest = t
    <3> DEFINE k == Block(c)
    <3>1. k \in Seq(Byte) /\ FitsIn(Len(k), WordLength) /\ t \in Seq(Byte)
      BY <2>1
    <3>2. bt = Counted(k) \o t
      BY <2>1
    <3> HIDE DEF k
    <3>3. bt \in Seq(Byte) /\ HasBody(bt) /\ ReadBody[bt].item = k /\ ReadBody[bt].rest = t
      BY ONLY <3>1, <3>2, BodyRead, ZenonT(40)
    <3> QED
      BY <3>3 DEF k
  <2> DEFINE bodies == IF c.name = Text(<<"MPUB">>) THEN BodiesIn(Block(c)) ELSE <<Block(c)>>
  <2>3. bodies = c.bodies
    BY <1>14, CommandParts
  <2> HIDE DEF bodies
  <2>4. ReadCommand[w] = [item |-> [name |-> c.name, params |-> c.params, bodies |-> bodies],
                          rest |-> t]
    BY <1>8, <1>9, <1>10, <1>12, <1>14, <2>2 DEF ReadCommand, bodies
  <2> QED
    BY <1>11, <2>3, <2>4 DEF w
<1> QED
  BY <1>13, <1>14


LEMMA StreamIs ==
  ASSUME NEW cs \in Seq(Commands), NEW c \in Commands
  PROVE  /\ Stream(<< >>) = << >>
         /\ Stream(cs) \in Seq(Byte)
         /\ Append(cs, c) \in Seq(Commands)
         /\ Stream(Append(cs, c)) = Stream(cs) \o Encoding(c)
<1> DEFINE T == Seq(Byte)
           f == [d \in Commands |-> Encoding(d)]
<1>1. f \in [Commands -> T] /\ \A d \in Commands : f[d] = Encoding(d)
  BY EncodingIs
<1> HIDE DEF f
<1>2. \A ds \in Seq(Commands) : Stream(ds) = FlattenSeq(Mapped(f, ds))
  <2> TAKE ds \in Seq(Commands)
  <2>1. \A k \in DOMAIN ds : ds[k] \in Commands
    OBVIOUS
  <2>2. [k \in DOMAIN ds |-> Encoding(ds[k])] = Mapped(f, ds)
    BY <1>1, <2>1 DEF Mapped
  <2> QED
    BY <2>2 DEF Stream
<1>3. Append(cs, c) \in Seq(Commands) /\ << >> \in Seq(Commands)
  BY AppendProperties
<1>4. Stream(<< >>) = << >>
  <2>1. Mapped(f, << >>) = << >>
    BY DEF Mapped
  <2> QED
    BY <1>2, <1>3, <2>1, FlattenEmpty
<1> HIDE DEF T
<1>5. Mapped(f, Append(cs, c)) = Append(Mapped(f, cs), f[c])
  BY <1>1, MappedAppend
<1>6. Mapped(f, cs) \in Seq(T)
  <2>1. IsImage(Mapped(f, cs), f, cs, T)
    BY <1>1, MappedIs
  <2> QED
    BY <2>1 DEF IsImage
<1>7. f[c] \in T /\ f[c] = Encoding(c)
  BY <1>1
<1> DEFINE ms == Mapped(f, cs)
           e == f[c]
<1>8. ms \in Seq(Seq(Byte)) /\ e \in Seq(Byte)
  BY <1>6, <1>7 DEF T
<1> HIDE DEF ms, e
<1>9. /\ FlattenSeq(ms) \in Seq(Byte)
      /\ Append(ms, e) \in Seq(Seq(Byte))
      /\ FlattenSeq(Append(ms, e)) = FlattenSeq(ms) \o e
  BY ONLY <1>8, FlattenAppend
<1> QED
  BY <1>2, <1>3, <1>4, <1>5, <1>7, <1>9 DEF ms, e

LEMMA StreamOfOne ==
  ASSUME NEW c \in Commands
  PROVE  << c >> \in Seq(Commands) /\ Stream(<< c >>) = Encoding(c)
<1> DEFINE none == << >>
           e == Encoding(c)
<1>1. none \in Seq(Commands) /\ Append(none, c) = << c >>
  OBVIOUS
<1>2. Stream(none) = << >>
  BY FlattenEmpty DEF Stream
<1> HIDE DEF none
<1>3. /\ Stream(<< >>) = << >>
      /\ Stream(none) \in Seq(Byte)
      /\ Append(none, c) \in Seq(Commands)
      /\ Stream(Append(none, c)) = Stream(none) \o Encoding(c)
  BY ONLY <1>1, StreamIs
<1>4. e \in Seq(Byte)
  BY EncodingIs
<1> HIDE DEF e
<1>5. << >> \o e = e
  BY <1>4, ConcatEmptySeq
<1> QED
  BY <1>1, <1>2, <1>3, <1>5 DEF e

LEMMA StreamTyped ==
  ASSUME NEW cs \in Seq(Commands)
  PROVE  Stream(cs) \in Seq(Byte)
<1>1. CASE cs = << >>
  <2>1. Stream(cs) = << >>
    BY <1>1, FlattenEmpty DEF Stream
  <2> QED
    BY <2>1
<1>2. CASE cs # << >>
  <2>1. 1 \in 1 .. Len(cs)
    BY <1>2, EmptySeq
  <2>2. cs[1] \in Commands
    BY <2>1
  <2> QED
    BY <2>2, StreamIs
<1> QED
  BY <1>1, <1>2

LEMMA StreamConcat ==
  ASSUME NEW a \in Seq(Commands), NEW b \in Seq(Commands)
  PROVE  a \o b \in Seq(Commands) /\ Stream(a \o b) = Stream(a) \o Stream(b)
<1> DEFINE n == Len(b)
           front(k) == SubSeq(b, 1, k)
           P == {k \in 0 .. n : Stream(a \o front(k)) = Stream(a) \o Stream(front(k))}
<1>1. n \in Nat /\ front(n) = b
  BY SubSeqFull
<1>2. \A k \in 0 .. n : front(k) \in Seq(Commands)
  BY CutIs
<1>3. \A d \in Seq(Commands) : Stream(d) \in Seq(Byte)
  BY StreamTyped
<1>4. 0 \in P
  <2>1. front(0) = << >>
    BY 1 \in Int, 0 \in Int, 0 < 1, SubSeqEmpty
  <2> DEFINE s == Stream(a)
  <2>2. s \in Seq(Byte) /\ Stream(<< >>) = << >>
    BY <1>3, FlattenEmpty DEF Stream
  <2> HIDE DEF s
  <2>3. s \o << >> = s /\ a \o << >> = a
    BY <2>2, ConcatEmptySeq
  <2>4. Stream(a \o front(0)) = Stream(a) \o Stream(front(0))
    BY <2>1, <2>2, <2>3 DEF s
  <2>5. 0 \in 0 .. n
    BY <1>1
  <2> HIDE DEF front
  <2> QED
    BY <2>4, <2>5
<1>5. ASSUME NEW k \in 1 .. n, k - 1 \in P PROVE k \in P
  <2> DEFINE f == front(k - 1)
             c == b[k]
             af == a \o f
             one == <<c>>
             sa == Stream(a)
             sf == Stream(f)
             e == Encoding(c)
  <2>1. k - 1 \in 0 .. n /\ k \in 0 .. n
    BY <1>1
  <2>2. f \in Seq(Commands) /\ c \in Commands /\ front(k) = Append(f, c)
    <3>1. f \in Seq(Commands) /\ c \in Commands
      BY <1>2, <2>1
    <3>2. front(k) = Append(f, c)
      BY CutNext
    <3> QED
      BY <3>1, <3>2
  <2>3. Stream(af) = sa \o sf
    BY <1>5
  <2> HIDE DEF f, c, front
  <2>4. af \in Seq(Commands) /\ one \in Seq(Commands)
    BY <2>2, ConcatProperties
  <2>5. sa \in Seq(Byte) /\ sf \in Seq(Byte) /\ e \in Seq(Byte)
    BY <1>3, <2>2, EncodingIs
  <2>6. a \o front(k) = Append(af, c)
    <3>1. Append(f, c) = f \o one
      BY <2>2, AppendIsConcat
    <3>2. Append(af, c) = af \o one
      <4> HIDE DEF af
      <4> QED
        BY <2>2, <2>4, AppendIsConcat
    <3>3. Grouped(a, f, one)
      <4> HIDE DEF one
      <4> QED
        BY <2>2, <2>4, Group
    <3> QED
      BY <2>2, <3>1, <3>2, <3>3 DEF Grouped
  <2> HIDE DEF af
  <2>7. Stream(Append(af, c)) = Stream(af) \o e /\ Stream(Append(f, c)) = sf \o e
    BY <2>2, <2>4, StreamIs
  <2> HIDE DEF sa, sf, e
  <2>8. Grouped(sa, sf, e)
    BY <2>5, Group
  <2>9. Stream(a \o front(k)) = sa \o Stream(front(k))
    BY <2>2, <2>3, <2>6, <2>7, <2>8 DEF Grouped
  <2> QED
    BY <2>1, <2>9 DEF sa
<1>6. n \in P
  <2> HIDE DEF P
  <2>1. \A k \in 0 .. n : k \in P
    BY <1>1, <1>4, <1>5, Induction
  <2> QED
    BY <1>1, <2>1
<1>7. a \o b \in Seq(Commands)
  BY ConcatProperties
<1> QED
  BY <1>1, <1>6, <1>7

(***************************************************************************)
(* A stream of commands is read back, and so is one that something follows. *)
(***************************************************************************)
LEMMA StreamRead ==
  ASSUME NEW cs \in Seq(Commands), NEW t \in Seq(Byte)
  PROVE  /\ IsPrefix(cs, Decoded(Stream(cs) \o t))
         /\ t = << >> => Decoded(Stream(cs) \o t) = cs
<1> DEFINE T == Seq(Byte)
           codes == [k \in DOMAIN cs |-> Encoding(cs[k])]
           I == {ReadCommand[s].item : s \in Seq(Byte)}
           n == Len(cs)
<1>1. n \in Nat /\ DOMAIN cs = 1 .. n /\ \A k \in 1 .. n : cs[k] \in Commands
  OBVIOUS
<1>2. \A k \in 1 .. n : Encoding(cs[k]) \in T
  BY <1>1, EncodingIs
<1>3. codes \in Seq(T) /\ Len(codes) = n /\ \A k \in 1 .. n : codes[k] = Encoding(cs[k])
  <2> HIDE DEF T, n
  <2>1. codes \in [1 .. n -> T]
    BY <1>1, <1>2
  <2>2. codes \in Seq(T) /\ Len(codes) = n
    BY ONLY <1>1, <2>1
  <2> QED
    BY <1>1, <2>2
<1>4. Stream(cs) = FlattenSeq(codes)
  BY DEF Stream
<1> HIDE DEF codes
<1>5. Codes(ReadCommand, Byte, codes, cs)
  <2> SUFFICES ASSUME NEW i \in 1 .. n
               PROVE  /\ codes[i] # << >>
                      /\ \A u \in Seq(Byte) : /\ ReadCommand[codes[i] \o u].item = cs[i]
                                              /\ ReadCommand[codes[i] \o u].rest = u
    BY <1>3 DEF Codes
  <2> DEFINE c == cs[i]
  <2>1. c \in Commands /\ codes[i] = Encoding(c)
    BY <1>1, <1>3
  <2> HIDE DEF c
  <2>2. Encoding(c) # << >>
    BY <2>1, EncodingIs
  <2>3. ASSUME NEW u \in Seq(Byte)
        PROVE  ReadCommand[Encoding(c) \o u].item = c /\ ReadCommand[Encoding(c) \o u].rest = u
    BY <2>1, CommandRead
  <2> QED
    BY <2>1, <2>2, <2>3 DEF c
<1>6. cs \in Seq(I)
  <2>1. Commands \subseteq I
    <3> SUFFICES ASSUME NEW c \in Commands PROVE c \in I
      OBVIOUS
    <3> DEFINE none == << >>
               s == Encoding(c) \o none
    <3>1. none \in Seq(Byte) /\ Encoding(c) \in Seq(Byte)
      BY EncodingIs
    <3> HIDE DEF none
    <3>2. s \in Seq(Byte)
      BY <3>1, ConcatProperties
    <3>3. ReadCommand[s].item = c
      BY <3>1, CommandRead
    <3> HIDE DEF s
    <3> QED
      BY <3>2, <3>3
  <2> HIDE DEF I
  <2> QED
    BY <2>1, SeqMonotonic
<1>7. Reads(ReadCommand, Byte, I)
  BY CommandReads
<1>8. codes \in Seq(Seq(Byte)) /\ Len(cs) = Len(codes) /\ t \in Seq(Byte)
  BY <1>3
<1> HIDE DEF I
<1>9. /\ IsPrefix(cs, ReadAll(FlattenSeq(codes) \o t, ReadCommand))
      /\ t = << >> => ReadAll(FlattenSeq(codes) \o t, ReadCommand) = cs
  BY ONLY <1>5, <1>6, <1>7, <1>8, AllRead
<1> QED
  BY <1>4, <1>9 DEF Decoded

-------------------------------------------------------------------------------
(* command_buf. *)

\* reader.c puts a default in the place of a length or capacity of 0, and
\* beyond 2^31 the room that lacks cannot be worked out.
WithinInt == CommandBufLength <= IntHalf /\ CommandBufCapacity \in 1 .. IntHalf

Bufs ==
  {b \in [pos : Nat, offset : Nat, length : Nat \ {0}, capacity : Nat, bytes : Seq(Byte)] :
     /\ CommandBufLength <= b.length /\ b.length <= IntHalf
     /\ b.capacity = CommandBufCapacity}

\* b holds x, when x is no longer than b was first allocated.
Holds(b, x) == Len(x) <= CommandBufLength => b.pos = 0 /\ b.offset = Len(x) /\ b.bytes = x

\* s is what is added to b when it becomes w.
Adds(b, w, s) == w \in Bufs /\ \A x \in Seq(Byte) : Holds(b, x) => Holds(w, x \o s)

LEMMA NeedIs ==
  ASSUME NEW d \in Int
  PROVE  ToInt(d) \in Int
<1>1. IntHalf \in Nat \ {0}
  BY LayoutAssumption
<1> DEFINE q == d + IntHalf
           m == 2 * IntHalf
<1>2. q \in Int /\ m \in Nat /\ m > 0
  BY <1>1
<1> HIDE DEF q, m
<1>3. q % m \in Int
  BY <1>2
<1> QED
  BY <1>1, <1>3 DEF ToInt, q, m

LEMMA PushedIs ==
  ASSUME NEW b \in Bufs, NEW s \in Seq(Byte)
  PROVE  /\ Pushed(b, s) \in Bufs
         /\ Pushed(b, s).pos = b.pos /\ Pushed(b, s).offset = b.offset + Len(s)
         /\ Pushed(b, s).bytes = b.bytes \o s
<1> DEFINE y == b.bytes \o s
           n == b.offset + Len(s)
           p == [pos |-> b.pos, offset |-> n, length |-> b.length, capacity |-> b.capacity,
                 bytes |-> y]
<1>1. b = [pos |-> b.pos, offset |-> b.offset, length |-> b.length, capacity |-> b.capacity,
           bytes |-> b.bytes]
  BY DEF Bufs
<1>2. b.bytes \in Seq(Byte) /\ b.offset \in Nat /\ Len(s) \in Nat
  BY DEF Bufs
<1>3. y \in Seq(Byte) /\ n \in Nat
  BY <1>2, ConcatProperties
<1>4. Pushed(b, s) = p
  <2>1. Pushed(b, s) = [b EXCEPT !.offset = n, !.bytes = y]
    BY DEF Pushed
  <2> HIDE DEF y, n
  <2> QED
    BY <1>1, <2>1
<1> HIDE DEF y, n
<1>5. p \in Bufs
  BY <1>3 DEF Bufs
<1> QED
  BY <1>4, <1>5 DEF y, n

LEMMA RoomIn ==
  ASSUME WithinInt, NEW b \in Bufs, NEW need \in Int, NEW room \in MakeRoom(b, need)
  PROVE  room \in Bufs
<1>1. b = [pos |-> b.pos, offset |-> b.offset, length |-> b.length, capacity |-> b.capacity,
           bytes |-> b.bytes]
  BY DEF Bufs
<1>2. CASE ~(need > 0)
  BY <1>2 DEF MakeRoom
<1>3. CASE need > 0 /\ need <= b.pos
  <2>1. room = [b EXCEPT !.pos = 0]
    BY <1>3 DEF MakeRoom, buffer_expand
  <2>2. room = [pos |-> 0, offset |-> b.offset, length |-> b.length, capacity |-> b.capacity,
                bytes |-> b.bytes]
    BY <1>1, <2>1
  <2> QED
    BY <2>2 DEF Bufs
<1>4. CASE need > 0 /\ ~(need <= b.pos)
  <2>1. PICK e \in Expansions(b.length, need) :
          /\ b.capacity > 0 => b.length + e <= b.capacity
          /\ room = [b EXCEPT !.length = @ + e]
    BY <1>4 DEF MakeRoom, buffer_expand
  <2>2. b.length \in Nat \ {0} /\ need \in Nat \ {0}
    BY <1>4 DEF Bufs
  <2>3. e \in Nat
    BY <2>2, ExpansionExists
  <2>4. b.capacity \in 1 .. IntHalf /\ IntHalf \in Nat
    BY LayoutAssumption DEF Bufs, WithinInt
  <2>5. b.length + e \in Nat \ {0} /\ b.length + e <= IntHalf
        /\ CommandBufLength <= b.length + e
    <3>1. CommandBufLength \in Nat /\ CommandBufLength <= b.length
      BY ProtocolAssumption DEF Bufs
    <3> QED
      BY <2>1, <2>2, <2>3, <2>4, <3>1
  <2>6. room = [pos |-> b.pos, offset |-> b.offset, length |-> b.length + e,
                capacity |-> b.capacity, bytes |-> b.bytes]
    BY <1>1, <2>1
  <2> QED
    BY <2>5, <2>6 DEF Bufs
<1> QED
  BY <1>2, <1>3, <1>4

(***************************************************************************)
(* What fits is added, and what does not leaves a buffer all the same.     *)
(***************************************************************************)
LEMMA AddHolds ==
  ASSUME WithinInt, NEW b \in Bufs, NEW s \in Seq(Byte)
  PROVE  Adds(b, AddedOrNot(b, s), s)
<1> DEFINE d == b.pos + b.offset + Len(s) - b.length
           need == AddNeed(b, Len(s))
<1>1. /\ b.pos \in Nat /\ b.offset \in Nat /\ b.length \in Nat \ {0} /\ Len(s) \in Nat
      /\ CommandBufLength <= b.length /\ b.length <= IntHalf /\ CommandBufLength \in Nat
      /\ IntHalf \in Nat \ {0}
  BY ProtocolAssumption, LayoutAssumption DEF Bufs
<1>2. d \in Int /\ need = ToInt(d)
  BY <1>1 DEF AddNeed, BUFFER_USED
<1>3. need \in Int
  BY <1>2, NeedIs
<1> HIDE DEF need
<1>4. Added(b, s) \subseteq Bufs
  <2> SUFFICES ASSUME NEW room \in MakeRoom(b, need) PROVE Pushed(room, s) \in Bufs
    BY DEF Added, need
  <2>1. room \in Bufs
    BY <1>3, RoomIn
  <2> QED
    BY <2>1, PushedIs
<1>5. AddedOrNot(b, s) \in Bufs
  BY <1>4 DEF AddedOrNot
<1>6. ASSUME NEW x \in Seq(Byte), Holds(b, x), Len(x \o s) <= CommandBufLength
      PROVE  /\ AddedOrNot(b, s).pos = 0
             /\ AddedOrNot(b, s).offset = Len(x \o s)
             /\ AddedOrNot(b, s).bytes = x \o s
  <2>1. Len(x) \in Nat /\ Len(x \o s) = Len(x) + Len(s)
    BY ConcatProperties
  <2>2. b.pos = 0 /\ b.offset = Len(x) /\ b.bytes = x
    BY <1>1, <1>6, <2>1 DEF Holds
  <2>3. d <= 0 /\ d >= -IntHalf
    BY <1>1, <1>6, <2>1, <2>2
  <2> HIDE DEF d
  <2>4. need = d
    <3>1. d < IntHalf
      BY <1>1, <1>2, <2>3
    <3> QED
      BY <1>2, <2>3, <3>1, NeedKept
  <2>5. MakeRoom(b, need) = {b}
    BY <1>2, <2>3, <2>4 DEF MakeRoom
  <2>6. Added(b, s) = {Pushed(b, s)}
    BY <2>5 DEF Added, need
  <2>7. AddedOrNot(b, s) = Pushed(b, s)
    BY <2>6 DEF AddedOrNot
  <2> QED
    BY <2>1, <2>2, <2>7, PushedIs
<1> QED
  BY <1>5, <1>6 DEF Adds, Holds

LEMMA AddsBoth ==
  ASSUME NEW b, NEW w, NEW v, NEW s \in Seq(Byte), NEW t \in Seq(Byte),
         Adds(b, w, s), Adds(w, v, t)
  PROVE  Adds(b, v, s \o t)
<1> SUFFICES ASSUME NEW x \in Seq(Byte), Holds(b, x) PROVE Holds(v, x \o (s \o t))
  BY DEF Adds
<1>1. x \o s \in Seq(Byte)
  BY ConcatProperties
<1>2. Holds(w, x \o s)
  BY DEF Adds
<1> DEFINE y == x \o s
<1>3. y \in Seq(Byte) /\ Holds(w, y)
  BY <1>1, <1>2
<1> HIDE DEF y
<1>4. Holds(v, y \o t)
  BY <1>3 DEF Adds
<1>5. Grouped(x, s, t)
  BY Group
<1> QED
  BY <1>4, <1>5 DEF y, Grouped

(***************************************************************************)
(* A buffer that is emptied holds nothing.                                 *)
(***************************************************************************)
LEMMA ResetHolds ==
  ASSUME NEW b \in Bufs
  PROVE  buffer_reset(b) \in Bufs /\ Holds(buffer_reset(b), << >>)
<1> DEFINE r == [pos |-> 0, offset |-> 0, length |-> b.length, capacity |-> b.capacity,
                 bytes |-> << >>]
<1>1. b = [pos |-> b.pos, offset |-> b.offset, length |-> b.length, capacity |-> b.capacity,
           bytes |-> b.bytes] /\ b.offset \in Nat
  BY DEF Bufs
<1>2. b.offset >= b.offset
  BY <1>1
<1>3. buffer_reset(b) = r
  BY <1>1, <1>2 DEF buffer_reset, Drained, BUFFER_HAS_DATA
<1>4. r \in Bufs
  <2>1. << >> \in Seq(Byte)
    OBVIOUS
  <2> QED
    BY <2>1 DEF Bufs
<1>5. Len(<< >>) = 0
  OBVIOUS
<1> QED
  BY <1>3, <1>4, <1>5 DEF Holds

LEMMA NewHolds ==
  ASSUME WithinInt
  PROVE  /\ new_buffer(CommandBufLength, CommandBufCapacity) \in Bufs
         /\ Holds(new_buffer(CommandBufLength, CommandBufCapacity), << >>)
<1>1. CommandBufLength \in Nat \ {0} /\ CommandBufCapacity \in Nat
  BY ProtocolAssumption
<1>2. << >> \in Seq(Byte) /\ Len(<< >>) = 0
  OBVIOUS
<1>3. CommandBufLength <= CommandBufLength /\ CommandBufLength <= IntHalf
  BY <1>1 DEF WithinInt
<1> QED
  BY <1>1, <1>2, <1>3 DEF new_buffer, Bufs, Holds

(***************************************************************************)
(* nsq_buffer_add, piece by piece.                                         *)
(***************************************************************************)
\* f is the buffer after the name, the first parameter, the second...
Adding(f, b, name, params) ==
  /\ f[0] = AddedOrNot(b, Text(<<name>>))
  /\ \A i \in 1 .. Len(params) : f[i] = AddedOrNot(AddedOrNot(f[i - 1], <<Space>>), params[i])

Ended(w, body) ==
  IF body = NULL THEN AddedOrNot(w, <<Newline>>)
  ELSE AddedOrNot(AddedOrNot(AddedOrNot(w, <<Newline>>), Word(Len(body))), body)

LEMMA PieceAdded ==
  ASSUME WithinInt, NEW b \in Bufs, NEW s \in Seq(Byte)
  PROVE  AddedOrNot(b, s) \in Bufs
BY AddHolds DEF Adds

LEMMA PiecesAre ==
  /\ <<Space>> \in Seq(Byte) /\ <<Newline>> \in Seq(Byte)
  /\ \A name \in Name : Text(<<name>>) \in Seq(Byte)
<1>1. ASSUME NEW name \in Name PROVE Text(<<name>>) \in Seq(Byte)
  <2> DEFINE s == Text(<<name>>)
  <2>1. Plain(s)
    BY NameIs DEF Plain
  <2> HIDE DEF s
  <2>2. s \in Seq(Byte)
    BY <2>1, PlainIs
  <2> QED
    BY <2>2 DEF s
<1> QED
  BY <1>1, Characters

LEMMA LineIs ==
  ASSUME WithinInt, NEW b \in Bufs, NEW name \in Name, NEW params \in Seq(Seq(Byte)), NEW body
  PROVE  \E f : /\ Adding(f, b, name, params)
                /\ nsq_buffer_add(b, name, params, body) = Ended(f[Len(params)], body)
<1> DEFINE n == Len(params)
           base == AddedOrNot(b, Text(<<name>>))
           next(w, i) == AddedOrNot(AddedOrNot(w, <<Space>>), params[i])
           step == [i \in 1 .. n |-> [w \in Bufs |-> next(w, i)]]
           Solves(g) == g = [i \in 0 .. Len(params) |->
             IF i = 0 THEN AddedOrNot(b, Text(<<name>>))
             ELSE AddedOrNot(AddedOrNot(g[i - 1], <<Space>>), params[i])]
<1>1. n \in Nat /\ \A i \in 1 .. n : params[i] \in Seq(Byte)
  OBVIOUS
<1>2. base \in Bufs
  BY PiecesAre, PieceAdded
<1>3. \A i \in 1 .. n : \A w \in Bufs : next(w, i) \in Bufs
  <2> SUFFICES ASSUME NEW i \in 1 .. n, NEW w \in Bufs PROVE next(w, i) \in Bufs
    OBVIOUS
  <2> DEFINE v == AddedOrNot(w, <<Space>>)
             p == params[i]
  <2>1. v \in Bufs
    BY PiecesAre, PieceAdded
  <2>2. p \in Seq(Byte)
    BY <1>1
  <2> HIDE DEF v, p
  <2>3. AddedOrNot(v, p) \in Bufs
    BY <2>1, <2>2, PieceAdded
  <2> QED
    BY <2>3 DEF v, p
<1> HIDE DEF next
<1>4. step \in [1 .. n -> [Bufs -> Bufs]]
  BY <1>3
<1>5. PICK f \in [0 .. n -> Bufs] : Iterates(f, n, base, step)
  <2> HIDE DEF step, n, base
  <2> QED
    BY ONLY <1>1, <1>2, <1>4, IterationExists
<1>6. f[0] = base /\ \A i \in 1 .. n : f[i] = next(f[i - 1], i)
  <2>1. f[0] = base
    BY <1>5 DEF Iterates
  <2>2. ASSUME NEW i \in 1 .. n PROVE f[i] = next(f[i - 1], i)
    <3>1. f[i - 1] \in Bufs
      <4>1. i - 1 \in 0 .. n
        BY <1>1
      <4> QED
        BY <1>5, <4>1
    <3>2. f[i] = step[i][f[i - 1]]
      BY <1>5 DEF Iterates
    <3> QED
      BY <3>1, <3>2
  <2> QED
    BY <2>1, <2>2
<1>7. \A i \in 0 .. n : f[i] = IF i = 0 THEN base ELSE next(f[i - 1], i)
  <2> TAKE i \in 0 .. n
  <2>1. i = 0 \/ i \in 1 .. n
    BY <1>1
  <2> QED
    BY <1>6, <2>1
<1>8. f = [i \in 0 .. n |-> f[i]]
  <2> HIDE DEF n
  <2> QED
    OBVIOUS
<1>9. Solves(f)
  BY <1>7, <1>8 DEF next
<1> DEFINE c == CHOOSE g : Solves(g)
<1>10. Solves(c)
  BY <1>9
<1>11. nsq_buffer_add(b, name, params, body) = Ended(c[n], body)
  BY DEF nsq_buffer_add, Ended
<1> HIDE DEF c
<1>12. c[0] = base /\ \A i \in 1 .. n : c[i] = next(c[i - 1], i)
  <2>1. c = [i \in 0 .. n |-> IF i = 0 THEN base ELSE next(c[i - 1], i)]
    BY <1>10 DEF next
  <2> HIDE DEF n, base
  <2>2. 0 \in 0 .. n
    BY <1>1
  <2>3. c[0] = base
    BY ONLY <2>1, <2>2
  <2>4. ASSUME NEW i \in 1 .. n PROVE c[i] = next(c[i - 1], i)
    <3>1. i \in 0 .. n /\ i # 0
      BY <1>1
    <3> QED
      BY ONLY <2>1, <3>1
  <2> QED
    BY <2>3, <2>4
<1>13. Adding(c, b, name, params)
  BY <1>12 DEF Adding, next
<1> QED
  BY <1>11, <1>13

LEMMA LineAdded ==
  ASSUME WithinInt, NEW b \in Bufs, NEW name \in Name, NEW params \in Seq(Seq(Byte)),
         NEW f, Adding(f, b, name, params)
  PROVE  Adds(b, f[Len(params)], Line(Text(<<name>>), params))
<1> DEFINE n == Len(params)
           x == Text(<<name>>)
           front(i) == SubSeq(params, 1, i)
           P == {i \in 0 .. n : Adds(b, f[i], Line(x, front(i)))}
<1>1. n \in Nat /\ front(n) = params /\ front(0) = << >>
  <2>1. front(0) = << >>
    BY 1 \in Int, 0 \in Int, 0 < 1, SubSeqEmpty
  <2>2. front(n) = params
    BY SubSeqFull
  <2> QED
    BY <2>1, <2>2
<1>2. x \in Seq(Byte) /\ << >> \in Seq(Seq(Byte)) /\ <<Space>> \in Seq(Byte)
  BY PiecesAre
<1> HIDE DEF x
<1>3. 0 \in P
  <2>1. Line(x, << >>) = x
    BY <1>2, LineAppend
  <2>2. f[0] = AddedOrNot(b, x)
    BY DEF Adding, x
  <2>3. Adds(b, f[0], x)
    BY <1>2, <2>2, AddHolds
  <2> HIDE DEF front
  <2> QED
    BY <1>1, <2>1, <2>3
<1>4. ASSUME NEW i \in 1 .. n, i - 1 \in P PROVE i \in P
  <2> DEFINE ps == front(i - 1)
             p == params[i]
             l == Line(x, ps)
             u == f[i - 1]
             v == AddedOrNot(u, <<Space>>)
             w == AddedOrNot(v, p)
             sp == <<Space>>
  <2>1. i \in 0 .. n /\ f[i] = w
    BY <1>1 DEF Adding
  <2>2. ps \in Seq(Seq(Byte)) /\ p \in Seq(Byte) /\ front(i) = Append(ps, p)
    <3>1. /\ ps \in Seq(Seq(Byte))
          /\ front(i) = Append(ps, p)
      BY CutNext
    <3> QED
      BY <3>1
  <2>3. Adds(b, u, l)
    BY <1>4
  <2> HIDE DEF ps, p, front
  <2>4. l \in Seq(Byte) /\ Line(x, Append(ps, p)) = (l \o <<Space>>) \o p
    BY <1>2, <2>2, LineAppend, ZenonT(40)
  <2>5. u \in Bufs
    BY <2>3 DEF Adds
  <2> HIDE DEF u, l
  <2>6. Adds(u, v, sp) /\ v \in Bufs
    <3>1. Adds(u, v, sp)
      BY <1>2, <2>5, AddHolds
    <3> QED
      BY <3>1 DEF Adds
  <2>7. sp \in Seq(Byte)
    BY <1>2
  <2> HIDE DEF v, sp
  <2>8. Adds(v, w, p)
    BY <2>2, <2>6, AddHolds
  <2>9. Adds(b, v, l \o sp)
    BY <2>3, <2>4, <2>6, <2>7, AddsBoth
  <2> DEFINE ls == l \o sp
  <2>10. ls \in Seq(Byte)
    BY <2>4, <2>7, ConcatProperties
  <2> HIDE DEF ls, w
  <2>11. Adds(b, w, ls \o p)
    <3>1. Adds(b, v, ls)
      BY <2>9 DEF ls
    <3> QED
      BY <2>2, <2>8, <2>10, <3>1, AddsBoth
  <2>12. Adds(b, f[i], Line(x, front(i)))
    BY <2>1, <2>2, <2>4, <2>11 DEF ls, sp
  <2> QED
    BY <2>1, <2>12
<1>5. \A i \in 0 .. n : i \in P
  <2> HIDE DEF P, n
  <2> QED
    BY <1>1, <1>3, <1>4, Induction
<1>6. n \in P
  <2> HIDE DEF P
  <2> QED
    BY <1>1, <1>5
<1> QED
  BY <1>1, <1>6 DEF x

LEMMA EndAdded ==
  ASSUME WithinInt, NEW w \in Bufs, NEW body, body = NULL \/ body \in Seq(Byte)
  PROVE  /\ body = NULL => Adds(w, Ended(w, body), <<Newline>>)
         /\ body # NULL => Adds(w, Ended(w, body), <<Newline>> \o Counted(body))
<1> DEFINE one == <<Newline>>
           v == AddedOrNot(w, one)
<1>1. one \in Seq(Byte)
  BY PiecesAre
<1> HIDE DEF one
<1>2. Adds(w, v, one) /\ v \in Bufs
  <2>1. Adds(w, v, one)
    BY <1>1, AddHolds
  <2> QED
    BY <2>1 DEF Adds
<1>3. CASE body = NULL
  BY <1>2, <1>3 DEF Ended, one
<1>4. CASE body # NULL
  <2> DEFINE size == Word(Len(body))
             u == AddedOrNot(v, size)
             z == AddedOrNot(u, body)
             sb == size \o body
  <2>1. body \in Seq(Byte) /\ Len(body) \in Nat
    BY <1>4
  <2>2. size \in Seq(Byte)
    BY <2>1, WordIs
  <2>3. Ended(w, body) = z /\ Counted(body) = sb
    BY <1>4 DEF Ended, Counted, one
  <2> HIDE DEF size, v
  <2>4. Adds(v, u, size) /\ u \in Bufs
    <3>1. Adds(v, u, size)
      BY <1>2, <2>2, AddHolds
    <3> QED
      BY <3>1 DEF Adds
  <2> HIDE DEF u
  <2>5. Adds(u, z, body)
    BY <2>1, <2>4, AddHolds
  <2> HIDE DEF z
  <2>6. Adds(v, z, sb)
    BY <2>1, <2>2, <2>4, <2>5, AddsBoth
  <2>7. sb \in Seq(Byte)
    BY <2>1, <2>2, ConcatProperties
  <2> HIDE DEF sb
  <2>8. Adds(w, z, one \o sb)
    BY <1>1, <1>2, <2>6, <2>7, AddsBoth
  <2> QED
    BY <1>4, <2>3, <2>8 DEF one
<1> QED
  BY <1>3, <1>4

(***************************************************************************)
(* What nsq_buffer_add puts into a buffer that has room for it is the      *)
(* command as the protocol has it.                                         *)
(***************************************************************************)
LEMMA CommandAdded ==
  ASSUME WithinInt, NEW b \in Bufs, NEW name \in Name, NEW c \in Commands, NEW body,
         c.name = Text(<<name>>),
         c.name \notin WithBody => body = NULL,
         c.name \in WithBody => body # NULL /\ body = Block(c)
  PROVE  Adds(b, nsq_buffer_add(b, name, c.params, body), Encoding(c))
<1> DEFINE l == Line(c.name, c.params)
           one == <<Newline>>
           t == Tailed(c)
           ps == c.params
<1>1. ps \in Seq(Seq(Byte))
  <2> DEFINE A == Seq(Byte \ {Space, Newline, NUL})
             B == Seq(Byte)
  <2>1. ps \in Seq(A)
    BY DEF Commands
  <2>2. A \subseteq B
    <3>1. Byte \ {Space, Newline, NUL} \subseteq Byte
      OBVIOUS
    <3> QED
      BY <3>1, SeqMonotonic
  <2> HIDE DEF A, B, ps
  <2>3. ps \in Seq(B)
    BY <2>1, <2>2, SeqMonotonic
  <2> QED
    BY <2>3 DEF B
<1>2. l \in Seq(Byte) /\ t \in Seq(Byte) /\ (c.name \in WithBody => Block(c) \in Seq(Byte))
  BY CommandParts
<1>3. Encoding(c) = (l \o one) \o t
  BY EncodingIs
<1>4. l = Line(Text(<<name>>), ps)
  OBVIOUS
<1>5. one \in Seq(Byte)
  BY PiecesAre
<1> HIDE DEF ps
<1>6. PICK f : Adding(f, b, name, ps) /\ nsq_buffer_add(b, name, ps, body) = Ended(f[Len(ps)], body)
  BY <1>1, LineIs
<1> DEFINE w == f[Len(ps)]
           z == Ended(w, body)
<1>7. Adds(b, w, l) /\ w \in Bufs
  <2>1. Adds(b, f[Len(ps)], Line(Text(<<name>>), ps))
    BY <1>1, <1>6, LineAdded
  <2> QED
    BY <1>4, <2>1 DEF Adds
<1>8. body = NULL \/ body \in Seq(Byte)
  BY <1>2
<1> HIDE DEF l, w
<1>9. Adds(w, z, one \o t)
  <2>1. CASE c.name \in WithBody
    <3>1. body # NULL /\ t = Counted(body)
      BY <2>1 DEF t, Tailed
    <3> QED
      BY <1>7, <1>8, <3>1, EndAdded
  <2>2. CASE c.name \notin WithBody
    <3>1. body = NULL /\ t = << >>
      BY <2>2 DEF t, Tailed
    <3>2. Adds(w, z, one)
      BY <1>7, <1>8, <3>1, EndAdded
    <3> HIDE DEF one, t, z
    <3>3. one \o t = one
      BY <1>5, <3>1, ConcatEmptySeq
    <3> QED
      BY <3>2, <3>3
  <2> QED
    BY <2>1, <2>2
<1> HIDE DEF one, t, z
<1> DEFINE ot == one \o t
<1>10. ot \in Seq(Byte)
  BY <1>2, <1>5, ConcatProperties
<1>11. Grouped(l, one, t)
  BY <1>2, <1>5, Group
<1>12. Adds(b, z, l \o ot)
  <2>1. Adds(w, z, ot)
    BY <1>9
  <2> HIDE DEF ot
  <2> QED
    BY <1>2, <1>7, <1>10, <2>1, AddsBoth
<1>13. Adds(b, z, Encoding(c))
  BY <1>3, <1>11, <1>12 DEF Grouped
<1> QED
  BY <1>6, <1>13 DEF z, w, ps

(***************************************************************************)
(* The commands the user composes are such.                                *)
(***************************************************************************)
Quiet == Byte \ {Space, Newline, NUL}

LEMMA NamesDiffer ==
  ASSUME NEW a \in Name, NEW b \in Name, Text(<<a>>) = Text(<<b>>)
  PROVE  a = b
<1>1. << Char(a) >> = << Char(b) >>
  BY NameIs
<1>2. Char(a) = Char(b)
  BY <1>1
<1> QED
  BY <1>2 DEF Char

LEMMA DecimalIs ==
  ASSUME NEW n \in Nat
  PROVE  Decimal(n) \in Seq(Quiet)
<1> DEFINE x == <<"decimal", n>>
<1>1. x \in Quiet
  BY DEF Quiet, Byte, Space, Newline, NUL, Char
<1> HIDE DEF x
<1>2. <<x>> \in Seq(Quiet)
  BY <1>1
<1> QED
  BY <1>2 DEF Decimal, x

LEMMA WithoutBody ==
  ASSUME NEW name \in Name \ {"PUB", "DPUB", "MPUB", "AUTH", "IDENTIFY"},
         NEW params \in Seq(Seq(Quiet))
  PROVE  /\ Command(name, params, << >>) \in Commands
         /\ Command(name, params, << >>).name \notin WithBody
<1> DEFINE t == Text(<<name>>)
           c == [name |-> t, params |-> params, bodies |-> << >>]
<1>1. t \notin WithBody
  <2> SUFFICES ASSUME NEW other \in {"PUB", "DPUB", "MPUB", "AUTH", "IDENTIFY"},
                      t = Text(<<other>>)
               PROVE  FALSE
    BY DEF WithBody
  <2>1. name = other
    BY NamesDiffer DEF Name
  <2> QED
    BY <2>1
<1>2. t # Text(<<"MPUB">>)
  BY <1>1 DEF WithBody
<1>3. t \in {Text(<<n>>) : n \in Name} /\ << >> \in Seq(Seq(Byte))
  OBVIOUS
<1> HIDE DEF t
<1>4. c \in Commands
  BY <1>1, <1>2, <1>3 DEF Commands, Quiet
<1> QED
  BY <1>1, <1>4 DEF Command, t

LEMMA WithOneBody ==
  ASSUME NEW name \in {"PUB", "DPUB", "AUTH", "IDENTIFY"}, NEW params \in Seq(Seq(Quiet)),
         NEW body, ABody(body)
  PROVE  /\ Command(name, params, <<body>>) \in Commands
         /\ Command(name, params, <<body>>).name \in WithBody
         /\ Block(Command(name, params, <<body>>)) = body
<1> DEFINE t == Text(<<name>>)
           bs == <<body>>
           c == [name |-> t, params |-> params, bodies |-> bs]
<1>1. t \in WithBody /\ t \in {Text(<<n>>) : n \in Name} /\ t # Text(<<"MPUB">>)
  <2>1. t \in WithBody
    BY DEF WithBody
  <2>2. t \in {Text(<<n>>) : n \in Name}
    BY DEF Name
  <2>3. t # Text(<<"MPUB">>)
    BY NamesDiffer DEF Name
  <2> QED
    BY <2>1, <2>2, <2>3
<1>2. body \in Seq(Byte) /\ FitsIn(Len(body), WordLength)
  BY DEF ABody
<1>3. bs \in Seq(Seq(Byte)) /\ bs[1] = body /\ Len(bs) = 1
  <2> DEFINE T == Seq(Byte)
  <2>1. body \in T
    BY <1>2
  <2> HIDE DEF T
  <2>2. bs \in Seq(T) /\ bs[1] = body /\ Len(bs) = 1
    BY <2>1
  <2> QED
    BY <2>2 DEF T
<1> HIDE DEF t, bs
<1>4. Block(c) = body
  BY <1>1, <1>3 DEF Block
<1>5. c \in Commands
  BY <1>1, <1>2, <1>3, <1>4 DEF Commands, Quiet
<1> QED
  BY <1>1, <1>4, <1>5 DEF Command, t, bs

LEMMA WithBodies ==
  ASSUME NEW params \in Seq(Seq(Quiet)), NEW bs \in Bodies
  PROVE  /\ Command("MPUB", params, bs) \in Commands
         /\ Command("MPUB", params, bs).name \in WithBody
         /\ Block(Command("MPUB", params, bs)) = Gathered(bs)
         /\ Gathered(bs) # NULL
<1> DEFINE t == Text(<<"MPUB">>)
           c == [name |-> t, params |-> params, bodies |-> bs]
<1>1. t \in WithBody /\ t \in {Text(<<n>>) : n \in Name}
  <2>1. t \in WithBody
    BY DEF WithBody
  <2>2. t \in {Text(<<n>>) : n \in Name}
    BY DEF Name
  <2> QED
    BY <2>1, <2>2
<1>2. /\ bs \in Seq(Seq(Byte)) /\ \A i \in DOMAIN bs : ABody(bs[i])
      /\ FitsIn(Len(bs), WordLength) /\ ABody(Gathered(bs))
  BY BodyAssumption DEF CBody
<1>3. /\ \A i \in 1 .. Len(bs) : FitsIn(Len(bs[i]), WordLength)
      /\ FitsIn(Len(Gathered(bs)), WordLength) /\ Gathered(bs) # NULL
  BY <1>2 DEF ABody
<1>4. Block(c) = Gathered(bs)
  BY DEF Block
<1> HIDE DEF t
<1>5. c \in Commands
  <2>1. c \in [name : {Text(<<name>>) : name \in Name},
               params : Seq(Seq(Byte \ {Space, Newline, NUL})), bodies : Seq(Seq(Byte))]
    BY <1>1, <1>2 DEF Quiet
  <2> QED
    BY <1>1, <1>2, <1>3, <1>4, <2>1 DEF Commands, t
<1> QED
  BY <1>1, <1>3, <1>4, <1>5 DEF Command, t

(***************************************************************************)
(* The s bytes nsq_multi_publish sends are the whole block it fills.       *)
(***************************************************************************)
\* s[i] is the size after i bodies.
Sized(s, bs) ==
  s[0] = WordLength /\ \A i \in 1 .. Len(bs) : s[i] = s[i - 1] + Len(bs[i]) + WordLength

LEMMA SizesAre ==
  ASSUME NEW bs \in Seq(Seq(Byte)), NEW buf, NEW topic
  PROVE  \E s : /\ Sized(s, bs)
                /\ nsq_multi_publish(buf, topic, bs)
                     = nsq_buffer_add(buf, "MPUB", <<topic>>, SubSeq(Gathered(bs), 1, s[Len(bs)]))
<1> DEFINE n == Len(bs)
           next(x, i) == x + Len(bs[i]) + WordLength
           step == [i \in 1 .. n |-> [x \in Nat |-> next(x, i)]]
           Solves(g) == g = [i \in 0 .. Len(bs) |->
             IF i = 0 THEN WordLength ELSE g[i - 1] + Len(bs[i]) + WordLength]
<1>1. n \in Nat /\ WordLength \in Nat /\ \A i \in 1 .. n : Len(bs[i]) \in Nat
  BY ProtocolAssumption
<1>2. \A i \in 1 .. n : \A x \in Nat : next(x, i) \in Nat
  BY <1>1
<1> HIDE DEF next
<1>3. step \in [1 .. n -> [Nat -> Nat]]
  BY <1>2
<1>4. PICK f \in [0 .. n -> Nat] : Iterates(f, n, WordLength, step)
  <2> HIDE DEF step, n
  <2> QED
    BY ONLY <1>1, <1>3, IterationExists
<1>5. f[0] = WordLength /\ \A i \in 1 .. n : f[i] = next(f[i - 1], i)
  <2>1. f[0] = WordLength
    BY <1>4 DEF Iterates
  <2>2. ASSUME NEW i \in 1 .. n PROVE f[i] = next(f[i - 1], i)
    <3>1. i - 1 \in 0 .. n
      BY <1>1
    <3>2. f[i - 1] \in Nat
      BY <1>4, <3>1
    <3>3. f[i] = step[i][f[i - 1]]
      BY <1>4 DEF Iterates
    <3> QED
      BY <3>2, <3>3
  <2> QED
    BY <2>1, <2>2
<1>6. \A i \in 0 .. n : f[i] = IF i = 0 THEN WordLength ELSE next(f[i - 1], i)
  <2> TAKE i \in 0 .. n
  <2>1. i = 0 \/ i \in 1 .. n
    BY <1>1
  <2> QED
    BY <1>5, <2>1
<1>7. f = [i \in 0 .. n |-> f[i]]
  <2> HIDE DEF n
  <2> QED
    OBVIOUS
<1>8. Solves(f)
  BY <1>6, <1>7 DEF next
<1> DEFINE c == CHOOSE g : Solves(g)
<1>9. Solves(c)
  BY <1>8
<1>10. nsq_multi_publish(buf, topic, bs)
         = nsq_buffer_add(buf, "MPUB", <<topic>>, SubSeq(Gathered(bs), 1, c[n]))
  BY DEF nsq_multi_publish
<1> HIDE DEF c
<1>11. c[0] = WordLength /\ \A i \in 1 .. n : c[i] = next(c[i - 1], i)
  <2>1. c = [i \in 0 .. n |-> IF i = 0 THEN WordLength ELSE next(c[i - 1], i)]
    BY <1>9 DEF next
  <2> HIDE DEF n
  <2>2. 0 \in 0 .. n
    BY <1>1
  <2>3. c[0] = WordLength
    BY ONLY <2>1, <2>2
  <2>4. ASSUME NEW i \in 1 .. n PROVE c[i] = next(c[i - 1], i)
    <3>1. i \in 0 .. n /\ i # 0
      BY <1>1
    <3> QED
      BY ONLY <2>1, <3>1
  <2> QED
    BY <2>3, <2>4
<1>12. Sized(c, bs)
  BY <1>11 DEF Sized, next
<1> QED
  BY <1>10, <1>12

LEMMA WholeSize ==
  ASSUME NEW bs \in Seq(Seq(Byte)), NEW s, Sized(s, bs)
  PROVE  SubSeq(Gathered(bs), 1, s[Len(bs)]) = Gathered(bs)
<1> DEFINE n == Len(bs)
           f == [b \in Seq(Byte) |-> Counted(b)]
           codes == Mapped(f, bs)
           front(i) == SubSeq(codes, 1, i)
           P == {i \in 0 .. n : s[i] = WordLength + Len(FlattenSeq(front(i)))}
<1>1. n \in Nat /\ WordLength \in Nat /\ \A i \in 1 .. n : bs[i] \in Seq(Byte)
  BY ProtocolAssumption
<1>2. Gathered(bs) = Word(n) \o FlattenSeq(codes) /\ f \in [Seq(Byte) -> Seq(Byte)]
  BY GatheredIs
<1>3. \A i \in 1 .. n : f[bs[i]] = Counted(bs[i])
  BY <1>1
<1> HIDE DEF f
<1>4. codes \in Seq(Seq(Byte)) /\ Len(codes) = n /\ \A i \in 1 .. n : codes[i] = Counted(bs[i])
  <2> DEFINE T == Seq(Byte)
  <2>1. f \in [T -> T] /\ bs \in Seq(T)
    BY <1>2
  <2> HIDE DEF T
  <2>2. IsImage(codes, f, bs, T)
    BY <2>1, MappedIs
  <2> QED
    BY <1>3, <2>2 DEF IsImage, T
<1> HIDE DEF codes
<1>5. front(0) = << >> /\ front(n) = codes
  <2>1. front(0) = << >>
    BY 1 \in Int, 0 \in Int, 0 < 1, SubSeqEmpty
  <2>2. front(n) = codes
    BY <1>4, SubSeqFull
  <2> QED
    BY <2>1, <2>2
<1>6. 0 \in P
  <2>1. FlattenSeq(front(0)) = << >>
    BY <1>5, FlattenEmpty
  <2> HIDE DEF front
  <2>2. Len(FlattenSeq(front(0))) = 0
    BY <2>1
  <2>3. s[0] = WordLength
    BY DEF Sized
  <2>4. s[0] = WordLength + Len(FlattenSeq(front(0)))
    BY <1>1, <2>2, <2>3
  <2>5. 0 \in 0 .. n
    BY <1>1
  <2> QED
    BY <2>4, <2>5
<1>7. ASSUME NEW i \in 1 .. n, i - 1 \in P PROVE i \in P
  <2> DEFINE a == FlattenSeq(front(i - 1))
             b == codes[i]
  <2>1. i \in 0 .. n /\ i - 1 \in 0 .. n /\ i \in 1 .. Len(codes)
    BY <1>1, <1>4
  <2>2. FlattenSeq(front(i)) = a \o b
    BY <1>4, <2>1, FlattenNext
  <2>3. front(i - 1) \in Seq(Seq(Byte))
    BY <1>4, <2>1, CutIs
  <2>4. a \in Seq(Byte)
    <3> HIDE DEF front
    <3> QED
      BY <2>3, FlattenIn
  <2>5. b \in Seq(Byte) /\ Len(b) = WordLength + Len(bs[i])
    BY <1>1, <1>4, CountedIs
  <2>6. s[i - 1] = WordLength + Len(a)
    BY <1>7
  <2>7. s[i] = s[i - 1] + Len(bs[i]) + WordLength
    BY DEF Sized
  <2> DEFINE k == Len(bs[i])
  <2>8. k \in Nat
    BY <1>1
  <2> HIDE DEF a, b
  <2>9. Len(a \o b) = Len(a) + Len(b) /\ Len(a) \in Nat
    BY ONLY <2>4, <2>5, ConcatProperties, SMTT(20)
  <2>10. s[i] = s[i - 1] + k + WordLength /\ Len(b) = WordLength + k
    BY <2>5, <2>7
  <2> HIDE DEF front, k
  <2>11. s[i] = WordLength + Len(a \o b)
    BY <1>1, <2>6, <2>8, <2>9, <2>10
  <2>12. s[i] = WordLength + Len(FlattenSeq(front(i)))
    BY <2>2, <2>11
  <2> QED
    BY <2>1, <2>12
<1>8. \A i \in 0 .. n : i \in P
  <2> HIDE DEF P, n
  <2> QED
    BY <1>1, <1>6, <1>7, Induction
<1>9. s[n] = WordLength + Len(FlattenSeq(codes))
  <2>1. n \in P
    <3> HIDE DEF P
    <3> QED
      BY <1>1, <1>8
  <2> QED
    BY <1>5, <2>1
<1> DEFINE w == Word(n)
           all == FlattenSeq(codes)
           g == w \o all
<1>10. all \in Seq(Byte)
  BY <1>4, FlattenIn
<1>11. w \in Seq(Byte) /\ Len(w) = WordLength
  BY <1>1, WordIs
<1> HIDE DEF w, all
<1>12. g \in Seq(Byte) /\ Len(g) = Len(w) + Len(all)
  BY <1>10, <1>11, ConcatProperties
<1>13. s[n] = Len(g)
  BY <1>9, <1>11, <1>12 DEF all
<1> HIDE DEF g
<1>14. SubSeq(g, 1, Len(g)) = g
  BY <1>12, SubSeqFull
<1> QED
  BY <1>2, <1>13, <1>14 DEF g, w, all

\* The buffer w is b with the command c composed into it.
Composed(b, w, c) == c \in Commands /\ Adds(b, w, Encoding(c))

LEMMA ShortComposed ==
  ASSUME WithinInt, NEW b \in Bufs,
         NEW name \in Name \ {"PUB", "DPUB", "MPUB", "AUTH", "IDENTIFY"},
         NEW params \in Seq(Seq(Quiet))
  PROVE  Composed(b, nsq_buffer_add(b, name, params, NULL), Command(name, params, << >>))
<1> DEFINE c == Command(name, params, << >>)
<1>1. c \in Commands /\ c.name \notin WithBody
  BY WithoutBody
<1>2. c.name = Text(<<name>>) /\ c.params = params
  BY DEF Command
<1> HIDE DEF c
<1>3. Adds(b, nsq_buffer_add(b, name, c.params, NULL), Encoding(c))
  BY <1>1, <1>2, CommandAdded
<1> QED
  BY <1>1, <1>2, <1>3 DEF Composed, c

LEMMA LongComposed ==
  ASSUME WithinInt, NEW b \in Bufs, NEW name \in {"PUB", "DPUB", "AUTH", "IDENTIFY"},
         NEW params \in Seq(Seq(Quiet)), NEW body, ABody(body)
  PROVE  Composed(b, nsq_buffer_add(b, name, params, body), Command(name, params, <<body>>))
<1> DEFINE c == Command(name, params, <<body>>)
<1>1. c \in Commands /\ c.name \in WithBody /\ Block(c) = body
  BY WithOneBody
<1>2. c.name = Text(<<name>>) /\ c.params = params
  BY DEF Command
<1>3. body # NULL /\ name \in Name
  BY DEF ABody, Name
<1> HIDE DEF c
<1>4. Adds(b, nsq_buffer_add(b, name, c.params, body), Encoding(c))
  BY <1>1, <1>2, <1>3, CommandAdded
<1> QED
  BY <1>1, <1>2, <1>4 DEF Composed, c

LEMMA BlockComposed ==
  ASSUME WithinInt, NEW b \in Bufs, NEW topic \in Seq(Quiet), NEW bs \in Bodies
  PROVE  Composed(b, nsq_multi_publish(b, topic, bs), Command("MPUB", <<topic>>, bs))
<1> DEFINE params == <<topic>>
           c == Command("MPUB", params, bs)
           block == Gathered(bs)
<1>1. params \in Seq(Seq(Quiet))
  <2> DEFINE T == Seq(Quiet)
  <2>1. topic \in T
    OBVIOUS
  <2> HIDE DEF T
  <2>2. params \in Seq(T)
    BY <2>1
  <2> QED
    BY <2>2 DEF T
<1> HIDE DEF params
<1>2. c \in Commands /\ c.name \in WithBody /\ Block(c) = block /\ block # NULL
  BY <1>1, WithBodies
<1>3. c.name = Text(<<"MPUB">>) /\ c.params = params
  BY DEF Command
<1>4. bs \in Seq(Seq(Byte))
  BY BodyAssumption
<1>5. nsq_multi_publish(b, topic, bs) = nsq_buffer_add(b, "MPUB", params, block)
  BY <1>4, SizesAre, WholeSize DEF params
<1> HIDE DEF c, block
<1>6. Adds(b, nsq_buffer_add(b, "MPUB", c.params, block), Encoding(c))
  <2>1. "MPUB" \in Name
    BY DEF Name
  <2> QED
    BY <1>2, <1>3, <2>1, CommandAdded
<1> QED
  BY <1>2, <1>3, <1>5, <1>6 DEF Composed, c, params

-------------------------------------------------------------------------------
(* The wire. *)

\* w carries the commands recorded intact, and after them only what came with
\* or after a batch that was too long.
Carries(w, history) ==
  /\ w \in Seq(Byte) /\ history.intact \in Seq(Commands) /\ history.torn \in BOOLEAN
  /\ \E t \in Seq(Byte) :
       w = Stream(history.intact) \o t /\ (~history.torn => t = << >>)

(***************************************************************************)
(* Writing a buffer that holds commands adds them to what is carried.      *)
(***************************************************************************)
LEMMA Wrote ==
  ASSUME NEW w, NEW history, Carries(w, history),
         NEW b \in Bufs, NEW commands \in Seq(Commands), Holds(b, Stream(commands))
  PROVE  Carries(w \o b.bytes, Recorded(history, commands))
<1> DEFINE s == Stream(history.intact)
           u == Stream(commands)
           y == b.bytes
           r == Recorded(history, commands)
           torn == history.torn \/ TooLong(commands)
           intact == history.intact
           wy == w \o y
<1>1. PICK t \in Seq(Byte) : w = s \o t /\ (~history.torn => t = << >>)
  BY DEF Carries
<1>2. w \in Seq(Byte) /\ intact \in Seq(Commands) /\ history.torn \in BOOLEAN
  BY DEF Carries
<1>3. s \in Seq(Byte) /\ u \in Seq(Byte)
  BY <1>2, StreamTyped
<1>4. y \in Seq(Byte)
  BY DEF Bufs
<1>5. r.torn = torn /\ r.intact = intact \o (IF torn THEN << >> ELSE commands)
  BY DEF Recorded
<1>6. r.torn \in BOOLEAN
  BY <1>2, <1>5 DEF TooLong
<1>7. ~TooLong(commands) => y = u
  <2>1. Len(u) \in Nat /\ CommandBufLength \in Nat
    BY <1>3, ProtocolAssumption
  <2> QED
    BY <2>1 DEF TooLong, Holds
<1> HIDE DEF s, u, y, r, intact
<1>8. wy \in Seq(Byte)
  BY <1>2, <1>4, ConcatProperties
<1>9. CASE torn
  <2> DEFINE ty == t \o y
  <2>1. r.intact = intact
    <3>1. intact \o << >> = intact
      BY <1>2, ConcatEmptySeq
    <3> QED
      BY <1>5, <1>9, <3>1
  <2>2. ty \in Seq(Byte)
    BY <1>4, ConcatProperties
  <2>3. Grouped(s, t, y)
    BY <1>3, <1>4, Group
  <2>4. wy = s \o ty
    BY <1>1, <2>3 DEF Grouped
  <2>5. r.torn
    BY <1>5, <1>9
  <2>6. wy = Stream(r.intact) \o ty
    BY <2>1, <2>4 DEF s, intact
  <2>7. r.intact \in Seq(Commands)
    BY <1>2, <2>1
  <2> HIDE DEF ty, wy, torn
  <2>8. Carries(wy, r)
    BY <1>6, <1>8, <2>2, <2>5, <2>6, <2>7 DEF Carries
  <2> QED
    BY <2>8 DEF wy, r, y
<1>10. CASE ~torn
  <2> DEFINE none == << >>
  <2>1. r.intact = intact \o commands /\ y = u /\ t = none
    BY <1>1, <1>5, <1>7, <1>10
  <2>2. intact \o commands \in Seq(Commands) /\ Stream(intact \o commands) = s \o u
    <3>1. /\ intact \o commands \in Seq(Commands)
          /\ Stream(intact \o commands) = Stream(intact) \o Stream(commands)
      BY <1>2, StreamConcat
    <3> QED
      BY <3>1 DEF s, u, intact
  <2>3. w = s
    <3>1. s \o none = s
      BY <1>3, ConcatEmptySeq
    <3> QED
      BY <1>1, <2>1, <3>1
  <2>4. wy = Stream(r.intact)
    BY <2>1, <2>2, <2>3
  <2> HIDE DEF wy, torn
  <2>5. wy \o none = wy
    BY <1>8, ConcatEmptySeq
  <2>6. none \in Seq(Byte)
    OBVIOUS
  <2>7. r.intact \in Seq(Commands) /\ wy = Stream(r.intact) \o none
    BY <2>1, <2>2, <2>4, <2>5
  <2>8. ~r.torn => none = << >>
    OBVIOUS
  <2> HIDE DEF none
  <2>9. Carries(wy, r)
    BY <1>6, <1>8, <2>6, <2>7, <2>8 DEF Carries
  <2> QED
    BY <2>9 DEF wy, r, y
<1> QED
  BY <1>9, <1>10

LEMMA FirstComposed ==
  ASSUME NEW b \in Bufs, Holds(b, << >>), NEW w, NEW c, Composed(b, w, c)
  PROVE  w \in Bufs /\ << c >> \in Seq(Commands) /\ Holds(w, Stream(<< c >>))
<1> DEFINE none == << >>
           e == Encoding(c)
<1>1. c \in Commands /\ Adds(b, w, e)
  BY DEF Composed
<1>2. << c >> \in Seq(Commands) /\ Stream(<< c >>) = e
  BY <1>1, StreamOfOne
<1>3. e \in Seq(Byte) /\ none \in Seq(Byte) /\ Holds(b, none)
  BY <1>1, EncodingIs
<1> HIDE DEF e
<1>4. none \o e = e
  BY <1>3, ConcatEmptySeq
<1> HIDE DEF none
<1>5. w \in Bufs /\ Holds(w, none \o e)
  BY <1>1, <1>3 DEF Adds
<1> QED
  BY <1>2, <1>4, <1>5

LEMMA NextComposed ==
  ASSUME NEW b \in Bufs, NEW commands \in Seq(Commands), Holds(b, Stream(commands)),
         NEW w, NEW c, Composed(b, w, c)
  PROVE  /\ w \in Bufs /\ Append(commands, c) \in Seq(Commands)
         /\ Holds(w, Stream(Append(commands, c)))
<1>1. c \in Commands /\ Adds(b, w, Encoding(c))
  BY DEF Composed
<1>2. /\ Stream(<< >>) = << >>
      /\ Stream(commands) \in Seq(Byte)
      /\ Append(commands, c) \in Seq(Commands)
      /\ Stream(Append(commands, c)) = Stream(commands) \o Encoding(c)
  BY <1>1, StreamIs
<1> DEFINE x == Stream(commands)
<1>3. x \in Seq(Byte) /\ Holds(b, x)
  BY <1>2
<1>4. w \in Bufs /\ Holds(w, x \o Encoding(c))
  <2> HIDE DEF x
  <2> QED
    BY <1>1, <1>3 DEF Adds
<1> QED
  BY <1>2, <1>4

LEMMA ParamsAre ==
  ASSUME NEW x \in Seq(Quiet), NEW y \in Seq(Quiet)
  PROVE  {<< >>, <<x>>, <<x, y>>} \subseteq Seq(Seq(Quiet))
<1> DEFINE T == Seq(Quiet)
<1>1. x \in T /\ y \in T
  OBVIOUS
<1> HIDE DEF T
<1>2. << >> \in Seq(T) /\ <<x>> \in Seq(T) /\ <<x, y>> \in Seq(T)
  BY <1>1
<1> QED
  BY <1>2 DEF T

(***************************************************************************)
(* The inductive invariant: command_buf holds the commands composed in it, *)
(* if it has room for them, and the wire carries those written before.     *)
(***************************************************************************)
WireInv ==
  /\ command_buf \in Bufs /\ batch \in Seq(Commands)
  /\ Holds(command_buf, Stream(batch))
  /\ Carries(wire, sent)

LEMMA ComposeKeeps ==
  ASSUME WireInv, NEW name, NEW params, NEW bodies, NEW encoded,
         Composed(command_buf, encoded, Command(name, params, bodies)),
         Compose(name, params, bodies, encoded)
  PROVE  WireInv'
<1> DEFINE c == Command(name, params, bodies)
<1>1. /\ command_buf' = encoded /\ batch' = Append(batch, c)
      /\ wire' = wire /\ sent' = sent
  BY DEF Compose
<1>2. command_buf \in Bufs /\ batch \in Seq(Commands) /\ Holds(command_buf, Stream(batch))
  BY DEF WireInv
<1>3. Composed(command_buf, encoded, c)
  OBVIOUS
<1> HIDE DEF c
<1>4. /\ encoded \in Bufs /\ Append(batch, c) \in Seq(Commands)
      /\ Holds(encoded, Stream(Append(batch, c)))
  BY <1>2, <1>3, NextComposed
<1>5. Carries(wire, sent)
  BY DEF WireInv
<1> QED
  BY <1>1, <1>4, <1>5 DEF WireInv

LEMMA CommandsKeep ==
  ASSUME WithinInt, WireInv,
         \/ subscribe \/ ready \/ finish \/ requeue \/ nop
         \/ publish \/ defer_publish \/ multi_publish
         \/ touch \/ cleanly_close \/ auth \/ identify
  PROVE  WireInv'
<1>1. command_buf \in Bufs
  BY DEF WireInv
<1>2. \A s \in Topic \cup Channel \cup Id : s \in Seq(Quiet)
  BY TextAssumption DEF Plain, Quiet
<1>3. \A n \in Nat : Decimal(n) \in Seq(Quiet)
  BY DecimalIs
<1>4. \A x, y \in Seq(Quiet) : {<< >>, <<x>>, <<x, y>>} \subseteq Seq(Seq(Quiet))
  BY ParamsAre
<1>5. \A b \in Body : ABody(b)
  BY BodyAssumption DEF CBody
<1> DEFINE Short == Name \ {"PUB", "DPUB", "MPUB", "AUTH", "IDENTIFY"}
           Long == {"PUB", "DPUB", "AUTH", "IDENTIFY"}
           Lists == Seq(Seq(Quiet))
<1>6. \A name \in Short : \A params \in Lists :
        Composed(command_buf, nsq_buffer_add(command_buf, name, params, NULL),
                 Command(name, params, << >>))
  BY <1>1, ShortComposed
<1>7. \A name \in Long : \A params \in Lists : \A b \in Body :
        Composed(command_buf, nsq_buffer_add(command_buf, name, params, b),
                 Command(name, params, <<b>>))
  BY <1>1, <1>5, LongComposed
<1>8. {"SUB", "RDY", "FIN", "REQ", "NOP", "TOUCH", "CLS"} \subseteq Short
  BY DEF Name
<1>9. << >> \in Lists
  <2>1. Decimal(1) \in Seq(Quiet)
    BY <1>3
  <2> QED
    BY <1>4, <2>1
<1> HIDE DEF Short, Long, Lists
<1>10. CASE subscribe
  <2>1. PICK t \in Topic, ch \in Channel :
          Compose("SUB", <<t, ch>>, << >>, nsq_subscribe(command_buf, t, ch))
    BY <1>10 DEF subscribe
  <2>2. <<t, ch>> \in Lists
    BY <1>2, <1>4 DEF Lists
  <2>3. Composed(command_buf, nsq_subscribe(command_buf, t, ch), Command("SUB", <<t, ch>>, << >>))
    BY <1>6, <1>8, <2>2 DEF nsq_subscribe
  <2> QED
    BY <2>1, <2>3, ComposeKeeps
<1>11. CASE ready
  <2>1. <<Decimal(1)>> \in Lists
    BY <1>3, <1>4 DEF Lists
  <2>2. Composed(command_buf, nsq_ready(command_buf, 1), Command("RDY", <<Decimal(1)>>, << >>))
    BY <1>6, <1>8, <2>1 DEF nsq_ready
  <2> QED
    BY <1>11, <2>2, ComposeKeeps DEF ready
<1>12. CASE finish
  <2>1. PICK id \in Id : Compose("FIN", <<id>>, << >>, nsq_finish(command_buf, id))
    BY <1>12 DEF finish
  <2>2. <<id>> \in Lists
    BY <1>2, <1>4 DEF Lists
  <2>3. Composed(command_buf, nsq_finish(command_buf, id), Command("FIN", <<id>>, << >>))
    BY <1>6, <1>8, <2>2 DEF nsq_finish
  <2> QED
    BY <2>1, <2>3, ComposeKeeps
<1>13. CASE requeue
  <2>1. PICK id \in Id :
          Compose("REQ", <<id, Decimal(100)>>, << >>, nsq_requeue(command_buf, id, 100))
    BY <1>13 DEF requeue
  <2>2. <<id, Decimal(100)>> \in Lists
    BY <1>2, <1>3, <1>4 DEF Lists
  <2>3. Composed(command_buf, nsq_requeue(command_buf, id, 100),
                 Command("REQ", <<id, Decimal(100)>>, << >>))
    BY <1>6, <1>8, <2>2 DEF nsq_requeue
  <2> QED
    BY <2>1, <2>3, ComposeKeeps
<1>14. CASE nop
  <2>1. Composed(command_buf, nsq_nop(command_buf), Command("NOP", << >>, << >>))
    BY <1>6, <1>8, <1>9 DEF nsq_nop
  <2> QED
    BY <1>14, <2>1, ComposeKeeps DEF nop
<1>15. CASE publish
  <2>1. PICK t \in Topic, b \in Body :
          Compose("PUB", <<t>>, <<b>>, nsq_publish(command_buf, t, b))
    BY <1>15 DEF publish
  <2>2. <<t>> \in Lists /\ "PUB" \in Long
    BY <1>2, <1>4 DEF Lists, Long
  <2>3. Composed(command_buf, nsq_publish(command_buf, t, b), Command("PUB", <<t>>, <<b>>))
    BY <1>7, <2>2 DEF nsq_publish
  <2> QED
    BY <2>1, <2>3, ComposeKeeps
<1>16. CASE defer_publish
  <2>1. PICK t \in Topic, b \in Body :
          Compose("DPUB", <<t, Decimal(5)>>, <<b>>, nsq_defer_publish(command_buf, t, b, 5))
    BY <1>16 DEF defer_publish
  <2>2. <<t, Decimal(5)>> \in Lists /\ "DPUB" \in Long
    BY <1>2, <1>3, <1>4 DEF Lists, Long
  <2>3. Composed(command_buf, nsq_defer_publish(command_buf, t, b, 5),
                 Command("DPUB", <<t, Decimal(5)>>, <<b>>))
    BY <1>7, <2>2 DEF nsq_defer_publish
  <2> QED
    BY <2>1, <2>3, ComposeKeeps
<1>17. CASE multi_publish
  <2>1. PICK t \in Topic, bs \in Bodies :
          Compose("MPUB", <<t>>, bs, nsq_multi_publish(command_buf, t, bs))
    BY <1>17 DEF multi_publish
  <2>2. Composed(command_buf, nsq_multi_publish(command_buf, t, bs), Command("MPUB", <<t>>, bs))
    BY <1>1, <1>2, BlockComposed
  <2> QED
    BY <2>1, <2>2, ComposeKeeps
<1>18. CASE touch
  <2>1. PICK id \in Id : Compose("TOUCH", <<id>>, << >>, nsq_touch(command_buf, id))
    BY <1>18 DEF touch
  <2>2. <<id>> \in Lists
    BY <1>2, <1>4 DEF Lists
  <2>3. Composed(command_buf, nsq_touch(command_buf, id), Command("TOUCH", <<id>>, << >>))
    BY <1>6, <1>8, <2>2 DEF nsq_touch
  <2> QED
    BY <2>1, <2>3, ComposeKeeps
<1>19. CASE cleanly_close
  <2>1. Composed(command_buf, nsq_cleanly_close_connection(command_buf),
                 Command("CLS", << >>, << >>))
    BY <1>6, <1>8, <1>9 DEF nsq_cleanly_close_connection
  <2> QED
    BY <1>19, <2>1, ComposeKeeps DEF cleanly_close
<1>20. CASE auth
  <2>1. PICK b \in Body : Compose("AUTH", << >>, <<b>>, nsq_auth(command_buf, b))
    BY <1>20 DEF auth
  <2>2. Composed(command_buf, nsq_auth(command_buf, b), Command("AUTH", << >>, <<b>>))
    BY <1>7, <1>9 DEF nsq_auth, Long
  <2> QED
    BY <2>1, <2>2, ComposeKeeps
<1>21. CASE identify
  <2>1. PICK b \in Body : Compose("IDENTIFY", << >>, <<b>>, nsq_identify(command_buf, b))
    BY <1>21 DEF identify
  <2>2. Composed(command_buf, nsq_identify(command_buf, b), Command("IDENTIFY", << >>, <<b>>))
    BY <1>7, <1>9 DEF nsq_identify, Long
  <2> QED
    BY <2>1, <2>2, ComposeKeeps
<1> QED
  BY <1>10, <1>11, <1>12, <1>13, <1>14, <1>15, <1>16, <1>17, <1>18, <1>19, <1>20, <1>21

\* A message is answered, and what is composed for it is written in two steps.
LEMMA HandlerKeeps ==
  ASSUME WithinInt, WireInv, message_handler
  PROVE  WireInv'
<1>1. PICK m \in Message, junk \in {NUL, Char("junk")}, failed \in BOOLEAN :
        LET msg    == nsq_reader_msg_cb(nsq_decode_message(MessageData(m), junk))
            id     == CString(msg.id)
            clear  == buffer_reset(command_buf)
            answer == IF failed THEN nsq_requeue(clear, id, 100) ELSE nsq_finish(clear, id)
            rdy    == nsq_ready(buffer_reset(answer), 1)
            owed   == IF failed THEN Command("REQ", <<m.id, Decimal(100)>>, << >>)
                                ELSE Command("FIN", <<m.id>>, << >>)
        IN  /\ sent.n + 2 <= MaxCommands
            /\ wire' = wire \o answer.bytes \o rdy.bytes
            /\ command_buf' = buffer_reset(rdy)
            /\ batch' = << >>
            /\ sent' = Recorded(Recorded(sent, <<owed>>), <<Command("RDY", <<Decimal(1)>>, << >>)>>)
            /\ handed' = <<m, [msg EXCEPT !.id = id]>>
  BY DEF message_handler
<1> DEFINE msg    == nsq_reader_msg_cb(nsq_decode_message(MessageData(m), junk))
           id     == m.id
           clear  == buffer_reset(command_buf)
           answer == IF failed THEN nsq_requeue(clear, id, 100) ELSE nsq_finish(clear, id)
           again  == buffer_reset(answer)
           rdy    == nsq_ready(again, 1)
           over1  == buffer_reset(rdy)
           owed   == IF failed THEN Command("REQ", <<m.id, Decimal(100)>>, << >>)
                               ELSE Command("FIN", <<m.id>>, << >>)
           more   == Command("RDY", <<Decimal(1)>>, << >>)
<1>2. CString(msg.id) = id
  BY MessageRead
<1>3. /\ wire' = (wire \o answer.bytes) \o rdy.bytes
      /\ command_buf' = over1
      /\ batch' = << >>
      /\ sent' = Recorded(Recorded(sent, <<owed>>), <<more>>)
  BY <1>1, <1>2
<1>4. id \in Seq(Quiet) /\ Decimal(100) \in Seq(Quiet) /\ Decimal(1) \in Seq(Quiet)
  BY MessageAssumption, DecimalIs DEF Plain, Quiet
<1> DEFINE Lists == Seq(Seq(Quiet))
           p == <<m.id>>
           q == <<m.id, Decimal(100)>>
           r == <<Decimal(1)>>
           Short == Name \ {"PUB", "DPUB", "MPUB", "AUTH", "IDENTIFY"}
<1>5. p \in Lists /\ q \in Lists /\ r \in Lists
  BY <1>4, ParamsAre
<1>6. {"FIN", "REQ", "RDY"} \subseteq Short
  BY DEF Name
<1>7. \A b \in Bufs : \A name \in Short : \A params \in Lists :
        Composed(b, nsq_buffer_add(b, name, params, NULL), Command(name, params, << >>))
  BY ShortComposed
<1> HIDE DEF Short, Lists
<1>8. clear \in Bufs /\ Holds(clear, << >>)
  BY ResetHolds DEF WireInv
<1> HIDE DEF clear
<1>9. Composed(clear, answer, owed)
  <2>1. Composed(clear, nsq_requeue(clear, id, 100), Command("REQ", q, << >>))
    BY <1>5, <1>6, <1>7, <1>8 DEF nsq_requeue
  <2>2. Composed(clear, nsq_finish(clear, id), Command("FIN", p, << >>))
    BY <1>5, <1>6, <1>7, <1>8 DEF nsq_finish
  <2> QED
    BY <2>1, <2>2
<1> HIDE DEF answer, owed
<1>10. answer \in Bufs /\ <<owed>> \in Seq(Commands) /\ Holds(answer, Stream(<<owed>>))
  BY <1>8, <1>9, FirstComposed
<1>11. again \in Bufs /\ Holds(again, << >>)
  BY <1>10, ResetHolds
<1> HIDE DEF again
<1>12. Composed(again, rdy, more)
  BY <1>5, <1>6, <1>7, <1>11 DEF nsq_ready
<1> HIDE DEF rdy, more
<1>13. rdy \in Bufs /\ <<more>> \in Seq(Commands) /\ Holds(rdy, Stream(<<more>>))
  BY <1>11, <1>12, FirstComposed
<1>14. over1 \in Bufs /\ Holds(over1, << >>)
  BY <1>13, ResetHolds
<1> HIDE DEF over1
<1> DEFINE w1 == wire \o answer.bytes
           h1 == Recorded(sent, <<owed>>)
<1>15. Carries(w1, h1)
  <2>1. Carries(wire, sent)
    BY DEF WireInv
  <2> QED
    BY <1>10, <2>1, Wrote
<1>16. wire' = w1 \o rdy.bytes /\ sent' = Recorded(h1, <<more>>)
  BY <1>3
<1> HIDE DEF w1, h1
<1>17. Carries(w1 \o rdy.bytes, Recorded(h1, <<more>>))
  BY <1>13, <1>15, Wrote
<1>18. << >> \in Seq(Commands) /\ Stream(<< >>) = << >>
  BY FlattenEmpty DEF Stream
<1> QED
  BY <1>3, <1>14, <1>16, <1>17, <1>18 DEF WireInv

LEMMA WireInvHolds ==
  ASSUME WithinInt
  PROVE  Spec => []WireInv
<1> DEFINE none == << >>
<1>1. none \in Seq(Commands) /\ none \in Seq(Byte) /\ Stream(none) = none
  BY FlattenEmpty DEF Stream
<1>2. Init => WireInv
  <2> SUFFICES ASSUME Init PROVE WireInv
    OBVIOUS
  <2>1. command_buf \in Bufs /\ Holds(command_buf, none)
    BY NewHolds DEF Init
  <2>2. wire = none /\ batch = none /\ sent.intact = none /\ sent.torn = FALSE
    BY DEF Init
  <2>3. none \o none = none
    BY ConcatEmptySeq
  <2>4. ~sent.torn => none = << >>
    OBVIOUS
  <2> HIDE DEF none
  <2>5. wire = Stream(sent.intact) \o none
    BY <1>1, <2>2, <2>3
  <2>6. wire \in Seq(Byte) /\ sent.intact \in Seq(Commands) /\ sent.torn \in BOOLEAN
    BY <1>1, <2>2
  <2>7. Carries(wire, sent)
    BY <1>1, <2>4, <2>5, <2>6 DEF Carries
  <2> QED
    BY <1>1, <2>1, <2>2, <2>7 DEF WireInv
<1>3. WireInv /\ [Next]_vars => WireInv'
  <2> SUFFICES ASSUME WireInv, [Next]_vars PROVE WireInv'
    OBVIOUS
  <2>1. CASE \/ subscribe \/ ready \/ finish \/ requeue \/ nop
             \/ publish \/ defer_publish \/ multi_publish
             \/ touch \/ cleanly_close \/ auth \/ identify
    BY <2>1, CommandsKeep
  <2>2. CASE message_handler
    BY <2>2, HandlerKeeps
  <2> DEFINE clear == buffer_reset(command_buf)
  <2>3. clear \in Bufs /\ Holds(clear, none)
    BY ResetHolds DEF WireInv
  <2>4. CASE write_buffer
    <3>1. /\ command_buf' = clear /\ batch' = none
          /\ wire' = wire \o command_buf.bytes /\ sent' = Recorded(sent, batch)
      BY <2>4 DEF write_buffer
    <3>2. Carries(wire \o command_buf.bytes, Recorded(sent, batch))
      BY Wrote DEF WireInv
    <3> HIDE DEF clear, none
    <3> QED
      BY <1>1, <2>3, <3>1, <3>2 DEF WireInv
  <2>5. CASE reset
    <3>1. command_buf' = clear /\ batch' = none /\ wire' = wire /\ sent' = sent
      BY <2>5 DEF reset
    <3>2. Carries(wire, sent)
      BY DEF WireInv
    <3> HIDE DEF clear, none
    <3> QED
      BY <1>1, <2>3, <3>1, <3>2 DEF WireInv
  <2>6. CASE UNCHANGED vars
    BY <2>6 DEF vars, WireInv
  <2>7. CASE over
    BY <2>6, <2>7 DEF over
  <2> QED
    BY <2>1, <2>2, <2>4, <2>5, <2>6, <2>7 DEF Next
<1> QED
  BY <1>2, <1>3, PTL DEF Spec

(***************************************************************************)
(* nsqd reads exactly the commands composed (command.c), for any texts and *)
(* bodies it accepts, however they are gathered in command_buf, until a    *)
(* batch is longer than command_buf was first allocated; and the commands  *)
(* before that one are read all the same.                                  *)
(***************************************************************************)
THEOREM CommandsArrive ==
  ASSUME WithinInt
  PROVE  Spec => []WireDecodes
<1>1. WireInv => WireDecodes
  <2> SUFFICES ASSUME WireInv PROVE WireDecodes
    OBVIOUS
  <2> DEFINE cs == sent.intact
  <2>1. cs \in Seq(Commands)
    BY DEF WireInv, Carries
  <2>2. PICK t \in Seq(Byte) : wire = Stream(cs) \o t /\ (~sent.torn => t = << >>)
    BY DEF WireInv, Carries
  <2>3. /\ IsPrefix(cs, Decoded(Stream(cs) \o t))
        /\ t = << >> => Decoded(Stream(cs) \o t) = cs
    <3> HIDE DEF cs
    <3> QED
      BY <2>1, StreamRead
  <2> QED
    BY <2>2, <2>3 DEF WireDecodes
<1> QED
  BY <1>1, WireInvHolds, PTL
===============================================================================

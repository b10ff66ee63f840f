----------------------------- MODULE SharedLemmas -----------------------------
(***************************************************************************)
(* What the proofs of several modules rest on: the arithmetic of struct    *)
(* Buffer (what is worked out as lacking, by how much the allocation       *)
(* grows, and that it can always be grown by doubling), naturals and       *)
(* sequences.                                                              *)
(***************************************************************************)
EXTENDS BufferLayout, SequencesExt, SequenceTheorems, WellFoundedInduction, TLAPS

Layout == [pos : Nat, offset : Nat, length : Nat \ {0}, capacity : Nat]

(***************************************************************************)
(* Storing the missing room in an int32_t does no harm as long as a chunk  *)
(* is shorter than 2^31: a positive amount is kept exactly.  A very        *)
(* negative one (a buffer of 2 GiB and more) may come out as anything.     *)
(***************************************************************************)
LEMMA NeedKept ==
  ASSUME NEW d \in Int, d < IntHalf
  PROVE  /\ ToInt(d) \in Int
         /\ d > 0 => ToInt(d) = d
         /\ d >= -IntHalf => ToInt(d) = d
<1>1. IntHalf \in Nat \ {0}
  BY LayoutAssumption
<1>2. ToInt(d) \in Int
  BY <1>1 DEF ToInt
<1>3. ASSUME d >= -IntHalf PROVE ToInt(d) = d
  <2>1. /\ d + IntHalf \in 0 .. (2 * IntHalf - 1)
        /\ 2 * IntHalf \in Nat \ {0}
    BY <1>1, <1>3
  <2>2. (d + IntHalf) % (2 * IntHalf) = d + IntHalf
    BY <2>1, SMT
  <2> QED
    BY <1>1, <2>2 DEF ToInt
<1> QED
  BY <1>1, <1>2, <1>3

-------------------------------------------------------------------------------
(* Powers of two. *)

LEMMA Divisor ==
  ASSUME NEW n \in Nat, NEW q \in Nat \ {0}
  PROVE  n % q = 0 <=> \E c \in Nat : q * c = n
<1>1. /\ n = q * (n \div q) + (n % q)
      /\ n \div q \in Int /\ n % q \in 0 .. (q - 1)
  OBVIOUS
<1>2. n \div q \in Nat
  BY <1>1
<1>3. ASSUME n % q = 0 PROVE \E c \in Nat : q * c = n
  <2>1. q * (n \div q) = n
    BY <1>1, <1>3
  <2> QED
    BY <1>2, <2>1
<1>4. ASSUME NEW c \in Nat, q * c = n PROVE n % q = 0
  <2>1. q * (c - n \div q) = n % q
    BY <1>1, <1>4
  <2>2. c - n \div q = 0
    BY <1>1, <2>1
  <2> QED
    BY <2>1, <2>2
<1> QED
  BY <1>3, <1>4

LEMMA PowerDoubled ==
  ASSUME NEW n \in Nat \ {0}, IsPowerOfTwo(n)
  PROVE  IsPowerOfTwo(2 * n)
<1> SUFFICES ASSUME NEW q \in 2 .. 2 * n, (2 * n) % q = 0, q % 2 # 0
             PROVE  FALSE
  BY DEF IsPowerOfTwo
<1>0. PICK c \in Nat : q * c = 2 * n
  BY Divisor
<1>1. PICK a \in Int : q = 2 * a + 1
  <2>1. q % 2 = 1 /\ q = 2 * (q \div 2) + (q % 2) /\ (q \div 2) \in Int
    OBVIOUS
  <2> QED
    BY <2>1
<1> DEFINE h == n - a * c
<1>2. c = 2 * h /\ h \in Int
  <2>1. a * c \in Int /\ q * c = 2 * (a * c) + c
    BY <1>1
  <2> QED
    BY <1>0, <2>1
<1> HIDE DEF h
<1>3. q * h = n
  <2>1. q * c = 2 * (q * h) /\ q * h \in Int
    BY <1>2
  <2> QED
    BY <1>0, <2>1
<1>4. h \in Nat /\ h # 0
  BY <1>2, <1>3
<1>5. q \in 2 .. n
  <2>1. q <= q * h
    BY <1>4
  <2> QED
    BY <1>3, <2>1
<1>6. n % q = 0
  <2>1. q \in Nat \ {0} /\ \E c2 \in Nat : q * c2 = n
    BY <1>3, <1>4
  <2> QED
    BY <2>1, Divisor
<1> QED
  BY <1>5, <1>6 DEF IsPowerOfTwo

(***************************************************************************)
(* Every non-empty set of naturals has a least element.                    *)
(***************************************************************************)
LEMMA Least ==
  ASSUME NEW S \in SUBSET Nat, S # {}
  PROVE  \E m \in S : \A k \in S : m <= k
<1>1. PICK x \in S : \A y \in S : ~ (<<y, x>> \in OpToRel(<, Nat))
  BY NatLessThanWellFounded, WFMin
<1>2. ASSUME NEW y \in S PROVE x <= y
  <2>1. <<y, x>> \in Nat \X Nat /\ ~ (<<y, x>> \in OpToRel(<, Nat))
    BY <1>1
  <2>2. ~(y < x)
    BY <2>1 DEF OpToRel
  <2> QED
    BY <2>2
<1> QED
  BY <1>2

(***************************************************************************)
(* The loop of buffer_expand ends, with a step that covers the need and is *)
(* less than twice it, or is the whole of the allocation there was.        *)
(***************************************************************************)
LEMMA ExpansionExists ==
  ASSUME NEW length \in Nat \ {0}, NEW need \in Nat \ {0}
  PROVE  /\ Expansions(length, need) # {}
         /\ \A e \in Expansions(length, need) :
              /\ e \in Nat /\ e >= need
              /\ e = length \/ e < 2 * need
<1>1. \A d \in 1 .. 2 * need : length * d \in Nat
  OBVIOUS
<1>2. ASSUME NEW e \in Expansions(length, need)
      PROVE  e \in Nat /\ e >= need /\ (e = length \/ e < 2 * need)
  BY <1>1 DEF Expansions, Doublings
<1>3. Doublings(length, need) # {}
  <2>1. CASE length >= need
    <3>1. IsPowerOfTwo(1) /\ 1 \in 1 .. 2 * need /\ length * 1 >= need
      BY <2>1 DEF IsPowerOfTwo
    <3> QED
      BY <3>1 DEF Doublings
  <2>2. CASE length < need
    <3> DEFINE Short == {p \in 1 .. need : IsPowerOfTwo(p) /\ length * p < need}
               Rest == {need - p : p \in Short}
    <3>1. 1 \in Short
      BY <2>2 DEF IsPowerOfTwo
    <3>2. Rest \in SUBSET Nat /\ Rest # {}
      BY <3>1
    <3>3. PICK m \in Rest : \A k \in Rest : m <= k
      <4> HIDE DEF Rest
      <4> QED
        BY <3>2, Least
    <3>4. PICK p \in Short : m = need - p
      BY <3>3
    <3>5. p \in Nat \ {0} /\ p <= need /\ IsPowerOfTwo(p) /\ length * p < need /\ length * p \in Nat
      BY <3>4
    <3>6. IsPowerOfTwo(2 * p) /\ length * (2 * p) = 2 * (length * p)
      BY <3>5, PowerDoubled
    <3>7. length * (2 * p) >= need
      <4> SUFFICES ASSUME length * (2 * p) < need PROVE FALSE
        BY <3>5
      <4>1. 2 * p \in 1 .. need
        <5>1. 2 * p <= length * (2 * p)
          BY <3>5
        <5> QED
          BY <3>5, <5>1
      <4>2. 2 * p \in Short
        BY <3>6, <4>1
      <4>3. need - 2 * p \in Rest
        BY <4>2
      <4>4. need - p <= need - 2 * p
        BY <3>3, <3>4, <4>3
      <4> QED
        BY <3>5, <4>4
    <3>8. 2 * p \in 1 .. 2 * need /\ length * (2 * p) < 2 * need
      BY <3>5, <3>6
    <3> QED
      BY <3>6, <3>7, <3>8 DEF Doublings
  <2> QED
    BY <2>1, <2>2
<1> QED
  BY <1>2, <1>3 DEF Expansions

-------------------------------------------------------------------------------

(***************************************************************************)
(* What buffer_expand returns is big enough for n more bytes, keeps the    *)
(* bytes that are there, and moves the window only by sliding it to the    *)
(* front of an allocation of the same size.  It grows the allocation only  *)
(* within the capacity.                                                    *)
(***************************************************************************)
Fits(b, n, room) ==
  /\ room \in Layout
  /\ room.offset = b.offset
  /\ room.capacity = b.capacity
  /\ room.pos + room.offset + n <= room.length
  /\ \/ room.length = b.length /\ room.pos \in {0, b.pos}
     \/ /\ room.length > b.length /\ room.pos = b.pos
        /\ b.capacity > 0 => room.length <= b.capacity

LEMMA RoomSuffices ==
  ASSUME NEW b \in Layout, BUFFER_USED(b) <= b.length,
         NEW n \in Nat, NEW need \in Int,
         b.pos + b.offset + n > b.length => need = b.pos + b.offset + n - b.length,
         NEW room \in MakeRoom(b, need)
  PROVE  Fits(b, n, room)
<1> USE DEF Layout, BUFFER_USED, Fits
<1>1. CASE need <= 0
  BY <1>1 DEF MakeRoom
<1>2. CASE need > 0 /\ need <= b.pos
  <2>1. room = [b EXCEPT !.pos = 0]
    BY <1>2 DEF MakeRoom, buffer_expand
  <2> QED
    BY <1>2, <2>1
<1>3. CASE need > 0 /\ ~(need <= b.pos)
  <2>1. PICK e \in Expansions(b.length, need) :
          /\ room = [b EXCEPT !.length = @ + e]
          /\ b.capacity > 0 => b.length + e <= b.capacity
    BY <1>3 DEF MakeRoom, buffer_expand
  <2>2. e \in Nat /\ e >= need
    BY <1>3, <2>1, ExpansionExists
  <2> QED
    BY <1>3, <2>1, <2>2
<1> QED
  BY <1>1, <1>2, <1>3

(***************************************************************************)
(* When buffer_expand refuses: never a need that the space in front of the *)
(* bytes covers, only on a limited buffer, and only because the doubled    *)
(* step, which may be twice the need, leads past the capacity.             *)
(***************************************************************************)
LEMMA RefusalIs ==
  ASSUME NEW b, b.pos \in Nat, b.length \in Nat \ {0}, b.capacity \in Nat,
         NEW need \in Int, MakeRoom(b, need) = {}
  PROVE  /\ need > b.pos /\ b.capacity > 0
         /\ \E e \in Nat : (e = b.length \/ e < 2 * need) /\ b.length + e > b.capacity
<1>1. need > 0
  BY DEF MakeRoom
<1>2. buffer_expand(b, need) = {}
  BY <1>1 DEF MakeRoom
<1>3. ~(need <= b.pos)
  BY <1>2 DEF buffer_expand
<1>4. \A e \in Expansions(b.length, need) : ~ (b.capacity > 0 => b.length + e <= b.capacity)
  BY <1>2, <1>3 DEF buffer_expand
<1>5. need \in Nat \ {0} /\ need > b.pos
  BY <1>1, <1>3
<1>6. /\ Expansions(b.length, need) # {}
      /\ \A e \in Expansions(b.length, need) :
           e \in Nat /\ e >= need /\ (e = b.length \/ e < 2 * need)
  BY <1>5, ExpansionExists
<1>7. PICK e \in Expansions(b.length, need) : TRUE
  BY <1>6
<1>8. e \in Nat /\ (e = b.length \/ e < 2 * need) /\ b.capacity > 0
      /\ ~(b.length + e <= b.capacity)
  BY <1>4, <1>6, <1>7
<1>9. b.length + e > b.capacity
  BY <1>8
<1> QED
  BY <1>5, <1>8, <1>9

-------------------------------------------------------------------------------

LEMMA Multiple ==
  ASSUME NEW m \in Nat \ {0}, NEW q \in Nat
  PROVE  (m * q) % m = 0 /\ (m * q) \div m = q /\ m * q \in Nat
<1>1. m * q \in Nat
  OBVIOUS
<1>2. (m * q) % m = 0
  BY <1>1, Divisor
<1> DEFINE n == m * q
           d == n \div m
<1>3. n = m * d + (n % m) /\ d \in Int
  BY <1>1
<1>4. m * q = m * d
  BY <1>2, <1>3
<1> HIDE DEF d
<1>5. m * (q - d) = 0
  BY <1>3, <1>4
<1>6. q - d = 0
  BY <1>3, <1>5
<1> QED
  BY <1>1, <1>2, <1>3, <1>6 DEF d

(***************************************************************************)
(* Sequences and their beginnings.                                         *)
(***************************************************************************)
LEMMA PrefixIs ==
  ASSUME NEW S, NEW s \in Seq(S), NEW t \in Seq(S)
  PROVE  IsPrefix(s, t) <=> Len(s) <= Len(t) /\ \A i \in 1 .. Len(s) : s[i] = t[i]
<1>1. Len(s) \in Nat /\ Len(t) \in Nat /\ SubSeq(s, 1, Len(s)) = s
  BY SubSeqFull
<1>2. ASSUME Len(s) <= Len(t)
      PROVE  s = SubSeq(t, 1, Len(s)) <=> \A i \in 1 .. Len(s) : s[i] = t[i]
  <2> DEFINE u == SubSeq(t, 1, Len(s))
  <2>1. u \in Seq(S) /\ Len(u) = Len(s) /\ \A i \in 1 .. Len(s) : u[i] = t[i]
    <3>1. CASE Len(s) = 0
      BY <1>1, <3>1
    <3>2. CASE Len(s) > 0
      <4>1. 1 \in 1 .. Len(t) /\ Len(s) \in 1 .. Len(t)
        BY <1>1, <1>2, <3>2
      <4> QED
        BY <1>1, <4>1
    <3> QED
      BY <1>1, <3>1, <3>2
  <2> HIDE DEF u
  <2>2. s = u <=> \A i \in 1 .. Len(s) : s[i] = u[i]
    BY ONLY <2>1, s \in Seq(S), SeqEqual
  <2> QED
    BY <2>1, <2>2 DEF u
<1> QED
  BY <1>1, <1>2 DEF IsPrefix

LEMMA PrefixOfConcat ==
  ASSUME NEW S, NEW s \in Seq(S), NEW t \in Seq(S)
  PROVE  s \o t \in Seq(S) /\ IsPrefix(s, s \o t)
<1> DEFINE u == s \o t
<1>1. /\ u \in Seq(S) /\ Len(u) = Len(s) + Len(t)
      /\ \A i \in 1 .. Len(s) + Len(t) : u[i] = IF i <= Len(s) THEN s[i] ELSE t[i - Len(s)]
  BY ConcatProperties
<1> HIDE DEF u
<1>2. Len(s) \in Nat /\ Len(t) \in Nat
  OBVIOUS
<1>3. Len(s) <= Len(u) /\ \A i \in 1 .. Len(s) : s[i] = u[i]
  BY <1>1, <1>2
<1>4. IsPrefix(s, u)
  BY ONLY <1>1, <1>3, s \in Seq(S), PrefixIs
<1> QED
  BY <1>1, <1>4 DEF u

LEMMA PrefixTransitive ==
  ASSUME NEW S, NEW s \in Seq(S), NEW t \in Seq(S), NEW u \in Seq(S),
         IsPrefix(s, t), IsPrefix(t, u)
  PROVE  IsPrefix(s, u)
<1>1. Len(s) \in Nat /\ Len(t) \in Nat /\ Len(u) \in Nat
  OBVIOUS
<1>2. Len(s) <= Len(t) /\ \A i \in 1 .. Len(s) : s[i] = t[i]
  BY PrefixIs
<1>3. Len(t) <= Len(u) /\ \A i \in 1 .. Len(t) : t[i] = u[i]
  BY PrefixIs
<1>4. Len(s) <= Len(u) /\ \A i \in 1 .. Len(s) : s[i] = u[i]
  BY ONLY <1>1, <1>2, <1>3
<1> QED
  BY <1>4, PrefixIs

-------------------------------------------------------------------------------

(***************************************************************************)
(* FlattenSeq is the last of the partial sums of a sequence.  That there   *)
(* are such sums, that they are unique and grow is shown by induction, in  *)
(* the form of Least: there is no first of them that is not so.            *)
(***************************************************************************)
Sums(ss, f) ==
  f = [i \in 1 .. Len(ss) |-> IF i = 1 THEN ss[i] ELSE f[i - 1] \o ss[i]]

LEMMA SumsExist ==
  ASSUME NEW S, NEW ss \in Seq(Seq(S))
  PROVE  \E f \in [1 .. Len(ss) -> Seq(S)] : Sums(ss, f)
<1> DEFINE n == Len(ss)
           Upto(g, m) == \A i \in 1 .. m : g[i] = IF i = 1 THEN ss[i] ELSE g[i - 1] \o ss[i]
           Bad == {m \in 0 .. n : ~\E g \in [1 .. m -> Seq(S)] : Upto(g, m)}
<1>1. n \in Nat /\ \A i \in 1 .. n : ss[i] \in Seq(S)
  OBVIOUS
<1> HIDE DEF n
<1>2. Bad = {}
  <2> SUFFICES ASSUME Bad # {} PROVE FALSE
    OBVIOUS
  <2>1. Bad \in SUBSET Nat
    BY <1>1
  <2> HIDE DEF Bad
  <2>2. PICK m \in Bad : \A k \in Bad : m <= k
    BY <2>1, Least
  <2>3. m \in 0 .. n /\ ~\E g \in [1 .. m -> Seq(S)] : Upto(g, m)
    BY <2>2 DEF Bad
  <2>4. m # 0
    <3> SUFFICES ASSUME m = 0 PROVE FALSE
      OBVIOUS
    <3> DEFINE g == [i \in 1 .. 0 |-> << >>]
    <3>1. g \in [1 .. 0 -> Seq(S)] /\ Upto(g, 0)
      OBVIOUS
    <3> QED
      BY <2>3, <3>1
  <2>5. PICK g \in [1 .. (m - 1) -> Seq(S)] : Upto(g, m - 1)
    <3>1. m - 1 \in 0 .. n /\ ~(m <= m - 1)
      BY <1>1, <2>3, <2>4
    <3>2. m - 1 \notin Bad
      BY <2>2, <3>1
    <3> QED
      BY <3>1, <3>2 DEF Bad
  <2> DEFINE last == IF m = 1 THEN ss[m] ELSE g[m - 1] \o ss[m]
             h == [i \in 1 .. m |-> IF i < m THEN g[i] ELSE last]
  <2>6. m \in Nat \ {0} /\ m \in 1 .. n
    BY <1>1, <2>3, <2>4
  <2>7. last \in Seq(S)
    <3>1. ss[m] \in Seq(S)
      BY <1>1, <2>6
    <3>2. CASE m = 1
      BY <3>1, <3>2
    <3>3. CASE m # 1
      <4>1. g[m - 1] \in Seq(S)
        BY <2>5, <2>6, <3>3
      <4> QED
        BY <3>1, <3>3, <4>1, ConcatProperties
    <3> QED
      BY <3>2, <3>3
  <2> HIDE DEF last
  <2>8. h \in [1 .. m -> Seq(S)]
    BY <2>5, <2>6, <2>7
  <2>9. ASSUME NEW i \in 1 .. m PROVE h[i] = IF i = 1 THEN ss[i] ELSE h[i - 1] \o ss[i]
    <3>1. CASE i < m
      <4>1. i \in 1 .. (m - 1)
        BY <2>6, <3>1
      <4>2. g[i] = IF i = 1 THEN ss[i] ELSE g[i - 1] \o ss[i]
        BY <2>5, <4>1
      <4>3. h[i] = g[i] /\ (i # 1 => h[i - 1] = g[i - 1])
        BY <2>6, <3>1
      <4> QED
        BY <4>2, <4>3
    <3>2. CASE i = m
      <4>1. h[i] = last /\ (i # 1 => h[i - 1] = g[i - 1])
        BY <2>6, <3>2
      <4> QED
        BY <3>2, <4>1 DEF last
    <3> QED
      BY <2>6, <3>1, <3>2
  <2> QED
    BY <2>3, <2>8, <2>9
<1>3. PICK g \in [1 .. n -> Seq(S)] : Upto(g, n)
  <2>1. n \in 0 .. n
    BY <1>1
  <2> QED
    BY <1>2, <2>1
<1>4. g = [i \in 1 .. n |-> g[i]]
  OBVIOUS
<1>5. g = [i \in 1 .. n |-> IF i = 1 THEN ss[i] ELSE g[i - 1] \o ss[i]]
  BY <1>3, <1>4
<1> QED
  BY <1>3, <1>5 DEF Sums, n

Begins(ss, tt) ==
  /\ Len(ss) \in Nat /\ Len(tt) \in Nat /\ Len(ss) <= Len(tt)
  /\ \A i \in 1 .. Len(ss) : ss[i] = tt[i]

LEMMA SumsAgree ==
  ASSUME NEW ss, NEW tt, Begins(ss, tt), NEW f, Sums(ss, f), NEW g, Sums(tt, g)
  PROVE  \A i \in 1 .. Len(ss) : f[i] = g[i]
<1> DEFINE n == Len(ss)
           Bad == {i \in 1 .. n : f[i] # g[i]}
<1> SUFFICES ASSUME Bad # {} PROVE FALSE
  OBVIOUS
<1>1. Bad \in SUBSET Nat
  OBVIOUS
<1> HIDE DEF Bad
<1>2. PICK m \in Bad : \A k \in Bad : m <= k
  BY <1>1, Least
<1>3. m \in 1 .. Len(ss) /\ m \in 1 .. Len(tt) /\ f[m] # g[m] /\ ss[m] = tt[m]
  BY <1>2 DEF Bad, Begins
<1>4. /\ f[m] = IF m = 1 THEN ss[m] ELSE f[m - 1] \o ss[m]
      /\ g[m] = IF m = 1 THEN tt[m] ELSE g[m - 1] \o tt[m]
  BY <1>3 DEF Sums
<1>5. m # 1 => f[m - 1] = g[m - 1]
  <2> SUFFICES ASSUME m # 1 PROVE f[m - 1] = g[m - 1]
    OBVIOUS
  <2>1. m - 1 \in 1 .. n /\ ~(m <= m - 1)
    BY <1>3
  <2> QED
    BY <1>2, <2>1 DEF Bad
<1> QED
  BY <1>3, <1>4, <1>5

LEMMA FlattenIs ==
  ASSUME NEW S, NEW ss \in Seq(Seq(S)), Len(ss) # 0
  PROVE  \E f : /\ f \in [1 .. Len(ss) -> Seq(S)] /\ Sums(ss, f)
                /\ FlattenSeq(ss) = f[Len(ss)]
<1> DEFINE c == CHOOSE f : Sums(ss, f)
<1>1. PICK f \in [1 .. Len(ss) -> Seq(S)] : Sums(ss, f)
  BY SumsExist
<1>2. Sums(ss, c)
  BY <1>1
<1>3. FlattenSeq(ss) = c[Len(ss)]
  BY DEF FlattenSeq, Sums
<1> HIDE DEF c
<1>4. \A i \in 1 .. Len(ss) : f[i] = c[i]
  <2>1. Begins(ss, ss) /\ Sums(ss, f)
    BY <1>1 DEF Begins
  <2> QED
    BY ONLY <1>2, <2>1, SumsAgree
<1>5. Len(ss) \in 1 .. Len(ss)
  OBVIOUS
<1> QED
  BY <1>1, <1>3, <1>4, <1>5

LEMMA FlattenAppend ==
  ASSUME NEW S, NEW ss \in Seq(Seq(S)), NEW x \in Seq(S)
  PROVE  /\ FlattenSeq(ss) \in Seq(S)
         /\ Append(ss, x) \in Seq(Seq(S))
         /\ FlattenSeq(Append(ss, x)) = FlattenSeq(ss) \o x
<1> DEFINE tt == Append(ss, x)
           n == Len(ss)
<1>1. /\ tt \in Seq(Seq(S)) /\ Len(tt) = n + 1 /\ n \in Nat
      /\ \A i \in 1 .. n : tt[i] = ss[i]
      /\ tt[n + 1] = x
  BY AppendProperties
<1> HIDE DEF tt, n
<1>2. PICK g : g \in [1 .. n + 1 -> Seq(S)] /\ Sums(tt, g) /\ FlattenSeq(tt) = g[n + 1]
  <2>1. Len(tt) # 0
    BY <1>1
  <2>2. \E g : /\ g \in [1 .. Len(tt) -> Seq(S)] /\ Sums(tt, g)
               /\ FlattenSeq(tt) = g[Len(tt)]
    BY ONLY <1>1, <2>1, FlattenIs
  <2> QED
    BY <1>1, <2>2
<1>3. g[n + 1] = IF n + 1 = 1 THEN tt[n + 1] ELSE g[(n + 1) - 1] \o tt[n + 1]
  <2>1. n + 1 \in 1 .. Len(tt)
    BY <1>1
  <2> QED
    BY ONLY <1>2, <2>1 DEF Sums
<1>4. CASE n = 0
  <2>1. ss = << >>
    BY <1>4 DEF n
  <2>2. FlattenSeq(ss) = << >>
    BY <2>1 DEF FlattenSeq
  <2>3. g[n + 1] = x /\ << >> \o x = x
    BY <1>1, <1>3, <1>4, ConcatEmptySeq
  <2> QED
    BY <1>1, <1>2, <2>2, <2>3 DEF tt
<1>5. CASE n # 0
  <2>1. PICK f : f \in [1 .. n -> Seq(S)] /\ Sums(ss, f) /\ FlattenSeq(ss) = f[n]
    BY <1>5, FlattenIs DEF n
  <2>2. \A i \in 1 .. n : f[i] = g[i]
    <3>1. Begins(ss, tt)
      BY <1>1 DEF n, Begins
    <3>2. Sums(ss, f) /\ Sums(tt, g)
      BY <1>2, <2>1
    <3>3. \A i \in 1 .. Len(ss) : f[i] = g[i]
      BY ONLY <3>1, <3>2, SumsAgree
    <3> QED
      BY <3>3 DEF n
  <2>3. g[n + 1] = g[n] \o x /\ f[n] = g[n]
    BY <1>1, <1>3, <1>5, <2>2
  <2>4. f[n] \in Seq(S)
    BY <1>1, <1>5, <2>1
  <2> QED
    BY <1>1, <1>2, <2>1, <2>3, <2>4 DEF tt
<1> QED
  BY <1>4, <1>5

LEMMA FlattenEmpty == FlattenSeq(<< >>) = << >>
BY DEF FlattenSeq

LEMMA FlattenPrefix ==
  ASSUME NEW S, NEW ss \in Seq(Seq(S)), NEW tt \in Seq(Seq(S)), IsPrefix(ss, tt)
  PROVE  IsPrefix(FlattenSeq(ss), FlattenSeq(tt))
<1> DEFINE m == Len(ss)
           n == Len(tt)
<1>1. m \in Nat /\ n \in Nat /\ m <= n /\ \A i \in 1 .. m : ss[i] = tt[i]
  BY PrefixIs
<1>2. FlattenSeq(ss) \in Seq(S) /\ FlattenSeq(tt) \in Seq(S)
  <2>1. << >> \in Seq(S)
    OBVIOUS
  <2> QED
    BY <2>1, FlattenAppend
<1>3. CASE m = 0
  <2>1. ss = << >>
    BY <1>3
  <2> QED
    BY <1>2, <2>1, FlattenEmpty, PrefixIs
<1>4. CASE m # 0
  <2>1. PICK f : f \in [1 .. m -> Seq(S)] /\ Sums(ss, f) /\ FlattenSeq(ss) = f[m]
    BY <1>4, FlattenIs
  <2>2. n # 0
    BY <1>1, <1>4
  <2>3. PICK g : g \in [1 .. n -> Seq(S)] /\ Sums(tt, g) /\ FlattenSeq(tt) = g[n]
    BY <2>2, FlattenIs
  <2>4. f[m] = g[m]
    <3>1. Begins(ss, tt)
      BY <1>1 DEF Begins
    <3>2. Sums(ss, f) /\ Sums(tt, g)
      BY <2>1, <2>3
    <3>3. \A i \in 1 .. Len(ss) : f[i] = g[i]
      BY ONLY <3>1, <3>2, SumsAgree
    <3> QED
      BY <1>1, <1>4, <3>3
  <2> DEFINE Bad == {j \in m .. n : ~IsPrefix(g[m], g[j])}
  <2>5. Bad = {}
    <3> SUFFICES ASSUME Bad # {} PROVE FALSE
      OBVIOUS
    <3>1. Bad \in SUBSET Nat
      BY <1>1
    <3> HIDE DEF Bad, m, n
    <3>2. PICK j \in Bad : \A k \in Bad : j <= k
      BY <3>1, Least
    <3>3. j \in m .. n /\ ~IsPrefix(g[m], g[j])
      BY <3>2 DEF Bad
    <3>4. g[m] \in Seq(S)
      BY <1>1, <1>4, <2>3
    <3>5. j # m
      BY <3>3, <3>4, PrefixIs
    <3>6. j - 1 \in m .. n /\ ~(j <= j - 1) /\ j \in 1 .. n /\ j - 1 \in 1 .. n /\ j # 1
      BY <1>1, <1>4, <3>3, <3>5
    <3>7. IsPrefix(g[m], g[j - 1])
      BY <3>2, <3>6 DEF Bad
    <3>8. g[j] = g[j - 1] \o tt[j]
      BY <2>3, <3>6 DEF Sums, n
    <3>9. g[j - 1] \in Seq(S) /\ tt[j] \in Seq(S) /\ g[j] \in Seq(S)
      <4>1. g[j - 1] \in Seq(S) /\ g[j] \in Seq(S)
        BY ONLY <2>3, <3>6
      <4>2. j \in 1 .. Len(tt)
        BY <3>6 DEF n
      <4>3. tt[j] \in Seq(S)
        BY ONLY <4>2, tt \in Seq(Seq(S)), ElementOfSeq
      <4> QED
        BY <4>1, <4>3
    <3>10. IsPrefix(g[j - 1], g[j])
      BY <3>8, <3>9, PrefixOfConcat
    <3>11. IsPrefix(g[m], g[j])
      BY ONLY <3>4, <3>7, <3>9, <3>10, PrefixTransitive
    <3> QED
      BY <3>3, <3>11
  <2>6. n \in m .. n
    BY <1>1
  <2> QED
    BY <2>1, <2>3, <2>4, <2>5, <2>6
<1> QED
  BY <1>3, <1>4

(***************************************************************************)
(* A sequence cut in two.                                                  *)
(***************************************************************************)
LEMMA CutIs ==
  ASSUME NEW S, NEW s \in Seq(S), NEW n \in 0 .. Len(s)
  PROVE  /\ SubSeq(s, 1, n) \in Seq(S) /\ Len(SubSeq(s, 1, n)) = n
         /\ \A k \in 1 .. n : SubSeq(s, 1, n)[k] = s[k]
         /\ SubSeq(s, n + 1, Len(s)) \in Seq(S)
         /\ Len(SubSeq(s, n + 1, Len(s))) = Len(s) - n
         /\ \A k \in 1 .. (Len(s) - n) : SubSeq(s, n + 1, Len(s))[k] = s[n + k]
         /\ SubSeq(s, 1, n) \o SubSeq(s, n + 1, Len(s)) = s
<1> DEFINE x == SubSeq(s, 1, n)
           y == SubSeq(s, n + 1, Len(s))
<1>1. Len(s) \in Nat /\ n \in Nat /\ n <= Len(s)
  OBVIOUS
<1>2. x \in Seq(S) /\ Len(x) = n /\ \A k \in 1 .. n : x[k] = s[k]
  <2>1. CASE n = 0
    BY <2>1
  <2>2. CASE n # 0
    BY <2>2
  <2> QED
    BY <2>1, <2>2
<1>3. y \in Seq(S) /\ Len(y) = Len(s) - n /\ \A k \in 1 .. (Len(s) - n) : y[k] = s[n + k]
  <2>1. CASE n = Len(s)
    BY <2>1
  <2>2. CASE n # Len(s)
    BY <1>1, <2>2
  <2> QED
    BY <2>1, <2>2
<1>4. x \o y = s
  <2>1. 1 \in 1 .. Len(s) + 1 /\ n \in 1 - 1 .. Len(s) /\ Len(s) \in n .. Len(s)
    BY <1>1
  <2>2. x \o y = SubSeq(s, 1, Len(s))
    BY ONLY <2>1, s \in Seq(S), ConcatAdjacentSubSeq DEF x, y
  <2> QED
    BY <2>2, SubSeqFull
<1> QED
  BY <1>2, <1>3, <1>4

Regrouped(a, b, x, y) == (a \o (b \o x)) \o y = (a \o b) \o (x \o y)

LEMMA Regroup ==
  ASSUME NEW S, NEW a \in Seq(S), NEW b \in Seq(S), NEW x \in Seq(S), NEW y \in Seq(S)
  PROVE  Regrouped(a, b, x, y)
<1>1. a \o (b \o x) = (a \o b) \o x
  BY ConcatAssociative, SMTT(30)
<1> DEFINE c == a \o b
<1>2. c \in Seq(S)
  BY ConcatProperties
<1> HIDE DEF c
<1>3. (c \o x) \o y = c \o (x \o y)
  BY <1>2, ConcatAssociative, SMTT(30)
<1> QED
  BY <1>1, <1>3 DEF c, Regrouped
===============================================================================

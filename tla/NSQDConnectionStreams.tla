------------------------- MODULE NSQDConnectionStreams -------------------------
(***************************************************************************)
(* What the bytes of a connection say: that frames come out of the bytes   *)
(* as nsqd put them in, and that nsqd is sent the answers it is owed.      *)
(***************************************************************************)
EXTENDS NSQDConnectionProofs

(***************************************************************************)
(* The bytes of frames.                                                    *)
(***************************************************************************)
Frame(i, kind) == FrameBytes(i, 1, FrameLength(kind))
FramesOf(s)    == [i \in 1 .. Len(s) |-> Frame(i, s[i])]

\* All that nsqd sends for the frames of s.
Sent(s) == FlattenSeq(FramesOf(s))

LEMMA FrameIs ==
  ASSUME NEW i \in Nat, NEW kind \in Kind
  PROVE  /\ FrameLength(kind) \in Nat /\ 2 * WordLength <= FrameLength(kind)
         /\ Frame(i, kind) \in Seq(ReadByte)
         /\ Len(Frame(i, kind)) = FrameLength(kind)
         /\ \A k \in 1 .. FrameLength(kind) : Frame(i, kind)[k] = <<i, k>>
<1> DEFINE n == FrameLength(kind)
           s == FrameBytes(i, 1, n)
<1>1. n \in Nat /\ 2 * WordLength <= n
  BY ConnectionAssumption DEF FrameLength
<1> HIDE DEF n
<1>2. s \in Seq(ReadByte) /\ Len(s) = n
  BY <1>1, FrameBytesAre
<1>3. \A k \in 1 .. n : s[k] = <<i, k>>
  BY <1>1 DEF FrameBytes
<1> QED
  BY <1>1, <1>2, <1>3 DEF n, Frame

LEMMA FramesAre ==
  ASSUME NEW s \in Seq(Kind)
  PROVE  /\ FramesOf(s) \in Seq(Seq(ReadByte)) /\ Len(FramesOf(s)) = Len(s)
         /\ \A kind \in Kind :
              FramesOf(Append(s, kind)) = Append(FramesOf(s), Frame(Len(s) + 1, kind))
<1>1. Len(s) \in Nat /\ \A i \in 1 .. Len(s) : s[i] \in Kind
  OBVIOUS
<1>2. \A i \in 1 .. Len(s) : Frame(i, s[i]) \in Seq(ReadByte)
  BY <1>1, FrameIs
<1>3. FramesOf(s) \in Seq(Seq(ReadByte)) /\ Len(FramesOf(s)) = Len(s)
  BY <1>1, <1>2 DEF FramesOf
<1>4. ASSUME NEW kind \in Kind
      PROVE  FramesOf(Append(s, kind)) = Append(FramesOf(s), Frame(Len(s) + 1, kind))
  <2> DEFINE t == Append(s, kind)
             u == FramesOf(t)
             x == Frame(Len(s) + 1, kind)
             v == Append(FramesOf(s), x)
  <2>1. /\ t \in Seq(Kind) /\ Len(t) = Len(s) + 1
        /\ \A i \in 1 .. Len(s) : t[i] = s[i]
        /\ t[Len(s) + 1] = kind
    BY AppendProperties
  <2>2. x \in Seq(ReadByte)
    BY <1>1, FrameIs
  <2> HIDE DEF t, x
  <2>3. \A i \in 1 .. Len(s) + 1 : u[i] = IF i = Len(s) + 1 THEN x ELSE FramesOf(s)[i]
    BY <1>1, <2>1 DEF FramesOf, x
  <2>4. u \in Seq(Seq(ReadByte)) /\ Len(u) = Len(s) + 1
    <3>1. \A i \in 1 .. Len(t) : Frame(i, t[i]) \in Seq(ReadByte)
      BY <2>1, FrameIs
    <3> QED
      BY <1>1, <2>1, <3>1 DEF FramesOf
  <2>5. /\ v \in Seq(Seq(ReadByte)) /\ Len(v) = Len(s) + 1
        /\ \A i \in 1 .. Len(s) : v[i] = FramesOf(s)[i]
        /\ v[Len(s) + 1] = x
    BY <1>3, <2>2, AppendProperties
  <2> HIDE DEF u, v
  <2>6. ASSUME NEW i \in 1 .. Len(u) PROVE u[i] = v[i]
    <3>1. i \in 1 .. Len(s) + 1
      BY <2>4
    <3>2. CASE i = Len(s) + 1
      BY <2>3, <2>5, <3>1, <3>2
    <3>3. CASE i # Len(s) + 1
      <4>1. i \in 1 .. Len(s)
        BY <1>1, <3>1, <3>3
      <4> QED
        BY <2>3, <2>5, <3>1, <3>3, <4>1
    <3> QED
      BY <3>2, <3>3
  <2>7. u = v
    BY ONLY <2>4, <2>5, <2>6, SeqEqual
  <2> QED
    BY <2>7 DEF u, v, t, x
<1> QED
  BY <1>3, <1>4

LEMMA SentAppend ==
  ASSUME NEW s \in Seq(Kind), NEW kind \in Kind
  PROVE  /\ Sent(s) \in Seq(ReadByte)
         /\ Sent(Append(s, kind)) = Sent(s) \o Frame(Len(s) + 1, kind)
<1>1. /\ FramesOf(s) \in Seq(Seq(ReadByte))
      /\ FramesOf(Append(s, kind)) = Append(FramesOf(s), Frame(Len(s) + 1, kind))
  BY FramesAre
<1>2. Frame(Len(s) + 1, kind) \in Seq(ReadByte)
  BY FrameIs
<1> QED
  BY <1>1, <1>2, FlattenAppend DEF Sent

LEMMA SentIs ==
  ASSUME NEW s \in Seq(Kind)
  PROVE  Sent(s) \in Seq(ReadByte)
<1>1. FramesOf(s) \in Seq(Seq(ReadByte))
  BY FramesAre
<1>2. << >> \in Seq(ReadByte)
  OBVIOUS
<1> QED
  BY <1>1, <1>2, FlattenAppend DEF Sent

\* The first m frames.
First(s, m) == SubSeq(s, 1, m)

LEMMA FirstIs ==
  ASSUME NEW s \in Seq(Kind), NEW m \in 0 .. Len(s)
  PROVE  /\ First(s, m) \in Seq(Kind) /\ Len(First(s, m)) = m
         /\ \A i \in 1 .. m : First(s, m)[i] = s[i]
         /\ m < Len(s) => First(s, m + 1) = Append(First(s, m), s[m + 1])
         /\ First(s, Len(s)) = s
         /\ \A kind \in Kind : First(Append(s, kind), m) = First(s, m)
<1>1. m \in Nat /\ Len(s) \in Nat /\ m <= Len(s)
  OBVIOUS
<1>2. ASSUME NEW t \in Seq(Kind), NEW n \in 0 .. Len(t)
      PROVE  /\ First(t, n) \in Seq(Kind) /\ Len(First(t, n)) = n
             /\ \A i \in 1 .. n : First(t, n)[i] = t[i]
  <2>1. CASE n = 0
    BY <2>1 DEF First
  <2>2. CASE n # 0
    BY <2>2 DEF First
  <2> QED
    BY <2>1, <2>2
<1>3. ASSUME m < Len(s) PROVE First(s, m + 1) = Append(First(s, m), s[m + 1])
  <2> DEFINE u == First(s, m + 1)
             f == First(s, m)
             v == Append(f, s[m + 1])
  <2>1. u \in Seq(Kind) /\ Len(u) = m + 1 /\ \A i \in 1 .. m + 1 : u[i] = s[i]
    BY <1>1, <1>2, <1>3
  <2>2. f \in Seq(Kind) /\ Len(f) = m /\ \A i \in 1 .. m : f[i] = s[i]
    BY <1>2
  <2>3. s[m + 1] \in Kind
    BY <1>1, <1>3
  <2> HIDE DEF u, f
  <2>4. /\ v \in Seq(Kind) /\ Len(v) = m + 1
        /\ \A i \in 1 .. m : v[i] = f[i]
        /\ v[m + 1] = s[m + 1]
    BY <2>2, <2>3, AppendProperties
  <2> HIDE DEF v
  <2>5. \A i \in 1 .. Len(u) : u[i] = v[i]
    BY <1>1, <2>1, <2>2, <2>4
  <2>6. u = v
    BY ONLY <2>1, <2>4, <2>5, SeqEqual
  <2> QED
    BY <2>6 DEF u, v, f
<1>4. First(s, Len(s)) = s
  BY SubSeqFull DEF First
<1>5. ASSUME NEW kind \in Kind PROVE First(Append(s, kind), m) = First(s, m)
  <2> DEFINE t == Append(s, kind)
             u == First(t, m)
             v == First(s, m)
  <2>1. t \in Seq(Kind) /\ Len(t) = Len(s) + 1 /\ \A i \in 1 .. Len(s) : t[i] = s[i]
    BY AppendProperties
  <2> HIDE DEF t
  <2>2. u \in Seq(Kind) /\ Len(u) = m /\ \A i \in 1 .. m : u[i] = t[i]
    BY <1>1, <1>2, <2>1
  <2>3. v \in Seq(Kind) /\ Len(v) = m /\ \A i \in 1 .. m : v[i] = s[i]
    BY <1>2
  <2> HIDE DEF u, v
  <2>4. \A i \in 1 .. Len(u) : u[i] = v[i]
    BY <1>1, <2>1, <2>2, <2>3, SMTT(30)
  <2>5. u = v
    BY ONLY <2>2, <2>3, <2>4, SeqEqual
  <2> QED
    BY <2>5 DEF u, v, t
<1> QED
  BY <1>2, <1>3, <1>4, <1>5

LEMMA SentFirst ==
  ASSUME NEW s \in Seq(Kind), NEW m \in 0 .. Len(s)
  PROVE  /\ Sent(First(s, m)) \in Seq(ReadByte)
         /\ IsPrefix(Sent(First(s, m)), Sent(s))
         /\ m < Len(s) => Sent(First(s, m + 1)) = Sent(First(s, m)) \o Frame(m + 1, s[m + 1])
<1> DEFINE f == First(s, m)
<1>1. f \in Seq(Kind) /\ Len(f) = m /\ \A i \in 1 .. m : f[i] = s[i]
  BY FirstIs
<1> HIDE DEF f
<1>2. /\ FramesOf(f) \in Seq(Seq(ReadByte)) /\ Len(FramesOf(f)) = m
      /\ FramesOf(s) \in Seq(Seq(ReadByte)) /\ Len(FramesOf(s)) = Len(s)
  BY <1>1, FramesAre
<1>3. \A i \in 1 .. m : FramesOf(f)[i] = FramesOf(s)[i]
  BY <1>1 DEF FramesOf
<1>4. IsPrefix(FramesOf(f), FramesOf(s))
  <2>1. m <= Len(s)
    OBVIOUS
  <2> DEFINE u == FramesOf(f)
             v == FramesOf(s)
             R == Seq(ReadByte)
  <2>2. u \in Seq(R) /\ v \in Seq(R) /\ Len(u) <= Len(v) /\ \A i \in 1 .. Len(u) : u[i] = v[i]
    BY <1>2, <1>3, <2>1
  <2> HIDE DEF u, v, R
  <2>3. IsPrefix(u, v)
    BY ONLY <2>2, PrefixIs
  <2> QED
    BY <2>3 DEF u, v
<1>5. IsPrefix(Sent(f), Sent(s))
  BY <1>2, <1>4, FlattenPrefix DEF Sent
<1>6. ASSUME m < Len(s)
      PROVE  Sent(First(s, m + 1)) = Sent(f) \o Frame(m + 1, s[m + 1])
  <2>1. First(s, m + 1) = Append(f, s[m + 1]) /\ s[m + 1] \in Kind
    BY <1>6, FirstIs DEF f
  <2> QED
    BY <1>1, <2>1, SentAppend
<1> QED
  BY <1>1, <1>5, <1>6, SentIs DEF f

-------------------------------------------------------------------------------

(***************************************************************************)
(* After m of the frames s come the bytes T, and there is nothing more     *)
(* unless the connection is gone.                                          *)
(***************************************************************************)
Accounted(s, m, T, gone) ==
  /\ m \in 0 .. Len(s)
  /\ IsPrefix(Sent(First(s, m)) \o T, Sent(s))
  /\ ~gone => Sent(First(s, m)) \o T = Sent(s)

\* The bytes to come are those of the next frame.
LEMMA NextFrame ==
  ASSUME NEW s \in Seq(Kind), NEW m, NEW T \in Seq(ReadByte), NEW gone,
         Accounted(s, m, T, gone), Len(T) > 0
  PROVE  /\ m + 1 \in 1 .. Len(s) /\ s[m + 1] \in Kind
         /\ \A i \in 1 .. FrameLength(s[m + 1]) : i <= Len(T) => T[i] = <<m + 1, i>>
<1> DEFINE A == Sent(First(s, m))
           X == Sent(s)
           B == A \o T
<1>1. m \in 0 .. Len(s) /\ IsPrefix(B, X)
  BY DEF Accounted
<1>2. A \in Seq(ReadByte) /\ X \in Seq(ReadByte)
  BY <1>1, SentFirst, SentIs
<1>3. /\ B \in Seq(ReadByte) /\ Len(B) = Len(A) + Len(T)
      /\ \A i \in 1 .. Len(A) + Len(T) : B[i] = IF i <= Len(A) THEN A[i] ELSE T[i - Len(A)]
  BY <1>2, ConcatProperties
<1>4. /\ Len(A) \in Nat /\ Len(T) \in Nat /\ Len(X) \in Nat /\ Len(s) \in Nat
  BY <1>2
<1> HIDE DEF A, X, B
<1>5. Len(B) <= Len(X) /\ \A i \in 1 .. Len(B) : B[i] = X[i]
  BY ONLY <1>1, <1>2, <1>3, PrefixIs
<1>6. m < Len(s)
  <2> SUFFICES ASSUME m = Len(s) PROVE FALSE
    BY <1>1, <1>4
  <2>1. First(s, m) = s
    BY FirstIs
  <2>2. A = X
    BY <2>1 DEF A, X
  <2> QED
    BY <1>3, <1>4, <1>5, <2>2
<1>7. m + 1 \in 1 .. Len(s) /\ s[m + 1] \in Kind /\ m + 1 \in Nat
  BY <1>1, <1>4, <1>6
<1> DEFINE n == FrameLength(s[m + 1])
           F == Frame(m + 1, s[m + 1])
           C == A \o F
<1>8. /\ n \in Nat /\ F \in Seq(ReadByte) /\ Len(F) = n
      /\ \A k \in 1 .. n : F[k] = <<m + 1, k>>
  BY <1>7, FrameIs
<1>9. IsPrefix(C, X)
  <2>1. m + 1 \in 0 .. Len(s)
    BY <1>7
  <2>2. IsPrefix(Sent(First(s, m + 1)), Sent(s))
    BY <2>1, SentFirst
  <2>3. Sent(First(s, m + 1)) = C
    BY <1>1, <1>6, SentFirst DEF A
  <2> QED
    BY <2>2, <2>3 DEF X
<1> HIDE DEF n, F
<1>10. /\ C \in Seq(ReadByte) /\ Len(C) = Len(A) + n
       /\ \A i \in 1 .. Len(A) + n : C[i] = IF i <= Len(A) THEN A[i] ELSE F[i - Len(A)]
  BY <1>2, <1>8, ConcatProperties
<1> HIDE DEF C
<1>11. Len(C) <= Len(X) /\ \A i \in 1 .. Len(C) : C[i] = X[i]
  BY ONLY <1>2, <1>9, <1>10, PrefixIs
<1>12. ASSUME NEW i \in 1 .. n, i <= Len(T) PROVE T[i] = <<m + 1, i>>
  <2> DEFINE j == Len(A) + i
  <2>1. /\ j \in 1 .. Len(A) + Len(T) /\ j \in 1 .. Len(A) + n
        /\ ~(j <= Len(A)) /\ j - Len(A) = i
    BY <1>4, <1>8, <1>12
  <2> HIDE DEF j
  <2>2. B[j] = T[i] /\ C[j] = F[i]
    BY <1>3, <1>10, <2>1
  <2>3. B[j] = X[j] /\ C[j] = X[j]
    BY <1>3, <1>5, <1>10, <1>11, <2>1
  <2> QED
    BY <1>8, <2>2, <2>3
<1> QED
  BY <1>7, <1>12 DEF n

\* A frame is handled.
LEMMA FrameAccounted ==
  ASSUME NEW s \in Seq(Kind), NEW m, NEW T \in Seq(ReadByte), NEW gone,
         m + 1 \in 1 .. Len(s), m \in Nat,
         Accounted(s, m, Frame(m + 1, s[m + 1]) \o T, gone)
  PROVE  Accounted(s, m + 1, T, gone)
<1> DEFINE A == Sent(First(s, m))
           F == Frame(m + 1, s[m + 1])
           C == Sent(First(s, m + 1))
<1>1. m \in 0 .. Len(s) /\ m < Len(s) /\ m + 1 \in 0 .. Len(s) /\ s[m + 1] \in Kind
  BY DEF Accounted
<1>2. A \in Seq(ReadByte) /\ F \in Seq(ReadByte) /\ C = A \o F
  <2>1. F \in Seq(ReadByte)
    BY <1>1, FrameIs
  <2>2. A \in Seq(ReadByte) /\ C = A \o F
    BY <1>1, SentFirst
  <2> QED
    BY <2>1, <2>2
<1> HIDE DEF A, F, C
<1>3. C \o T = A \o (F \o T)
  BY ONLY <1>2, T \in Seq(ReadByte), ConcatAssociative
<1>4. IsPrefix(A \o (F \o T), Sent(s)) /\ (~gone => A \o (F \o T) = Sent(s))
  BY DEF Accounted, A, F
<1> QED
  BY <1>1, <1>3, <1>4 DEF Accounted, C

\* nsqd sends one more.
LEMMA SendAccounted ==
  ASSUME NEW s \in Seq(Kind), NEW kind \in Kind, NEW m, NEW T \in Seq(ReadByte),
         Accounted(s, m, T, FALSE)
  PROVE  Accounted(Append(s, kind), m, T \o Frame(Len(s) + 1, kind), FALSE)
<1> DEFINE A == Sent(First(s, m))
           F == Frame(Len(s) + 1, kind)
           X == Sent(Append(s, kind))
<1>1. m \in 0 .. Len(s) /\ A \o T = Sent(s)
  BY DEF Accounted
<1>2. A \in Seq(ReadByte) /\ F \in Seq(ReadByte)
  <2>1. Len(s) + 1 \in Nat
    OBVIOUS
  <2>2. F \in Seq(ReadByte)
    BY <2>1, FrameIs
  <2>3. A \in Seq(ReadByte)
    BY <1>1, SentFirst
  <2> QED
    BY <2>2, <2>3
<1>3. X = (A \o T) \o F
  BY <1>1, SentAppend
<1>4. First(Append(s, kind), m) = First(s, m)
  BY <1>1, FirstIs
<1>5. m \in 0 .. Len(Append(s, kind))
  BY <1>1, AppendProperties
<1> HIDE DEF A, F, X
<1>6. (A \o T) \o F = A \o (T \o F)
  BY ONLY <1>2, T \in Seq(ReadByte), ConcatAssociative
<1>7. X \in Seq(ReadByte)
  <2>1. Append(s, kind) \in Seq(Kind)
    BY AppendProperties
  <2> QED
    BY <2>1, SentIs DEF X
<1>8. IsPrefix(X, X)
  BY <1>7, PrefixIs
<1>9. Sent(First(Append(s, kind), m)) \o (T \o F) = X
  BY <1>3, <1>4, <1>6 DEF A
<1> QED
  BY <1>5, <1>8, <1>9 DEF Accounted, F, X

\* A reset discards bytes.
LEMMA ResetAccounted ==
  ASSUME NEW s \in Seq(Kind), NEW m, NEW T \in Seq(ReadByte), NEW U \in Seq(ReadByte),
         NEW gone, Accounted(s, m, T \o U, gone)
  PROVE  Accounted(s, m, T, TRUE) /\ Accounted(s, m, T \o U, TRUE)
<1> DEFINE A == Sent(First(s, m))
           X == Sent(s)
<1>1. m \in 0 .. Len(s) /\ IsPrefix(A \o (T \o U), X)
  BY DEF Accounted
<1>2. A \in Seq(ReadByte) /\ X \in Seq(ReadByte)
  BY <1>1, SentFirst, SentIs
<1> HIDE DEF A, X
<1>3. (A \o T) \o U = A \o (T \o U)
  BY ONLY <1>2, T \in Seq(ReadByte), U \in Seq(ReadByte), ConcatAssociative
<1>4. A \o T \in Seq(ReadByte)
  BY ONLY <1>2, T \in Seq(ReadByte), ConcatProperties
<1> DEFINE B == A \o T
<1> HIDE DEF B
<1>5. B \o U \in Seq(ReadByte) /\ IsPrefix(B, B \o U)
  BY <1>4, PrefixOfConcat DEF B
<1>6. IsPrefix(B \o U, X)
  BY <1>1, <1>3 DEF B
<1>7. IsPrefix(B, X)
  <2>1. B \in Seq(ReadByte)
    BY <1>4 DEF B
  <2> QED
    BY ONLY <1>2, <1>5, <1>6, <2>1, PrefixTransitive
<1> QED
  BY <1>1, <1>7 DEF Accounted, A, B, X

-------------------------------------------------------------------------------

(***************************************************************************)
(* NoByteLost is not inductive by itself: that the next bytes are read as  *)
(* what they are depends on the callback that waits for them and on how    *)
(* many it waits for, and that nothing handled was a misread stretch on    *)
(* the frames having come out in turn.                                     *)
(***************************************************************************)
InTurn(g) == g = [j \in 1 .. Len(g) |-> j]

Expecting(b, s, m, size) ==
  /\ b.state \in {"INIT", "CONNECTING"} => b.callback = NULL
  /\ b.callback = "nsqd_connection_read_size" => b.n = WordLength
  /\ b.callback = "nsqd_connection_read_data" =>
       /\ m + 1 \in 1 .. Len(s)
       /\ size = WordLength + BodyLength[s[m + 1]] /\ b.n = size

\* The size word of the frame being read.
SizeTaken(b, m) ==
  IF b.callback = "nsqd_connection_read_data" THEN SizeWord(m + 1) ELSE << >>

Ahead(b, m, rest) == (SizeTaken(b, m) \o b.read_buf.bytes) \o rest

StreamInv ==
  /\ InTurn(got)
  /\ Expecting(bs, stream, Len(got), current_msg_size)
  /\ Accounted(stream, Len(got), Ahead(bs, Len(got), received), peer_gone)

LEMMA SizeWordIs ==
  ASSUME NEW i \in Nat
  PROVE  /\ SizeWord(i) \in Seq(ReadByte) /\ Len(SizeWord(i)) = WordLength
         /\ \A k \in 1 .. WordLength : SizeWord(i)[k] = <<i, k>>
<1>1. WordLength \in Nat
  BY ConnectionAssumption
<1>2. SizeWord(i) \in Seq(ReadByte) /\ Len(SizeWord(i)) = WordLength
  BY <1>1, FrameBytesAre DEF SizeWord
<1> QED
  BY <1>1, <1>2 DEF SizeWord, FrameBytes

LEMMA AfterSizeIs ==
  ASSUME stream \in Seq(Kind), NEW i \in 1 .. Len(stream)
  PROVE  /\ AfterSize(i) \in Seq(ReadByte)
         /\ Len(AfterSize(i)) = WordLength + BodyLength[stream[i]]
         /\ \A k \in 1 .. (WordLength + BodyLength[stream[i]]) :
              AfterSize(i)[k] = <<i, WordLength + k>>
         /\ WordLength + BodyLength[stream[i]] \in Nat \ {0}
         /\ FrameLength(stream[i]) = 2 * WordLength + BodyLength[stream[i]]
         /\ BodyLength[stream[i]] \in Nat
<1> DEFINE W == WordLength
           n == W + BodyLength[stream[i]]
<1>1. W \in Nat \ {0} /\ BodyLength[stream[i]] \in Nat /\ i \in Nat
  <2>1. stream[i] \in Kind
    OBVIOUS
  <2>2. BodyLength \in [Kind -> Nat] /\ WordLength \in Nat \ {0}
    BY ConnectionAssumption
  <2> QED
    BY <2>1, <2>2
<1>2. n \in Nat \ {0}
  BY <1>1
<1>3. FrameLength(stream[i]) = 2 * W + BodyLength[stream[i]]
  BY DEF FrameLength
<1>4. FrameLength(stream[i]) - (W + 1) + 1 = n
  BY <1>1, <1>3
<1> HIDE DEF n, W
<1>5. AfterSize(i) = [k \in 1 .. n |-> <<i, W + 1 + k - 1>>]
  BY <1>4 DEF AfterSize, FrameBytes, W
<1>6. \A k \in 1 .. n : <<i, W + 1 + k - 1>> = <<i, W + k>> /\ <<i, W + k>> \in ReadByte
  BY <1>1, <1>2 DEF ReadByte
<1>7. AfterSize(i) = [k \in 1 .. n |-> <<i, W + k>>]
  BY ONLY <1>5, <1>6
<1>8. AfterSize(i) \in Seq(ReadByte) /\ Len(AfterSize(i)) = n
  BY ONLY <1>2, <1>6, <1>7
<1>9. \A k \in 1 .. n : AfterSize(i)[k] = <<i, W + k>>
  BY ONLY <1>7
<1> QED
  BY <1>1, <1>2, <1>3, <1>8, <1>9 DEF n, W

\* ntohl finds the size the word says.
LEMMA SizeReadIs ==
  ASSUME stream \in Seq(Kind), NEW i \in 1 .. Len(stream)
  PROVE  SizeRead(SizeWord(i)) = WordLength + BodyLength[stream[i]]
<1> DEFINE c == CHOOSE j \in DOMAIN stream : SizeWord(i) = SizeWord(j)
<1>1. i \in DOMAIN stream
  OBVIOUS
<1>2. c \in DOMAIN stream /\ SizeWord(i) = SizeWord(c)
  BY <1>1
<1>3. SizeRead(SizeWord(i)) = WordLength + BodyLength[stream[c]]
  BY <1>1 DEF SizeRead
<1> HIDE DEF c
<1>4. c = i
  <2>1. 1 \in 1 .. WordLength /\ c \in Nat /\ i \in Nat
    BY <1>2, ConnectionAssumption
  <2>2. SizeWord(i)[1] = <<i, 1>> /\ SizeWord(c)[1] = <<c, 1>>
    BY <2>1, SizeWordIs
  <2> QED
    BY <1>2, <2>2
<1> QED
  BY <1>3, <1>4

LEMMA FrameReadIs ==
  ASSUME stream \in Seq(Kind), NEW i \in 1 .. Len(stream)
  PROVE  FrameRead(AfterSize(i)) = i
<1> DEFINE c == CHOOSE j \in DOMAIN stream : AfterSize(i) = AfterSize(j)
<1>1. i \in DOMAIN stream
  OBVIOUS
<1>2. c \in DOMAIN stream /\ AfterSize(i) = AfterSize(c)
  BY <1>1
<1>3. FrameRead(AfterSize(i)) = c
  BY <1>1 DEF FrameRead
<1> HIDE DEF c
<1>4. c = i
  <2>1. c \in 1 .. Len(stream)
    BY <1>2
  <2>2. /\ 1 \in 1 .. (WordLength + BodyLength[stream[i]])
        /\ 1 \in 1 .. (WordLength + BodyLength[stream[c]])
    BY <2>1, AfterSizeIs
  <2>3. AfterSize(i)[1] = <<i, WordLength + 1>> /\ AfterSize(c)[1] = <<c, WordLength + 1>>
    BY <2>1, <2>2, AfterSizeIs
  <2> QED
    BY <1>2, <2>3
<1> QED
  BY <1>3, <1>4

LEMMA DrainedRest ==
  ASSUME NEW S, NEW b \in Buffers(S), NEW n \in 0 .. b.offset
  PROVE  /\ Drained(b, n) \in Buffers(S) /\ Drained(b, n).offset = b.offset - n
         /\ Drained(b, n).bytes = SubSeq(b.bytes, n + 1, Len(b.bytes))
<1> DEFINE d == Drained(b, n)
<1>1. b.offset \in Nat /\ b.bytes \in Seq(S) /\ Len(b.bytes) = b.offset /\ n \in Nat
  <2>1. b.offset \in Nat /\ b.bytes \in Seq(S) /\ Len(b.bytes) = b.offset
    BY BufferFields
  <2> QED
    BY <2>1
<1>2. /\ d \in Buffers(S)
      /\ n >= b.offset => d.offset = 0 /\ d.bytes = << >>
      /\ n < b.offset => d.offset = b.offset - n /\ d.bytes = SubSeq(b.bytes, n + 1, Len(b.bytes))
  BY <1>1, DrainedIs
<1> HIDE DEF d
<1>3. CASE n = b.offset
  <2>1. SubSeq(b.bytes, n + 1, Len(b.bytes)) = << >>
    BY <1>1, <1>3
  <2>2. n >= b.offset /\ b.offset - n = 0
    BY ONLY <1>1, <1>3
  <2> QED
    BY <1>2, <2>1, <2>2 DEF d
<1>4. CASE n < b.offset
  BY <1>2, <1>4 DEF d
<1> QED
  BY <1>1, <1>3, <1>4

LEMMA DrainedTwice ==
  ASSUME NEW S, NEW b \in Buffers(S), NEW p \in Nat, NEW q \in Nat, p + q <= b.offset
  PROVE  /\ Drained(Drained(b, p), q) \in Buffers(S)
         /\ Drained(Drained(b, p), q).bytes = SubSeq(b.bytes, p + q + 1, Len(b.bytes))
<1> DEFINE d == Drained(b, p)
           e == Drained(d, q)
           s == b.bytes
<1>1. b.offset \in Nat /\ s \in Seq(S) /\ Len(s) = b.offset
  BY BufferFields
<1>2. p \in 0 .. Len(s) /\ p \in 0 .. b.offset /\ q \in 0 .. (b.offset - p) /\ p + q \in 0 .. Len(s)
  BY <1>1
<1>3. /\ d \in Buffers(S) /\ d.offset = b.offset - p
      /\ d.bytes = SubSeq(s, p + 1, Len(s))
  BY <1>2, DrainedRest
<1> HIDE DEF d
<1>4. q \in 0 .. d.offset
  BY <1>2, <1>3
<1>5. e \in Buffers(S) /\ e.bytes = SubSeq(d.bytes, q + 1, Len(d.bytes))
  BY <1>3, <1>4, DrainedRest
<1> DEFINE t == d.bytes
           u == SubSeq(t, q + 1, Len(t))
           v == SubSeq(s, p + q + 1, Len(s))
<1> HIDE DEF s
<1>6. t \in Seq(S) /\ Len(t) = Len(s) - p /\ \A k \in 1 .. (Len(s) - p) : t[k] = s[p + k]
  BY <1>1, <1>2, <1>3, CutIs
<1> HIDE DEF t
<1>7. q \in 0 .. Len(t)
  BY <1>1, <1>2, <1>6
<1>8. u \in Seq(S) /\ Len(u) = Len(t) - q /\ \A k \in 1 .. (Len(t) - q) : u[k] = t[q + k]
  BY <1>6, <1>7, CutIs
<1> DEFINE r == p + q
<1>9. r \in 0 .. Len(s)
  BY <1>2
<1> HIDE DEF r
<1>10. /\ SubSeq(s, r + 1, Len(s)) \in Seq(S) /\ Len(SubSeq(s, r + 1, Len(s))) = Len(s) - r
       /\ \A k \in 1 .. (Len(s) - r) : SubSeq(s, r + 1, Len(s))[k] = s[r + k]
  BY <1>1, <1>9, CutIs
<1>11. v \in Seq(S) /\ Len(v) = Len(s) - r /\ \A k \in 1 .. (Len(s) - r) : v[k] = s[r + k]
  BY <1>10 DEF r
<1> HIDE DEF u, v
<1>12. ASSUME NEW k \in 1 .. Len(u) PROVE u[k] = v[k]
  <2>1. Len(s) \in Nat /\ Len(u) = Len(s) - r /\ r = p + q
    BY <1>1, <1>6, <1>8 DEF r
  <2>2. /\ k \in 1 .. (Len(t) - q) /\ q + k \in 1 .. (Len(s) - p)
        /\ k \in 1 .. (Len(s) - r) /\ p + (q + k) = r + k
    BY <1>2, <1>6, <1>8, <2>1
  <2>3. u[k] = t[q + k]
    BY <1>8, <2>2
  <2>4. t[q + k] = s[p + (q + k)]
    BY <1>6, <2>2
  <2>5. v[k] = s[r + k]
    BY <1>11, <2>2
  <2> QED
    BY <2>2, <2>3, <2>4, <2>5
<1>13. Len(u) = Len(v)
  BY <1>1, <1>2, <1>6, <1>8, <1>11 DEF r
<1>14. u = v
  BY ONLY <1>8, <1>11, <1>12, <1>13, SeqEqual
<1> QED
  BY <1>5, <1>14 DEF u, v, t, d, s

LEMMA FrameOfParts ==
  ASSUME stream \in Seq(Kind), NEW i \in 1 .. Len(stream)
  PROVE  SizeWord(i) \o AfterSize(i) = Frame(i, stream[i])
<1> DEFINE W == WordLength
           n == W + BodyLength[stream[i]]
           x == SizeWord(i)
           y == AfterSize(i)
           u == x \o y
           f == Frame(i, stream[i])
<1>1. i \in Nat /\ stream[i] \in Kind /\ W \in Nat
  BY ConnectionAssumption
<1>2. x \in Seq(ReadByte) /\ Len(x) = W /\ \A k \in 1 .. W : x[k] = <<i, k>>
  BY <1>1, SizeWordIs
<1>3. /\ y \in Seq(ReadByte) /\ Len(y) = n /\ \A k \in 1 .. n : y[k] = <<i, W + k>>
      /\ n \in Nat /\ FrameLength(stream[i]) = 2 * W + BodyLength[stream[i]]
      /\ BodyLength[stream[i]] \in Nat
  BY AfterSizeIs
<1>4. W + n = FrameLength(stream[i])
  BY <1>1, <1>3
<1>5. /\ f \in Seq(ReadByte) /\ Len(f) = FrameLength(stream[i])
      /\ \A k \in 1 .. FrameLength(stream[i]) : f[k] = <<i, k>>
  BY <1>1, FrameIs
<1> HIDE DEF x, y, f, n, W
<1>6. /\ u \in Seq(ReadByte) /\ Len(u) = W + n
      /\ \A k \in 1 .. W + n : u[k] = IF k <= W THEN x[k] ELSE y[k - W]
  BY ONLY <1>2, <1>3, ConcatProperties
<1> HIDE DEF u
<1>7. ASSUME NEW k \in 1 .. Len(u) PROVE u[k] = f[k]
  <2>1. k \in 1 .. W + n /\ f[k] = <<i, k>>
    BY <1>4, <1>5, <1>6
  <2>2. CASE k <= W
    BY <1>1, <1>2, <1>6, <2>1, <2>2
  <2>3. CASE ~(k <= W)
    <3>1. k - W \in 1 .. n /\ W + (k - W) = k
      BY <1>1, <1>3, <2>1, <2>3
    <3> QED
      BY <1>3, <1>6, <2>1, <2>3, <3>1
  <2> QED
    BY <2>2, <2>3
<1>8. Len(u) = Len(f)
  BY <1>4, <1>5, <1>6
<1>9. u = f
  BY ONLY <1>5, <1>6, <1>7, <1>8, SeqEqual
<1> QED
  BY <1>9 DEF u, f, x, y

-------------------------------------------------------------------------------

LEMMA AheadIs ==
  ASSUME IInv
  PROVE  /\ Len(got) \in Nat
         /\ bs.read_buf.bytes \in Seq(ReadByte) /\ Len(bs.read_buf.bytes) = bs.read_buf.offset
         /\ SizeTaken(bs, Len(got)) \in Seq(ReadByte)
         /\ SizeTaken(bs, Len(got)) \o bs.read_buf.bytes \in Seq(ReadByte)
         /\ Ahead(bs, Len(got), received) \in Seq(ReadByte)
<1> DEFINE a == SizeTaken(bs, Len(got))
           b == bs.read_buf.bytes
           c == a \o b
<1>1. Len(got) \in Nat /\ received \in Seq(ReadByte)
  BY DataInvFields
<1>2. b \in Seq(ReadByte) /\ Len(b) = bs.read_buf.offset
  BY DataInvFields, SocketFields
<1>3. a \in Seq(ReadByte)
  <2>1. SizeWord(Len(got) + 1) \in Seq(ReadByte)
    BY <1>1, SizeWordIs
  <2>2. << >> \in Seq(ReadByte)
    OBVIOUS
  <2> QED
    BY <2>1, <2>2 DEF SizeTaken
<1> HIDE DEF a, b
<1>4. c \in Seq(ReadByte)
  BY <1>2, <1>3, ConcatProperties
<1> HIDE DEF c
<1>5. c \o received \in Seq(ReadByte)
  BY <1>1, <1>4, ConcatProperties
<1> QED
  BY <1>1, <1>2, <1>3, <1>4, <1>5 DEF Ahead, a, b, c

\* Most steps touch nothing of what is read.
LEMMA StreamKept ==
  ASSUME StreamInv,
         bs'.callback = bs.callback, bs'.n = bs.n, bs'.read_buf = bs.read_buf,
         bs'.state \in {"INIT", "CONNECTING"} => bs.state \in {"INIT", "CONNECTING"},
         UNCHANGED <<current_msg_size, received, peer_gone, stream, got>>
  PROVE  StreamInv'
<1>1. Expecting(bs', stream', Len(got'), current_msg_size')
  BY DEF StreamInv, Expecting
<1>2. Ahead(bs', Len(got'), received') = Ahead(bs, Len(got), received)
  BY DEF Ahead, SizeTaken
<1> QED
  BY <1>1, <1>2 DEF StreamInv, Ahead, SizeTaken

LEMMA ConnectedStream ==
  ASSUME IInv, StreamInv, connect_cb_succeeds
  PROVE  StreamInv'
<1>1. /\ bs'.state \in {"CONNECTED", "DISCONNECTED"} /\ bs'.read_buf = bs.read_buf
      /\ bs'.callback = "nsqd_connection_read_size" /\ bs'.n = WordLength
  BY DataInvFields, ConnectedSocket
<1>2. UNCHANGED <<current_msg_size, received, written, peer_gone, stream, got>>
  BY DEF connect_cb_succeeds
<1>3. bs.callback = NULL
  <2>1. bs.fd /\ bs.once /\ Tended(bs)
    BY DataInvFields DEF connect_cb_succeeds
  <2>2. bs.state = "CONNECTING"
    BY <2>1 DEF Tended
  <2> QED
    BY <2>2 DEF StreamInv, Expecting
<1>4. SizeTaken(bs, Len(got)) = << >> /\ SizeTaken(bs', Len(got)) = << >>
  BY <1>1, <1>3, ConnectionAssumption DEF SizeTaken
<1>5. Ahead(bs', Len(got'), received') = Ahead(bs, Len(got), received)
  BY <1>1, <1>2, <1>4 DEF Ahead
<1>6. Expecting(bs', stream', Len(got'), current_msg_size')
  BY <1>1 DEF Expecting
<1> QED
  BY <1>2, <1>5, <1>6 DEF StreamInv, Ahead, SizeTaken

LEMMA ReceivingStream ==
  ASSUME IInv, StreamInv, read_cb_receives
  PROVE  StreamInv'
<1>1. bs.read_ev /\ UNCHANGED <<current_msg_size, written, peer_gone, stream, got, closed_by>>
  BY DEF read_cb_receives
<1>2. PICK n \in 1 .. Len(received) :
        /\ Readable(n)
        /\ \E room \in Received(bs.read_buf, n, SubSeq(received, 1, n)) :
             bs' = read_arrived(bs, room)
        /\ received' = SubSeq(received, n + 1, Len(received))
  BY DEF read_cb_receives
<1>3. PICK room \in Received(bs.read_buf, n, SubSeq(received, 1, n)) :
        bs' = read_arrived(bs, room)
  BY <1>2
<1> DEFINE x == SubSeq(received, 1, n)
           y == SubSeq(received, n + 1, Len(received))
           a == SizeTaken(bs, Len(got))
           b == bs.read_buf.bytes
<1>4. /\ bs'.state = bs.state /\ bs'.callback = bs.callback /\ bs'.n = bs.n
      /\ bs'.read_buf.bytes = b \o x
  BY <1>1, <1>2, <1>3, DataInvFields, ReceivingSocket
<1>5. x \in Seq(ReadByte) /\ y \in Seq(ReadByte) /\ x \o y = received
  <2>1. received \in Seq(ReadByte) /\ n \in 0 .. Len(received)
    BY DataInvFields
  <2> QED
    BY <2>1, CutIs
<1>6. a \in Seq(ReadByte) /\ b \in Seq(ReadByte)
  BY AheadIs
<1>7. SizeTaken(bs', Len(got)) = a
  BY <1>4 DEF SizeTaken
<1> HIDE DEF x, y, a, b
<1>8. (a \o (b \o x)) \o y = (a \o b) \o (x \o y)
  <2>1. Regrouped(a, b, x, y)
    BY ONLY <1>5, <1>6, Regroup
  <2> QED
    BY ONLY <2>1 DEF Regrouped
<1>9. Ahead(bs', Len(got), y) = Ahead(bs, Len(got), received)
  BY <1>4, <1>5, <1>7, <1>8 DEF Ahead, a, b
<1>10. received' = y
  BY <1>2 DEF y
<1>11. Expecting(bs', stream', Len(got'), current_msg_size')
  BY <1>1, <1>4 DEF StreamInv, Expecting
<1> QED
  BY <1>1, <1>9, <1>10, <1>11 DEF StreamInv, Ahead, SizeTaken

\* The first word in read_buf is the size of the next frame.
LEMMA SizeStream ==
  ASSUME IInv, StreamInv, nsqd_connection_read_size
  PROVE  StreamInv'
<1> DEFINE W == WordLength
           m == Len(got)
           rb == bs.read_buf.bytes
           T == Ahead(bs, m, received)
           word == SubSeq(rb, 1, W)
           left == SubSeq(rb, W + 1, Len(rb))
<1>1. /\ W \in Nat \ {0} /\ m \in Nat /\ stream \in Seq(Kind)
      /\ rb \in Seq(ReadByte) /\ received \in Seq(ReadByte) /\ Len(rb) = bs.read_buf.offset
      /\ T \in Seq(ReadByte)
  BY AheadIs, DataInvFields, ConnectionAssumption
<1>2. /\ bs.timer /\ bs.callback = "nsqd_connection_read_size"
      /\ current_msg_size' = SizeRead(AtMost(rb, W))
      /\ UNCHANGED <<received, written, peer_gone, stream, got, closed_by>>
  BY DEF nsqd_connection_read_size
<1>3. bs.n = W /\ bs.read_buf.offset >= W
  <2>1. TimerDue(bs)
    BY DataInvFields DEF SocketInv
  <2>2. bs.n = W
    BY <1>2 DEF StreamInv, Expecting
  <2> QED
    BY <1>2, <2>1, <2>2 DEF TimerDue
<1>4. T = rb \o received
  <2>1. SizeTaken(bs, m) = << >>
    BY <1>2 DEF SizeTaken
  <2>2. << >> \o rb = rb
    BY <1>1, ConcatEmptySeq
  <2> QED
    BY <2>1, <2>2 DEF Ahead
<1>5. W \in 0 .. Len(rb) /\ W \in 0 .. bs.read_buf.offset
  BY <1>1, <1>3
<1>6. /\ word \in Seq(ReadByte) /\ Len(word) = W /\ \A k \in 1 .. W : word[k] = rb[k]
      /\ left \in Seq(ReadByte) /\ word \o left = rb
  <2> HIDE DEF T, m, W, rb
  <2>1. /\ SubSeq(rb, 1, W) \in Seq(ReadByte) /\ Len(SubSeq(rb, 1, W)) = W
        /\ \A k \in 1 .. W : SubSeq(rb, 1, W)[k] = rb[k]
        /\ SubSeq(rb, W + 1, Len(rb)) \in Seq(ReadByte)
        /\ Len(SubSeq(rb, W + 1, Len(rb))) = Len(rb) - W
        /\ \A k \in 1 .. (Len(rb) - W) : SubSeq(rb, W + 1, Len(rb))[k] = rb[W + k]
        /\ SubSeq(rb, 1, W) \o SubSeq(rb, W + 1, Len(rb)) = rb
    BY ONLY <1>1, <1>5, CutIs
  <2> QED
    BY ONLY <2>1
<1>7. Accounted(stream, m, T, peer_gone)
  BY DEF StreamInv
<1> HIDE DEF T, m, word, left
<1>8. Len(T) > 0 /\ \A i \in 1 .. Len(rb) : i <= Len(T) /\ T[i] = rb[i]
  <2>1. /\ Len(T) = Len(rb) + Len(received)
        /\ \A i \in 1 .. Len(rb) + Len(received) :
             T[i] = IF i <= Len(rb) THEN rb[i] ELSE received[i - Len(rb)]
    BY ONLY <1>1, <1>4, ConcatProperties
  <2>2. Len(rb) \in Nat /\ Len(received) \in Nat
    BY <1>1
  <2> HIDE DEF rb
  <2>3. Len(T) > 0
    BY ONLY <1>1, <1>5, <2>1, <2>2
  <2>4. ASSUME NEW i \in 1 .. Len(rb) PROVE i <= Len(T) /\ T[i] = rb[i]
    <3>1. i \in 1 .. Len(rb) + Len(received) /\ i <= Len(rb)
      BY ONLY <2>2, i \in 1 .. Len(rb)
    <3> QED
      BY ONLY <2>1, <2>2, <3>1
  <2> QED
    BY <2>3, <2>4 DEF rb
<1>9. /\ m + 1 \in 1 .. Len(stream) /\ stream[m + 1] \in Kind
      /\ \A i \in 1 .. FrameLength(stream[m + 1]) : i <= Len(T) => T[i] = <<m + 1, i>>
  BY <1>1, <1>7, <1>8, NextFrame
<1>10. word = SizeWord(m + 1)
  <2>1. /\ SizeWord(m + 1) \in Seq(ReadByte) /\ Len(SizeWord(m + 1)) = W
        /\ \A k \in 1 .. W : SizeWord(m + 1)[k] = <<m + 1, k>>
    BY <1>1, SizeWordIs
  <2>2. FrameLength(stream[m + 1]) \in Nat /\ 2 * W <= FrameLength(stream[m + 1])
    BY <1>1, <1>9, FrameIs
  <2>3. ASSUME NEW k \in 1 .. W PROVE word[k] = SizeWord(m + 1)[k]
    <3>1. k \in 1 .. Len(rb) /\ k \in 1 .. FrameLength(stream[m + 1])
      BY <1>1, <1>5, <2>2
    <3>2. k <= Len(T) /\ T[k] = rb[k]
      BY <1>8, <3>1
    <3>3. T[k] = <<m + 1, k>>
      BY <1>9, <3>1, <3>2
    <3> QED
      BY <1>6, <2>1, <3>2, <3>3
  <2> DEFINE w == SizeWord(m + 1)
  <2>4. w \in Seq(ReadByte) /\ Len(w) = Len(word) /\ \A k \in 1 .. Len(word) : word[k] = w[k]
    BY <1>6, <2>1, <2>3
  <2> HIDE DEF w
  <2>5. word = w
    BY ONLY <1>6, <2>4, SeqEqual
  <2> QED
    BY <2>5 DEF w
<1>11. current_msg_size' = W + BodyLength[stream[m + 1]]
  <2>1. AtMost(rb, W) = word
    BY <1>5 DEF AtMost, word
  <2>2. SizeRead(SizeWord(m + 1)) = W + BodyLength[stream[m + 1]]
    BY <1>1, <1>9, SizeReadIs
  <2> QED
    BY <1>2, <1>10, <2>1, <2>2
<1>12. /\ bs'.callback = "nsqd_connection_read_data" /\ bs'.n = current_msg_size'
       /\ bs'.state = bs.state /\ bs'.read_buf = Drained(bs.read_buf, W)
  BY <1>1, DataInvFields, SizeSocket
<1>13. bs'.read_buf.bytes = left
  <2>1. bs.read_buf \in Buffers(ReadByte)
    BY DataInvFields, SocketFields
  <2> QED
    BY <1>5, <1>12, <2>1, DrainedRest DEF left
<1>14. Ahead(bs', m, received) = T
  <2>1. SizeTaken(bs', m) = word
    BY <1>10, <1>12 DEF SizeTaken
  <2> QED
    BY <1>4, <1>6, <1>13, <2>1 DEF Ahead
<1>15. Expecting(bs', stream, m, current_msg_size')
  <2>1. bs.state \notin {"INIT", "CONNECTING"}
    BY <1>2, DataInvFields DEF Tended
  <2> QED
    BY <1>9, <1>11, <1>12, <2>1 DEF Expecting
<1> QED
  BY <1>2, <1>7, <1>14, <1>15 DEF StreamInv, Ahead, SizeTaken, m

LEMMA InTurnAppend ==
  ASSUME NEW g \in Seq(Nat), InTurn(g)
  PROVE  InTurn(Append(g, Len(g) + 1)) /\ Len(Append(g, Len(g) + 1)) = Len(g) + 1
<1> DEFINE n == Len(g)
           h == Append(g, n + 1)
           u == [j \in 1 .. n + 1 |-> j]
<1>1. n \in Nat /\ n + 1 \in Nat
  OBVIOUS
<1>2. /\ h \in Seq(Nat) /\ Len(h) = n + 1 /\ h[n + 1] = n + 1
      /\ \A j \in 1 .. n : h[j] = g[j]
  BY <1>1, AppendProperties
<1>3. \A j \in 1 .. n : g[j] = j
  BY DEF InTurn
<1>4. u \in Seq(Nat) /\ Len(u) = n + 1
  BY <1>1
<1> HIDE DEF n, h
<1>5. ASSUME NEW j \in 1 .. Len(h) PROVE h[j] = u[j]
  BY <1>1, <1>2, <1>3
<1> HIDE DEF u
<1>6. h = u
  BY ONLY <1>2, <1>4, <1>5, SeqEqual
<1> QED
  BY <1>2, <1>6 DEF InTurn, h, u, n

\* What follows in read_buf is the rest of that frame.
LEMMA DataStream ==
  ASSUME IInv, StreamInv, nsqd_connection_read_data
  PROVE  StreamInv'
<1> DEFINE W == WordLength
           m == Len(got)
           B == BodyLength[stream[m + 1]]
           rb == bs.read_buf.bytes
           T == Ahead(bs, m, received)
           word == SizeWord(m + 1)
           rest == AfterSize(m + 1)
           frame == Frame(m + 1, stream[m + 1])
           first == SubSeq(rb, 1, current_msg_size)
           left == SubSeq(rb, current_msg_size + 1, Len(rb))
<1>1. /\ W \in Nat \ {0} /\ m \in Nat /\ stream \in Seq(Kind)
      /\ rb \in Seq(ReadByte) /\ received \in Seq(ReadByte) /\ Len(rb) = bs.read_buf.offset
      /\ T \in Seq(ReadByte) /\ word \o rb \in Seq(ReadByte)
      /\ T = (word \o rb) \o received
      /\ Accounted(stream, m, T, peer_gone)
      /\ InTurn(got) /\ got \in Seq(Nat)
  <2>1. SizeTaken(bs, m) = word
    BY DEF nsqd_connection_read_data, SizeTaken
  <2>2. T \in Seq(ReadByte) /\ T = (word \o rb) \o received /\ word \o rb \in Seq(ReadByte)
    BY <2>1, AheadIs DEF Ahead
  <2>3. Accounted(stream, m, T, peer_gone) /\ InTurn(got)
    BY DEF StreamInv
  <2> QED
    BY <2>2, <2>3, AheadIs, DataInvFields, ConnectionAssumption
<1>2. /\ bs.timer /\ bs.callback = "nsqd_connection_read_data"
      /\ got' = Append(got, FrameRead(AtMost(rb, current_msg_size)))
      /\ current_msg_size' = (current_msg_size - W) % (2 * IntHalf)
      /\ UNCHANGED <<received, written, peer_gone, stream>>
  BY DEF nsqd_connection_read_data
<1>3. /\ m + 1 \in 1 .. Len(stream) /\ stream[m + 1] \in Kind
      /\ current_msg_size = W + B /\ bs.n = current_msg_size
      /\ bs.read_buf.offset >= current_msg_size
  <2>1. TimerDue(bs)
    BY DataInvFields DEF SocketInv
  <2>2. m + 1 \in 1 .. Len(stream) /\ current_msg_size = W + B /\ bs.n = current_msg_size
    BY <1>2 DEF StreamInv, Expecting
  <2>3. stream[m + 1] \in Kind
    BY <1>1, <2>2
  <2>4. bs.read_buf.offset >= bs.n
    BY <1>2, <2>1 DEF TimerDue
  <2> QED
    BY <2>2, <2>3, <2>4
<1>4. B \in Nat /\ W + B < 2 * IntHalf /\ IntHalf \in Nat
  <2>1. /\ BodyLength \in [Kind -> Nat]
        /\ \A kind \in Kind : WordLength + BodyLength[kind] < 2 * IntHalf
    BY ConnectionAssumption
  <2> QED
    BY <1>3, <2>1, LayoutAssumption
<1>5. current_msg_size' = B
  <2> HIDE DEF B, W
  <2>1. current_msg_size - W = B /\ B < 2 * IntHalf /\ 2 * IntHalf \in Nat \ {0}
    BY ONLY <1>1, <1>3, <1>4
  <2>2. (B % (2 * IntHalf)) = B
    BY ONLY <1>4, <2>1
  <2> QED
    BY <1>2, <2>1, <2>2
<1> DEFINE size == current_msg_size
<1>6. size \in 0 .. Len(rb) /\ size \in Nat /\ size = W + B
  BY <1>1, <1>3, <1>4
<1> HIDE DEF size
<1>7. /\ first \in Seq(ReadByte) /\ Len(first) = size
      /\ \A k \in 1 .. size : first[k] = rb[k]
      /\ left \in Seq(ReadByte) /\ first \o left = rb
  <2> HIDE DEF rb
  <2>1. /\ SubSeq(rb, 1, size) \in Seq(ReadByte) /\ Len(SubSeq(rb, 1, size)) = size
        /\ \A k \in 1 .. size : SubSeq(rb, 1, size)[k] = rb[k]
        /\ SubSeq(rb, size + 1, Len(rb)) \in Seq(ReadByte)
        /\ SubSeq(rb, 1, size) \o SubSeq(rb, size + 1, Len(rb)) = rb
    <3>1. rb \in Seq(ReadByte) /\ size \in 0 .. Len(rb)
      BY <1>1, <1>6
    <3> QED
      BY ONLY <3>1, CutIs
  <2> QED
    BY <2>1 DEF size
<1>8. /\ word \in Seq(ReadByte) /\ Len(word) = W
      /\ rest \in Seq(ReadByte) /\ Len(rest) = size
      /\ \A k \in 1 .. size : rest[k] = <<m + 1, W + k>>
      /\ FrameLength(stream[m + 1]) = W + size
      /\ word \o rest = frame
  <2>1. m + 1 \in Nat
    BY <1>1
  <2>2. word \in Seq(ReadByte) /\ Len(word) = W
    BY <2>1, SizeWordIs
  <2>3. /\ rest \in Seq(ReadByte) /\ Len(rest) = W + B
        /\ \A k \in 1 .. (W + B) : rest[k] = <<m + 1, W + k>>
        /\ FrameLength(stream[m + 1]) = 2 * W + B
    BY <1>1, <1>3, AfterSizeIs
  <2>4. word \o rest = frame
    BY <1>1, <1>3, FrameOfParts
  <2>5. 2 * W + B = W + size
    BY <1>1, <1>4, <1>6
  <2> QED
    BY <1>6, <2>2, <2>3, <2>4, <2>5
<1> HIDE DEF T, word, rest, frame, first, left, B, m, W
<1>9. Len(T) > 0 /\ \A k \in 1 .. size : W + k <= Len(T) /\ T[W + k] = rb[k]
  <2> DEFINE c == word \o rb
  <2>1. /\ c \in Seq(ReadByte) /\ Len(c) = W + Len(rb)
        /\ \A i \in 1 .. W + Len(rb) : c[i] = IF i <= W THEN word[i] ELSE rb[i - W]
    <3>1. word \in Seq(ReadByte) /\ rb \in Seq(ReadByte) /\ Len(word) = W
      BY <1>1, <1>8
    <3>2. /\ word \o rb \in Seq(ReadByte) /\ Len(word \o rb) = Len(word) + Len(rb)
          /\ \A i \in 1 .. Len(word) + Len(rb) :
               (word \o rb)[i] = IF i <= Len(word) THEN word[i] ELSE rb[i - Len(word)]
      BY ONLY <3>1, ConcatProperties
    <3> QED
      BY ONLY <3>1, <3>2
  <2> HIDE DEF c
  <2>2. T = c \o received
    BY <1>1 DEF c
  <2>3. /\ Len(T) = Len(c) + Len(received)
        /\ \A i \in 1 .. Len(c) + Len(received) :
             T[i] = IF i <= Len(c) THEN c[i] ELSE received[i - Len(c)]
    <3>1. received \in Seq(ReadByte)
      BY <1>1
    <3> QED
      BY ONLY <2>1, <2>2, <3>1, ConcatProperties
  <2>4. /\ Len(rb) \in Nat /\ Len(received) \in Nat /\ W \in Nat \ {0}
        /\ size \in Nat /\ size <= Len(rb)
    BY <1>1, <1>6
  <2> HIDE DEF rb
  <2>5. Len(T) > 0
    BY ONLY <2>1, <2>3, <2>4
  <2>6. ASSUME NEW k \in 1 .. size PROVE W + k <= Len(T) /\ T[W + k] = rb[k]
    <3>1. /\ W + k \in 1 .. Len(c) + Len(received) /\ W + k <= Len(c)
          /\ W + k \in 1 .. W + Len(rb) /\ ~(W + k <= W) /\ (W + k) - W = k
      BY ONLY <2>1, <2>4, k \in 1 .. size
    <3>2. W + k <= Len(T)
      BY ONLY <2>3, <3>1
    <3>3. T[W + k] = c[W + k]
      BY ONLY <2>3, <3>1
    <3>4. c[W + k] = rb[k]
      BY ONLY <2>1, <3>1
    <3> QED
      BY <3>2, <3>3, <3>4
  <2> QED
    BY <2>5, <2>6 DEF rb
<1>10. \A i \in 1 .. FrameLength(stream[m + 1]) : i <= Len(T) => T[i] = <<m + 1, i>>
  BY <1>1, <1>9, NextFrame
<1>11. first = rest
  <2>1. ASSUME NEW k \in 1 .. Len(first) PROVE first[k] = rest[k]
    <3>1. k \in 1 .. size
      BY <1>7
    <3>2. W + k \in 1 .. FrameLength(stream[m + 1])
      BY <1>1, <1>6, <1>8, <3>1
    <3>3. W + k <= Len(T) /\ T[W + k] = rb[k]
      BY <1>9, <3>1
    <3>4. T[W + k] = <<m + 1, W + k>>
      BY <1>10, <3>2, <3>3
    <3> QED
      BY <1>7, <1>8, <3>1, <3>3, <3>4
  <2> QED
    BY ONLY <1>7, <1>8, <2>1, SeqEqual
<1>12. got' = Append(got, m + 1)
  <2>1. AtMost(rb, size) = first
    BY <1>6 DEF AtMost, first, size
  <2>2. FrameRead(rest) = m + 1
    BY <1>1, <1>3, FrameReadIs DEF rest
  <2> QED
    BY <1>2, <1>11, <2>1, <2>2 DEF size
<1>13. InTurn(got') /\ Len(got') = m + 1
  BY <1>1, <1>12, InTurnAppend DEF m
<1>14. /\ bs'.read_buf = Drained(Drained(bs.read_buf, W), B)
       /\ bs'.callback = "nsqd_connection_read_size" /\ bs'.n = W
       /\ SocketInv(bs')
  BY <1>5, DataInvFields, DataSocket DEF W
<1>15. bs'.read_buf.bytes = left
  <2>1. bs.read_buf \in Buffers(ReadByte)
    BY DataInvFields, SocketFields
  <2>2. W + B <= bs.read_buf.offset /\ W \in Nat
    BY <1>1, <1>6
  <2>3. Drained(Drained(bs.read_buf, W), B).bytes = SubSeq(rb, W + B + 1, Len(rb))
    BY <1>4, <2>1, <2>2, DrainedTwice
  <2> QED
    BY <1>6, <1>14, <2>3 DEF left, size
<1>16. T = frame \o (left \o received)
  <2>1. Regrouped(word, rest, left, received)
    BY ONLY <1>1, <1>7, <1>8, Regroup
  <2>2. rb = rest \o left
    BY <1>7, <1>11
  <2>3. T = (word \o (rest \o left)) \o received
    BY <1>1, <2>2
  <2> QED
    BY <1>8, <2>1, <2>3 DEF Regrouped
<1> DEFINE U == left \o received
<1>17. U \in Seq(ReadByte)
  BY <1>1, <1>7, ConcatProperties
<1> HIDE DEF U
<1>18. Accounted(stream, m + 1, U, peer_gone)
  <2>1. Accounted(stream, m, frame \o U, peer_gone)
    BY <1>1, <1>16 DEF U
  <2> QED
    BY <1>1, <1>3, <1>17, <2>1, FrameAccounted DEF frame
<1>19. Ahead(bs', m + 1, received) = U
  <2>1. SizeTaken(bs', m + 1) = << >>
    BY <1>14 DEF SizeTaken
  <2>2. << >> \o left = left
    BY <1>7, ConcatEmptySeq
  <2> QED
    BY <1>15, <2>1, <2>2 DEF Ahead, U
<1>20. Expecting(bs', stream, m + 1, current_msg_size')
  <2>1. bs'.state \notin {"INIT", "CONNECTING"}
    BY DataInvFields, DataSocket
  <2> QED
    BY <1>14, <2>1 DEF Expecting, W
<1> QED
  BY <1>2, <1>13, <1>18, <1>19, <1>20 DEF StreamInv, Ahead, SizeTaken

LEMMA SendStream ==
  ASSUME IInv, StreamInv, nsqd_sends
  PROVE  StreamInv'
<1>1. PICK kind \in Kind :
        /\ stream' = Append(stream, kind)
        /\ received' = received \o FrameBytes(Len(stream) + 1, 1, FrameLength(kind))
  BY DEF nsqd_sends
<1>2. ~peer_gone /\ UNCHANGED <<bs, current_msg_size, written, peer_gone, got, closed_by>>
  BY DEF nsqd_sends
<1> DEFINE m == Len(got)
           F == Frame(Len(stream) + 1, kind)
           c == SizeTaken(bs, m) \o bs.read_buf.bytes
           T == c \o received
<1>3. /\ m \in Nat /\ stream \in Seq(Kind) /\ received \in Seq(ReadByte)
      /\ c \in Seq(ReadByte) /\ T \in Seq(ReadByte)
  BY AheadIs, DataInvFields DEF Ahead
<1>4. F \in Seq(ReadByte) /\ received' = received \o F
  <2>1. Len(stream) + 1 \in Nat
    BY <1>3
  <2> QED
    BY <1>1, <2>1, FrameIs DEF Frame
<1>5. peer_gone = FALSE
  BY <1>2, DataInvFields
<1>6. Accounted(stream, m, T, FALSE)
  BY <1>5 DEF StreamInv, Ahead
<1> HIDE DEF c
<1>7. T \o F = c \o (received \o F)
  <2> HIDE DEF F
  <2>1. c \in Seq(ReadByte) /\ received \in Seq(ReadByte) /\ F \in Seq(ReadByte)
    BY <1>3, <1>4
  <2> QED
    BY ONLY <2>1, ConcatAssociative
<1>8. Accounted(stream', m, T \o F, FALSE)
  BY <1>1, <1>3, <1>6, SendAccounted
<1>9. Ahead(bs', m, received') = T \o F
  BY <1>2, <1>4, <1>7 DEF Ahead, c
<1>10. Expecting(bs', stream', m, current_msg_size')
  <2>1. Expecting(bs, stream, m, current_msg_size)
    BY DEF StreamInv
  <2>2. Len(stream') = Len(stream) + 1 /\ \A i \in 1 .. Len(stream) : stream'[i] = stream[i]
    BY <1>1, <1>3, AppendProperties
  <2>3. ASSUME m + 1 \in 1 .. Len(stream)
        PROVE  m + 1 \in 1 .. Len(stream') /\ stream'[m + 1] = stream[m + 1]
    BY <1>3, <2>2, <2>3
  <2> QED
    BY <1>2, <2>1, <2>3 DEF Expecting
<1>11. peer_gone' = FALSE /\ got' = got
  BY <1>2, <1>5
<1> HIDE DEF F, T, m
<1>12. Accounted(stream', Len(got'), Ahead(bs', Len(got'), received'), peer_gone')
  BY <1>8, <1>9, <1>11 DEF m
<1> QED
  BY <1>10, <1>11, <1>12 DEF StreamInv, Ahead, SizeTaken, m

LEMMA GoneStream ==
  ASSUME IInv, StreamInv, nsqd_goes
  PROVE  StreamInv'
<1>1. /\ peer_gone' = TRUE /\ received' \in {received, << >>}
      /\ UNCHANGED <<bs, current_msg_size, written, stream, got, closed_by>>
  BY DEF nsqd_goes
<1> DEFINE m == Len(got)
           c == SizeTaken(bs, m) \o bs.read_buf.bytes
<1>2. stream \in Seq(Kind) /\ received \in Seq(ReadByte) /\ c \in Seq(ReadByte)
  BY AheadIs, DataInvFields
<1>3. Accounted(stream, m, c \o received, peer_gone)
  BY DEF StreamInv, Ahead
<1> HIDE DEF c
<1>4. Accounted(stream, m, c, TRUE) /\ Accounted(stream, m, c \o received, TRUE)
  BY <1>2, <1>3, ResetAccounted
<1>5. c \o << >> = c
  BY <1>2, ConcatEmptySeq
<1>6. Accounted(stream, m, c \o received', TRUE)
  BY <1>1, <1>4, <1>5
<1>7. Ahead(bs', m, received') = c \o received'
  BY <1>1 DEF Ahead, c
<1>8. Expecting(bs', stream', m, current_msg_size')
  BY <1>1 DEF StreamInv, Expecting
<1> QED
  BY <1>1, <1>6, <1>7, <1>8 DEF StreamInv, Ahead, SizeTaken

LEMMA InitStream == Init => StreamInv
<1> SUFFICES ASSUME Init PROVE StreamInv
  OBVIOUS
<1>1. PICK r \in ReadSizes, w \in WriteSizes :
        bs = new_buffered_socket(r[1], r[2], w[1], w[2])
  BY DEF Init
<1>2. /\ bs.state = "INIT" /\ bs.callback = NULL /\ bs.read_buf.bytes = << >>
      /\ received = << >> /\ stream = << >> /\ got = << >>
  BY <1>1 DEF Init, new_buffered_socket, new_buffer
<1>3. Len(got) = 0 /\ InTurn(got)
  BY <1>2 DEF InTurn
<1>4. Ahead(bs, 0, received) = << >>
  <2>1. SizeTaken(bs, 0) = << >>
    BY <1>2, ConnectionAssumption DEF SizeTaken
  <2>2. << >> \o << >> = << >>
    OBVIOUS
  <2> QED
    BY <1>2, <2>1, <2>2 DEF Ahead
<1>5. Accounted(stream, 0, << >>, peer_gone)
  <2>1. stream \in Seq(Kind) /\ Len(stream) = 0
    BY <1>2
  <2>2. First(stream, 0) = stream
    <3>1. 0 \in 0 .. Len(stream)
      BY <2>1
    <3>2. First(stream, Len(stream)) = stream
      BY <2>1, <3>1, FirstIs
    <3> QED
      BY <2>1, <3>2
  <2> DEFINE X == Sent(stream)
  <2>3. X \in Seq(ReadByte)
    BY <2>1, SentIs
  <2> HIDE DEF X
  <2>4. X \o << >> = X /\ IsPrefix(X, X)
    BY <2>3, ConcatEmptySeq, PrefixIs
  <2> QED
    BY <2>1, <2>2, <2>4 DEF Accounted, X
<1>6. Expecting(bs, stream, 0, current_msg_size)
  BY <1>2, ConnectionAssumption DEF Expecting
<1> QED
  BY <1>3, <1>4, <1>5, <1>6 DEF StreamInv

\* Closing reads nothing and answers nobody.
LEMMA ClosingStream ==
  ASSUME StreamInv, NEW b \in Sockets, Tended(b), Sized(b),
         b.callback = bs.callback, b.n = bs.n, b.read_buf = bs.read_buf,
         NEW who, CloseSocket(b, who),
         UNCHANGED <<current_msg_size, received, peer_gone, stream, got>>
  PROVE  StreamInv'
<1> DEFINE w == buffered_socket_close(b)
<1>1. /\ w.state = "DISCONNECTED" /\ w.callback = b.callback /\ w.n = b.n
      /\ w.read_buf = b.read_buf
  BY CloseIs
<1>2. bs' = w
  BY DEF CloseSocket
<1> HIDE DEF w
<1> QED
  BY <1>1, <1>2, StreamKept

LEMMA NextStream == IInv /\ StreamInv /\ [Next]_vars => StreamInv'
<1> SUFFICES ASSUME IInv, StreamInv, [Next]_vars PROVE StreamInv'
  OBVIOUS
<1> DEFINE b0 == [bs EXCEPT !.once = FALSE]
           stalled == write_progressed(bs, 0)
<1>1. bs \in Sockets /\ Tended(bs) /\ Sized(bs)
  BY DataInvFields
<1>2. /\ b0 \in Sockets /\ Tended(b0) /\ Sized(b0)
      /\ b0.callback = bs.callback /\ b0.n = bs.n /\ b0.read_buf = bs.read_buf
  <2>1. /\ b0 \in Sockets /\ b0.state = bs.state /\ b0.timer = bs.timer
        /\ b0.callback = bs.callback /\ b0.n = bs.n /\ b0.once = FALSE /\ b0.fd = bs.fd
        /\ b0.read_ev = bs.read_ev /\ b0.write_ev = bs.write_ev
        /\ b0.read_buf = bs.read_buf /\ b0.write_buf = bs.write_buf
    BY ONLY <1>1 DEF Sockets
  <2> HIDE DEF b0
  <2> QED
    BY ONLY <1>1, <2>1 DEF Tended, Sized
<1>3. ASSUME NEW k \in 0 .. bs.write_buf.offset, NEW w, w = write_progressed(bs, k)
      PROVE  /\ w \in Sockets /\ Tended(w) /\ Sized(w) /\ w.state = bs.state
             /\ w.callback = bs.callback /\ w.n = bs.n /\ w.read_buf = bs.read_buf
  BY <1>1, <1>3, ProgressIs
<1>4. /\ stalled \in Sockets /\ Tended(stalled) /\ Sized(stalled)
      /\ stalled.callback = bs.callback /\ stalled.n = bs.n
      /\ stalled.read_buf = bs.read_buf
  <2>1. 0 \in 0 .. bs.write_buf.offset
    BY DataInvFields
  <2> QED
    BY <1>3, <2>1
<1> HIDE DEF b0, stalled
<1>5. CASE nsqd_connection_connect
  <2>1. /\ bs.state = "INIT" /\ bs' = connect_started(bs)
        /\ UNCHANGED <<current_msg_size, received, written, peer_gone, stream, got, closed_by>>
    BY <1>5 DEF nsqd_connection_connect
  <2>2. bs'.callback = bs.callback /\ bs'.n = bs.n /\ bs'.read_buf = bs.read_buf
    BY ONLY <1>1, <2>1 DEF connect_started, Sockets
  <2> QED
    BY <2>1, <2>2, StreamKept
<1>6. CASE nsqd_connection_disconnect
  BY <1>1, <1>6, ClosingStream DEF nsqd_connection_disconnect
<1>7. CASE connect_cb_fails
  BY <1>2, <1>7, ClosingStream DEF connect_cb_fails, b0
<1>8. CASE connect_cb_succeeds
  BY <1>8, ConnectedStream
<1>9. CASE read_cb_receives
  BY <1>9, ReceivingStream
<1>10. CASE read_cb_refused
  BY <1>1, <1>10, ClosingStream DEF read_cb_refused
<1>11. CASE read_cb_end
  BY <1>1, <1>11, ClosingStream DEF read_cb_end
<1>12. CASE nsqd_connection_read_size
  BY <1>12, SizeStream
<1>13. CASE nsqd_connection_read_data
  BY <1>13, DataStream
<1>14. CASE write_cb_sends
  <2>1. PICK k \in 1 .. bs.write_buf.offset : bs' = write_progressed(bs, k)
    BY <1>14 DEF write_cb_sends, BUFFER_HAS_DATA
  <2>2. k \in 0 .. bs.write_buf.offset
    BY DataInvFields
  <2>3. /\ bs'.state = bs.state /\ bs'.callback = bs.callback /\ bs'.n = bs.n
        /\ bs'.read_buf = bs.read_buf
    BY <1>3, <2>1, <2>2
  <2> QED
    BY <1>14, <2>3, StreamKept DEF write_cb_sends
<1>15. CASE write_cb_empty
  BY <1>4, <1>15, ClosingStream DEF write_cb_empty, stalled
<1>16. CASE write_cb_fails
  BY <1>4, <1>16, ClosingStream DEF write_cb_fails, stalled
<1>17. CASE nsqd_sends
  BY <1>17, SendStream
<1>18. CASE nsqd_goes
  BY <1>18, GoneStream
<1>19. CASE Over \/ UNCHANGED vars
  BY <1>19, StreamKept DEF Over, vars
<1> QED
  BY <1>5, <1>6, <1>7, <1>8, <1>9, <1>10, <1>11, <1>12, <1>13, <1>14, <1>15, <1>16,
     <1>17, <1>18, <1>19 DEF Next

\* The frames come out in turn, and the bytes not yet handled are what is left
\* of the stream, in every state.
THEOREM InvariantStream == Spec => [](IInv /\ StreamInv)
<1>1. Init => IInv /\ StreamInv
  BY InitIInv, InitStream
<1>2. (IInv /\ StreamInv) /\ [Next]_vars => (IInv /\ StreamInv)'
  BY NextIInv, NextStream
<1> QED
  BY <1>1, <1>2, PTL DEF Spec

(***************************************************************************)
(* However nsqd's bytes are cut up on the way, and however large or small  *)
(* the buffers are, each is in one place and in its turn: the client never *)
(* loses one, sees one twice, or takes the middle of a frame for the start *)
(* of another.  What no longer fits read_buf closes the connection.        *)
(***************************************************************************)
THEOREM BytesKept == Spec => []NoByteLost
<1>1. ASSUME IInv, StreamInv PROVE NoByteLost
  <2> DEFINE m == Len(got)
             handled == FlattenSeq([j \in DOMAIN got |->
                          IF got[j] = 0 THEN <<NULL>> ELSE WholeFrame(got[j])])
             sent == FlattenSeq([i \in DOMAIN stream |-> WholeFrame(i)])
             a == SizeTaken(bs, m)
             b == bs.read_buf.bytes
             A == Sent(First(stream, m))
  <2>1. /\ stream \in Seq(Kind) /\ received \in Seq(ReadByte)
        /\ a \in Seq(ReadByte) /\ b \in Seq(ReadByte)
        /\ m \in 0 .. Len(stream) /\ m \in Nat
    BY <1>1, AheadIs, DataInvFields DEF StreamInv, Accounted
  <2>2. handled = A
    <3>1. got = [j \in 1 .. m |-> j]
      BY <1>1 DEF StreamInv, InTurn
    <3>2. DOMAIN got = 1 .. m /\ \A j \in 1 .. m : got[j] = j
      BY <3>1
    <3>3. [j \in DOMAIN got |-> IF got[j] = 0 THEN <<NULL>> ELSE WholeFrame(got[j])]
            = [j \in 1 .. m |-> WholeFrame(j)]
      BY <2>1, <3>2
    <3>4. Len(First(stream, m)) = m /\ \A j \in 1 .. m : First(stream, m)[j] = stream[j]
      BY <2>1, FirstIs
    <3>5. FramesOf(First(stream, m)) = [j \in 1 .. m |-> WholeFrame(j)]
      BY <3>4 DEF FramesOf, Frame, WholeFrame
    <3> QED
      BY <3>3, <3>5 DEF Sent
  <2>3. sent = Sent(stream)
    <3>1. DOMAIN stream = 1 .. Len(stream)
      BY <2>1
    <3> QED
      BY <3>1 DEF Sent, FramesOf, Frame, WholeFrame
  <2>4. /\ IsPrefix(A \o ((a \o b) \o received), sent)
        /\ ~peer_gone => A \o ((a \o b) \o received) = sent
    BY <1>1, <2>3 DEF StreamInv, Accounted, Ahead
  <2>5. A \in Seq(ReadByte)
    BY <2>1, SentFirst
  <2>6. NoByteLost <=> /\ IsPrefix(((handled \o a) \o b) \o received, sent)
                       /\ ~peer_gone => ((handled \o a) \o b) \o received = sent
    BY DEF NoByteLost, SizeTaken
  <2> HIDE DEF handled, sent, a, b, A
  <2>7. ((A \o a) \o b) \o received = A \o ((a \o b) \o received)
    <3> DEFINE c == a \o b
    <3>1. (A \o a) \o b = A \o c
      <4>1. A \in Seq(ReadByte) /\ a \in Seq(ReadByte) /\ b \in Seq(ReadByte)
        BY <2>1, <2>5
      <4> QED
        BY ONLY <4>1, ConcatAssociative, SMTT(30)
    <3>2. c \in Seq(ReadByte)
      BY ONLY <2>1, ConcatProperties
    <3> HIDE DEF c
    <3>3. (A \o c) \o received = A \o (c \o received)
      <4>1. A \in Seq(ReadByte) /\ c \in Seq(ReadByte) /\ received \in Seq(ReadByte)
        BY <2>1, <2>5, <3>2
      <4> QED
        BY ONLY <4>1, ConcatAssociative, SMTT(30)
    <3> QED
      BY <3>1, <3>3 DEF c
  <2> QED
    BY <2>2, <2>4, <2>6, <2>7
<1> QED
  BY <1>1, InvariantStream, PTL

-------------------------------------------------------------------------------

LEMMA InitFrames == Init => Frames!Init
<1> SUFFICES ASSUME Init PROVE Frames!Init
  OBVIOUS
<1>1. PICK r \in ReadSizes, w \in WriteSizes :
        bs = new_buffered_socket(r[1], r[2], w[1], w[2])
  BY DEF Init
<1>2. bs.state = "INIT" /\ stream = << >> /\ got = << >>
  BY <1>1 DEF Init, new_buffered_socket
<1>3. (bs.state # "DISCONNECTED") = TRUE
  BY <1>2
<1> QED
  BY <1>2, <1>3 DEF Frames!Init

LEMMA NextFrames ==
  ASSUME ~DisconnectInHandler, IInv, StreamInv, IInv', StreamInv', [Next]_vars
  PROVE  [Frames!Next]_Frames!stream
<1>1. CASE nsqd_connection_read_data
  <2> DEFINE m == Len(got)
  <2>1. bs.state # "DISCONNECTED" /\ bs'.state = bs.state
    <3>1. bs.timer /\ SocketInv(bs)
      BY <1>1, DataInvFields DEF nsqd_connection_read_data
    <3>2. bs.state = "CONNECTED"
      BY <3>1 DEF SocketInv
    <3> QED
      BY <1>1, <3>2, DataInvFields, DataSocket
  <2>2. m + 1 \in 1 .. Len(stream) /\ m \in Nat /\ Len(stream) \in Nat
    <3>1. bs.callback = "nsqd_connection_read_data"
      BY <1>1 DEF nsqd_connection_read_data
    <3> QED
      BY <3>1, DataInvFields DEF StreamInv, Expecting
  <2>3. got' = Append(got, m + 1)
    <3>1. PICK i : got' = Append(got, i)
      BY <1>1 DEF nsqd_connection_read_data
    <3>2. got \in Seq(Nat) /\ got' \in Seq(Nat) /\ InTurn(got')
      BY DataInvFields DEF IInv, DataInv, StreamInv
    <3>3. Len(got') = m + 1 /\ got'[m + 1] = i
      BY <3>1, <3>2
    <3>4. got'[m + 1] = m + 1
      BY <2>2, <3>2, <3>3 DEF InTurn
    <3> QED
      BY <3>1, <3>3, <3>4
  <2>4. stream' = stream
    BY <1>1 DEF nsqd_connection_read_data
  <2>5. m < Len(stream)
    BY <2>2
  <2>6. Frames!Deliver
    BY <2>1, <2>3, <2>4, <2>5 DEF Frames!Deliver
  <2> QED
    BY <2>6 DEF Frames!Next
<1>2. CASE nsqd_sends
  <2>1. PICK kind \in Kind : stream' = Append(stream, kind)
    BY <1>2 DEF nsqd_sends
  <2>2. bs.fd /\ UNCHANGED <<bs, got>>
    BY <1>2 DEF nsqd_sends
  <2>3. bs.state # "DISCONNECTED" /\ bs'.state # "DISCONNECTED"
    <3>1. Tended(bs)
      BY DataInvFields
    <3> QED
      BY <2>2, <3>1 DEF Tended
  <2>4. Frames!Send
    BY <2>1, <2>2, <2>3 DEF Frames!Send
  <2> QED
    BY <2>4 DEF Frames!Next
<1>3. ASSUME UNCHANGED <<stream, got>> PROVE [Frames!Next]_Frames!stream
  <2>1. CASE bs.state = "DISCONNECTED"
    <3>1. bs'.state = "DISCONNECTED"
      BY <2>1, ClosedStays
    <3> QED
      BY <1>3, <2>1, <3>1 DEF Frames!stream
  <2>2. CASE bs.state # "DISCONNECTED" /\ bs'.state # "DISCONNECTED"
    BY <1>3, <2>2 DEF Frames!stream
  <2>3. CASE bs.state # "DISCONNECTED" /\ bs'.state = "DISCONNECTED"
    <3>1. Frames!Close
      BY <1>3, <2>3 DEF Frames!Close
    <3> QED
      BY <3>1 DEF Frames!Next
  <2> QED
    BY <2>1, <2>2, <2>3
<1>4. CASE \/ nsqd_connection_connect \/ nsqd_connection_disconnect \/ connect_cb_fails
           \/ connect_cb_succeeds \/ read_cb_receives \/ read_cb_refused \/ read_cb_end
           \/ nsqd_connection_read_size \/ write_cb_sends \/ write_cb_empty
           \/ write_cb_fails \/ nsqd_goes \/ Over \/ UNCHANGED vars
  <2>1. UNCHANGED <<stream, got>>
    BY <1>4 DEF nsqd_connection_connect, nsqd_connection_disconnect, connect_cb_fails,
       connect_cb_succeeds, read_cb_receives, read_cb_refused, read_cb_end,
       nsqd_connection_read_size, write_cb_sends, write_cb_empty, write_cb_fails,
       nsqd_goes, Over, vars
  <2> QED
    BY <1>3, <2>1
<1> QED
  BY <1>1, <1>2, <1>4 DEF Next

(***************************************************************************)
(* The safety of FrameStream: each frame is handed over once, in the order *)
(* sent and before the connection closes, if the handler does not          *)
(* disconnect from within.  That a frame is not kept back for ever needs   *)
(* fairness, and is left to the runs.                                      *)
(***************************************************************************)
THEOREM DeliversSafely ==
  ASSUME ~DisconnectInHandler
  PROVE  Spec => Frames!Safety
<1>1. (IInv /\ StreamInv) /\ (IInv /\ StreamInv)' /\ [Next]_vars =>
        [Frames!Next]_Frames!stream
  BY NextFrames
<1> QED
  BY <1>1, InitFrames, InvariantStream, PTL DEF Spec, Frames!Safety

-------------------------------------------------------------------------------

(***************************************************************************)
(* The commands owed, and their bytes.                                     *)
(***************************************************************************)
Opening == <<V2, SUB, RDY>>

Answer(i, s) ==
  CASE (IF i = 0 THEN "none" ELSE s[i]) = "heartbeat" -> <<NOP>>
    [] (IF i = 0 THEN "none" ELSE s[i]) = "message"   -> <<FIN(i), RDY>>
    [] OTHER                                          -> << >>

Answers(g, s) == [j \in DOMAIN g |-> Answer(g[j], s)]

OwedFor(g, s) == Opening \o FlattenSeq(Answers(g, s))

LEMMA OwedIsOwedFor == Owed = OwedFor(got, stream)
BY DEF Owed, OwedFor, Opening, Answers, Answer, KindOf

LEMMA AnswerIs ==
  ASSUME NEW i \in Nat, NEW s
  PROVE  /\ Answer(i, s) \in Seq(Command)
         /\ \/ Answer(i, s) = << >>
            \/ Answer(i, s) = <<NOP>>
            \/ Answer(i, s) = <<FIN(i), RDY>>
<1>1. NOP \in Command /\ RDY \in Command /\ FIN(i) \in Command
  BY CommandsAre
<1>2. /\ << >> \in Seq(Command) /\ <<NOP>> \in Seq(Command)
      /\ <<FIN(i), RDY>> \in Seq(Command)
  BY <1>1
<1>3. \/ Answer(i, s) = << >>
      \/ Answer(i, s) = <<NOP>>
      \/ Answer(i, s) = <<FIN(i), RDY>>
  BY DEF Answer
<1> QED
  BY <1>2, <1>3

LEMMA AnswersAre ==
  ASSUME NEW g \in Seq(Nat), NEW s
  PROVE  /\ Answers(g, s) \in Seq(Seq(Command)) /\ Len(Answers(g, s)) = Len(g)
         /\ \A i \in Nat : Answers(Append(g, i), s) = Append(Answers(g, s), Answer(i, s))
<1>1. ASSUME NEW h \in Seq(Nat)
      PROVE  /\ Answers(h, s) \in Seq(Seq(Command)) /\ Len(Answers(h, s)) = Len(h)
             /\ \A j \in 1 .. Len(h) : Answers(h, s)[j] = Answer(h[j], s)
  <2>1. DOMAIN h = 1 .. Len(h) /\ Len(h) \in Nat /\ \A j \in 1 .. Len(h) : h[j] \in Nat
    OBVIOUS
  <2>2. \A j \in 1 .. Len(h) : Answer(h[j], s) \in Seq(Command)
    BY <2>1, AnswerIs
  <2> QED
    BY <2>1, <2>2 DEF Answers
<1>2. ASSUME NEW i \in Nat
      PROVE  Answers(Append(g, i), s) = Append(Answers(g, s), Answer(i, s))
  <2> DEFINE h == Append(g, i)
             a == Answers(g, s)
             x == Answer(i, s)
             u == Answers(h, s)
             v == Append(a, x)
  <2>1. /\ h \in Seq(Nat) /\ Len(h) = Len(g) + 1 /\ h[Len(g) + 1] = i
        /\ \A j \in 1 .. Len(g) : h[j] = g[j]
    BY AppendProperties
  <2> HIDE DEF h
  <2>2. /\ u \in Seq(Seq(Command)) /\ Len(u) = Len(g) + 1
        /\ \A j \in 1 .. Len(g) + 1 : u[j] = Answer(h[j], s)
    BY <1>1, <2>1
  <2>3. /\ a \in Seq(Seq(Command)) /\ Len(a) = Len(g)
        /\ \A j \in 1 .. Len(g) : a[j] = Answer(g[j], s)
    BY <1>1
  <2>4. x \in Seq(Command)
    BY AnswerIs
  <2> HIDE DEF a, u, x
  <2>5. /\ v \in Seq(Seq(Command)) /\ Len(v) = Len(g) + 1 /\ v[Len(g) + 1] = x
        /\ \A j \in 1 .. Len(g) : v[j] = a[j]
    BY <2>3, <2>4, AppendProperties
  <2> HIDE DEF v
  <2>6. ASSUME NEW j \in 1 .. Len(u) PROVE u[j] = v[j]
    <3>1. j \in 1 .. Len(g) + 1
      BY <2>2
    <3>2. CASE j = Len(g) + 1
      BY <2>1, <2>2, <2>5, <3>1, <3>2 DEF x
    <3>3. CASE j # Len(g) + 1
      <4>1. j \in 1 .. Len(g)
        BY <3>1, <3>3
      <4> QED
        BY <2>1, <2>2, <2>3, <2>5, <3>1, <4>1
    <3> QED
      BY <3>2, <3>3
  <2>7. u = v
    BY ONLY <2>2, <2>5, <2>6, SeqEqual
  <2> QED
    BY <2>7 DEF u, v, h, a, x
<1> QED
  BY <1>1, <1>2

LEMMA OwedForAppend ==
  ASSUME NEW g \in Seq(Nat), NEW s, NEW i \in Nat
  PROVE  /\ OwedFor(g, s) \in Seq(Command)
         /\ OwedFor(Append(g, i), s) = OwedFor(g, s) \o Answer(i, s)
<1> DEFINE a == FlattenSeq(Answers(g, s))
           x == Answer(i, s)
           o == Opening
<1>1. x \in Seq(Command)
  BY AnswerIs
<1>2. o \in Seq(Command)
  BY CommandsAre DEF Opening
<1>3. Answers(g, s) \in Seq(Seq(Command)) /\ Answers(Append(g, i), s) = Append(Answers(g, s), x)
  BY AnswersAre
<1>4. a \in Seq(Command) /\ FlattenSeq(Append(Answers(g, s), x)) = a \o x
  BY <1>1, <1>3, FlattenAppend
<1> HIDE DEF a, x, o
<1>5. o \o a \in Seq(Command)
  BY <1>2, <1>4, ConcatProperties
<1>6. (o \o a) \o x = o \o (a \o x)
  <2>1. o \in Seq(Command) /\ a \in Seq(Command) /\ x \in Seq(Command)
    BY <1>1, <1>2, <1>4
  <2> QED
    BY ONLY <2>1, ConcatAssociative
<1>7. OwedFor(g, s) = o \o a
  BY DEF OwedFor, o, a
<1>8. OwedFor(Append(g, i), s) = o \o (a \o x)
  BY <1>3, <1>4 DEF OwedFor, o
<1> QED
  BY <1>5, <1>6, <1>7, <1>8 DEF x

\* A longer stream does not change what earlier frames are owed.
LEMMA OwedForKept ==
  ASSUME NEW g \in Seq(Nat), NEW s \in Seq(Kind), NEW kind \in Kind,
         \A j \in 1 .. Len(g) : g[j] \in 1 .. Len(s)
  PROVE  OwedFor(g, Append(s, kind)) = OwedFor(g, s)
<1> DEFINE t == Append(s, kind)
<1>1. \A i \in 1 .. Len(s) : t[i] = s[i]
  BY AppendProperties
<1> HIDE DEF t
<1>2. DOMAIN g = 1 .. Len(g)
  OBVIOUS
<1>3. \A j \in 1 .. Len(g) : Answer(g[j], t) = Answer(g[j], s)
  BY <1>1 DEF Answer
<1>4. Answers(g, t) = Answers(g, s)
  BY <1>2, <1>3 DEF Answers
<1> QED
  BY <1>4 DEF OwedFor, t

LEMMA EncodingAppend ==
  ASSUME NEW cs \in Seq(Command), NEW c \in Command
  PROVE  /\ Append(cs, c) \in Seq(Command) /\ Len(Append(cs, c)) = Len(cs) + 1
         /\ Encoding(cs) \in Seq(WriteByte)
         /\ Encoding(Append(cs, c)) \in Seq(WriteByte)
         /\ Encoding(Append(cs, c)) = Encoding(cs) \o Encoded(c)
<1> DEFINE Each(ds) == [j \in DOMAIN ds |-> Encoded(ds[j])]
           ds == Append(cs, c)
           a == Each(cs)
           u == Each(ds)
           x == Encoded(c)
           v == Append(a, x)
<1>1. ASSUME NEW es \in Seq(Command)
      PROVE  /\ Each(es) \in Seq(Seq(WriteByte)) /\ Len(Each(es)) = Len(es)
             /\ \A j \in 1 .. Len(es) : Each(es)[j] = Encoded(es[j])
  <2>1. DOMAIN es = 1 .. Len(es) /\ Len(es) \in Nat /\ \A j \in 1 .. Len(es) : es[j] \in Command
    OBVIOUS
  <2>2. \A j \in 1 .. Len(es) : Encoded(es[j]) \in Seq(WriteByte)
    BY <2>1, EncodedIs
  <2> QED
    BY <2>1, <2>2
<1>2. /\ ds \in Seq(Command) /\ Len(ds) = Len(cs) + 1 /\ ds[Len(cs) + 1] = c
      /\ \A j \in 1 .. Len(cs) : ds[j] = cs[j]
  BY AppendProperties
<1>3. /\ a \in Seq(Seq(WriteByte)) /\ Len(a) = Len(cs)
      /\ \A j \in 1 .. Len(cs) : a[j] = Encoded(cs[j])
  BY <1>1
<1>4. x \in Seq(WriteByte)
  BY EncodedIs
<1> HIDE DEF ds, x
<1>5. /\ u \in Seq(Seq(WriteByte)) /\ Len(u) = Len(cs) + 1
      /\ \A j \in 1 .. Len(cs) + 1 : u[j] = Encoded(ds[j])
  BY <1>1, <1>2
<1>6. Encoding(cs) = FlattenSeq(a) /\ Encoding(ds) = FlattenSeq(u)
  BY DEF Encoding
<1> HIDE DEF a, u
<1>7. /\ v \in Seq(Seq(WriteByte)) /\ Len(v) = Len(cs) + 1 /\ v[Len(cs) + 1] = x
      /\ \A j \in 1 .. Len(cs) : v[j] = a[j]
      /\ FlattenSeq(a) \in Seq(WriteByte) /\ FlattenSeq(v) = FlattenSeq(a) \o x
  BY <1>3, <1>4, AppendProperties, FlattenAppend
<1> HIDE DEF v
<1>8. ASSUME NEW j \in 1 .. Len(u) PROVE u[j] = v[j]
  <2>1. j \in 1 .. Len(cs) + 1
    BY <1>5
  <2>2. CASE j = Len(cs) + 1
    BY <1>2, <1>5, <1>7, <2>1, <2>2 DEF x
  <2>3. CASE j # Len(cs) + 1
    <3>1. j \in 1 .. Len(cs)
      BY <2>1, <2>3
    <3> QED
      BY <1>2, <1>3, <1>5, <1>7, <2>1, <3>1
  <2> QED
    BY <2>2, <2>3
<1>9. u = v
  BY ONLY <1>5, <1>7, <1>8, SeqEqual
<1>10. FlattenSeq(a) \o x \in Seq(WriteByte)
  BY <1>4, <1>7, ConcatProperties
<1> QED
  BY <1>2, <1>6, <1>7, <1>9, <1>10 DEF ds, x

LEMMA EncodingEmpty == Encoding(<< >>) = << >> /\ << >> \in Seq(Command)
<1>1. [j \in DOMAIN << >> |-> Encoded(<< >>[j])] = << >>
  OBVIOUS
<1> QED
  BY <1>1, FlattenEmpty DEF Encoding

-------------------------------------------------------------------------------

(***************************************************************************)
(* No command is refused by a write buffer that may grow, or that has room *)
(* for all that nsqd is ever owed: the opening, and two commands for each  *)
(* frame.                                                                  *)
(***************************************************************************)
MostOwed == 3 + 2 * MaxFrames

AnswerRoom ==
  \A r \in WriteSizes :
    r[2] = 0 \/ MostOwed * CommandLength <= r[1] \/ 3 * (MostOwed * CommandLength) <= r[2]

LEMMA TakesCommand ==
  ASSUME WithinInt, AnswerRoom, NEW S, NEW b \in Buffers(S), SizedBy(b, WriteSizes),
         b.offset + CommandLength <= MostOwed * CommandLength,
         NEW s, Len(s) = CommandLength, Added(b, s) = {}
  PROVE  FALSE
<1> DEFINE room == MostOwed * CommandLength
<1>1. /\ b.pos \in Nat /\ b.offset \in Nat /\ b.length \in Nat \ {0} /\ b.capacity \in Nat
      /\ b.pos + b.offset <= b.length
      /\ CommandLength \in Nat \ {0} /\ CommandLength < IntHalf /\ IntHalf \in Nat
  BY BufferFields, LayoutAssumption, ConnectionAssumption
<1>2. room \in Nat /\ b.offset + CommandLength <= room
  <2>1. MostOwed \in Nat /\ CommandLength \in Nat
    BY ConnectionAssumption DEF MostOwed
  <2> QED
    BY <2>1
<1>3. PICK r \in WriteSizes :
        /\ b.capacity = r[2] /\ b.length >= r[1]
        /\ b.length = r[1] \/ (r[2] > 0 => b.length <= r[2])
  BY DEF SizedBy
<1>4. r[1] \in Nat /\ r[2] \in Nat
  BY ConnectionAssumption
<1> DEFINE d == b.pos + b.offset + CommandLength - b.length
           need == AddNeed(b, CommandLength)
<1>5. d \in Int /\ d < IntHalf
  BY <1>1
<1>6. need \in Int /\ (d >= -IntHalf => need = d)
  BY <1>5, NeedKept DEF AddNeed, BUFFER_USED
<1>7. MakeRoom(b, need) = {}
  BY DEF Added
<1> HIDE DEF need, room
<1>8. /\ need > b.pos /\ b.capacity > 0
      /\ \E e \in Nat : (e = b.length \/ e < 2 * need) /\ b.length + e > b.capacity
  BY <1>1, <1>6, <1>7, RefusalIs
<1>9. b.length <= IntHalf
  <2>1. r[1] <= IntHalf /\ r[2] <= IntHalf
    BY <1>3, <1>8 DEF WithinInt
  <2> QED
    BY ONLY <1>1, <1>3, <1>4, <1>8, <2>1
<1>10. need = d
  BY ONLY <1>1, <1>5, <1>6, <1>9
<1>11. b.length < room /\ need <= room
  BY ONLY <1>1, <1>2, <1>8, <1>10
<1>12. PICK e \in Nat : (e = b.length \/ e < 2 * need) /\ b.length + e > b.capacity
  BY <1>8
<1>13. 3 * room > b.capacity
  <2>1. need \in Int
    BY <1>6
  <2> QED
    BY ONLY <1>1, <1>2, <1>11, <1>12, <2>1, e \in Nat
<1>14. r[2] # 0 /\ ~(room <= r[1]) /\ ~(3 * room <= r[2])
  BY ONLY <1>1, <1>2, <1>3, <1>4, <1>8, <1>11, <1>13
<1> QED
  BY <1>14 DEF AnswerRoom, room

(***************************************************************************)
(* A connected socket that carries the commands cs, sent or waiting.       *)
(***************************************************************************)
Carries(b, cs) ==
  /\ cs \in Seq(Command)
  /\ written \o b.write_buf.bytes = Encoding(cs)
  /\ Len(Encoding(cs)) = Len(cs) * CommandLength

Carrying(b, cs) ==
  /\ b \in Sockets /\ Tended(b) /\ Sized(b) /\ b.state = "CONNECTED"
  /\ Carries(b, cs)

LEMMA WriteCarries ==
  ASSUME WithinInt, AnswerRoom, written \in Seq(WriteByte),
         NEW b, NEW cs, Carrying(b, cs), Len(cs) < MostOwed, NEW c \in Command
  PROVE  Carrying(buffered_socket_write(b, Encoded(c)), Append(cs, c))
<1> DEFINE w == buffered_socket_write(b, Encoded(c))
           x == Encoded(c)
           t == b.write_buf.bytes
           ds == Append(cs, c)
           E == Encoding(cs)
<1>1. /\ b \in Sockets /\ Tended(b) /\ Sized(b) /\ b.state = "CONNECTED"
      /\ cs \in Seq(Command) /\ written \o t = E /\ Len(E) = Len(cs) * CommandLength
  BY DEF Carrying, Carries
<1>2. /\ ds \in Seq(Command) /\ Len(ds) = Len(cs) + 1
      /\ E \in Seq(WriteByte)
      /\ Encoding(ds) \in Seq(WriteByte) /\ Encoding(ds) = E \o x
  BY <1>1, EncodingAppend
<1>3. x \in Seq(WriteByte) /\ Len(x) = CommandLength /\ CommandLength \in Nat
  BY EncodedIs, ConnectionAssumption
<1>4. /\ b.write_buf \in Buffers(WriteByte) /\ b.write_buf.offset \in Nat
      /\ t \in Seq(WriteByte) /\ Len(t) = b.write_buf.offset
      /\ SizedBy(b.write_buf, WriteSizes)
  BY <1>1, SocketFields DEF Sized
<1>5. /\ w \in Sockets /\ Tended(w) /\ Sized(w) /\ w.state = b.state
  BY <1>1, <1>3, WriteIs DEF SameButWriting
<1> HIDE DEF x, ds, E
<1>6. Len(ds) * CommandLength = Len(cs) * CommandLength + CommandLength
      /\ Len(ds) * CommandLength <= MostOwed * CommandLength
  <2>1. Len(cs) \in Nat /\ MostOwed \in Nat /\ Len(cs) + 1 <= MostOwed
    <3>1. Len(cs) \in Nat
      BY <1>1
    <3>2. MostOwed \in Nat
      BY ConnectionAssumption DEF MostOwed
    <3> QED
      BY <3>1, <3>2
  <2> DEFINE k == Len(cs)
             M == MostOwed
             C == CommandLength
  <2>2. k \in Nat /\ M \in Nat /\ k + 1 <= M /\ C \in Nat
    BY <1>3, <2>1
  <2> HIDE DEF k, M, C
  <2>3. (k + 1) * C = k * C + C /\ (k + 1) * C <= M * C
    BY ONLY <2>2
  <2> QED
    BY <1>2, <2>3 DEF k, M, C
<1>7. b.write_buf.offset + CommandLength <= MostOwed * CommandLength
  <2>1. Len(E) = Len(written) + Len(t)
    BY ONLY <1>1, <1>4, written \in Seq(WriteByte), ConcatProperties
  <2>2. Len(written) \in Nat /\ Len(E) \in Nat
    BY <1>2
  <2> DEFINE p == Len(cs) * CommandLength
             q == Len(ds) * CommandLength
             r == MostOwed * CommandLength
  <2>3. Len(E) = p /\ q = p + CommandLength /\ q <= r
    BY <1>1, <1>6
  <2>4. r \in Nat
    <3>1. MostOwed \in Nat
      BY ConnectionAssumption DEF MostOwed
    <3> QED
      BY <1>3, <3>1
  <2> HIDE DEF p, q, r
  <2>5. b.write_buf.offset + CommandLength <= r
    BY ONLY <1>3, <1>4, <2>1, <2>2, <2>3, <2>4
  <2> QED
    BY <2>5 DEF r
<1>8. w.write_buf.bytes = t \o x
  <2>1. Added(b.write_buf, x) # {}
    BY <1>3, <1>4, <1>7, TakesCommand
  <2>2. AddedOrNot(b.write_buf, x) \in Added(b.write_buf, x)
    BY <2>1 DEF AddedOrNot
  <2>3. w.write_buf = AddedOrNot(b.write_buf, x)
    BY <1>1 DEF buffered_socket_write, Sockets, x
  <2>4. Len(x) < IntHalf
    BY <1>3, ConnectionAssumption, LayoutAssumption
  <2> DEFINE buf == AddedOrNot(b.write_buf, x)
  <2>5. buf \in Added(b.write_buf, x)
    BY <2>2
  <2> HIDE DEF buf, w
  <2>6. buf.bytes = b.write_buf.bytes \o x
    <3>1. b.write_buf \in Buffers(WriteByte) /\ x \in Seq(WriteByte)
      BY <1>3, <1>4
    <3>2. /\ buf \in Buffers(WriteByte)
          /\ buf.offset = b.write_buf.offset + Len(x) /\ buf.bytes = b.write_buf.bytes \o x
          /\ buf.capacity = b.write_buf.capacity /\ buf.length >= b.write_buf.length
          /\ buf.length = b.write_buf.length \/
               (b.write_buf.capacity > 0 => buf.length <= b.write_buf.capacity)
      BY <2>4, <2>5, <3>1, AddedIs
    <3> QED
      BY <3>2
  <2> QED
    BY <2>3, <2>6 DEF buf
<1> HIDE DEF w
<1>9. written \o w.write_buf.bytes = Encoding(ds)
  <2> HIDE DEF t
  <2>1. written \in Seq(WriteByte) /\ t \in Seq(WriteByte) /\ x \in Seq(WriteByte)
    BY <1>3, <1>4
  <2>2. (written \o t) \o x = written \o (t \o x)
    BY ONLY <2>1, ConcatAssociative
  <2> QED
    BY <1>1, <1>2, <1>8, <2>2
<1>10. Len(Encoding(ds)) = Len(ds) * CommandLength
  <2>1. Len(Encoding(ds)) = Len(E) + Len(x)
    BY ONLY <1>2, <1>3, ConcatProperties
  <2> QED
    BY <1>1, <1>3, <1>6, <2>1
<1>11. Carries(w, ds)
  BY <1>2, <1>9, <1>10 DEF Carries
<1> QED
  BY <1>1, <1>5, <1>11 DEF Carrying, w, x, ds

-------------------------------------------------------------------------------

(***************************************************************************)
(* AnswersInOrder speaks of what was sent; that an answer finds the buffer *)
(* holding all that went before, in order, and room behind it, depends on  *)
(* what waits there and on how much can be owed at all.                    *)
(***************************************************************************)
AnswersInv ==
  /\ Len(stream) <= MaxFrames
  /\ IsPrefix(written \o bs.write_buf.bytes, Encoding(OwedFor(got, stream)))
  /\ bs.state = "CONNECTED" =>
       /\ Carries(bs, OwedFor(got, stream))
       /\ Len(OwedFor(got, stream)) <= 3 + 2 * Len(got)
  /\ bs.state \in {"INIT", "CONNECTING"} => written = << >> /\ got = << >>

LEMMA EncodingIs ==
  ASSUME NEW cs \in Seq(Command)
  PROVE  Encoding(cs) \in Seq(WriteByte)
BY CommandsAre, EncodingAppend

\* Most steps add no command.
LEMMA AnswersKept ==
  ASSUME AnswersInv,
         written' \o bs'.write_buf.bytes = written \o bs.write_buf.bytes,
         bs'.state = "CONNECTED" => bs.state = "CONNECTED",
         bs'.state \in {"INIT", "CONNECTING"} =>
           bs.state \in {"INIT", "CONNECTING"} /\ written' = written,
         UNCHANGED <<stream, got>>
  PROVE  AnswersInv'
BY DEF AnswersInv, Carries, OwedFor, Answers

LEMMA TuplesAre ==
  ASSUME NEW S, NEW c \in S, NEW d \in S, NEW e \in S
  PROVE  /\ <<c>> \o <<d>> = <<c, d>>
         /\ Append(Append(Append(<< >>, c), d), e) = <<c, d, e>>
<1>1. ASSUME NEW u, u = <<c>> \o <<d>>, NEW v, v = <<c, d>>
      PROVE  u = v
  <2>1. u \in Seq(S) /\ Len(u) = 2 /\ u[1] = c /\ u[2] = d
    BY ONLY <1>1, c \in S, d \in S
  <2>2. v \in Seq(S) /\ Len(v) = 2 /\ v[1] = c /\ v[2] = d
    BY ONLY <1>1, c \in S, d \in S
  <2>3. \A i \in 1 .. Len(u) : u[i] = v[i]
    BY ONLY <2>1, <2>2
  <2> QED
    BY ONLY <2>1, <2>2, <2>3, SeqEqual
<1>2. ASSUME NEW u, u = Append(Append(Append(<< >>, c), d), e), NEW v, v = <<c, d, e>>
      PROVE  u = v
  <2>1. u \in Seq(S) /\ Len(u) = 3 /\ u[1] = c /\ u[2] = d /\ u[3] = e
    BY ONLY <1>2, c \in S, d \in S, e \in S
  <2>2. v \in Seq(S) /\ Len(v) = 3 /\ v[1] = c /\ v[2] = d /\ v[3] = e
    BY ONLY <1>2, c \in S, d \in S, e \in S
  <2>3. \A i \in 1 .. Len(u) : u[i] = v[i]
    BY ONLY <2>1, <2>2
  <2> QED
    BY ONLY <2>1, <2>2, <2>3, SeqEqual
<1> QED
  BY <1>1, <1>2

LEMMA TwoMore ==
  ASSUME NEW cs \in Seq(Command), NEW c \in Command, NEW d \in Command
  PROVE  /\ cs \o <<c>> = Append(cs, c)
         /\ cs \o <<c, d>> = Append(Append(cs, c), d)
         /\ cs \o << >> = cs
<1>1. cs \o <<c>> = Append(cs, c) /\ Append(cs, c) \in Seq(Command)
  BY AppendIsConcat
<1>2. Append(cs, c) \o <<d>> = Append(Append(cs, c), d)
  BY <1>1, AppendIsConcat
<1>3. <<c>> \o <<d>> = <<c, d>>
  BY TuplesAre
<1>4. (cs \o <<c>>) \o <<d>> = cs \o (<<c>> \o <<d>>)
  <2> DEFINE x == <<c>>
             y == <<d>>
  <2>1. x \in Seq(Command) /\ y \in Seq(Command)
    OBVIOUS
  <2> HIDE DEF x, y
  <2>2. (cs \o x) \o y = cs \o (x \o y)
    BY <2>1, ConcatAssociative
  <2> QED
    BY <2>2 DEF x, y
<1>5. cs \o << >> = cs
  BY ConcatEmptySeq
<1> QED
  BY <1>1, <1>2, <1>3, <1>4, <1>5

LEMMA ConnectedAnswers ==
  ASSUME WithinInt, AnswerRoom, IInv, AnswersInv, connect_cb_succeeds
  PROVE  AnswersInv'
<1> DEFINE b1 == connect_completed([bs EXCEPT !.once = FALSE])
           b2 == buffered_socket_write(b1, Encoded(V2))
           b3 == buffered_socket_write(b2, Encoded(SUB))
           b4 == buffered_socket_write(b3, Encoded(RDY))
           c1 == Append(<< >>, V2)
           c2 == Append(c1, SUB)
           c3 == Append(c2, RDY)
<1>1. /\ \/ bs' = buffered_socket_read_bytes(b4, WordLength, "nsqd_connection_read_size")
         \/ bs' = nsqd_connection_connect_cb(buffered_socket_close(b2))
      /\ UNCHANGED <<written, stream, got>>
  BY DEF connect_cb_succeeds, nsqd_connection_connect_cb, nsq_reader_connect_cb
<1>2. /\ b1 \in Sockets /\ Tended(b1) /\ Sized(b1) /\ b1.state = "CONNECTED"
      /\ bs.state = "CONNECTING" /\ b1.write_buf.offset = 0
  BY DataInvFields, ConnectionCompleted
<1> HIDE DEF b1
<1>3. written = << >> /\ got = << >> /\ written \in Seq(WriteByte)
  BY <1>2, DataInvFields DEF AnswersInv
<1>4. Carrying(b1, << >>)
  <2>1. b1.write_buf.bytes \in Seq(WriteByte) /\ Len(b1.write_buf.bytes) = 0
    BY <1>2, SocketFields
  <2>2. b1.write_buf.bytes = << >>
    BY <2>1
  <2>3. << >> \o << >> = << >> /\ Len(<< >>) = 0 /\ 0 * CommandLength = 0
    BY ConnectionAssumption
  <2>4. Carries(b1, << >>)
    BY <1>3, <2>2, <2>3, EncodingEmpty DEF Carries
  <2> QED
    BY <1>2, <2>4 DEF Carrying
<1>5. /\ V2 \in Command /\ SUB \in Command /\ RDY \in Command
      /\ MostOwed \in Nat /\ 3 <= MostOwed
  BY CommandsAre, ConnectionAssumption DEF MostOwed
<1>6. Carrying(b2, c1) /\ Len(c1) = 1
  <2>1. Len(<< >>) = 0 /\ Len(<< >>) < MostOwed
    BY <1>5
  <2>2. Len(c1) = Len(<< >>) + 1
    BY <1>5, EncodingEmpty, EncodingAppend
  <2> DEFINE none == << >>
  <2>3. Carrying(b1, none) /\ Len(none) < MostOwed
    BY <1>4, <2>1
  <2> HIDE DEF none
  <2>4. Carrying(buffered_socket_write(b1, Encoded(V2)), Append(none, V2))
    BY <1>3, <1>5, <2>3, WriteCarries
  <2> QED
    BY <2>1, <2>2, <2>4 DEF none
<1> HIDE DEF b2, c1
<1>7. Carrying(b3, c2) /\ Len(c2) = 2
  <2>1. Len(c1) < MostOwed /\ c1 \in Seq(Command)
    BY <1>5, <1>6 DEF Carrying, Carries
  <2>2. Len(c2) = Len(c1) + 1
    BY <1>5, <2>1, EncodingAppend
  <2> QED
    BY <1>3, <1>5, <1>6, <2>1, <2>2, WriteCarries
<1> HIDE DEF b3, c2
<1>8. Carrying(b4, c3) /\ Len(c3) = 3
  <2>1. Len(c2) < MostOwed /\ c2 \in Seq(Command)
    BY <1>5, <1>7 DEF Carrying, Carries
  <2>2. Len(c3) = Len(c2) + 1
    BY <1>5, <2>1, EncodingAppend
  <2> QED
    BY <1>3, <1>5, <1>7, <2>1, <2>2, WriteCarries
<1>9. c3 = Opening
  BY <1>5, TuplesAre DEF c2, c1, Opening
<1>10. OwedFor(got, stream) = Opening
  <2>1. Answers(got, stream) = << >>
    BY <1>3 DEF Answers
  <2>2. Opening \in Seq(Command)
    BY <1>5 DEF Opening
  <2>3. Opening \o << >> = Opening
    BY <2>2, ConcatEmptySeq
  <2> QED
    BY <2>1, <2>3, FlattenEmpty DEF OwedFor
<1> HIDE DEF b4, c3
<1> DEFINE cs == OwedFor(got, stream)
<1>11. Carries(b4, cs) /\ Len(cs) = 3 /\ Len(got) = 0
  BY <1>3, <1>8, <1>9, <1>10 DEF Carrying
<1>12. cs = c3
  BY <1>9, <1>10
<1> HIDE DEF cs
<1>13. OwedFor(got', stream') = cs
  BY <1>1 DEF cs
<1>14. Len(stream) <= MaxFrames
  BY DEF AnswersInv
<1>15. CASE bs' = buffered_socket_read_bytes(b4, WordLength, "nsqd_connection_read_size")
  <2>1. bs'.write_buf = b4.write_buf /\ bs'.state = "CONNECTED"
    BY <1>8, <1>15 DEF Carrying, buffered_socket_read_bytes, Sockets
  <2>2. IsPrefix(written \o b4.write_buf.bytes, Encoding(cs))
    <3>1. Encoding(cs) \in Seq(WriteByte) /\ written \o b4.write_buf.bytes = Encoding(cs)
      BY <1>11, EncodingIs DEF Carries
    <3> QED
      BY <3>1, PrefixIs
  <2>3. Len(cs) <= 3 + 2 * Len(got)
    BY <1>11
  <2> QED
    BY <1>1, <1>11, <1>13, <1>14, <2>1, <2>2, <2>3 DEF AnswersInv, Carries
<1>16. CASE bs' = nsqd_connection_connect_cb(buffered_socket_close(b2))
  <2> DEFINE c == buffered_socket_close(b2)
  <2>1. b2 \in Sockets /\ Tended(b2) /\ Sized(b2)
    BY <1>6 DEF Carrying
  <2>2. c \in Sockets /\ c.state = "DISCONNECTED" /\ c.write_buf = b2.write_buf
    BY <2>1, CloseIs
  <2>3. bs' = nsqd_connection_connect_cb(c)
    BY <1>16
  <2> HIDE DEF c
  <2>4. bs' = buffered_socket_read_bytes(c, WordLength, "nsqd_connection_read_size")
    BY <2>2, <2>3 DEF nsqd_connection_connect_cb, nsq_reader_connect_cb, buffered_socket_write
  <2>5. bs'.write_buf = b2.write_buf /\ bs'.state = "DISCONNECTED"
    BY <2>2, <2>4 DEF buffered_socket_read_bytes, Sockets
  <2>6. c1 \in Seq(Command) /\ c2 \in Seq(Command) /\ written \o b2.write_buf.bytes = Encoding(c1)
    BY <1>6, <1>7 DEF Carrying, Carries
  <2>7. ASSUME NEW es \in Seq(Command), NEW k \in Command
        PROVE  IsPrefix(Encoding(es), Encoding(Append(es, k)))
    <3>1. /\ Encoding(es) \in Seq(WriteByte) /\ Encoded(k) \in Seq(WriteByte)
          /\ Encoding(Append(es, k)) = Encoding(es) \o Encoded(k)
      BY EncodingAppend, EncodedIs
    <3> QED
      BY <3>1, PrefixOfConcat
  <2>8. IsPrefix(Encoding(c1), Encoding(c2))
    BY <1>5, <2>6, <2>7 DEF c2
  <2>9. IsPrefix(Encoding(c2), Encoding(c3))
    BY <1>5, <2>6, <2>7 DEF c3
  <2>10. /\ Encoding(c1) \in Seq(WriteByte) /\ Encoding(c2) \in Seq(WriteByte)
         /\ Encoding(c3) \in Seq(WriteByte)
    BY <1>11, <1>12, <2>6, EncodingIs DEF Carries
  <2>11. IsPrefix(Encoding(c1), Encoding(c3))
    BY <2>8, <2>9, <2>10, PrefixTransitive
  <2> QED
    BY <1>1, <1>12, <1>13, <1>14, <2>5, <2>6, <2>11 DEF AnswersInv
<1> QED
  BY <1>1, <1>15, <1>16

LEMMA FrameDoneWrites ==
  ASSUME NEW b \in Sockets
  PROVE  FrameDone(b).write_buf = b.write_buf /\ FrameDone(b).state = b.state
<1> DEFINE b1 == [b EXCEPT !.read_buf = Drained(@, current_msg_size')]
<1>1. /\ b1.write_buf = b.write_buf /\ b1.state = b.state
      /\ DOMAIN b1 = DOMAIN b
  BY DEF Sockets
<1>2. {"write_buf", "state", "callback", "n", "timer"} \subseteq DOMAIN b1
  BY <1>1 DEF Sockets
<1>3. FrameDone(b) = [b1 EXCEPT !.callback = "nsqd_connection_read_size", !.n = WordLength,
                                !.timer = @ \/ BUFFER_HAS_DATA(b1.read_buf) >= WordLength]
  BY DEF FrameDone, buffered_socket_read_bytes
<1> HIDE DEF b1
<1> QED
  BY <1>1, <1>2, <1>3

\* A handled frame gets its answer, whole and behind everything before it,
\* unless the connection is closed already.
LEMMA AnswerCarried ==
  ASSUME WithinInt, AnswerRoom, written \in Seq(WriteByte),
         NEW b, NEW cs, Carrying(b, cs), Len(cs) + 2 <= MostOwed,
         NEW i \in Nat
  PROVE  /\ Carrying(HeartbeatAnswered(b), cs \o <<NOP>>)
         /\ Carrying(MessageHandled(b, i), cs \o <<FIN(i), RDY>>)
         /\ cs \o << >> = cs
         /\ Len(cs \o <<NOP>>) = Len(cs) + 1
         /\ Len(cs \o <<FIN(i), RDY>>) = Len(cs) + 2
<1>1. NOP \in Command /\ RDY \in Command /\ FIN(i) \in Command
  BY CommandsAre
<1>2. cs \in Seq(Command) /\ Len(cs) \in Nat /\ MostOwed \in Nat
  <2>1. MostOwed \in Nat
    BY ConnectionAssumption DEF MostOwed
  <2> QED
    BY <2>1 DEF Carrying, Carries
<1>3. Len(cs) < MostOwed /\ Len(cs) + 1 < MostOwed
  BY <1>2
<1>4. Carrying(HeartbeatAnswered(b), Append(cs, NOP))
  BY <1>1, <1>3, WriteCarries DEF HeartbeatAnswered
<1> DEFINE v == buffered_socket_write(b, Encoded(FIN(i)))
           ds == Append(cs, FIN(i))
<1>5. Carrying(v, ds) /\ ds \in Seq(Command) /\ Len(ds) = Len(cs) + 1
  BY <1>1, <1>2, <1>3, WriteCarries, EncodingAppend
<1>6. MessageHandled(b, i) = buffered_socket_write(v, Encoded(RDY))
  BY DEF MessageHandled
<1> HIDE DEF v, ds
<1>7. Carrying(MessageHandled(b, i), Append(ds, RDY))
  <2>1. Len(ds) < MostOwed
    BY <1>3, <1>5
  <2> QED
    BY <1>1, <1>5, <1>6, <2>1, WriteCarries
<1>8. Len(Append(ds, RDY)) = Len(cs) + 2
  <2>1. Len(Append(ds, RDY)) = Len(ds) + 1
    BY <1>1, <1>5, EncodingAppend
  <2> QED
    BY ONLY <1>2, <1>5, <2>1
<1>9. Len(Append(cs, NOP)) = Len(cs) + 1
  BY <1>1, <1>2, EncodingAppend
<1>10. /\ cs \o <<NOP>> = Append(cs, NOP)
       /\ cs \o <<FIN(i), RDY>> = Append(ds, RDY)
       /\ cs \o << >> = cs
  BY <1>1, <1>2, TwoMore DEF ds
<1> QED
  BY <1>4, <1>7, <1>8, <1>9, <1>10

LEMMA AnsweredAnswers ==
  ASSUME WithinInt, AnswerRoom, IInv, StreamInv, AnswersInv, nsqd_connection_read_data
  PROVE  AnswersInv'
<1> DEFINE i == FrameRead(AtMost(bs.read_buf.bytes, current_msg_size))
           b1 == [read_bytes_taken(bs) EXCEPT !.read_buf = Drained(@, WordLength)]
           cs == OwedFor(got, stream)
           a == Answer(i, stream)
           ds == cs \o a
<1>1. bs.timer /\ UNCHANGED <<written, stream>> /\ got' = Append(got, i)
  BY DEF nsqd_connection_read_data
<1>2. \/ a = <<NOP>> /\ bs' = FrameDone(HeartbeatAnswered(b1))
      \/ a = <<FIN(i), RDY>> /\ bs' = FrameDone(MessageHandled(b1, i))
      \/ /\ a = <<FIN(i), RDY>>
         /\ bs' = FrameDone(buffered_socket_close(MessageHandled(b1, i)))
      \/ a = << >> /\ bs' = FrameDone(b1)
  <2>1. \/ KindOf(i) = "heartbeat" /\ bs' = FrameDone(HeartbeatAnswered(b1))
        \/ KindOf(i) = "message" /\ bs' = FrameDone(MessageHandled(b1, i))
        \/ /\ KindOf(i) = "message"
           /\ bs' = FrameDone(buffered_socket_close(MessageHandled(b1, i)))
        \/ KindOf(i) \notin {"heartbeat", "message"} /\ bs' = FrameDone(b1)
    BY DEF nsqd_connection_read_data
  <2> HIDE DEF i, b1
  <2>2. /\ KindOf(i) = "heartbeat" => a = <<NOP>>
        /\ KindOf(i) = "message" => a = <<FIN(i), RDY>>
        /\ KindOf(i) \notin {"heartbeat", "message"} => a = << >>
    BY DEF Answer, KindOf
  <2> QED
    BY ONLY <2>1, <2>2
<1>3. i \in Nat /\ got \in Seq(Nat) /\ written \in Seq(WriteByte)
  BY SizesRead, DataInvFields
<1>4. /\ b1 \in Sockets /\ Tended(b1) /\ Sized(b1) /\ b1.state = bs.state
      /\ b1.write_buf = bs.write_buf /\ b1.state \notin {"INIT", "CONNECTING"}
  BY <1>1, DataInvFields, WordTaken
<1>5. /\ bs'.state \notin {"INIT", "CONNECTING"}
      /\ bs.state = "DISCONNECTED" => bs'.state = "DISCONNECTED"
  BY DataInvFields, DataSocket
<1>6. a \in Seq(Command) /\ (a = << >> \/ a = <<NOP>> \/ a = <<FIN(i), RDY>>)
  BY <1>3, AnswerIs
<1>7. cs \in Seq(Command) /\ OwedFor(got', stream') = ds /\ ds \in Seq(Command)
  <2>1. cs \in Seq(Command) /\ OwedFor(Append(got, i), stream) = ds
    BY <1>3, OwedForAppend
  <2>2. ds \in Seq(Command)
    BY <1>6, <2>1, ConcatProperties
  <2> QED
    BY <1>1, <2>1, <2>2
<1>8. /\ Len(got) \in Nat /\ MaxFrames \in Nat /\ Len(got) + 1 <= MaxFrames
      /\ Len(got') = Len(got) + 1 /\ Len(stream) <= MaxFrames
  <2>1. Len(got) + 1 \in 1 .. Len(stream) /\ Len(stream) <= MaxFrames
    BY DEF StreamInv, Expecting, AnswersInv, nsqd_connection_read_data
  <2>2. Len(got') = Len(got) + 1
    BY <1>1, <1>3
  <2>3. Len(stream) \in Nat /\ Len(got) \in Nat /\ MaxFrames \in Nat
    BY DataInvFields, ConnectionAssumption
  <2> QED
    BY <2>1, <2>2, <2>3
<1> HIDE DEF i, b1, cs, a
<1>9. CASE bs.state = "CONNECTED"
  <2>1. Carrying(b1, cs) /\ Len(cs) <= 3 + 2 * Len(got)
    BY <1>4, <1>9 DEF AnswersInv, Carrying, Carries, cs
  <2>2. Len(cs) + 2 <= MostOwed /\ Len(cs) \in Nat
    <3>1. Len(cs) \in Nat
      BY <1>7
    <3> QED
      BY ONLY <1>8, <2>1, <3>1 DEF MostOwed
  <2>3. /\ Carrying(HeartbeatAnswered(b1), cs \o <<NOP>>)
        /\ Carrying(MessageHandled(b1, i), cs \o <<FIN(i), RDY>>)
        /\ cs \o << >> = cs
        /\ Len(cs \o <<NOP>>) = Len(cs) + 1
        /\ Len(cs \o <<FIN(i), RDY>>) = Len(cs) + 2
    BY <1>3, <2>1, <2>2, AnswerCarried
  <2>4. Len(ds) <= 3 + 2 * (Len(got) + 1)
    <3>1. Len(ds) \in {Len(cs), Len(cs) + 1, Len(cs) + 2}
      BY <1>6, <2>3
    <3> QED
      BY ONLY <1>8, <2>1, <2>2, <3>1
  <2> HIDE DEF ds
  <2>5. ASSUME NEW w, Carrying(w, ds), bs' = FrameDone(w) PROVE Carries(bs', ds)
    <3>1. w \in Sockets
      BY <2>5 DEF Carrying
    <3>2. bs'.write_buf = w.write_buf
      BY <2>5, <3>1, FrameDoneWrites
    <3> QED
      BY <2>5, <3>2 DEF Carrying, Carries
  <2>6. Carries(bs', ds)
    <3>1. CASE a = <<NOP>> /\ bs' = FrameDone(HeartbeatAnswered(b1))
      BY <2>3, <2>5, <3>1 DEF ds
    <3>2. CASE a = <<FIN(i), RDY>> /\ bs' = FrameDone(MessageHandled(b1, i))
      BY <2>3, <2>5, <3>2 DEF ds
    <3>3. CASE /\ a = <<FIN(i), RDY>>
               /\ bs' = FrameDone(buffered_socket_close(MessageHandled(b1, i)))
      <4> DEFINE v == MessageHandled(b1, i)
                 w == buffered_socket_close(v)
      <4>1. Carrying(v, ds)
        BY <2>3, <3>3 DEF ds
      <4>2. bs' = FrameDone(w)
        BY <3>3
      <4> HIDE DEF v
      <4>3. w \in Sockets /\ w.write_buf = v.write_buf
        BY <4>1, CloseIs DEF Carrying
      <4> HIDE DEF w
      <4>4. bs'.write_buf = v.write_buf
        BY <4>2, <4>3, FrameDoneWrites
      <4> QED
        BY <4>1, <4>4 DEF Carrying, Carries
    <3>4. CASE a = << >> /\ bs' = FrameDone(b1)
      BY <2>1, <2>3, <2>5, <3>4 DEF ds
    <3> QED
      BY <1>2, <3>1, <3>2, <3>3, <3>4
  <2>7. IsPrefix(written \o bs'.write_buf.bytes, Encoding(ds))
    <3>1. Encoding(ds) \in Seq(WriteByte) /\ written \o bs'.write_buf.bytes = Encoding(ds)
      BY <1>7, <2>6, EncodingIs DEF Carries
    <3> QED
      BY <3>1, PrefixIs
  <2> QED
    BY <1>1, <1>5, <1>7, <1>8, <2>4, <2>6, <2>7 DEF AnswersInv, Carries
<1>10. CASE bs.state # "CONNECTED"
  <2>1. bs.state = "DISCONNECTED" /\ b1.state = "DISCONNECTED"
    BY <1>4, <1>10 DEF Sockets
  <2>2. /\ HeartbeatAnswered(b1) = b1 /\ MessageHandled(b1, i) = b1
        /\ buffered_socket_close(b1) = b1
    BY <2>1 DEF HeartbeatAnswered, MessageHandled, buffered_socket_write,
       buffered_socket_close
  <2>3. bs' = FrameDone(b1)
    BY <1>2, <2>2
  <2>4. bs'.write_buf = bs.write_buf
    BY <1>4, <2>3, FrameDoneWrites
  <2> DEFINE X == Encoding(cs)
             Y == Encoding(ds)
             s == written \o bs.write_buf.bytes
  <2>5. X \in Seq(WriteByte) /\ Y \in Seq(WriteByte) /\ s \in Seq(WriteByte)
    <3>1. X \in Seq(WriteByte) /\ Y \in Seq(WriteByte)
      BY <1>7, EncodingIs
    <3>2. bs.write_buf.bytes \in Seq(WriteByte)
      BY DataInvFields, SocketFields
    <3> QED
      BY <1>3, <3>1, <3>2, ConcatProperties
  <2>6. IsPrefix(X, Y)
    <3>1. ASSUME NEW es \in Seq(Command), NEW c \in Command
          PROVE  /\ IsPrefix(Encoding(es), Encoding(Append(es, c)))
                 /\ Append(es, c) \in Seq(Command)
      <4>1. /\ Encoding(es) \in Seq(WriteByte) /\ Encoded(c) \in Seq(WriteByte)
            /\ Encoding(Append(es, c)) = Encoding(es) \o Encoded(c)
            /\ Append(es, c) \in Seq(Command)
        BY EncodingAppend, EncodedIs
      <4> QED
        BY <4>1, PrefixOfConcat
    <3>2. NOP \in Command /\ RDY \in Command /\ FIN(i) \in Command
      BY <1>3, CommandsAre
    <3>3. CASE a = << >>
      <4>1. ds = cs
        BY <1>7, <3>2, <3>3, TwoMore
      <4> QED
        BY <2>5, <4>1, PrefixIs
    <3>4. CASE a = <<NOP>>
      <4>1. ds = Append(cs, NOP)
        BY <1>7, <3>2, <3>4, TwoMore
      <4> QED
        BY <1>7, <3>1, <3>2, <4>1
    <3>5. CASE a = <<FIN(i), RDY>>
      <4> DEFINE es == Append(cs, FIN(i))
      <4>1. ds = Append(es, RDY)
        BY <1>7, <3>2, <3>5, TwoMore
      <4>2. IsPrefix(X, Encoding(es)) /\ es \in Seq(Command)
        BY <1>7, <3>1, <3>2
      <4> HIDE DEF es, ds, X, Y
      <4>3. IsPrefix(Encoding(es), Y)
        BY <3>1, <3>2, <4>1, <4>2 DEF Y
      <4>4. Encoding(es) \in Seq(WriteByte)
        BY <4>2, EncodingIs
      <4> QED
        BY <2>5, <4>2, <4>3, <4>4, PrefixTransitive
    <3> QED
      BY <1>6, <3>3, <3>4, <3>5
  <2>7. IsPrefix(s, X)
    BY DEF AnswersInv, cs
  <2> HIDE DEF X, Y, s, ds
  <2>8. IsPrefix(s, Y)
    BY <2>5, <2>6, <2>7, PrefixTransitive
  <2>9. IsPrefix(written' \o bs'.write_buf.bytes, Encoding(OwedFor(got', stream')))
    BY <1>1, <1>7, <2>4, <2>8 DEF s, Y
  <2> QED
    BY <1>1, <1>5, <1>8, <2>1, <2>9 DEF AnswersInv
<1> QED
  BY <1>9, <1>10

LEMMA InitAnswers == Init => AnswersInv
<1> SUFFICES ASSUME Init PROVE AnswersInv
  OBVIOUS
<1>1. PICK r \in ReadSizes, w \in WriteSizes :
        bs = new_buffered_socket(r[1], r[2], w[1], w[2])
  BY DEF Init
<1>2. /\ bs.state = "INIT" /\ bs.write_buf.bytes = << >>
      /\ written = << >> /\ stream = << >> /\ got = << >>
  BY <1>1 DEF Init, new_buffered_socket, new_buffer
<1> DEFINE E == Encoding(OwedFor(got, stream))
           none == << >>
<1>3. E \in Seq(WriteByte)
  <2>1. got \in Seq(Nat) /\ 0 \in Nat
    <3>1. << >> \in Seq(Nat)
      OBVIOUS
    <3> QED
      BY <1>2, <3>1
  <2>2. OwedFor(got, stream) \in Seq(Command)
    BY <2>1, OwedForAppend
  <2> QED
    BY <2>2, EncodingIs
<1>4. none \in Seq(WriteByte) /\ Len(none) = 0 /\ none \o none = none
  OBVIOUS
<1> HIDE DEF E, none
<1>5. IsPrefix(none, E)
  <2>1. Len(E) \in Nat
    BY <1>3
  <2>2. Len(none) <= Len(E) /\ \A i \in 1 .. Len(none) : none[i] = E[i]
    BY ONLY <1>4, <2>1
  <2> QED
    BY ONLY <1>3, <1>4, <2>2, PrefixIs
<1>6. IsPrefix(written \o bs.write_buf.bytes, E)
  BY <1>2, <1>4, <1>5 DEF none
<1>7. Len(stream) <= MaxFrames
  <2>1. Len(stream) = 0 /\ MaxFrames \in Nat
    BY <1>2, ConnectionAssumption
  <2> QED
    BY <2>1
<1> QED
  BY <1>2, <1>6, <1>7 DEF AnswersInv, E

\* What nsqd sends is owed nothing before it is handled.
LEMMA SendAnswers ==
  ASSUME IInv, StreamInv, AnswersInv, nsqd_sends
  PROVE  AnswersInv'
<1>1. PICK kind \in Kind : stream' = Append(stream, kind)
  BY DEF nsqd_sends
<1>2. Len(stream) < MaxFrames /\ UNCHANGED <<bs, written, got>>
  BY DEF nsqd_sends
<1>3. stream \in Seq(Kind) /\ got \in Seq(Nat) /\ Len(stream) \in Nat /\ MaxFrames \in Nat
  BY DataInvFields, ConnectionAssumption
<1>4. \A j \in 1 .. Len(got) : got[j] \in 1 .. Len(stream)
  <2>1. Len(got) \in 0 .. Len(stream) /\ got = [j \in 1 .. Len(got) |-> j]
    BY DEF StreamInv, Accounted, InTurn
  <2>2. \A j \in 1 .. Len(got) : got[j] = j
    BY <2>1
  <2> QED
    BY <1>3, <2>1, <2>2
<1>5. OwedFor(got, Append(stream, kind)) = OwedFor(got, stream)
  BY <1>3, <1>4, OwedForKept
<1>6. OwedFor(got', stream') = OwedFor(got, stream)
  BY <1>1, <1>2, <1>5
<1>7. Len(stream') <= MaxFrames
  <2>1. Len(stream') = Len(stream) + 1
    BY <1>1, <1>3
  <2> QED
    BY <1>2, <1>3, <2>1
<1> QED
  BY <1>2, <1>6, <1>7 DEF AnswersInv, Carries

\* Closing leaves what waits where it is.
LEMMA ClosingAnswers ==
  ASSUME AnswersInv,
         NEW b \in Sockets, Tended(b), Sized(b), b.write_buf = bs.write_buf,
         NEW who, CloseSocket(b, who), UNCHANGED <<written, stream, got>>
  PROVE  AnswersInv'
<1> DEFINE w == buffered_socket_close(b)
<1>1. w.state = "DISCONNECTED" /\ w.write_buf = b.write_buf
  BY CloseIs
<1>2. bs' = w
  BY DEF CloseSocket
<1> HIDE DEF w
<1> QED
  BY <1>1, <1>2, AnswersKept

LEMMA NextAnswers ==
  ASSUME WithinInt, AnswerRoom, IInv, StreamInv, AnswersInv, [Next]_vars
  PROVE  AnswersInv'
<1> DEFINE b0 == [bs EXCEPT !.once = FALSE]
           stalled == write_progressed(bs, 0)
<1>1. bs \in Sockets /\ Tended(bs) /\ Sized(bs) /\ SocketInv(bs)
  BY DataInvFields
<1>2. b0 \in Sockets /\ Tended(b0) /\ Sized(b0) /\ b0.write_buf = bs.write_buf
  <2>1. /\ b0 \in Sockets /\ b0.state = bs.state /\ b0.timer = bs.timer
        /\ b0.once = FALSE /\ b0.fd = bs.fd
        /\ b0.read_ev = bs.read_ev /\ b0.write_ev = bs.write_ev
        /\ b0.read_buf = bs.read_buf /\ b0.write_buf = bs.write_buf
    BY ONLY <1>1 DEF Sockets
  <2> HIDE DEF b0
  <2> QED
    BY ONLY <1>1, <2>1 DEF Tended, Sized
<1>3. /\ stalled \in Sockets /\ Tended(stalled) /\ Sized(stalled)
      /\ stalled.write_buf = bs.write_buf
  <2>1. 0 \in 0 .. bs.write_buf.offset
    BY DataInvFields
  <2> QED
    BY <1>1, <2>1, ProgressIs
<1> HIDE DEF b0, stalled
<1>4. CASE nsqd_connection_connect
  <2>1. bs.state = "INIT" /\ UNCHANGED <<written, stream, got>>
    BY <1>4 DEF nsqd_connection_connect
  <2>2. bs'.state = "CONNECTING" /\ bs'.write_buf = bs.write_buf
    <3>1. bs' = connect_started(bs)
      BY <1>4 DEF nsqd_connection_connect
    <3> QED
      BY ONLY <1>1, <3>1 DEF connect_started, Sockets
  <2> QED
    BY <2>1, <2>2, AnswersKept
<1>5. CASE nsqd_connection_disconnect
  BY <1>1, <1>5, ClosingAnswers DEF nsqd_connection_disconnect
<1>6. CASE connect_cb_fails
  BY <1>2, <1>6, ClosingAnswers DEF connect_cb_fails, b0
<1>7. CASE connect_cb_succeeds
  BY <1>7, ConnectedAnswers
<1>8. CASE read_cb_receives
  <2>1. PICK n \in 1 .. Len(received) :
          /\ Readable(n)
          /\ \E room \in Received(bs.read_buf, n, SubSeq(received, 1, n)) :
               bs' = read_arrived(bs, room)
    BY <1>8 DEF read_cb_receives
  <2>2. PICK room \in Received(bs.read_buf, n, SubSeq(received, 1, n)) :
          bs' = read_arrived(bs, room)
    BY <2>1
  <2>3. bs'.write_buf = bs.write_buf /\ bs'.state = bs.state
    BY <1>1, <1>8, <2>1, <2>2, DataInvFields, ReceivingSocket DEF read_cb_receives
  <2>4. UNCHANGED <<written, stream, got>>
    BY <1>8 DEF read_cb_receives
  <2> QED
    BY <2>3, <2>4, AnswersKept
<1>9. CASE read_cb_refused
  BY <1>1, <1>9, ClosingAnswers DEF read_cb_refused
<1>10. CASE read_cb_end
  BY <1>1, <1>10, ClosingAnswers DEF read_cb_end
<1>11. CASE nsqd_connection_read_size
  <2>1. bs'.write_buf = bs.write_buf /\ bs'.state = bs.state
    BY <1>1, <1>11, DataInvFields, SizeSocket
  <2>2. UNCHANGED <<written, stream, got>>
    BY <1>11 DEF nsqd_connection_read_size
  <2> QED
    BY <2>1, <2>2, AnswersKept
<1>12. CASE nsqd_connection_read_data
  BY <1>12, AnsweredAnswers
<1>13. CASE write_cb_sends
  <2>1. PICK k \in 1 .. bs.write_buf.offset :
          /\ bs' = write_progressed(bs, k)
          /\ written' = written \o SubSeq(bs.write_buf.bytes, 1, k)
    BY <1>13 DEF write_cb_sends, BUFFER_HAS_DATA
  <2>2. /\ bs'.state = bs.state
        /\ written' \o bs'.write_buf.bytes = written \o bs.write_buf.bytes
    BY <1>1, <2>1, DataInvFields, SendingSocket
  <2>3. bs.state = "CONNECTED" /\ UNCHANGED <<stream, got>>
    BY <1>1, <1>13 DEF write_cb_sends, Tended
  <2> QED
    BY <2>2, <2>3, AnswersKept
<1>14. CASE write_cb_empty
  BY <1>3, <1>14, ClosingAnswers DEF write_cb_empty, stalled
<1>15. CASE write_cb_fails
  BY <1>3, <1>15, ClosingAnswers DEF write_cb_fails, stalled
<1>16. CASE nsqd_sends
  BY <1>16, SendAnswers
<1>17. CASE nsqd_goes
  BY <1>17, AnswersKept DEF nsqd_goes
<1>18. CASE Over \/ UNCHANGED vars
  BY <1>18, AnswersKept DEF Over, vars
<1> QED
  BY <1>4, <1>5, <1>6, <1>7, <1>8, <1>9, <1>10, <1>11, <1>12, <1>13, <1>14, <1>15,
     <1>16, <1>17, <1>18 DEF Next

(***************************************************************************)
(* nsqd is sent the opening and then, for each frame handled, its answer,  *)
(* complete and in order, however sends are cut short, if the write buffer *)
(* can take what is owed at most.  Without that room a command may be      *)
(* dropped (FramingKept says that it is dropped whole).                    *)
(***************************************************************************)
THEOREM AnswersOrdered ==
  ASSUME WithinInt, AnswerRoom
  PROVE  Spec => []AnswersInOrder
<1>1. Init => AnswersInv
  BY InitAnswers
<1>2. (IInv /\ StreamInv) /\ AnswersInv /\ [Next]_vars => AnswersInv'
  BY NextAnswers
<1>3. IInv /\ StreamInv /\ AnswersInv => AnswersInOrder
  <2> SUFFICES ASSUME IInv, StreamInv, AnswersInv PROVE AnswersInOrder
    OBVIOUS
  <2> DEFINE t == bs.write_buf.bytes
             s == written \o t
             cs == OwedFor(got, stream)
             E == Encoding(cs)
  <2>1. written \in Seq(WriteByte) /\ t \in Seq(WriteByte) /\ got \in Seq(Nat) /\ 0 \in Nat
    BY DataInvFields, SocketFields
  <2>2. cs \in Seq(Command)
    BY <2>1, OwedForAppend
  <2>3. E \in Seq(WriteByte) /\ IsPrefix(s, E)
    BY <2>2, EncodingIs DEF AnswersInv
  <2>4. s \in Seq(WriteByte) /\ IsPrefix(written, s)
    BY <2>1, PrefixOfConcat
  <2>5. bs.state = "CONNECTED" => s = E
    BY DEF AnswersInv, Carries
  <2> HIDE DEF s, E
  <2>6. IsPrefix(written, E)
    BY <2>1, <2>3, <2>4, PrefixTransitive
  <2> QED
    BY <2>5, <2>6, OwedIsOwedFor DEF AnswersInOrder, s, E
<1> QED
  BY <1>1, <1>2, <1>3, InvariantStream, PTL DEF Spec
===============================================================================

--------------------------- MODULE ServerStream_proof ---------------------------
(***************************************************************************)
(* What MainSocket and ServerStream promise, for any number of             *)
(* bufferevents, any threshold, messages of any bytes and any length, and  *)
(* a copy of any size.                                                     *)
(*                                                                         *)
(* That messages are treated as they were sent takes three facts: escaping *)
(* is undone by unescaping and leaves no magic character (AllEscapeWell);  *)
(* hence a frame is found where it begins, whatever follows it, and not    *)
(* before it is there as a whole (FullFrame, PartOfFrame); and the bytes   *)
(* that arrived and are not used yet, followed by those still to come, are *)
(* the frames of the messages sent and not treated (Flows).  The last is   *)
(* the invariant.                                                          *)
(*                                                                         *)
(* FlattenSeq chooses the function that adds its sequences up, and the     *)
(* operators that use it are proved about by induction on a length.  The   *)
(* induction is over a set of naturals (NatInd).                           *)
(***************************************************************************)
EXTENDS ServerStream, SequenceTheorems, FiniteSetTheorems, WellFoundedInduction, TLAPS

-----------------------------------------------------------------------------
(* Naturals, parts of sequences and FlattenSeq.                              *)

LEMMA LeastNat ==
  ASSUME NEW T \in SUBSET Nat, T # {}
  PROVE  \E x \in T : \A y \in T : x <= y
  <1> DEFINE R == {ss \in Nat \X Nat : ss[1] < ss[2]}
  <1>1. R = OpToRel(<, Nat)
    BY DEF OpToRel
  <1>2. IsWellFoundedOn(R, Nat)
    BY <1>1, NatLessThanWellFounded
  <1>3. PICK x \in T : \A y \in T : <<y, x>> \notin R
    <2> HIDE DEF R
    <2> QED  BY <1>2, WFMin
  <1>4. ASSUME NEW y \in T, y < x
        PROVE  <<y, x>> \in R
    BY <1>4
  <1>5. \A y \in T : ~(y < x)
    BY <1>3, <1>4
  <1> QED  BY <1>5

LEMMA NatInd ==
  ASSUME NEW S, 0 \in S, \A n \in Nat : n \in S => n + 1 \in S
  PROVE  Nat \subseteq S
  <1>1. SUFFICES ASSUME Nat \ S # {} PROVE FALSE
    OBVIOUS
  <1>2. PICK x \in Nat \ S : \A y \in Nat \ S : x <= y
    BY <1>1, LeastNat
  <1>3. x # 0 /\ x - 1 \in Nat
    BY <1>2
  <1>4. x - 1 \in S
    BY <1>2, <1>3
  <1> QED  BY <1>3, <1>4

\* The elements of s from a + 1 to b.
LEMMA Slice ==
  ASSUME NEW T, NEW s \in Seq(T), NEW a \in Nat, NEW b \in Nat, a <= b, b <= Len(s)
  PROVE  /\ SubSeq(s, a + 1, b) \in Seq(T)
         /\ Len(SubSeq(s, a + 1, b)) = b - a
         /\ \A i \in 1..(b - a) : SubSeq(s, a + 1, b)[i] = s[a + i]
  <1> DEFINE r == SubSeq(s, a + 1, b)
  <1>1. \A i \in (a + 1)..b : s[i] \in T
    <2>1. Len(s) \in Nat /\ \A i \in 1..Len(s) : s[i] \in T
      BY LenProperties, ElementOfSeq
    <2> QED  BY <2>1
  <1>2. /\ r \in Seq(T) /\ Len(r) = IF a + 1 <= b THEN b - (a + 1) + 1 ELSE 0
        /\ \A i \in 1..(b - (a + 1) + 1) : r[i] = s[(a + 1) + i - 1]
    <2>1. a + 1 \in Int /\ b \in Int
      OBVIOUS
    <2> QED  BY <1>1, <2>1, SubSeqProperties
  <1> HIDE DEF r
  <1>3. Len(r) = b - a
    BY <1>2
  <1>4. ASSUME NEW i \in 1..(b - a) PROVE r[i] = s[a + i]
    <2>1. i \in 1..(b - (a + 1) + 1) /\ (a + 1) + i - 1 = a + i
      OBVIOUS
    <2> QED  BY <1>2, <2>1
  <1> QED  BY <1>2, <1>3, <1>4 DEF r

\* The elements of s after the first a.
LEMMA After ==
  ASSUME NEW T, NEW s \in Seq(T), NEW a \in Nat, a <= Len(s)
  PROVE  /\ SubSeq(s, a + 1, Len(s)) \in Seq(T)
         /\ Len(SubSeq(s, a + 1, Len(s))) = Len(s) - a
         /\ \A i \in 1..(Len(s) - a) : SubSeq(s, a + 1, Len(s))[i] = s[a + i]
  <1> DEFINE b == Len(s)
  <1>1. b \in Nat /\ a <= b /\ b <= Len(s)
    BY LenProperties
  <1>2. /\ SubSeq(s, a + 1, b) \in Seq(T)
        /\ Len(SubSeq(s, a + 1, b)) = b - a
        /\ \A i \in 1..(b - a) : SubSeq(s, a + 1, b)[i] = s[a + i]
    <2> HIDE DEF b
    <2> QED  BY <1>1, Slice
  <1> QED  BY <1>2

\* The sums of the first sequences of ss, as FlattenSeq adds them up.
IsFlat(f, ss) ==
  f = [i \in 1..Len(ss) |-> IF i = 1 THEN ss[i] ELSE f[i-1] \o ss[i]]

LEMMA FlatValue ==
  ASSUME NEW f, NEW ss, IsFlat(f, ss), NEW i \in 1..Len(ss)
  PROVE  f[i] = IF i = 1 THEN ss[i] ELSE f[i-1] \o ss[i]
  <1> DEFINE h == f
  <1>1. f = [j \in 1..Len(ss) |-> IF j = 1 THEN ss[j] ELSE h[j-1] \o ss[j]]
    BY DEF IsFlat
  <1> HIDE DEF h
  <1>2. f[i] = IF i = 1 THEN ss[i] ELSE h[i-1] \o ss[i]
    BY <1>1
  <1> QED  BY <1>2 DEF h

LEMMA FlatExists ==
  ASSUME NEW T, NEW ss \in Seq(Seq(T))
  PROVE  \E f : IsFlat(f, ss) /\ f \in [1..Len(ss) -> Seq(T)]
  <1> DEFINE Upto(n, f) == /\ f \in [1..n -> Seq(T)]
                           /\ \A i \in 1..n : f[i] = IF i = 1 THEN ss[i] ELSE f[i-1] \o ss[i]
             Some(n) == \E f : Upto(n, f)
             S == {n \in Nat : n <= Len(ss) => Some(n)}
  <1>1. 0 \in S
    <2>1. Upto(0, [i \in 1..0 |-> <<>>])
      OBVIOUS
    <2>2. Some(0)
      BY <2>1
    <2> HIDE DEF Some
    <2> QED  BY <2>2
  <1>2. ASSUME NEW n \in Nat, n \in S
        PROVE  n + 1 \in S
    <2> HIDE DEF Some
    <2>1. SUFFICES ASSUME n + 1 <= Len(ss) PROVE Some(n + 1)
      BY <1>2
    <2>a. Some(n)
      BY <1>2, <2>1, LenProperties
    <2> USE DEF Some
    <2>2. PICK f : Upto(n, f)
      BY <2>a
    <2>3. ss[n+1] \in Seq(T)
      BY <2>1, LenProperties
    <2> DEFINE last == IF n = 0 THEN ss[1] ELSE f[n] \o ss[n+1]
               g == [i \in 1..n+1 |-> IF i = n + 1 THEN last ELSE f[i]]
    <2>4. last \in Seq(T)
      BY <2>2, <2>3, ConcatProperties
    <2>5. g \in [1..n+1 -> Seq(T)]
      <3> HIDE DEF last
      <3> QED  BY <2>2, <2>4
    <2>6. ASSUME NEW i \in 1..n+1
          PROVE  g[i] = IF i = 1 THEN ss[i] ELSE g[i-1] \o ss[i]
      <3>1. CASE i = n + 1
        <4>1. g[i] = last
          BY <3>1
        <4>2. i # 1 => g[i-1] = f[n]
          BY <3>1
        <4> QED  BY <3>1, <4>1, <4>2
      <3>2. CASE i # n + 1
        <4>1. i \in 1..n /\ g[i] = f[i] /\ (i # 1 => g[i-1] = f[i-1])
          BY <3>2
        <4> QED  BY <4>1, <2>2
      <3> QED  BY <3>1, <3>2
    <2> QED  BY <2>5, <2>6
  <1> HIDE DEF S
  <1>3. Len(ss) \in S
    BY <1>1, <1>2, NatInd, LenProperties
  <1>4. PICK f : Upto(Len(ss), f)
    BY <1>3, LenProperties DEF S
  <1>5. f = [i \in 1..Len(ss) |-> IF i = 1 THEN ss[i] ELSE f[i-1] \o ss[i]]
    BY <1>4
  <1> QED  BY <1>4, <1>5 DEF IsFlat

\* What is summed up of the first sequences does not depend on those that follow.
LEMMA FlatUnique ==
  ASSUME NEW ss, NEW tt, NEW f, NEW g, IsFlat(f, ss), IsFlat(g, tt),
         Len(ss) \in Nat, Len(tt) \in Nat, Len(ss) <= Len(tt),
         \A i \in 1..Len(ss) : ss[i] = tt[i]
  PROVE  \A i \in 1..Len(ss) : f[i] = g[i]
  <1> DEFINE m == Len(ss)
  <1>0. m \in Nat /\ Len(tt) \in Nat /\ m <= Len(tt)
    OBVIOUS
  <1> DEFINE S == {n \in Nat : n \in 1..m => f[n] = g[n]}
  <1>1. 0 \in S
    OBVIOUS
  <1>2. ASSUME NEW n \in Nat, n \in S
        PROVE  n + 1 \in S
    <2>1. SUFFICES ASSUME n + 1 <= m PROVE f[n+1] = g[n+1]
      BY <1>0, <1>2
    <2>2. n + 1 \in 1..Len(ss) /\ n + 1 \in 1..Len(tt) /\ n + 1 \in 1..m
      BY <1>0, <2>1
    <2>3. /\ f[n+1] = IF n + 1 = 1 THEN ss[n+1] ELSE f[n] \o ss[n+1]
          /\ g[n+1] = IF n + 1 = 1 THEN tt[n+1] ELSE g[n] \o tt[n+1]
      BY <2>2, FlatValue
    <2>4. ss[n+1] = tt[n+1]
      BY <2>2
    <2>5. n # 0 => f[n] = g[n]
      BY <1>2, <2>1
    <2> QED  BY <2>3, <2>4, <2>5
  <1> HIDE DEF S
  <1>3. Nat \subseteq S
    BY <1>1, <1>2, NatInd
  <1> QED  BY <1>3 DEF S

LEMMA FlattenEmpty == FlattenSeq(<<>>) = <<>>
  BY DEF FlattenSeq

LEMMA FlattenIsLast ==
  ASSUME NEW T, NEW ss \in Seq(Seq(T)), ss # <<>>
  PROVE  \E f : IsFlat(f, ss) /\ FlattenSeq(ss) = f[Len(ss)]
  <1> DEFINE f == CHOOSE f : IsFlat(f, ss)
  <1>1. IsFlat(f, ss)
    BY FlatExists
  <1>2. Len(ss) # 0
    BY LenProperties
  <1>3. FlattenSeq(ss) = f[Len(ss)]
    BY <1>2 DEF FlattenSeq, IsFlat
  <1> QED  BY <1>1, <1>3

LEMMA FlattenIsSeq ==
  ASSUME NEW T, NEW ss \in Seq(Seq(T))
  PROVE  FlattenSeq(ss) \in Seq(T)
  <1>1. CASE ss = <<>>
    <2>1. <<>> \in Seq(T)
      OBVIOUS
    <2> QED  BY <1>1, <2>1, FlattenEmpty
  <1>2. CASE ss # <<>>
    <2>1. PICK f : IsFlat(f, ss) /\ f \in [1..Len(ss) -> Seq(T)]
      BY FlatExists
    <2>2. PICK g : IsFlat(g, ss) /\ FlattenSeq(ss) = g[Len(ss)]
      BY <1>2, FlattenIsLast
    <2>3. Len(ss) \in Nat /\ Len(ss) \in 1..Len(ss)
      BY <1>2, LenProperties, EmptySeq
    <2>4. \A i \in 1..Len(ss) : f[i] = g[i]
      <3>1. /\ IsFlat(f, ss) /\ IsFlat(g, ss) /\ Len(ss) \in Nat /\ Len(ss) <= Len(ss)
            /\ \A i \in 1..Len(ss) : ss[i] = ss[i]
        BY <2>1, <2>2, <2>3
      <3> QED  BY ONLY <3>1, FlatUnique
    <2> QED  BY <2>1, <2>2, <2>3, <2>4
  <1> QED  BY <1>1, <1>2

LEMMA FlattenAppend ==
  ASSUME NEW T, NEW ss \in Seq(Seq(T)), NEW s \in Seq(T)
  PROVE  FlattenSeq(Append(ss, s)) = FlattenSeq(ss) \o s
  <1> DEFINE tt == Append(ss, s)
  <1>1. /\ tt \in Seq(Seq(T)) /\ tt # <<>> /\ Len(tt) = Len(ss) + 1 /\ Len(ss) \in Nat
        /\ \A i \in 1..Len(ss) : tt[i] = ss[i]
        /\ tt[Len(ss) + 1] = s
    BY AppendProperties, LenProperties
  <1> HIDE DEF tt
  <1>2. PICK g : IsFlat(g, tt) /\ FlattenSeq(tt) = g[Len(tt)]
    BY <1>1, FlattenIsLast
  <1>3. g[Len(tt)] = IF Len(tt) = 1 THEN s ELSE g[Len(ss)] \o s
    <2>1. Len(tt) \in 1..Len(tt)
      BY <1>1
    <2> QED  BY <1>1, <1>2, <2>1, FlatValue
  <1>4. CASE ss = <<>>
    <2>1. FlattenSeq(tt) = s
      BY <1>1, <1>2, <1>3, <1>4
    <2> QED  BY <2>1, <1>4, FlattenEmpty, ConcatEmptySeq DEF tt
  <1>5. CASE ss # <<>>
    <2>1. PICK f : IsFlat(f, ss) /\ FlattenSeq(ss) = f[Len(ss)]
      BY <1>5, FlattenIsLast
    <2>2. Len(ss) \in 1..Len(ss)
      BY <1>1, <1>5, LenProperties
    <2>3. \A i \in 1..Len(ss) : f[i] = g[i]
      <3>1. /\ Len(ss) \in Nat /\ Len(tt) \in Nat /\ Len(ss) <= Len(tt)
            /\ \A i \in 1..Len(ss) : ss[i] = tt[i]
            /\ IsFlat(f, ss) /\ IsFlat(g, tt)
        BY <1>1, <1>2, <2>1
      <3> QED  BY ONLY <3>1, FlatUnique, SMTT(20)
    <2>4. f[Len(ss)] = g[Len(ss)]
      BY <2>2, <2>3
    <2>5. g[Len(tt)] = g[Len(ss)] \o s
      BY <1>1, <1>3, <2>2
    <2> QED  BY <1>2, <2>1, <2>4, <2>5 DEF tt
  <1> QED  BY <1>4, <1>5

-----------------------------------------------------------------------------
(* The check byte, escaping and unescaping.                                  *)

Byte == 0..255

LEMMA BytesJoin == \A x, y, z \in Seq(Byte) : (x \o y) \o z = x \o (y \o z)
  <1>1. ASSUME NEW x \in Seq(Byte), NEW y \in Seq(Byte), NEW z \in Seq(Byte)
        PROVE  (x \o y) \o z = x \o (y \o z)
    BY ConcatAssociative
  <1> QED  BY <1>1

LEMMA MessagesJoin == \A x, y, z \in Seq(Messages) : (x \o y) \o z = x \o (y \o z)
  <1>1. ASSUME NEW x \in Seq(Messages), NEW y \in Seq(Messages), NEW z \in Seq(Messages)
        PROVE  (x \o y) \o z = x \o (y \o z)
    BY ConcatAssociative
  <1> QED  BY <1>1

LEMMA BytesCancel == \A x, y, z \in Seq(Byte) : x \o y = x \o z => y = z
  BY ConcatSimplifications

LEMMA BytesWhole == \A x \in Seq(Byte) : SubSeq(x, 0 + 1, Len(x)) = x
  <1>1. 0 + 1 = 1
    OBVIOUS
  <1> QED  BY <1>1, SubSeqFull

LEMMA OddIsBit ==
  ASSUME NEW s \in Seq(Byte), NEW bit
  PROVE  Odd(s, bit) \in 0..1
  <1> DEFINE I == {i \in DOMAIN s : (s[i] \div bit) % 2 = 1}
  <1>0. I \subseteq DOMAIN s
    OBVIOUS
  <1> HIDE DEF I
  <1>1. IsFiniteSet(1..Len(s)) /\ I \subseteq 1..Len(s)
    <2>1. DOMAIN s = 1..Len(s) /\ Len(s) \in Int /\ 1 \in Int
      BY LenProperties
    <2> QED  BY <1>0, <2>1, FS_Interval
  <1>2. Cardinality(I) \in Nat
    BY <1>1, FS_Subset, FS_CardinalityType
  <1>3. ASSUME NEW n \in Nat PROVE n % 2 \in 0..1
    BY Z3
  <1>4. Odd(s, bit) = Cardinality(I) % 2
    BY DEF Odd, I
  <1> QED  BY <1>2, <1>3, <1>4

LEMMA CheckIsByte ==
  ASSUME NEW s \in Seq(Byte)
  PROVE  Check(s) \in Byte
  <1>1. \A bit : Odd(s, bit) \in 0..1
    BY OddIsBit
  <1> DEFINE a == Odd(s, 1)
             b == Odd(s, 2)
             c == Odd(s, 4)
             d == Odd(s, 8)
             e == Odd(s, 16)
             f == Odd(s, 32)
             g == Odd(s, 64)
             h == Odd(s, 128)
  <1>2. /\ a \in 0..1 /\ b \in 0..1 /\ c \in 0..1 /\ d \in 0..1
        /\ e \in 0..1 /\ f \in 0..1 /\ g \in 0..1 /\ h \in 0..1
    BY <1>1
  <1>3. Check(s) = a + 2 * b + 4 * c + 8 * d + 16 * e + 32 * f + 64 * g + 128 * h
    BY DEF Check
  <1> HIDE DEF a, b, c, d, e, f, g, h
  <1> QED  BY <1>2, <1>3 DEF Byte

\* What Escape writes for one byte.
Code(c) ==
  IF c = ESCAPE_CHAR THEN <<ESCAPE_CHAR, 1>>
  ELSE IF c = MAGIC_CHAR THEN <<ESCAPE_CHAR, 2>> ELSE <<c>>

LEMMA CodeIsBytes ==
  ASSUME NEW c \in Byte
  PROVE  Code(c) \in Seq(Byte)
  <1>1. 125 \in Byte /\ 1 \in Byte /\ 2 \in Byte
    BY DEF Byte
  <1>2. \A x, y \in Byte : <<x>> \in Seq(Byte) /\ <<x, y>> \in Seq(Byte)
    OBVIOUS
  <1> QED  BY <1>1, <1>2 DEF Code, ESCAPE_CHAR

LEMMA EscapeEmpty == Escape(<<>>) = <<>>
  <1>1. [i \in DOMAIN <<>> |-> Code(<<>>[i])] = <<>>
    OBVIOUS
  <1> QED  BY <1>1, FlattenEmpty DEF Escape, Code

LEMMA EscapeAppend ==
  ASSUME NEW t \in Seq(Byte), NEW c \in Byte
  PROVE  Escape(Append(t, c)) = Escape(t) \o Code(c)
  <1> DEFINE u == Append(t, c)
             tc == [i \in DOMAIN t |-> Code(t[i])]
             uc == [i \in DOMAIN u |-> Code(u[i])]
  <1>1. /\ u \in Seq(Byte) /\ Len(t) \in Nat /\ Len(u) = Len(t) + 1
        /\ \A i \in 1..Len(t) : u[i] = t[i] /\ t[i] \in Byte
        /\ u[Len(t) + 1] = c
        /\ DOMAIN t = 1..Len(t) /\ DOMAIN u = 1..Len(u)
    BY AppendProperties, LenProperties, ElementOfSeq
  <1> HIDE DEF u
  <1>2. tc \in Seq(Seq(Byte)) /\ Len(tc) = Len(t)
    <2>1. \A i \in 1..Len(t) : Code(t[i]) \in Seq(Byte)
      BY <1>1, CodeIsBytes
    <2>2. tc \in [1..Len(t) -> Seq(Byte)]
      BY <1>1, <2>1
    <2> QED  BY <1>1, <2>2
  <1>3. uc = Append(tc, Code(c))
    <2>1. /\ Append(tc, Code(c)) \in Seq(Seq(Byte))
          /\ Len(Append(tc, Code(c))) = Len(t) + 1
          /\ \A i \in 1..Len(t) : Append(tc, Code(c))[i] = tc[i]
          /\ Append(tc, Code(c))[Len(t) + 1] = Code(c)
      <3> HIDE DEF tc
      <3> QED  BY <1>2, CodeIsBytes, AppendProperties
    <2>2. uc \in Seq(Seq(Byte)) /\ Len(uc) = Len(t) + 1
      <3>1. \A i \in 1..Len(u) : Code(u[i]) \in Seq(Byte)
        BY <1>1, CodeIsBytes, ElementOfSeq
      <3>2. uc \in [1..Len(u) -> Seq(Byte)]
        BY <1>1, <3>1
      <3> QED  BY <1>1, <3>2
    <2>3. ASSUME NEW i \in 1..Len(t) + 1
          PROVE  uc[i] = Append(tc, Code(c))[i]
      <3>1. uc[i] = Code(u[i])
        BY <1>1
      <3>2. i \in 1..Len(t) => tc[i] = Code(t[i])
        BY <1>1
      <3> HIDE DEF uc, tc
      <3> QED  BY <1>1, <2>1, <3>1, <3>2
    <2> HIDE DEF uc
    <2>4. Len(uc) = Len(Append(tc, Code(c))) /\ \A i \in 1..Len(uc) : uc[i] = Append(tc, Code(c))[i]
      BY <2>1, <2>2, <2>3
    <2> QED  BY <2>1, <2>2, <2>4, SeqEqual
  <1>4. Escape(t) = FlattenSeq(tc) /\ Escape(u) = FlattenSeq(uc)
    BY DEF Escape, Code
  <1> HIDE DEF tc, uc
  <1>5. FlattenSeq(uc) = FlattenSeq(tc) \o Code(c)
    BY <1>2, <1>3, CodeIsBytes, FlattenAppend
  <1> QED  BY <1>4, <1>5 DEF u

\* What Unescape makes of every byte of x.
Pieces(x) ==
  [i \in DOMAIN x |->
     IF x[i] = ESCAPE_CHAR THEN <<IF x[i+1] = 1 THEN ESCAPE_CHAR ELSE MAGIC_CHAR>>
     ELSE IF i > 1 /\ x[i-1] = ESCAPE_CHAR THEN <<>> ELSE <<x[i]>>]

LEMMA UnescapeIsPieces ==
  ASSUME NEW x, ~BadEscape(x)
  PROVE  Unescape(x) = FlattenSeq(Pieces(x))
  BY DEF Unescape, Pieces

LEMMA PiecesAreSeqs ==
  ASSUME NEW x \in Seq(Byte)
  PROVE  Pieces(x) \in Seq(Seq(Byte)) /\ Len(Pieces(x)) = Len(x)
  <1> DEFINE piece(i) == IF x[i] = ESCAPE_CHAR THEN <<IF x[i+1] = 1 THEN ESCAPE_CHAR ELSE MAGIC_CHAR>>
                         ELSE IF i > 1 /\ x[i-1] = ESCAPE_CHAR THEN <<>> ELSE <<x[i]>>
  <1>1. ASSUME NEW i \in 1..Len(x)
        PROVE  piece(i) \in Seq(Byte)
    <2>1. \A c \in Byte : <<c>> \in Seq(Byte)
      OBVIOUS
    <2>2. x[i] \in Byte /\ ESCAPE_CHAR \in Byte /\ MAGIC_CHAR \in Byte
      BY ElementOfSeq DEF Byte, ESCAPE_CHAR, MAGIC_CHAR
    <2>3. <<>> \in Seq(Byte)
      OBVIOUS
    <2> QED  BY <2>1, <2>2, <2>3
  <1>2. Pieces(x) = [i \in 1..Len(x) |-> piece(i)]
    <2>1. DOMAIN x = 1..Len(x)
      BY LenProperties
    <2> QED  BY <2>1 DEF Pieces
  <1> HIDE DEF piece
  <1>3. Len(x) \in Nat
    BY LenProperties
  <1>4. Pieces(x) \in [1..Len(x) -> Seq(Byte)]
    BY <1>1, <1>2
  <1> QED  BY <1>3, <1>4

\* A byte that is no escape is unescaped to itself.
LEMMA UnescapePlain ==
  ASSUME NEW x \in Seq(Byte), ~BadEscape(x), NEW c \in Byte, c # ESCAPE_CHAR
  PROVE  /\ ~BadEscape(Append(x, c))
         /\ Unescape(Append(x, c)) = Unescape(x) \o <<c>>
  <1> DEFINE y == Append(x, c)
             n == Len(x)
  <1>1. /\ n \in Nat /\ y \in Seq(Byte) /\ Len(y) = n + 1 /\ y[n + 1] = c
        /\ \A i \in 1..n : y[i] = x[i]
        /\ DOMAIN x = 1..n /\ DOMAIN y = 1..(n + 1)
    BY AppendProperties, LenProperties
  <1> HIDE DEF y, n
  <1>2. \A i \in 1..n : x[i] = ESCAPE_CHAR => i + 1 \in 1..n /\ x[i+1] \in {1, 2}
    BY <1>1 DEF BadEscape, n
  <1>3. ~BadEscape(y)
    <2>1. SUFFICES ASSUME NEW i \in 1..(n + 1), y[i] = ESCAPE_CHAR
                   PROVE  i # n + 1 /\ y[i+1] \in {1, 2}
      BY <1>1 DEF BadEscape
    <2>2. i \in 1..n
      BY <1>1, <2>1
    <2>3. x[i] = ESCAPE_CHAR
      BY <1>1, <2>1, <2>2
    <2> QED  BY <1>1, <1>2, <2>2, <2>3
  <1>4. Pieces(x) \in Seq(Seq(Byte)) /\ Len(Pieces(x)) = n /\ <<c>> \in Seq(Byte)
    BY PiecesAreSeqs DEF n
  <1>5. /\ Append(Pieces(x), <<c>>) \in Seq(Seq(Byte))
        /\ Len(Append(Pieces(x), <<c>>)) = n + 1
        /\ \A i \in 1..n : Append(Pieces(x), <<c>>)[i] = Pieces(x)[i]
        /\ Append(Pieces(x), <<c>>)[n + 1] = <<c>>
    BY <1>4, AppendProperties
  <1>6. Pieces(y) \in Seq(Seq(Byte)) /\ Len(Pieces(y)) = n + 1
    BY <1>1, PiecesAreSeqs
  <1>7. ASSUME NEW i \in 1..(n + 1)
        PROVE  Pieces(y)[i] = Append(Pieces(x), <<c>>)[i]
    <2>1. CASE i = n + 1
      <3>1. n > 0 => x[n] # ESCAPE_CHAR
        BY <1>1, <1>2
      <3>2. y[i] # ESCAPE_CHAR /\ ~(i > 1 /\ y[i-1] = ESCAPE_CHAR)
        BY <1>1, <2>1, <3>1
      <3>3. Pieces(y)[i] = <<c>>
        BY <1>1, <2>1, <3>2 DEF Pieces
      <3> QED  BY <1>5, <2>1, <3>3
    <2>2. CASE i # n + 1
      <3>1. i \in 1..n /\ y[i] = x[i] /\ (i > 1 => y[i-1] = x[i-1])
        BY <1>1, <2>2
      <3>2. x[i] = ESCAPE_CHAR => y[i+1] = x[i+1]
        BY <1>1, <1>2, <3>1
      <3>3. Pieces(y)[i] = Pieces(x)[i]
        BY <1>1, <3>1, <3>2 DEF Pieces
      <3> QED  BY <1>5, <3>1, <3>3
    <2> QED  BY <2>1, <2>2
  <1>8. Pieces(y) = Append(Pieces(x), <<c>>)
    BY <1>1, <1>5, <1>6, <1>7, SeqEqual
  <1>9. Unescape(y) = Unescape(x) \o <<c>>
    <2>1. FlattenSeq(Append(Pieces(x), <<c>>)) = FlattenSeq(Pieces(x)) \o <<c>>
      BY <1>4, FlattenAppend
    <2>2. Unescape(y) = FlattenSeq(Pieces(y)) /\ Unescape(x) = FlattenSeq(Pieces(x))
      BY <1>3, UnescapeIsPieces
    <2> QED  BY <1>8, <2>1, <2>2
  <1> QED  BY <1>3, <1>9 DEF y

\* An escape followed by 1 or 2 is unescaped to the byte it stands for.
LEMMA UnescapePair ==
  ASSUME NEW x \in Seq(Byte), ~BadEscape(x), NEW k \in {1, 2}
  PROVE  /\ ~BadEscape(x \o <<ESCAPE_CHAR, k>>)
         /\ Unescape(x \o <<ESCAPE_CHAR, k>>) =
              Unescape(x) \o <<IF k = 1 THEN ESCAPE_CHAR ELSE MAGIC_CHAR>>
  <1> DEFINE y == x \o <<ESCAPE_CHAR, k>>
             n == Len(x)
             one == <<IF k = 1 THEN ESCAPE_CHAR ELSE MAGIC_CHAR>>
  <1>0. <<ESCAPE_CHAR, k>> \in Seq(Byte) /\ Len(<<ESCAPE_CHAR, k>>) = 2
    BY DEF ESCAPE_CHAR, Byte
  <1>1. /\ n \in Nat /\ y \in Seq(Byte) /\ Len(y) = n + 2
        /\ \A i \in 1..n : y[i] = x[i]
        /\ y[n + 1] = ESCAPE_CHAR /\ y[n + 2] = k
        /\ DOMAIN x = 1..n /\ DOMAIN y = 1..(n + 2)
    BY <1>0, ConcatProperties, LenProperties
  <1>a. one \in Seq(Byte) /\ k # ESCAPE_CHAR
    BY DEF ESCAPE_CHAR, MAGIC_CHAR, Byte
  <1> HIDE DEF y, n
  <1>2. \A i \in 1..n : x[i] = ESCAPE_CHAR => i + 1 \in 1..n /\ x[i+1] \in {1, 2}
    BY <1>1 DEF BadEscape, n
  <1>3. ~BadEscape(y)
    <2>1. SUFFICES ASSUME NEW i \in 1..(n + 2), y[i] = ESCAPE_CHAR
                   PROVE  i # n + 2 /\ y[i+1] \in {1, 2}
      BY <1>1 DEF BadEscape
    <2>2. CASE i = n + 1
      BY <1>1, <2>2
    <2>3. CASE i \in 1..n
      <3>1. x[i] = ESCAPE_CHAR
        BY <1>1, <2>1, <2>3
      <3> QED  BY <1>1, <1>2, <2>3, <3>1
    <2>4. i # n + 2
      BY <1>1, <1>a, <2>1
    <2> QED  BY <1>1, <2>1, <2>2, <2>3, <2>4
  <1>4. Pieces(x) \in Seq(Seq(Byte)) /\ Len(Pieces(x)) = n
    BY PiecesAreSeqs DEF n
  <1> DEFINE p == Append(Pieces(x), one)
             q == Append(p, <<>>)
  <1>5. /\ p \in Seq(Seq(Byte)) /\ Len(p) = n + 1 /\ p[n + 1] = one
        /\ \A i \in 1..n : p[i] = Pieces(x)[i]
    <2> HIDE DEF one
    <2> QED  BY <1>a, <1>4, AppendProperties
  <1>6. /\ q \in Seq(Seq(Byte)) /\ Len(q) = n + 2 /\ q[n + 2] = <<>>
        /\ \A i \in 1..(n + 1) : q[i] = p[i]
    <2> HIDE DEF p
    <2>1. <<>> \in Seq(Byte)
      OBVIOUS
    <2>2. /\ q \in Seq(Seq(Byte)) /\ Len(q) = Len(p) + 1 /\ q[Len(p) + 1] = <<>>
          /\ \A i \in 1..Len(p) : q[i] = p[i]
      BY <1>5, <2>1, AppendProperties
    <2> HIDE DEF q
    <2> QED  BY <1>1, <1>5, <2>2
  <1> HIDE DEF one, p, q
  <1>7. Pieces(y) \in Seq(Seq(Byte)) /\ Len(Pieces(y)) = n + 2
    BY <1>1, PiecesAreSeqs
  <1>8. ASSUME NEW i \in 1..(n + 2)
        PROVE  Pieces(y)[i] = q[i]
    <2>1. CASE i = n + 2
      <3>1. y[i] # ESCAPE_CHAR /\ i > 1 /\ y[i-1] = ESCAPE_CHAR
        BY <1>1, <1>a, <2>1
      <3>2. Pieces(y)[i] = <<>>
        BY <1>1, <2>1, <3>1 DEF Pieces
      <3> QED  BY <1>6, <2>1, <3>2
    <2>2. CASE i = n + 1
      <3>1. y[i] = ESCAPE_CHAR /\ y[i+1] = k
        BY <1>1, <2>2
      <3>2. Pieces(y)[i] = one
        BY <1>1, <2>2, <3>1 DEF Pieces, one
      <3>3. q[i] = p[n + 1]
        <4>1. n + 1 \in 1..(n + 1)
          BY <1>1
        <4> QED  BY <1>6, <2>2, <4>1
      <3> QED  BY <1>5, <3>2, <3>3
    <2>3. CASE i \in 1..n
      <3>1. i \in 1..n /\ y[i] = x[i] /\ (i > 1 => y[i-1] = x[i-1])
        BY <1>1, <2>3
      <3>2. x[i] = ESCAPE_CHAR => y[i+1] = x[i+1]
        BY <1>1, <1>2, <3>1
      <3>3. Pieces(y)[i] = Pieces(x)[i]
        BY <1>1, <3>1, <3>2 DEF Pieces
      <3>4. i \in 1..(n + 1)
        BY <1>1, <2>3
      <3>5. q[i] = p[i] /\ p[i] = Pieces(x)[i]
        BY <1>5, <1>6, <2>3, <3>4
      <3> QED  BY <3>3, <3>5
    <2> QED  BY <1>1, <2>1, <2>2, <2>3
  <1>9. Pieces(y) = q
    BY <1>1, <1>6, <1>7, <1>8, SeqEqual
  <1>10. FlattenSeq(q) = FlattenSeq(p) \o <<>> /\ FlattenSeq(p) = FlattenSeq(Pieces(x)) \o one
    <2>1. <<>> \in Seq(Byte)
      OBVIOUS
    <2> QED  BY <1>4, <1>5, <1>a, <2>1, FlattenAppend DEF p, q
  <1>11. FlattenSeq(Pieces(x)) \in Seq(Byte)
    BY <1>4, FlattenIsSeq
  <1>12. Unescape(y) = Unescape(x) \o one
    <2>1. FlattenSeq(p) \in Seq(Byte)
      BY <1>a, <1>10, <1>11, ConcatProperties
    <2>2. FlattenSeq(p) \o <<>> = FlattenSeq(p)
      BY <2>1, ConcatEmptySeq
    <2> QED  BY <1>3, <1>9, <1>10, <2>2, UnescapeIsPieces
  <1> QED  BY <1>3, <1>12 DEF y, one

\* An escaped sequence has no magic character, and unescaped it is the sequence again,
\* after a magic character and without a dangling escape.
EscapesWell(t) ==
  /\ Escape(t) \in Seq(Byte)
  /\ Len(Escape(t)) >= Len(t)
  /\ \A i \in 1..Len(Escape(t)) : Escape(t)[i] # MAGIC_CHAR
  /\ ~BadEscape(<<MAGIC_CHAR>> \o Escape(t))
  /\ Unescape(<<MAGIC_CHAR>> \o Escape(t)) = <<MAGIC_CHAR>> \o t

LEMMA EscapesWellEmpty == EscapesWell(<<>>)
  <1>1. ~BadEscape(<<>>) /\ MAGIC_CHAR \in Byte /\ MAGIC_CHAR # ESCAPE_CHAR
    BY DEF BadEscape, Byte, MAGIC_CHAR, ESCAPE_CHAR
  <1>2. <<>> \in Seq(Byte) /\ Len(<<>>) = 0 /\ <<MAGIC_CHAR>> \in Seq(Byte)
    BY <1>1
  <1>3. Unescape(<<>>) = <<>>
    <2>1. Pieces(<<>>) = <<>>
      BY DEF Pieces
    <2> QED  BY <1>1, <2>1, UnescapeIsPieces, FlattenEmpty
  <1>4. Append(<<>>, MAGIC_CHAR) = <<MAGIC_CHAR>> \o <<>> /\ <<>> \o <<MAGIC_CHAR>> = <<MAGIC_CHAR>> \o <<>>
    BY <1>2, ConcatEmptySeq
  <1>5. /\ ~BadEscape(<<MAGIC_CHAR>> \o <<>>)
        /\ Unescape(<<MAGIC_CHAR>> \o <<>>) = <<MAGIC_CHAR>> \o <<>>
    BY <1>1, <1>2, <1>3, <1>4, UnescapePlain
  <1>6. \A i \in 1..Len(<<>>) : <<>>[i] # MAGIC_CHAR
    OBVIOUS
  <1>7. Len(<<>>) >= Len(<<>>)
    BY <1>2
  <1> QED  BY ONLY <1>2, <1>5, <1>6, <1>7, EscapeEmpty, Zenon DEF EscapesWell

LEMMA EscapesWellAppend ==
  ASSUME NEW t \in Seq(Byte), EscapesWell(t), NEW c \in Byte
  PROVE  EscapesWell(Append(t, c))
  <1> DEFINE e == Escape(t)
             z == <<MAGIC_CHAR>> \o e
             u == Append(t, c)
             d == Code(c)
  <1>1. /\ e \in Seq(Byte) /\ Len(e) >= Len(t) /\ \A i \in 1..Len(e) : e[i] # MAGIC_CHAR
        /\ ~BadEscape(z) /\ Unescape(z) = <<MAGIC_CHAR>> \o t
    BY DEF EscapesWell
  <1>2. Escape(u) = e \o d
    BY EscapeAppend
  <1>3. d \in Seq(Byte) /\ <<MAGIC_CHAR>> \in Seq(Byte) /\ <<c>> \in Seq(Byte)
    <2>1. MAGIC_CHAR \in Byte
      BY DEF MAGIC_CHAR, Byte
    <2> QED  BY <2>1, CodeIsBytes
  <1>4. /\ u = t \o <<c>> /\ u \in Seq(Byte) /\ Len(u) = Len(t) + 1
        /\ Len(t) \in Nat /\ Len(e) \in Nat
    BY <1>1, AppendProperties, AppendIsConcat, LenProperties
  <1>5. Len(d) \in Nat \ {0} /\ \A i \in 1..Len(d) : d[i] # MAGIC_CHAR
    BY DEF Code, ESCAPE_CHAR, MAGIC_CHAR
  <1> HIDE DEF e, u, d
  <1>6. /\ e \o d \in Seq(Byte) /\ Len(e \o d) = Len(e) + Len(d)
        /\ \A i \in 1..(Len(e) + Len(d)) : (e \o d)[i] = IF i <= Len(e) THEN e[i] ELSE d[i - Len(e)]
    BY <1>1, <1>3, ConcatProperties
  <1>7. \A i \in 1..(Len(e) + Len(d)) : (e \o d)[i] # MAGIC_CHAR
    <2>1. ASSUME NEW i \in 1..(Len(e) + Len(d)) PROVE (e \o d)[i] # MAGIC_CHAR
      <3>1. CASE i <= Len(e)
        BY <1>1, <1>4, <1>6, <3>1
      <3>2. CASE ~(i <= Len(e))
        <4>1. i - Len(e) \in 1..Len(d)
          BY <1>4, <1>5, <3>2
        <4> QED  BY <1>5, <1>6, <3>2, <4>1
      <3> QED  BY <3>1, <3>2
    <2> QED  BY <2>1
  <1>8. z \in Seq(Byte) /\ <<MAGIC_CHAR>> \o (e \o d) = z \o d
    BY <1>1, <1>3, ConcatProperties, ConcatAssociative
  <1>9. (<<MAGIC_CHAR>> \o t) \o <<c>> = <<MAGIC_CHAR>> \o u
    BY <1>3, <1>4, ConcatAssociative
  <1> HIDE DEF z
  <1>10. ~BadEscape(z \o d) /\ Unescape(z \o d) = Unescape(z) \o <<c>>
    <2>1. CASE c = ESCAPE_CHAR
      <3>1. d = <<ESCAPE_CHAR, 1>>
        BY <2>1 DEF d, Code
      <3> QED  BY <1>1, <1>8, <2>1, <3>1, UnescapePair
    <2>2. CASE c = MAGIC_CHAR
      <3>1. d = <<ESCAPE_CHAR, 2>> /\ 2 # 1
        BY <2>2 DEF d, Code, ESCAPE_CHAR, MAGIC_CHAR
      <3> QED  BY <1>1, <1>8, <2>2, <3>1, UnescapePair
    <2>3. CASE c # ESCAPE_CHAR /\ c # MAGIC_CHAR
      <3>1. d = <<c>>
        BY <2>3 DEF d, Code
      <3>2. Append(z, c) = z \o d
        BY <1>8, <3>1, AppendIsConcat
      <3> QED  BY <1>1, <1>8, <2>3, <3>2, UnescapePlain
    <2> QED  BY <2>1, <2>2, <2>3
  <1>11. Len(Escape(u)) >= Len(u)
    BY <1>1, <1>2, <1>4, <1>5, <1>6
  <1>12. /\ Escape(u) \in Seq(Byte)
         /\ \A i \in 1..Len(Escape(u)) : Escape(u)[i] # MAGIC_CHAR
    BY <1>2, <1>6, <1>7
  <1>13. /\ ~BadEscape(<<MAGIC_CHAR>> \o Escape(u))
         /\ Unescape(<<MAGIC_CHAR>> \o Escape(u)) = <<MAGIC_CHAR>> \o u
    BY <1>1, <1>2, <1>8, <1>9, <1>10
  <1>14. EscapesWell(u)
    BY <1>11, <1>12, <1>13 DEF EscapesWell
  <1> QED  BY <1>14 DEF u

LEMMA AllEscapeWell ==
  ASSUME NEW t \in Seq(Byte)
  PROVE  EscapesWell(t)
  <1> DEFINE Well(n) == \A s \in Seq(Byte) : Len(s) = n => EscapesWell(s)
             S == {n \in Nat : Well(n)}
  <1>1. Well(0)
    <2>1. \A s \in Seq(Byte) : Len(s) = 0 => s = <<>>
      BY EmptySeq
    <2> QED  BY <2>1, EscapesWellEmpty
  <1>2. ASSUME NEW n \in Nat, Well(n)
        PROVE  Well(n + 1)
    <2>1. SUFFICES ASSUME NEW s \in Seq(Byte), Len(s) = n + 1 PROVE EscapesWell(s)
      OBVIOUS
    <2>2. s # <<>>
      BY <2>1
    <2>3. PICK r \in Seq(Byte), c \in Byte : s = Append(r, c)
      BY <2>2, SequenceEmptyOrAppend
    <2>4. Len(r) = n
      BY <2>1, <2>3, AppendProperties, LenProperties
    <2> QED  BY <1>2, <2>3, <2>4, EscapesWellAppend
  <1> HIDE DEF Well
  <1>3. 0 \in S /\ \A n \in Nat : n \in S => n + 1 \in S
    BY <1>1, <1>2
  <1>4. Nat \subseteq S
    <2> HIDE DEF S
    <2> QED  BY <1>3, NatInd
  <1>5. Well(Len(t))
    BY <1>4, LenProperties
  <1> QED  BY <1>5 DEF Well

-----------------------------------------------------------------------------
(* Frames: how they look, that they are found and that they verify.          *)

LEMMA MessageBytes ==
  ASSUME NEW m \in Messages
  PROVE  m \in Seq(Byte) /\ Len(m) \in Nat /\ Len(m) >= HeaderLen
  BY StreamAssumption, LenProperties DEF Byte

\* A frame has a magic character at its two ends and nowhere else, is as long as
\* gb905_get_a_full_msg wants a message to be, and unescaped is the message again.
LEMMA FrameLooks ==
  ASSUME NEW m \in Messages
  PROVE  /\ Frame(m) \in Seq(Byte) /\ Len(Frame(m)) \in Nat
         /\ Len(Frame(m)) >= HeaderLen + 3 /\ Len(Frame(m)) >= 4
         /\ Frame(m)[1] = MAGIC_CHAR /\ Frame(m)[Len(Frame(m))] = MAGIC_CHAR
         /\ \A i \in 2..(Len(Frame(m)) - 1) : Frame(m)[i] # MAGIC_CHAR
         /\ Unescape(Frame(m)) = (<<MAGIC_CHAR>> \o Append(m, Check(m))) \o <<MAGIC_CHAR>>
  <1> DEFINE t == Append(m, Check(m))
             e == Escape(t)
             z == <<MAGIC_CHAR>> \o e
             f == z \o <<MAGIC_CHAR>>
  <1>1. /\ m \in Seq(Byte) /\ Len(m) \in Nat /\ Len(m) >= HeaderLen
        /\ HeaderLen \in Nat /\ HeaderLen >= 1
    BY MessageBytes, StreamAssumption
  <1>2. t \in Seq(Byte) /\ Len(t) = Len(m) + 1
    BY <1>1, CheckIsByte, AppendProperties
  <1> HIDE DEF t
  <1>3. /\ e \in Seq(Byte) /\ Len(e) \in Nat /\ Len(e) >= Len(t)
        /\ \A i \in 1..Len(e) : e[i] # MAGIC_CHAR
        /\ ~BadEscape(z) /\ Unescape(z) = <<MAGIC_CHAR>> \o t
    BY <1>2, AllEscapeWell, LenProperties DEF EscapesWell
  <1>4. MAGIC_CHAR \in Byte /\ MAGIC_CHAR # ESCAPE_CHAR
    BY DEF MAGIC_CHAR, ESCAPE_CHAR, Byte
  <1>5. /\ <<MAGIC_CHAR>> \in Seq(Byte) /\ Len(<<MAGIC_CHAR>>) = 1
        /\ <<MAGIC_CHAR>>[1] = MAGIC_CHAR
    BY <1>4
  <1>6. Frame(m) = f
    BY DEF Frame, t
  <1> HIDE DEF e
  <1>7. /\ z \in Seq(Byte) /\ Len(z) = Len(e) + 1
        /\ \A i \in 1..(Len(e) + 1) : z[i] = IF i <= 1 THEN MAGIC_CHAR ELSE e[i - 1]
    <2>1. /\ z \in Seq(Byte) /\ Len(z) = Len(<<MAGIC_CHAR>>) + Len(e)
          /\ \A i \in 1..(Len(<<MAGIC_CHAR>>) + Len(e)) :
               z[i] = IF i <= Len(<<MAGIC_CHAR>>) THEN <<MAGIC_CHAR>>[i] ELSE e[i - Len(<<MAGIC_CHAR>>)]
      BY <1>3, <1>5, ConcatProperties
    <2> HIDE DEF z
    <2>2. Len(z) = Len(e) + 1
      BY <1>3, <1>5, <2>1
    <2>3. ASSUME NEW i \in 1..(Len(e) + 1) PROVE z[i] = IF i <= 1 THEN MAGIC_CHAR ELSE e[i - 1]
      BY <1>3, <1>5, <2>1
    <2> QED  BY <2>1, <2>2, <2>3
  <1> HIDE DEF z
  <1>8. f = Append(z, MAGIC_CHAR)
    BY <1>4, <1>7, AppendIsConcat
  <1>9. /\ f \in Seq(Byte) /\ Len(f) = Len(e) + 2
        /\ \A i \in 1..(Len(e) + 1) : f[i] = z[i]
        /\ f[Len(e) + 2] = MAGIC_CHAR
    <2>1. /\ f \in Seq(Byte) /\ Len(f) = Len(z) + 1
          /\ \A i \in 1..Len(z) : f[i] = z[i]
          /\ f[Len(z) + 1] = MAGIC_CHAR
      BY <1>4, <1>7, <1>8, AppendProperties
    <2> HIDE DEF f
    <2>2. Len(z) + 1 = Len(e) + 2
      BY <1>3, <1>7
    <2> QED  BY <1>7, <2>1, <2>2
  <1>10. Unescape(f) = Unescape(z) \o <<MAGIC_CHAR>>
    BY <1>3, <1>4, <1>7, <1>8, UnescapePlain
  <1> HIDE DEF f
  <1>11. f[1] = MAGIC_CHAR
    BY <1>3, <1>7, <1>9
  <1>12. ASSUME NEW i \in 2..(Len(f) - 1)
         PROVE  f[i] # MAGIC_CHAR
    <2>1. i \in 1..(Len(e) + 1) /\ i - 1 \in 1..Len(e) /\ ~(i <= 1)
      BY <1>3, <1>9
    <2>2. f[i] = e[i - 1]
      BY <1>7, <1>9, <2>1
    <2> QED  BY <1>3, <2>1, <2>2
  <1>13. Len(f) \in Nat /\ Len(f) >= HeaderLen + 3 /\ Len(f) >= 4
    BY <1>1, <1>2, <1>3, <1>9
  <1>14. Unescape(f) = (<<MAGIC_CHAR>> \o t) \o <<MAGIC_CHAR>>
    BY <1>3, <1>10
  <1>15. f \in Seq(Byte) /\ f[Len(f)] = MAGIC_CHAR
    BY <1>9
  <1> QED  BY <1>6, <1>11, <1>12, <1>13, <1>14, <1>15 DEF t

\* What comes out of the check of a frame is its message.
LEMMA FrameVerifies ==
  ASSUME NEW m \in Messages
  PROVE  Verified(Frame(m)) = <<m>>
  <1> DEFINE t == Append(m, Check(m))
             y == <<MAGIC_CHAR>> \o t
             now == y \o <<MAGIC_CHAR>>
             k == Len(m)
  <1>1. m \in Seq(Byte) /\ k \in Nat
    BY MessageBytes
  <1>2. /\ t \in Seq(Byte) /\ Len(t) = k + 1 /\ t[k + 1] = Check(m)
        /\ \A i \in 1..k : t[i] = m[i]
    BY <1>1, CheckIsByte, AppendProperties
  <1>3. /\ <<MAGIC_CHAR>> \in Seq(Byte) /\ Len(<<MAGIC_CHAR>>) = 1
    BY DEF MAGIC_CHAR, Byte
  <1> HIDE DEF t
  <1>4. /\ y \in Seq(Byte) /\ Len(y) = k + 2
        /\ \A i \in 2..(k + 2) : y[i] = t[i - 1]
    <2>1. /\ y \in Seq(Byte) /\ Len(y) = Len(<<MAGIC_CHAR>>) + Len(t)
          /\ \A i \in 1..(Len(<<MAGIC_CHAR>>) + Len(t)) :
               y[i] = IF i <= Len(<<MAGIC_CHAR>>) THEN <<MAGIC_CHAR>>[i] ELSE t[i - Len(<<MAGIC_CHAR>>)]
      BY <1>2, <1>3, ConcatProperties
    <2> HIDE DEF y
    <2>2. Len(y) = k + 2
      BY <1>1, <1>2, <1>3, <2>1
    <2>3. ASSUME NEW i \in 2..(k + 2) PROVE y[i] = t[i - 1]
      BY <1>1, <1>2, <1>3, <2>1
    <2> QED  BY <2>1, <2>2, <2>3
  <1> HIDE DEF y
  <1>5. /\ now \in Seq(Byte) /\ Len(now) = k + 3
        /\ \A i \in 2..(k + 2) : now[i] = y[i]
    <2>1. /\ now \in Seq(Byte) /\ Len(now) = Len(y) + Len(<<MAGIC_CHAR>>)
          /\ \A i \in 1..(Len(y) + Len(<<MAGIC_CHAR>>)) :
               now[i] = IF i <= Len(y) THEN y[i] ELSE <<MAGIC_CHAR>>[i - Len(y)]
      BY <1>3, <1>4, ConcatProperties
    <2> HIDE DEF now
    <2>2. Len(now) = k + 3
      BY <1>1, <1>3, <1>4, <2>1
    <2>3. ASSUME NEW i \in 2..(k + 2) PROVE now[i] = y[i]
      BY <1>1, <1>3, <1>4, <2>1
    <2> QED  BY <2>1, <2>2, <2>3
  <1>6. Unescape(Frame(m)) = now
    BY FrameLooks DEF y, t
  <1> HIDE DEF now
  <1>7. now[k + 2] = Check(m)
    <2>1. k + 2 \in 2..(k + 2) /\ (k + 2) - 1 = k + 1
      BY <1>1
    <2> QED  BY <1>2, <1>4, <1>5, <2>1
  <1>8. SubSeq(now, 2, k + 1) = m
    <2>1. 1 \in Nat /\ k + 1 \in Nat /\ 1 <= k + 1 /\ k + 1 <= Len(now)
      BY <1>1, <1>5
    <2>2. /\ SubSeq(now, 1 + 1, k + 1) \in Seq(Byte)
          /\ Len(SubSeq(now, 1 + 1, k + 1)) = (k + 1) - 1
          /\ \A i \in 1..((k + 1) - 1) : SubSeq(now, 1 + 1, k + 1)[i] = now[1 + i]
      BY <1>5, <2>1, Slice
    <2>3. (k + 1) - 1 = k /\ 1 + 1 = 2
      BY <1>1
    <2>4. ASSUME NEW i \in 1..k
          PROVE  SubSeq(now, 2, k + 1)[i] = m[i]
      <3>1. 1 + i \in 2..(k + 2) /\ (1 + i) - 1 = i
        BY <1>1
      <3>2. SubSeq(now, 2, k + 1)[i] = now[1 + i]
        BY <2>2, <2>3
      <3>3. now[1 + i] = t[i]
        BY <1>4, <1>5, <3>1
      <3> QED  BY <1>2, <3>2, <3>3
    <2> QED  BY <1>1, <2>2, <2>3, <2>4, SeqEqual
  <1>9. Len(now) - 1 = k + 2 /\ Len(now) - 2 = k + 1 /\ ~(Len(now) < 3)
    BY <1>1, <1>5
  <1> QED  BY <1>6, <1>7, <1>8, <1>9 DEF Verified

LEMMA FirstMagic ==
  ASSUME NEW s \in Seq(Byte), NEW k \in 1..Len(s), s[k] = MAGIC_CHAR,
         \A i \in 1..(k - 1) : s[i] # MAGIC_CHAR
  PROVE  FindMagic(s) = k
  <1> DEFINE I == {i \in 1..Len(s) : s[i] = MAGIC_CHAR}
  <1>1. FindMagic(s) = IF I # {} THEN Min(I) ELSE 0
    BY DEF FindMagic, SelectInSeq
  <1>2. k \in I /\ Len(s) \in Nat /\ \A i \in I : k <= i
    <2>1. Len(s) \in Nat
      BY LenProperties
    <2>2. ASSUME NEW i \in I PROVE k <= i
      BY <2>1
    <2> QED  BY <2>1, <2>2
  <1>3. Min(I) = k
    <2>1. I \subseteq Int
      OBVIOUS
    <2> HIDE DEF I
    <2>2. Min(I) \in I /\ \A i \in I : Min(I) <= i
      <3>1. \E x \in I : \A y \in I : x <= y
        BY <1>2
      <3> QED  BY <3>1 DEF Min
    <2>3. Min(I) \in Int /\ k \in Int /\ Min(I) <= k /\ k <= Min(I)
      BY <1>2, <2>1, <2>2
    <2> QED  BY <2>3
  <1> HIDE DEF I
  <1> QED  BY <1>1, <1>2, <1>3

LEMMA NoMagic ==
  ASSUME NEW s \in Seq(Byte), \A i \in 1..Len(s) : s[i] # MAGIC_CHAR
  PROVE  FindMagic(s) = 0
  <1>1. {i \in 1..Len(s) : s[i] = MAGIC_CHAR} = {}
    OBVIOUS
  <1> QED  BY <1>1 DEF FindMagic, SelectInSeq

\* The bytes of s begin with those of f: a frame that has arrived.
StartsWith(s, f) == Len(f) <= Len(s) /\ \A i \in 1..Len(f) : s[i] = f[i]

LEMMA FullFrame ==
  ASSUME NEW m \in Messages, NEW s \in Seq(Byte), StartsWith(s, Frame(m))
  PROVE  GetAFullMsg(s) = [used |-> Len(Frame(m)), raw |-> Frame(m)]
  <1> DEFINE f == Frame(m)
             n == Len(f)
             r == SubSeq(s, 1 + 1, Len(s))
  <1>1. /\ f \in Seq(Byte) /\ n \in Nat /\ n >= HeaderLen + 3 /\ n >= 4
        /\ f[1] = MAGIC_CHAR /\ f[n] = MAGIC_CHAR /\ \A i \in 2..(n - 1) : f[i] # MAGIC_CHAR
    BY FrameLooks
  <1>2. n <= Len(s) /\ \A i \in 1..n : s[i] = f[i]
    BY DEF StartsWith
  <1>3. Len(s) \in Nat /\ HeaderLen \in Nat /\ \A i \in 2..Len(s) : s[i] \in Byte
    <2>1. Len(s) \in Nat /\ \A i \in 1..Len(s) : s[i] \in Byte
      BY LenProperties, ElementOfSeq
    <2> QED  BY <2>1, StreamAssumption
  <1> HIDE DEF f, n
  <1>4. FindMagic(s) = 1
    <2>1. 1 \in 1..Len(s) /\ s[1] = MAGIC_CHAR /\ \A i \in 1..(1 - 1) : s[i] # MAGIC_CHAR
      BY <1>1, <1>2, <1>3
    <2> QED  BY <2>1, FirstMagic
  <1>5. /\ r \in Seq(Byte) /\ Len(r) = Len(s) - 1
        /\ \A i \in 1..(Len(s) - 1) : r[i] = s[i + 1]
    <2>1. 1 \in Nat /\ Len(s) \in Nat /\ 1 <= Len(s)
      BY <1>1, <1>2, <1>3
    <2>2. /\ r \in Seq(Byte) /\ Len(r) = Len(s) - 1
          /\ \A i \in 1..(Len(s) - 1) : r[i] = s[1 + i]
      BY <2>1, After
    <2> HIDE DEF r
    <2>3. \A i \in 1..(Len(s) - 1) : 1 + i = i + 1
      BY <1>3
    <2> QED  BY <2>2, <2>3
  <1> HIDE DEF r
  <1>6. FindMagic(r) = n - 1
    <2>1. n - 1 \in 1..Len(r) /\ r[n - 1] = MAGIC_CHAR
      <3>1. n - 1 \in 1..(Len(s) - 1) /\ (n - 1) + 1 = n /\ n \in 1..n
        BY <1>1, <1>2, <1>3
      <3>2. r[n - 1] = s[n] /\ s[n] = f[n]
        BY <1>2, <1>5, <3>1
      <3> QED  BY <1>1, <1>5, <3>1, <3>2
    <2>2. ASSUME NEW i \in 1..((n - 1) - 1) PROVE r[i] # MAGIC_CHAR
      <3>1. i \in 1..(Len(s) - 1) /\ i + 1 \in 2..(n - 1) /\ i + 1 \in 1..n
        BY <1>1, <1>2, <1>3
      <3>2. r[i] = s[i + 1] /\ s[i + 1] = f[i + 1]
        BY <1>2, <1>5, <3>1
      <3> QED  BY <1>1, <3>1, <3>2
    <2> QED  BY <1>5, <2>1, <2>2, FirstMagic
  <1>7. SubSeq(s, 1, n) = f
    <2>1. 0 \in Nat /\ n \in Nat /\ 0 <= n /\ n <= Len(s)
      BY <1>1, <1>2
    <2>2. /\ SubSeq(s, 0 + 1, n) \in Seq(Byte) /\ Len(SubSeq(s, 0 + 1, n)) = n - 0
          /\ \A i \in 1..(n - 0) : SubSeq(s, 0 + 1, n)[i] = s[0 + i]
      BY <2>1, Slice
    <2>3. n - 0 = n /\ 0 + 1 = 1 /\ \A i \in 1..n : 0 + i = i
      BY <1>1
    <2>4. \A i \in 1..n : SubSeq(s, 1, n)[i] = f[i]
      BY <1>2, <2>2, <2>3
    <2> QED  BY <1>1, <2>2, <2>3, <2>4, SeqEqual DEF n
  <1>8. /\ Len(s) - (1 - 1) >= HeaderLen + 3 /\ n - 1 # 0 /\ 1 + (n - 1) = n
        /\ 1 # 0
    BY <1>1, <1>2, <1>3
  <1>9. GetAFullMsg(s) = [used |-> n, raw |-> f]
    BY <1>4, <1>6, <1>7, <1>8 DEF GetAFullMsg, r
  <1> QED  BY <1>9 DEF n, f

\* Of a frame that has arrived in part nothing is used.
LEMMA PartOfFrame ==
  ASSUME NEW m \in Messages, NEW s \in Seq(Byte), Len(s) < Len(Frame(m)),
         \A i \in 1..Len(s) : s[i] = Frame(m)[i]
  PROVE  GetAFullMsg(s) = [used |-> 0, raw |-> <<>>]
  <1> DEFINE f == Frame(m)
             n == Len(f)
             r == SubSeq(s, 1 + 1, Len(s))
  <1>1. /\ f \in Seq(Byte) /\ n \in Nat /\ f[1] = MAGIC_CHAR
        /\ \A i \in 2..(n - 1) : f[i] # MAGIC_CHAR
    BY FrameLooks
  <1>2. Len(s) < n /\ \A i \in 1..Len(s) : s[i] = f[i]
    OBVIOUS
  <1>3. Len(s) \in Nat /\ \A i \in 1..Len(s) : s[i] \in Byte
    BY LenProperties, ElementOfSeq
  <1> HIDE DEF f, n
  <1>4. CASE s = <<>>
    <2>1. FindMagic(s) = 0
      <3>1. \A i \in 1..Len(s) : s[i] # MAGIC_CHAR
        BY <1>4
      <3> QED  BY <3>1, NoMagic
    <2> QED  BY <2>1 DEF GetAFullMsg
  <1>5. CASE s # <<>>
    <2>1. Len(s) >= 1
      BY <1>3, <1>5, EmptySeq
    <2>2. FindMagic(s) = 1
      <3>1. 1 \in 1..Len(s) /\ s[1] = MAGIC_CHAR /\ \A i \in 1..(1 - 1) : s[i] # MAGIC_CHAR
        BY <1>1, <1>2, <1>3, <2>1
      <3> QED  BY <3>1, FirstMagic
    <2>3. /\ r \in Seq(Byte) /\ Len(r) = Len(s) - 1
          /\ \A i \in 1..(Len(s) - 1) : r[i] = s[i + 1]
      <3>1. 1 \in Nat /\ Len(s) \in Nat /\ 1 <= Len(s)
        BY <1>3, <2>1
      <3>2. /\ r \in Seq(Byte) /\ Len(r) = Len(s) - 1
            /\ \A i \in 1..(Len(s) - 1) : r[i] = s[1 + i]
        BY <3>1, After
      <3> HIDE DEF r
      <3>3. \A i \in 1..(Len(s) - 1) : 1 + i = i + 1
        BY <1>3
      <3> QED  BY <3>2, <3>3
    <2> HIDE DEF r
    <2>4. ASSUME NEW i \in 1..Len(r) PROVE r[i] # MAGIC_CHAR
      <3>1. i \in 1..(Len(s) - 1) /\ i + 1 \in 2..(n - 1) /\ i + 1 \in 1..Len(s)
        BY <1>1, <1>2, <1>3, <2>3
      <3>2. r[i] = s[i + 1] /\ s[i + 1] = f[i + 1]
        BY <1>2, <2>3, <3>1
      <3> QED  BY <1>1, <3>1, <3>2
    <2>5. FindMagic(r) = 0
      BY <2>3, <2>4, NoMagic
    <2>6. 1 # 0 /\ 1 - 1 = 0
      OBVIOUS
    <2> QED  BY <2>2, <2>5, <2>6 DEF GetAFullMsg, r
  <1> QED  BY <1>4, <1>5

-----------------------------------------------------------------------------
(* The frames of several messages, one after the other.                      *)

Frames(ms) == FlattenSeq([i \in DOMAIN ms |-> Frame(ms[i])])

LEMMA FramesEmpty == Frames(<<>>) = <<>>
  <1>1. [i \in DOMAIN <<>> |-> Frame(<<>>[i])] = <<>>
    OBVIOUS
  <1> QED  BY <1>1, FlattenEmpty DEF Frames

LEMMA FramesAppend ==
  ASSUME NEW ms \in Seq(Messages), NEW m \in Messages
  PROVE  /\ Frames(ms) \in Seq(Byte)
         /\ Frames(Append(ms, m)) = Frames(ms) \o Frame(m)
  <1> DEFINE u == Append(ms, m)
             tc == [i \in DOMAIN ms |-> Frame(ms[i])]
             uc == [i \in DOMAIN u |-> Frame(u[i])]
  <1>1. /\ u \in Seq(Messages) /\ Len(ms) \in Nat /\ Len(u) = Len(ms) + 1
        /\ \A i \in 1..Len(ms) : u[i] = ms[i] /\ ms[i] \in Messages
        /\ u[Len(ms) + 1] = m
        /\ DOMAIN ms = 1..Len(ms) /\ DOMAIN u = 1..Len(u)
    BY AppendProperties, LenProperties, ElementOfSeq
  <1>0. \A x \in Messages : Frame(x) \in Seq(Byte)
    BY FrameLooks
  <1> HIDE DEF u
  <1>2. tc \in Seq(Seq(Byte)) /\ Len(tc) = Len(ms)
    <2>2. tc \in [1..Len(ms) -> Seq(Byte)]
      BY <1>0, <1>1
    <2> QED  BY <1>1, <2>2
  <1>3. uc = Append(tc, Frame(m))
    <2>1. /\ Append(tc, Frame(m)) \in Seq(Seq(Byte))
          /\ Len(Append(tc, Frame(m))) = Len(ms) + 1
          /\ \A i \in 1..Len(ms) : Append(tc, Frame(m))[i] = tc[i]
          /\ Append(tc, Frame(m))[Len(ms) + 1] = Frame(m)
      <3> HIDE DEF tc
      <3> QED  BY <1>0, <1>2, AppendProperties
    <2>2. uc \in Seq(Seq(Byte)) /\ Len(uc) = Len(ms) + 1
      <3>1. \A i \in 1..Len(u) : Frame(u[i]) \in Seq(Byte)
        BY <1>0, <1>1, ElementOfSeq
      <3>2. uc \in [1..Len(u) -> Seq(Byte)]
        BY <1>1, <3>1
      <3> QED  BY <1>1, <3>2
    <2>3. ASSUME NEW i \in 1..Len(ms) + 1
          PROVE  uc[i] = Append(tc, Frame(m))[i]
      <3>1. uc[i] = Frame(u[i])
        BY <1>1
      <3>2. i \in 1..Len(ms) => tc[i] = Frame(ms[i])
        BY <1>1
      <3> HIDE DEF uc, tc
      <3> QED  BY <1>1, <2>1, <3>1, <3>2
    <2> HIDE DEF uc
    <2>4. Len(uc) = Len(Append(tc, Frame(m))) /\ \A i \in 1..Len(uc) : uc[i] = Append(tc, Frame(m))[i]
      BY <2>1, <2>2, <2>3
    <2> QED  BY <2>1, <2>2, <2>4, SeqEqual
  <1>4. Frames(ms) = FlattenSeq(tc) /\ Frames(u) = FlattenSeq(uc)
    BY DEF Frames
  <1> HIDE DEF tc, uc
  <1>5. FlattenSeq(uc) = FlattenSeq(tc) \o Frame(m)
    BY <1>0, <1>2, <1>3, FlattenAppend
  <1>6. FlattenSeq(tc) \in Seq(Byte)
    BY <1>2, FlattenIsSeq
  <1> QED  BY <1>4, <1>5, <1>6 DEF u

\* They begin with the frame of the first message.
FirstFirst(ms) == Frames(ms) = Frame(Head(ms)) \o Frames(Tail(ms))

LEMMA FramesHead ==
  ASSUME NEW ms \in Seq(Messages), ms # <<>>
  PROVE  FirstFirst(ms)
  <1> DEFINE Well(n) == \A s \in Seq(Messages) : s # <<>> /\ Len(s) = n => FirstFirst(s)
             S == {n \in Nat : Well(n)}
  <1>0. \A s \in Seq(Messages) : Frames(s) \in Seq(Byte)
    <2>1. ASSUME NEW s \in Seq(Messages) PROVE Frames(s) \in Seq(Byte)
      <3>1. CASE s = <<>>
        <4>1. <<>> \in Seq(Byte)
          OBVIOUS
        <4> QED  BY <3>1, <4>1, FramesEmpty
      <3>2. CASE s # <<>>
        <4>1. \E r \in Seq(Messages), m \in Messages : s = Append(r, m)
          BY <3>2, SequenceEmptyOrAppend
        <4> QED  BY <4>1, FramesAppend
      <3> QED  BY <3>1, <3>2
    <2> QED  BY <2>1
  <1>1. Well(0)
    BY EmptySeq
  <1>2. ASSUME NEW n \in Nat, Well(n)
        PROVE  Well(n + 1)
    <2>1. SUFFICES ASSUME NEW s \in Seq(Messages), s # <<>>, Len(s) = n + 1 PROVE FirstFirst(s)
      OBVIOUS
    <2>2. PICK r \in Seq(Messages), m \in Messages : s = Append(r, m)
      BY <2>1, SequenceEmptyOrAppend
    <2>3. Len(r) = n
      BY <2>1, <2>2, AppendProperties, LenProperties
    <2>4. Frames(s) = Frames(r) \o Frame(m) /\ Frames(r) \in Seq(Byte) /\ Frame(m) \in Seq(Byte)
      BY <2>2, FramesAppend, FrameLooks
    <2>5. /\ Head(s) = IF r = <<>> THEN m ELSE Head(r)
          /\ Tail(s) = IF r = <<>> THEN <<>> ELSE Append(Tail(r), m)
      BY <2>2, HeadTailAppend
    <2>6. CASE r = <<>>
      <3>1. Frames(s) = Frame(m) /\ Frame(m) \o <<>> = Frame(m)
        BY <2>4, <2>6, FramesEmpty, ConcatEmptySeq
      <3> QED  BY <2>5, <2>6, <3>1, FramesEmpty DEF FirstFirst
    <2>7. CASE r # <<>>
      <3>1. Head(r) \in Messages /\ Tail(r) \in Seq(Messages)
        BY <2>7, HeadTailProperties
      <3>2. Frames(r) = Frame(Head(r)) \o Frames(Tail(r))
        BY <1>2, <2>3, <2>7 DEF FirstFirst
      <3>3. Frame(Head(r)) \in Seq(Byte) /\ Frames(Tail(r)) \in Seq(Byte)
        BY <1>0, <3>1, FrameLooks
      <3>4. Frames(s) = Frame(Head(r)) \o (Frames(Tail(r)) \o Frame(m))
        <4>1. (Frame(Head(r)) \o Frames(Tail(r))) \o Frame(m)
                = Frame(Head(r)) \o (Frames(Tail(r)) \o Frame(m))
          BY <2>4, <3>3, BytesJoin
        <4> QED  BY <2>4, <3>2, <4>1
      <3>5. Frames(Tail(r)) \o Frame(m) = Frames(Append(Tail(r), m))
        BY <3>1, FramesAppend
      <3>6. Head(s) = Head(r) /\ Tail(s) = Append(Tail(r), m)
        BY <2>5, <2>7
      <3> QED  BY <3>4, <3>5, <3>6 DEF FirstFirst
    <2> QED  BY <2>6, <2>7
  <1> HIDE DEF Well
  <1>3. 0 \in S /\ \A n \in Nat : n \in S => n + 1 \in S
    BY <1>1, <1>2
  <1>4. Nat \subseteq S
    <2> HIDE DEF S
    <2> QED  BY <1>3, NatInd
  <1>5. Well(Len(ms))
    BY <1>4, LenProperties
  <1> QED  BY <1>5 DEF Well

-----------------------------------------------------------------------------
(* What is sent and not treated yet is what there is of bytes.               *)

Streams == [wire : Seq(Byte), input : Seq(Byte), sent : Seq(Messages),
            got : Seq(Messages \union {Short}), burst : BOOLEAN]

\* The messages sent on s are those treated and some more, and the bytes that follow the
\* first k of its input are the frames of these.
Flows(s, k) ==
  /\ s.got \in Seq(Messages)
  /\ \E ms \in Seq(Messages) :
       /\ s.sent = s.got \o ms
       /\ SubSeq(s.input, k + 1, Len(s.input)) \o s.wire = Frames(ms)

\* No whole frame has been left in the input.
NothingWhole(s) == ~s.burst => \A m \in Messages : ~StartsWith(s.input, Frame(m))

LEMMA ListSplits ==
  ASSUME NEW T, NEW s \in Seq(T), s # <<>>
  PROVE  /\ Head(s) \in T /\ Tail(s) \in Seq(T)
         /\ s = <<Head(s)>> \o Tail(s)
  <1>1. /\ Head(s) \in T /\ Tail(s) \in Seq(T) /\ Len(Tail(s)) = Len(s) - 1
        /\ \A i \in 1..Len(Tail(s)) : Tail(s)[i] = s[i+1]
    BY HeadTailProperties
  <1>2. Head(s) = s[1] /\ Len(s) \in Nat /\ Len(s) >= 1
    BY EmptySeq, LenProperties
  <1>3. <<Head(s)>> \in Seq(T) /\ Len(<<Head(s)>>) = 1 /\ <<Head(s)>>[1] = Head(s)
    BY <1>1
  <1> DEFINE u == <<Head(s)>> \o Tail(s)
  <1>4. /\ u \in Seq(T) /\ Len(u) = Len(<<Head(s)>>) + Len(Tail(s))
        /\ \A i \in 1..(Len(<<Head(s)>>) + Len(Tail(s))) :
             u[i] = IF i <= Len(<<Head(s)>>) THEN <<Head(s)>>[i] ELSE Tail(s)[i - Len(<<Head(s)>>)]
    BY <1>1, <1>3, ConcatProperties
  <1> HIDE DEF u
  <1>5. Len(u) = Len(s)
    BY <1>1, <1>2, <1>3, <1>4
  <1>6. ASSUME NEW i \in 1..Len(s) PROVE u[i] = s[i]
    <2>1. CASE i = 1
      BY <1>1, <1>2, <1>3, <1>4, <2>1
    <2>2. CASE i # 1
      <3>1. i - 1 \in 1..Len(Tail(s)) /\ (i - 1) + 1 = i /\ ~(i <= 1)
        BY <1>1, <1>2, <2>2
      <3>2. i \in 1..(Len(<<Head(s)>>) + Len(Tail(s)))
        BY <1>1, <1>2, <1>3
      <3>3. u[i] = Tail(s)[i - 1]
        BY <1>3, <1>4, <3>1, <3>2
      <3> QED  BY <1>1, <3>1, <3>3
    <2> QED  BY <2>1, <2>2
  <1>7. s = u
    BY <1>4, <1>5, <1>6, SeqEqual
  <1> QED  BY <1>1, <1>7 DEF u

LEMMA NothingInNothing == GetAFullMsg(<<>>) = [used |-> 0, raw |-> <<>>]
  <1>1. <<>> \in Seq(Byte) /\ \A i \in 1..Len(<<>>) : <<>>[i] # MAGIC_CHAR
    OBVIOUS
  <1>2. FindMagic(<<>>) = 0
    BY <1>1, NoMagic
  <1> QED  BY <1>2 DEF GetAFullMsg

LEMMA NewStream == NoStream \in Streams /\ Flows(NoStream, 0) /\ NothingWhole(NoStream)
  <1>1. /\ NoStream.wire = <<>> /\ NoStream.input = <<>> /\ NoStream.sent = <<>>
        /\ NoStream.got = <<>> /\ NoStream.burst = FALSE
    BY DEF NoStream
  <1>2. \A T : <<>> \in Seq(T) /\ <<>> \o <<>> = <<>>
    BY EmptySeq, ConcatEmptySeq
  <1>3. NoStream \in Streams
    BY <1>2 DEF NoStream, Streams
  <1>4. SubSeq(<<>>, 0 + 1, Len(<<>>)) = <<>>
    BY SubSeqEmpty
  <1>5. Flows(NoStream, 0)
    <2>1. /\ <<>> \in Seq(Messages) /\ NoStream.sent = NoStream.got \o <<>>
          /\ SubSeq(NoStream.input, 0 + 1, Len(NoStream.input)) \o NoStream.wire = Frames(<<>>)
      BY <1>1, <1>2, <1>4, FramesEmpty
    <2> QED  BY <1>1, <2>1 DEF Flows
  <1>6. ASSUME NEW m \in Messages PROVE ~StartsWith(<<>>, Frame(m))
    <2>1. Len(<<>>) = 0
      BY <1>2, EmptySeq
    <2> QED  BY <2>1, FrameLooks DEF StartsWith
  <1> QED  BY <1>1, <1>3, <1>5, <1>6 DEF NothingWhole

LEMMA FlowsSend ==
  ASSUME NEW s \in Streams, NEW k \in Nat, k <= Len(s.input), Flows(s, k), NEW m \in Messages,
         NEW t, t = [s EXCEPT !.wire = @ \o Frame(m), !.sent = Append(@, m)]
  PROVE  t \in Streams /\ Flows(t, k)
  <1>1. /\ t.input = s.input /\ t.got = s.got /\ t.burst = s.burst
        /\ t.wire = s.wire \o Frame(m) /\ t.sent = Append(s.sent, m)
    BY DEF Streams
  <1>2. /\ s.input \in Seq(Byte) /\ s.wire \in Seq(Byte) /\ s.sent \in Seq(Messages)
        /\ Frame(m) \in Seq(Byte)
    BY FrameLooks DEF Streams
  <1>3. t \in Streams
    <2>1. t.wire \in Seq(Byte) /\ t.sent \in Seq(Messages)
      BY <1>1, <1>2, ConcatProperties, AppendProperties
    <2> QED  BY <1>1, <2>1 DEF Streams
  <1> DEFINE rest == SubSeq(s.input, k + 1, Len(s.input))
  <1>4. PICK ms \in Seq(Messages) : s.sent = s.got \o ms /\ rest \o s.wire = Frames(ms)
    BY DEF Flows
  <1>5. s.got \in Seq(Messages) /\ rest \in Seq(Byte)
    BY <1>2, After DEF Flows
  <1> HIDE DEF rest
  <1>6. Append(ms, m) \in Seq(Messages) /\ Append(ms, m) = ms \o <<m>> /\ <<m>> \in Seq(Messages)
    BY AppendProperties, AppendIsConcat
  <1>7. t.sent = t.got \o Append(ms, m)
    <2>1. Append(s.sent, m) = s.sent \o <<m>>
      BY <1>2, AppendIsConcat
    <2>2. (s.got \o ms) \o <<m>> = s.got \o (ms \o <<m>>)
      BY <1>5, <1>6, MessagesJoin
    <2> QED  BY <1>1, <1>4, <1>6, <2>1, <2>2
  <1>8. rest \o t.wire = Frames(Append(ms, m))
    <2>1. rest \o (s.wire \o Frame(m)) = (rest \o s.wire) \o Frame(m)
      BY <1>2, <1>5, BytesJoin, ZenonT(40)
    <2>2. Frames(Append(ms, m)) = Frames(ms) \o Frame(m)
      BY FramesAppend
    <2> QED  BY <1>1, <1>4, <2>1, <2>2
  <1>9. Flows(t, k)
    BY <1>1, <1>5, <1>6, <1>7, <1>8 DEF Flows, rest
  <1> QED  BY <1>3, <1>9

LEMMA FlowsArrive ==
  ASSUME NEW s \in Streams, Flows(s, 0), NEW n \in 1..Len(s.wire), NEW x \in BOOLEAN,
         NEW t, t = [s EXCEPT !.wire = SubSeq(@, n + 1, Len(@)),
                              !.input = s.input \o SubSeq(s.wire, 1, n), !.burst = x]
  PROVE  t \in Streams /\ Flows(t, 0)
  <1>1. s.input \in Seq(Byte) /\ s.wire \in Seq(Byte) /\ Len(s.wire) \in Nat
    BY LenProperties DEF Streams
  <1> DEFINE a == SubSeq(s.wire, 1, n)
             z == SubSeq(s.wire, n + 1, Len(s.wire))
  <1>2. a \in Seq(Byte)
    <2>1. /\ 0 \in Nat /\ n \in Nat /\ 0 <= n /\ n <= Len(s.wire) /\ 0 + 1 = 1
      BY <1>1
    <2>2. SubSeq(s.wire, 0 + 1, n) \in Seq(Byte)
      BY <1>1, <2>1, Slice
    <2> QED  BY <2>1, <2>2
  <1>3. z \in Seq(Byte)
    <2>1. n \in Nat /\ n <= Len(s.wire)
      BY <1>1
    <2> QED  BY <1>1, <2>1, After
  <1>4. a \o z = s.wire
    <2>1. /\ 1 \in 1..(Len(s.wire) + 1) /\ n \in (1 - 1)..Len(s.wire)
          /\ Len(s.wire) \in n..Len(s.wire)
      BY <1>1
    <2>2. a \o z = SubSeq(s.wire, 1, Len(s.wire))
      BY <1>1, <2>1, ConcatAdjacentSubSeq
    <2> QED  BY <1>1, <2>2, SubSeqFull
  <1>5. /\ t.input = s.input \o a /\ t.wire = z
        /\ t.got = s.got /\ t.sent = s.sent /\ t.burst = x
    BY DEF Streams
  <1> HIDE DEF a, z
  <1>6. t.input \in Seq(Byte)
    BY <1>1, <1>2, <1>5, ConcatProperties
  <1>7. t \in Streams
    <2>1. t = [wire |-> z, input |-> t.input, sent |-> s.sent, got |-> s.got, burst |-> x]
      BY <1>5 DEF Streams
    <2> QED  BY <1>3, <1>6, <2>1 DEF Streams
  <1>8. SubSeq(t.input, 0 + 1, Len(t.input)) = t.input /\ SubSeq(s.input, 0 + 1, Len(s.input)) = s.input
    BY <1>1, <1>6, BytesWhole
  <1>9. t.input \o t.wire = s.input \o s.wire
    <2>1. (s.input \o a) \o z = s.input \o (a \o z)
      BY <1>1, <1>2, <1>3, BytesJoin, ZenonT(40)
    <2> QED  BY <1>4, <1>5, <2>1
  <1>10. Flows(t, 0)
    BY <1>5, <1>8, <1>9 DEF Flows
  <1> QED  BY <1>7, <1>10

LEMMA FlowsDrain ==
  ASSUME NEW s \in Streams, NEW k \in Nat, k <= Len(s.input), Flows(s, k),
         NEW t, t = [s EXCEPT !.input = SubSeq(@, k + 1, Len(@))]
  PROVE  t \in Streams /\ Flows(t, 0)
  <1>1. s.input \in Seq(Byte)
    BY DEF Streams
  <1> DEFINE z == SubSeq(s.input, k + 1, Len(s.input))
  <1>2. z \in Seq(Byte)
    BY <1>1, After
  <1>3. t.input = z /\ t.wire = s.wire /\ t.got = s.got /\ t.sent = s.sent /\ t.burst = s.burst
    BY DEF Streams
  <1>4. t \in Streams
    <2> HIDE DEF z
    <2>1. t = [wire |-> s.wire, input |-> z, sent |-> s.sent, got |-> s.got, burst |-> s.burst]
      BY <1>3 DEF Streams, z
    <2>2. /\ s.wire \in Seq(Byte) /\ z \in Seq(Byte) /\ s.sent \in Seq(Messages)
          /\ s.got \in Seq(Messages \union {Short}) /\ s.burst \in BOOLEAN
      BY <1>2 DEF Streams
    <2> QED  BY ONLY <2>1, <2>2 DEF Streams
  <1>5. PICK ms \in Seq(Messages) : s.sent = s.got \o ms /\ z \o s.wire = Frames(ms)
    BY DEF Flows
  <1>6. s.got \in Seq(Messages)
    BY DEF Flows
  <1> HIDE DEF z
  <1>7. SubSeq(t.input, 0 + 1, Len(t.input)) = z
    BY <1>2, <1>3, BytesWhole
  <1>8. Flows(t, 0)
    BY <1>3, <1>5, <1>6, <1>7 DEF Flows
  <1> QED  BY <1>4, <1>8

\* One turn of the loop over rest, the copy after the first k bytes.
Uses(rest, found, treated) ==
  /\ found = GetAFullMsg(rest)
  /\ treated = IF found.raw = <<>> THEN <<>> ELSE Verified(found.raw)

LEMMA FlowsTurn ==
  ASSUME NEW s \in Streams, NEW k \in Nat, Flows(s, k), NEW rest \in Seq(Byte),
         k + Len(rest) <= Len(s.input), rest = SubSeq(s.input, k + 1, k + Len(rest)),
         NEW found, NEW treated, Uses(rest, found, treated),
         NEW t, t = [s EXCEPT !.got = @ \o treated]
  PROVE  /\ found.used \in Nat /\ found.used <= Len(rest)
         /\ found.raw = <<>> => found.used = 0
         /\ t \in Streams /\ Flows(t, k + found.used)
  <1> DEFINE n == Len(s.input)
             pend == SubSeq(s.input, k + 1, n)
  <1>1. /\ s.input \in Seq(Byte) /\ s.wire \in Seq(Byte) /\ n \in Nat /\ Len(rest) \in Nat
        /\ k <= n /\ k + Len(rest) <= n
    <2>1. s.input \in Seq(Byte) /\ s.wire \in Seq(Byte)
      BY DEF Streams
    <2>2. n \in Nat /\ Len(rest) \in Nat
      BY <2>1, LenProperties
    <2> QED  BY <2>1, <2>2
  <1>2. pend \in Seq(Byte) /\ Len(pend) = n - k /\ \A i \in 1..(n - k) : pend[i] = s.input[k + i]
    BY <1>1, After
  <1>3. \A i \in 1..Len(rest) : rest[i] = s.input[k + i]
    <2>1. k + Len(rest) \in Nat /\ k <= k + Len(rest) /\ (k + Len(rest)) - k = Len(rest)
      BY <1>1, SMTT(20)
    <2>2. \A i \in 1..((k + Len(rest)) - k) : SubSeq(s.input, k + 1, k + Len(rest))[i] = s.input[k + i]
      BY <1>1, <2>1, Slice, ZenonT(40)
    <2> QED  BY <2>1, <2>2
  <1>4. PICK ms \in Seq(Messages) : s.sent = s.got \o ms /\ pend \o s.wire = Frames(ms)
    BY DEF Flows
  <1>5. s.got \in Seq(Messages)
    BY DEF Flows
  <1>6. /\ t.input = s.input /\ t.wire = s.wire /\ t.got = s.got \o treated
        /\ t.sent = s.sent /\ t.burst = s.burst
    BY DEF Streams
  <1> HIDE DEF pend
  <1>7. \A i \in 1..Len(rest) : (pend \o s.wire)[i] = rest[i]
    <2>1. ASSUME NEW i \in 1..Len(rest) PROVE (pend \o s.wire)[i] = rest[i]
      <3>1. i \in 1..(n - k) /\ i <= Len(pend) /\ i \in 1..(Len(pend) + Len(s.wire))
        BY <1>1, <1>2, LenProperties, SMTT(20)
      <3>2. (pend \o s.wire)[i] = pend[i]
        BY <1>1, <1>2, <3>1, ConcatProperties
      <3> QED  BY <1>2, <1>3, <3>1, <3>2
    <2> QED  BY <2>1
  <1>8. /\ pend \o s.wire \in Seq(Byte) /\ Len(rest) <= Len(pend \o s.wire)
    <2>1. Len(pend \o s.wire) = Len(pend) + Len(s.wire) /\ Len(s.wire) \in Nat
      BY <1>1, <1>2, ConcatProperties, LenProperties, ZenonT(40)
    <2> QED  BY <1>1, <1>2, <2>1, ConcatProperties, SMTT(20)
  <1>9. found = [used |-> 0, raw |-> <<>>] =>
          /\ found.used \in Nat /\ found.used <= Len(rest)
          /\ (found.raw = <<>> => found.used = 0)
          /\ t \in Streams /\ Flows(t, k + found.used)
    <2>1. SUFFICES ASSUME found = [used |-> 0, raw |-> <<>>]
                   PROVE  /\ found.used \in Nat /\ found.used <= Len(rest)
                          /\ (found.raw = <<>> => found.used = 0)
                          /\ t \in Streams /\ Flows(t, k + found.used)
      OBVIOUS
    <2>2. treated = <<>> /\ found.used = 0 /\ k + found.used = k
      BY <2>1 DEF Uses
    <2>3. s.got \o <<>> = s.got
      BY <1>5, ConcatEmptySeq
    <2>4. t = s
      BY <1>6, <2>2, <2>3 DEF Streams
    <2>5. Flows(t, k + found.used)
      BY <2>2, <2>4, Zenon
    <2>6. found.used \in Nat /\ found.used <= Len(rest)
      BY <1>1, <2>2
    <2>7. t \in Streams
      BY <2>4
    <2> QED  BY <2>2, <2>5, <2>6, <2>7
  <1>10. CASE ms = <<>>
    <2>1. Len(pend \o s.wire) = 0
      BY <1>4, <1>10, FramesEmpty
    <2>2. rest = <<>>
      BY <1>1, <1>8, <2>1, EmptySeq
    <2> QED  BY <1>9, <2>2, NothingInNothing DEF Uses
  <1>11. CASE ms # <<>>
    <2> DEFINE m == Head(ms)
               f == Frame(m)
               more == Frames(Tail(ms))
    <2>1. m \in Messages /\ Tail(ms) \in Seq(Messages) /\ ms = <<m>> \o Tail(ms)
      BY <1>11, ListSplits
    <2>2. f \in Seq(Byte) /\ Len(f) \in Nat /\ Len(f) >= 4 /\ more \in Seq(Byte)
      BY <2>1, FrameLooks, FramesAppend
    <2>3. pend \o s.wire = f \o more
      BY <1>4, <1>11, FramesHead DEF FirstFirst
    <2>4. \A i \in 1..Len(f) : (pend \o s.wire)[i] = f[i]
      <3>1. \A i \in 1..(Len(f) + Len(more)) : (f \o more)[i] = IF i <= Len(f) THEN f[i] ELSE more[i - Len(f)]
        BY <2>2, ConcatProperties
      <3>2. \A i \in 1..Len(f) : i \in 1..(Len(f) + Len(more)) /\ i <= Len(f)
        BY <2>2, LenProperties
      <3> HIDE DEF f, more
      <3> QED  BY <2>3, <3>1, <3>2
    <2>a. Verified(f) = <<m>>
      BY <2>1, FrameVerifies
    <2>b. Len(rest) < Len(f) /\ (\A i \in 1..Len(rest) : rest[i] = f[i])
            => GetAFullMsg(rest) = [used |-> 0, raw |-> <<>>]
      BY <2>1, PartOfFrame
    <2>c. Len(f) <= Len(rest) /\ (\A i \in 1..Len(f) : rest[i] = f[i])
            => GetAFullMsg(rest) = [used |-> Len(f), raw |-> f]
      BY <2>1, FullFrame DEF StartsWith
    <2> HIDE DEF m, f, more
    <2>5. CASE Len(rest) < Len(f)
      <3>1. \A i \in 1..Len(rest) : rest[i] = f[i]
        <4>1. \A i \in 1..Len(rest) : i \in 1..Len(f)
          BY <1>1, <2>2, <2>5
        <4> QED  BY <1>7, <2>4, <4>1
      <3>2. found = [used |-> 0, raw |-> <<>>]
        BY <2>5, <2>b, <3>1 DEF Uses
      <3> QED  BY <1>9, <3>2
    <2>6. CASE ~(Len(rest) < Len(f))
      <3>1. Len(f) <= Len(rest) /\ \A i \in 1..Len(f) : i \in 1..Len(rest) /\ rest[i] = f[i]
        <4>1. Len(f) <= Len(rest) /\ \A i \in 1..Len(f) : i \in 1..Len(rest)
          BY <1>1, <2>2, <2>6
        <4> QED  BY <1>7, <2>4, <4>1
      <3>2. found = [used |-> Len(f), raw |-> f]
        BY <2>c, <3>1 DEF Uses
      <3>a. f # <<>>
        BY <2>2
      <3>b. found.raw # <<>>
        BY <3>2, <3>a
      <3>3. treated = <<m>>
        <4>1. f # <<>>
          BY <3>a
        <4>2. found.raw = f
          BY <3>2
        <4> QED  BY <2>a, <4>1, <4>2 DEF Uses
      <3> DEFINE j == k + Len(f)
                 late == SubSeq(s.input, j + 1, n)
      <3>4. j \in Nat /\ j <= n /\ k <= j /\ j - k = Len(f) /\ found.used = Len(f) /\ k + found.used = j
        BY <1>1, <2>2, <3>1, <3>2
      <3> HIDE DEF j
      <3>5. late \in Seq(Byte)
        BY <1>1, <3>4, After
      <3>6. pend = f \o late
        <4> DEFINE early == SubSeq(s.input, k + 1, j)
        <4>1. early \o late = pend
          <5>1. /\ k + 1 \in 1..(n + 1) /\ j \in ((k + 1) - 1)..n /\ n \in j..n
            BY <1>1, <2>2, <3>4, SMTT(20)
          <5> QED  BY <1>1, <5>1, ConcatAdjacentSubSeq DEF pend
        <4>2. early \in Seq(Byte) /\ Len(early) = j - k /\ \A i \in 1..(j - k) : early[i] = s.input[k + i]
          <5>1. s.input \in Seq(Byte) /\ k \in Nat /\ j \in Nat /\ k <= j /\ j <= Len(s.input)
            BY <1>1, <3>4
          <5> QED  BY ONLY <5>1, Slice
        <4>3. j - k = Len(f)
          BY <3>4
        <4>4. \A i \in 1..Len(f) : early[i] = f[i]
          BY <1>3, <3>1, <4>2, <4>3
        <4> HIDE DEF early
        <4>5. early = f
          BY <2>2, <4>2, <4>3, <4>4, SeqEqual
        <4> QED  BY <4>1, <4>5
      <3> HIDE DEF late
      <3>7. late \o s.wire = more
        <4>1. (f \o late) \o s.wire = f \o (late \o s.wire)
          <5>1. f \in Seq(Byte) /\ late \in Seq(Byte) /\ s.wire \in Seq(Byte)
            BY <1>1, <2>2, <3>5
          <5> QED  BY ONLY <5>1, BytesJoin
        <4>2. f \o (late \o s.wire) = f \o more /\ late \o s.wire \in Seq(Byte)
          BY <1>1, <2>3, <3>5, <3>6, <4>1, ConcatProperties
        <4> QED  BY <2>2, <4>2, BytesCancel
      <3>8. <<m>> \in Seq(Messages) /\ s.got \o <<m>> \in Seq(Messages)
        <4>1. <<m>> \in Seq(Messages)
          BY <2>1
        <4> QED  BY <1>5, <4>1, ConcatProperties
      <3>9. t.sent = t.got \o Tail(ms)
        <4>1. (s.got \o <<m>>) \o Tail(ms) = s.got \o (<<m>> \o Tail(ms))
          BY <1>5, <2>1, <3>8, MessagesJoin
        <4> QED  BY <1>4, <1>6, <2>1, <3>3, <4>1
      <3>10. t \in Streams
        <4>1. t.got \in Seq(Messages \union {Short})
          <5>1. t.got \in Seq(Messages) /\ Messages \subseteq Messages \union {Short}
            BY <1>6, <3>3, <3>8
          <5> QED  BY <5>1, SeqMonotonic
        <4>2. t = [wire |-> s.wire, input |-> s.input, sent |-> s.sent, got |-> t.got, burst |-> s.burst]
          BY <1>6 DEF Streams
        <4> QED  BY <4>1, <4>2 DEF Streams
      <3>11. Flows(t, j)
        <4>1. t.got \in Seq(Messages)
          BY <1>6, <3>3, <3>8
        <4>2. SubSeq(t.input, j + 1, Len(t.input)) \o t.wire = Frames(Tail(ms))
          BY <1>6, <3>7 DEF late, more
        <4> QED  BY <2>1, <3>9, <4>1, <4>2 DEF Flows
      <3> QED  BY <1>1, <2>2, <3>1, <3>4, <3>10, <3>11, <3>b
    <2> QED  BY <2>5, <2>6
  <1> QED  BY <1>10, <1>11

-----------------------------------------------------------------------------
(* MainSocket: what a sender may rely on. *)

\* SendTargetAlive is not inductive alone.  A sender that is there alone is there while the
\* entry is whole, and what is whole is usable; while the entry is cleared bev falls before
\* state does, and afterwards neither is left.
EntryKept ==
  /\ clearing = "no" /\ state = 1 => bev \in Bevs /\ phase[bev] = "connected"
  /\ send = "alone" => clearing = "no" /\ state = 1
  /\ clearing \in {"forgotten", "silent"} => bev = NULL

SocketInv == TypeOK /\ InUseIsRecent /\ EntryKept

LEMMA SocketInvStep ==
  ASSUME SocketInv, [Next]_vars
  PROVE  SocketInv'
  <1> USE SocketAssumption DEF SocketInv
  <1>0. /\ TypeOK /\ timeout \in Nat /\ Threshold \in Nat \ {0}
        /\ threhold \in Nat
    BY DEF TypeOK
  <1>1. CASE UNCHANGED vars
    BY <1>1 DEF vars, entryVars, TypeOK, InUseIsRecent, EntryKept
  <1>2. ASSUME NewAttempt
        PROVE  /\ phase' \in [Bevs -> {"none", "connecting", "connected"}]
               /\ \A b \in Bevs : phase[b] = "connected" => phase'[b] = "connected"
    BY <1>2 DEF NewAttempt, TypeOK
  <1>3. ASSUME MeetsSender
        PROVE  send' \in {"none", "met"}
    BY <1>3 DEF MeetsSender, TypeOK
  <1>4. CASE GiveUp
    <2>1. silences' \in 0..MaxSilence
      BY <1>4 DEF GiveUp, TypeOK
    <2> QED  BY <1>0, <1>3, <1>4, <2>1 DEF GiveUp, TypeOK, InUseIsRecent, EntryKept
  <1>5. CASE Retry
    <2>1. timeout' \in Nat
      BY <1>0, <1>5 DEF Retry
    <2> QED  BY <1>0, <1>2, <1>5, <2>1 DEF Retry, TypeOK, InUseIsRecent, EntryKept
  <1>6. CASE Quiet
    <2>1. timeout' \in Nat /\ timeout' < threhold'
      BY <1>0, <1>6 DEF Quiet, Expired
    <2> QED  BY <1>0, <1>6, <2>1 DEF Quiet, TypeOK, InUseIsRecent, EntryKept
  <1>7. CASE GaveUp
    BY <1>0, <1>2, <1>7 DEF GaveUp, TypeOK, InUseIsRecent, EntryKept
  <1>8. CASE EndedForgets
    BY <1>0, <1>8 DEF EndedForgets, TypeOK, InUseIsRecent, EntryKept
  <1>9. CASE EndedClears
    BY <1>0, <1>9 DEF EndedClears, TypeOK, InUseIsRecent, EntryKept
  <1>10. CASE Sender
    <2>1. CASE SendCheck
      BY <1>0, <2>1 DEF SendCheck, entryVars, TypeOK, InUseIsRecent, EntryKept
    <2>2. CASE SendWrite
      BY <1>0, <2>2 DEF SendWrite, entryVars, TypeOK, InUseIsRecent, EntryKept
    <2> QED  BY <1>10, <2>1, <2>2 DEF Sender
  <1>11. ASSUME NEW b \in Bevs, Connected(b)
         PROVE  SocketInv'
    <2>1. phase' \in [Bevs -> {"none", "connecting", "connected"}] /\ phase'[b] = "connected"
      BY <1>0, <1>11 DEF Connected, TypeOK
    <2>2. timeout' = 0 /\ threhold' = Threshold /\ timeout' < threhold'
      BY <1>0, <1>11 DEF Connected
    <2> QED  BY <1>0, <1>11, <2>1, <2>2 DEF Connected, TypeOK, InUseIsRecent, EntryKept
  <1>12. ASSUME NEW b \in Bevs, Ended(b)
         PROVE  SocketInv'
    BY <1>0, <1>3, <1>12 DEF Ended, TypeOK, InUseIsRecent, EntryKept
  <1>13. ASSUME NEW b \in Bevs, Data(b)
         PROVE  SocketInv'
    <2>1. timeout' = 0 /\ (timeout < threhold => timeout' < threhold')
      BY <1>0, <1>13 DEF Data
    <2> QED  BY <1>0, <1>13, <2>1 DEF Data, TypeOK, InUseIsRecent, EntryKept
  <1>14. CASE Tick
    BY <1>4, <1>5, <1>6, <1>14 DEF Tick
  <1>15. CASE Clear
    BY <1>7, <1>8, <1>9, <1>15 DEF Clear
  <1> QED
    BY <1>1, <1>10, <1>11, <1>12, <1>13, <1>14, <1>15 DEF Next

LEMMA SocketInvariant == Spec => []SocketInv
<1>1. Init => SocketInv
  BY SocketAssumption DEF Init, SocketInv, TypeOK, InUseIsRecent, EntryKept
<1>2. SocketInv /\ [Next]_vars => SocketInv'
  BY SocketInvStep
<1> QED  BY <1>1, <1>2, PTL DEF Spec

\* The entry keeps its shape whatever the forgotten bufferevents report: the state is
\* 0 or 1 and the threshold the one of a connection, or still none (TypeOK).
THEOREM SocketTypeCorrect == Spec => []TypeOK
<1>1. SocketInv => TypeOK
  BY DEF SocketInv
<1> QED  BY <1>1, SocketInvariant, PTL

\* From the check of state to the write the bufferevent that fleety_socket_send writes to is
\* connected, for any number of forgotten bufferevents and any threshold, unless the socket
\* thread was between its steps of clearing the entry at some time meanwhile.
THEOREM SenderSafe == Spec => []SendTargetAlive
<1>1. SocketInv => SendTargetAlive
  BY DEF SocketInv, EntryKept, SendTargetAlive
<1> QED  BY <1>1, SocketInvariant, PTL

\* Whenever the socket thread is not clearing the entry, a connection in use is not silent past
\* the threshold, and there is no bufferevent in the entry of a server that is not connected.
THEOREM SilenceBounded == Spec => []InUseIsRecent
<1>1. SocketInv => InUseIsRecent
  BY DEF SocketInv
<1> QED  BY <1>1, SocketInvariant, PTL

-----------------------------------------------------------------------------
(* The invariant of the stream.                                              *)

\* What the loop has used of the input of b.
Skip(b) == IF loop.bev = b THEN loop.used ELSE 0

LoopWell ==
  /\ loop.bev \in Bevs /\ phase[loop.bev] = "connected"
  /\ loop.used + Len(loop.rest) <= Window
  /\ loop.used + Len(loop.rest) <= Len(stream[loop.bev].input)
  /\ loop.rest = SubSeq(stream[loop.bev].input, loop.used + 1, loop.used + Len(loop.rest))

\* StreamTypeOK without TypeOK.
StreamShape ==
  /\ stream \in [Bevs -> Streams]
  /\ \A b \in Bevs : phase[b] # "connected" => stream[b] = NoStream
  /\ loop \in [bev : Bevs \union {NULL}, used : Nat, rest : Seq(Byte)]
  /\ loop # Idle => LoopWell

\* What is sent and not treated is there, as bytes.
AllFlows == \A b \in Bevs : Flows(stream[b], Skip(b))

\* Short of a burst the loop works on all there is, and nothing whole stays behind it.
NoneLeft ==
  \A b \in Bevs :
    IF loop.bev = b
    THEN ~stream[b].burst => loop.used + Len(loop.rest) = Len(stream[b].input)
    ELSE NothingWhole(stream[b])

StreamInv == SocketInv /\ StreamShape /\ AllFlows /\ NoneLeft

LEMMA ShapeIsType == StreamTypeOK <=> TypeOK /\ StreamShape
  BY DEF StreamTypeOK, StreamShape, LoopWell, Streams, Byte

LEMMA IdleFacts ==
  /\ Idle \in [bev : Bevs \union {NULL}, used : Nat, rest : Seq(Byte)]
  /\ Idle.bev = NULL /\ \A b \in Bevs : Idle.bev # b
  <1>1. <<>> \in Seq(Byte) /\ 0 \in Nat
    OBVIOUS
  <1> QED  BY <1>1, SocketAssumption DEF Idle

\* Whatever happens to the bytes, the variables of MainSocket move as MainSocket says.
LEMMA StepOfSocket ==
  ASSUME [StreamNext]_streamVars
  PROVE  [Next]_vars
  <1>1. CASE UNCHANGED streamVars
    BY <1>1 DEF streamVars
  <1>2. CASE Ticks \/ Sends
    BY <1>2 DEF Ticks, Sends, Next
  <1>3. CASE Turn
    BY <1>3 DEF Turn
  <1>4. CASE Finish
    BY <1>4 DEF Finish
  <1>5. ASSUME NEW b \in Bevs, Opens(b) PROVE [Next]_vars
    BY <1>5 DEF Opens, Next
  <1>6. ASSUME NEW b \in Bevs, Ends(b) PROVE [Next]_vars
    BY <1>6 DEF Ends, Next
  <1>7. ASSUME NEW b \in Bevs, ReadCb(b) PROVE [Next]_vars
    <2>1. Data(b)
      BY <1>7 DEF ReadCb
    <2> QED  BY <2>1 DEF Next
  <1>8. ASSUME NEW b \in Bevs, NEW m \in Messages, ServerSends(b, m) PROVE [Next]_vars
    <2>1. UNCHANGED vars
      BY <1>8 DEF ServerSends
    <2> QED  BY <2>1
  <1> QED  BY <1>1, <1>2, <1>3, <1>4, <1>5, <1>6, <1>7, <1>8 DEF StreamNext

LEMMA StreamInvInit ==
  ASSUME StreamInit
  PROVE  StreamInv
  <1>1. SocketInv
    BY SocketAssumption DEF StreamInit, Init, SocketInv, TypeOK, InUseIsRecent, EntryKept
  <1>2. loop = Idle /\ \A b \in Bevs : stream[b] = NoStream /\ stream \in [Bevs -> Streams]
    BY NewStream DEF StreamInit
  <1>3. \A b \in Bevs : loop.bev # b /\ Skip(b) = 0
    BY <1>2, IdleFacts DEF Skip
  <1>4. StreamShape
    <2>1. stream \in [Bevs -> Streams]
      BY NewStream DEF StreamInit
    <2> QED  BY <1>2, <2>1, IdleFacts DEF StreamShape
  <1>5. AllFlows
    BY <1>2, <1>3, NewStream DEF AllFlows
  <1>6. NoneLeft
    BY <1>2, <1>3, NewStream DEF NoneLeft
  <1> QED  BY <1>1, <1>4, <1>5, <1>6 DEF StreamInv

LEMMA StreamInvSends ==
  ASSUME StreamInv, NEW b \in Bevs, NEW m \in Messages, ServerSends(b, m)
  PROVE  StreamShape' /\ AllFlows' /\ NoneLeft'
  <1>1. /\ phase[b] = "connected" /\ UNCHANGED vars /\ loop' = loop
        /\ stream' = [stream EXCEPT ![b].wire = @ \o Frame(m), ![b].sent = Append(@, m)]
    BY DEF ServerSends
  <1>2. StreamShape /\ AllFlows /\ NoneLeft /\ phase' = phase
    BY <1>1 DEF StreamInv, vars, entryVars
  <1> DEFINE s == stream[b]
             t == [s EXCEPT !.wire = @ \o Frame(m), !.sent = Append(@, m)]
  <1>3. s \in Streams /\ stream \in [Bevs -> Streams]
    BY <1>2 DEF StreamShape
  <1>4. stream'[b] = t /\ \A c \in Bevs \ {b} : stream'[c] = stream[c]
    BY <1>1, <1>3 DEF Streams
  <1>5. t.input = s.input /\ t.burst = s.burst
    BY <1>3 DEF Streams
  <1>6. Skip(b) \in Nat /\ Skip(b) <= Len(s.input)
    <2>1. CASE loop.bev = b
      <3>1. loop # Idle
        BY <2>1, IdleFacts
      <3>2. loop.used \in Nat /\ Len(loop.rest) \in Nat /\ loop.used + Len(loop.rest) <= Len(s.input)
        <4>1. loop.used \in Nat /\ loop.rest \in Seq(Byte)
          BY <1>2 DEF StreamShape
        <4>2. loop.used + Len(loop.rest) <= Len(s.input)
          BY <1>2, <2>1, <3>1 DEF StreamShape, LoopWell
        <4> QED  BY <4>1, <4>2, LenProperties
      <3>3. Len(s.input) \in Nat
        BY <1>3, LenProperties DEF Streams
      <3> HIDE DEF s
      <3> QED  BY <2>1, <3>2, <3>3 DEF Skip
    <2>2. CASE loop.bev # b
      <3>1. Len(s.input) \in Nat
        BY <1>3, LenProperties DEF Streams
      <3> QED  BY <2>2, <3>1 DEF Skip
    <2> QED  BY <2>1, <2>2
  <1>7. Flows(s, Skip(b))
    BY <1>2 DEF AllFlows
  <1> HIDE DEF s, t
  <1>8. t \in Streams /\ Flows(t, Skip(b))
    BY <1>3, <1>6, <1>7, FlowsSend DEF t
  <1>9. \A c \in Bevs : /\ (Skip(c))' = Skip(c)
                        /\ stream'[c].input = stream[c].input /\ stream'[c].burst = stream[c].burst
    BY <1>1, <1>4, <1>5 DEF Skip, s
  <1>10. StreamShape'
    <2>1. stream' \in [Bevs -> Streams]
      <3>1. stream' = [stream EXCEPT ![b] = t]
        BY <1>1, <1>3 DEF t, s
      <3> QED  BY <1>3, <1>8, <3>1
    <2>2. \A c \in Bevs : phase'[c] # "connected" => stream'[c] = NoStream
      BY <1>1, <1>2, <1>4 DEF StreamShape
    <2>3. loop' # Idle => LoopWell'
      BY <1>1, <1>2, <1>9 DEF StreamShape, LoopWell
    <2> QED  BY <1>1, <1>2, <2>1, <2>2, <2>3 DEF StreamShape
  <1>11. AllFlows'
    <2>1. \A c \in Bevs : Flows(stream'[c], Skip(c))
      BY <1>2, <1>4, <1>8 DEF AllFlows
    <2> QED  BY <1>9, <2>1 DEF AllFlows
  <1>12. NoneLeft'
    BY <1>1, <1>2, <1>9 DEF NoneLeft, NothingWhole
  <1> QED  BY <1>10, <1>11, <1>12

LEMMA StreamInvTicks ==
  ASSUME StreamInv, Ticks \/ \E b \in Bevs : Opens(b)
  PROVE  StreamShape' /\ AllFlows' /\ NoneLeft'
  <1>1. stream' = stream /\ loop' = loop /\ loop = Idle
    BY DEF Ticks, Opens
  <1>2. StreamShape /\ AllFlows /\ NoneLeft /\ TypeOK
    BY DEF StreamInv, SocketInv
  <1>3. \A c \in Bevs : phase[c] = "connected" => phase'[c] = "connected"
    <2>1. CASE Ticks
      BY <1>2, <2>1 DEF Ticks, Tick, GiveUp, Retry, Quiet, Clear, GaveUp, EndedForgets, EndedClears,
                        NewAttempt, TypeOK
    <2>2. ASSUME NEW b \in Bevs, Opens(b)
          PROVE  \A c \in Bevs : phase[c] = "connected" => phase'[c] = "connected"
      BY <1>2, <2>2 DEF Opens, Connected, TypeOK
    <2> QED  BY <2>1, <2>2
  <1>4. StreamShape'
    BY <1>1, <1>2, <1>3 DEF StreamShape
  <1>5. AllFlows'
    BY <1>1, <1>2 DEF AllFlows, Skip
  <1>6. NoneLeft'
    BY <1>1, <1>2 DEF NoneLeft
  <1> QED  BY <1>4, <1>5, <1>6

LEMMA StreamInvEnds ==
  ASSUME StreamInv, NEW b \in Bevs, Ends(b)
  PROVE  StreamShape' /\ AllFlows' /\ NoneLeft'
  <1>1. stream' = [stream EXCEPT ![b] = NoStream] /\ loop' = loop /\ loop = Idle
    BY DEF Ends
  <1>2. StreamShape /\ AllFlows /\ NoneLeft /\ TypeOK
    BY DEF StreamInv, SocketInv
  <1>3. stream' \in [Bevs -> Streams] /\ stream'[b] = NoStream
        /\ \A c \in Bevs \ {b} : stream'[c] = stream[c]
    BY <1>1, <1>2, NewStream DEF StreamShape
  <1>4. \A c \in Bevs \ {b} : phase'[c] = phase[c]
    BY <1>2 DEF Ends, Ended, TypeOK
  <1>5. \A c \in Bevs : loop.bev # c /\ loop'.bev # c /\ Skip(c) = 0 /\ (Skip(c))' = 0
    BY <1>1, IdleFacts DEF Skip
  <1>6. StreamShape'
    <2>1. \A c \in Bevs : phase'[c] # "connected" => stream'[c] = NoStream
      BY <1>2, <1>3, <1>4 DEF StreamShape
    <2> QED  BY <1>1, <1>2, <1>3, <2>1 DEF StreamShape
  <1>7. AllFlows'
    <2>1. \A c \in Bevs : Flows(stream'[c], 0)
      BY <1>2, <1>3, <1>5, NewStream DEF AllFlows
    <2> QED  BY <1>5, <2>1 DEF AllFlows
  <1>8. NoneLeft'
    <2>1. \A c \in Bevs : NothingWhole(stream'[c])
      BY <1>2, <1>3, <1>5, NewStream DEF NoneLeft
    <2> QED  BY <1>5, <2>1 DEF NoneLeft, NothingWhole
  <1> QED  BY <1>6, <1>7, <1>8

LEMMA StreamInvReadCb ==
  ASSUME StreamInv, NEW b \in Bevs, ReadCb(b)
  PROVE  StreamShape' /\ AllFlows' /\ NoneLeft'
  <1>1. loop = Idle /\ phase[b] = "connected" /\ phase' = phase
    BY DEF ReadCb, Data
  <1>2. StreamShape /\ AllFlows /\ NoneLeft
    BY DEF StreamInv
  <1> DEFINE s == stream[b]
  <1>3. s \in Streams /\ stream \in [Bevs -> Streams]
    BY <1>2 DEF StreamShape
  <1>4. PICK n \in 1..Len(s.wire) :
          LET input == s.input \o SubSeq(s.wire, 1, n)
              len   == IF Len(input) < Window THEN Len(input) ELSE Window
          IN  /\ stream' = [stream EXCEPT ![b].wire  = SubSeq(@, n + 1, Len(@)),
                                          ![b].input = input,
                                          ![b].burst = @ \/ Len(input) > Window]
              /\ loop' = [bev |-> b, used |-> 0, rest |-> SubSeq(input, 1, len)]
    BY DEF ReadCb
  <1> DEFINE input == s.input \o SubSeq(s.wire, 1, n)
             len   == IF Len(input) < Window THEN Len(input) ELSE Window
             x     == s.burst \/ Len(input) > Window
             rest  == SubSeq(input, 1, len)
             t     == [s EXCEPT !.wire = SubSeq(@, n + 1, Len(@)), !.input = input, !.burst = x]
  <1>5. stream' = [stream EXCEPT ![b] = t] /\ loop' = [bev |-> b, used |-> 0, rest |-> rest]
    <2>1. stream' = [stream EXCEPT ![b].wire  = SubSeq(@, n + 1, Len(@)),
                                   ![b].input = input, ![b].burst = x]
      BY <1>4
    <2>2. loop' = [bev |-> b, used |-> 0, rest |-> rest]
      BY <1>4
    <2> HIDE DEF input, rest, x
    <2> QED  BY <1>3, <2>1, <2>2
  <1>6. \A c \in Bevs : loop.bev # c /\ Skip(c) = 0
    BY <1>1, IdleFacts DEF Skip
  <1>7. Flows(s, 0)
    BY <1>2, <1>6 DEF AllFlows
  <1>8. t.input = input /\ t.burst = x
    <2> HIDE DEF input, x
    <2> QED  BY <1>3 DEF Streams
  <1>9. t \in Streams /\ Flows(t, 0)
    <2>1. x \in BOOLEAN
      <3> HIDE DEF input
      <3> QED  BY <1>3 DEF Streams
    <2> HIDE DEF x, s
    <2> QED  BY <1>3, <1>7, <2>1, FlowsArrive
  <1> HIDE DEF t
  <1>10. input \in Seq(Byte) /\ Len(input) \in Nat
    <2>1. input \in Seq(Byte)
      BY <1>8, <1>9 DEF Streams
    <2> HIDE DEF input
    <2> QED  BY <2>1, LenProperties
  <1> HIDE DEF input
  <1>11. /\ len \in Nat /\ len <= Window /\ len <= Len(input)
         /\ ~x => len = Len(input)
    BY <1>10, StreamAssumption
  <1> HIDE DEF len, x, s
  <1>12. rest \in Seq(Byte) /\ Len(rest) = len /\ rest = SubSeq(input, 0 + 1, 0 + len)
    <2>1. 0 + 1 = 1 /\ 0 + len = len /\ len - 0 = len /\ 0 \in Nat /\ 0 <= len
      BY <1>11
    <2>2. SubSeq(input, 0 + 1, len) \in Seq(Byte) /\ Len(SubSeq(input, 0 + 1, len)) = len - 0
      BY <1>10, <1>11, <2>1, Slice
    <2> QED  BY <2>1, <2>2
  <1> HIDE DEF rest
  <1>13. /\ stream' \in [Bevs -> Streams] /\ stream'[b] = t
         /\ \A c \in Bevs \ {b} : stream'[c] = stream[c]
    BY <1>3, <1>5, <1>9
  <1>14. loop'.bev = b /\ loop'.used = 0 /\ loop'.rest = rest
    BY <1>5
  <1>15. StreamShape'
    <2>1. \A c \in Bevs : phase'[c] # "connected" => stream'[c] = NoStream
      BY <1>1, <1>2, <1>13 DEF StreamShape
    <2>2. loop' \in [bev : Bevs \union {NULL}, used : Nat, rest : Seq(Byte)]
      BY <1>5, <1>12
    <2>3. 0 + Len(rest) <= Window /\ 0 + Len(rest) <= Len(stream'[b].input)
      BY <1>8, <1>10, <1>11, <1>12, <1>13
    <2>4. rest = SubSeq(stream'[b].input, 0 + 1, 0 + Len(rest))
      BY <1>8, <1>12, <1>13
    <2>5. LoopWell'
      BY <1>1, <1>14, <2>3, <2>4 DEF LoopWell
    <2> QED  BY <1>13, <2>1, <2>2, <2>5 DEF StreamShape
  <1>16. AllFlows'
    <2>1. \A c \in Bevs : Flows(stream'[c], 0)
      BY <1>2, <1>6, <1>9, <1>13 DEF AllFlows
    <2>2. \A c \in Bevs : (Skip(c))' = 0
      BY <1>14 DEF Skip
    <2> QED  BY <2>1, <2>2 DEF AllFlows
  <1>17. NoneLeft'
    <2>1. ~t.burst => 0 + Len(rest) = Len(t.input)
      BY <1>8, <1>11, <1>12
    <2>2. \A c \in Bevs \ {b} : NothingWhole(stream'[c])
      BY <1>2, <1>6, <1>13 DEF NoneLeft
    <2> QED  BY <1>13, <1>14, <2>1, <2>2 DEF NoneLeft, NothingWhole
  <1> QED  BY <1>15, <1>16, <1>17

\* What a turn of the loop finds and treats, and that it has not used more than there is.
LEMMA TurnFacts ==
  ASSUME StreamInv, loop # Idle, NEW t, t = [stream[loop.bev] EXCEPT !.got = @ \o Treated]
  PROVE  /\ loop.used \in Nat /\ loop.rest \in Seq(Byte) /\ Len(loop.rest) \in Nat
         /\ Found.used \in Nat /\ Found.used <= Len(loop.rest)
         /\ Found.raw = <<>> => Found.used = 0
         /\ t \in Streams /\ Flows(t, NowUsed)
  <1>1. /\ stream[loop.bev] \in Streams /\ loop.used \in Nat /\ loop.rest \in Seq(Byte)
        /\ loop.used + Len(loop.rest) <= Len(stream[loop.bev].input)
        /\ loop.rest = SubSeq(stream[loop.bev].input, loop.used + 1, loop.used + Len(loop.rest))
    BY DEF StreamInv, StreamShape, LoopWell
  <1>2. Flows(stream[loop.bev], loop.used)
    <2>1. loop.bev \in Bevs /\ Skip(loop.bev) = loop.used
      BY DEF StreamInv, StreamShape, LoopWell, Skip
    <2> QED  BY <2>1 DEF StreamInv, AllFlows
  <1>3. Uses(loop.rest, Found, Treated)
    BY DEF Uses, Found, Treated
  <1> DEFINE s == stream[loop.bev]
             k == loop.used
             rest == loop.rest
             found == Found
             treated == Treated
  <1>4. /\ found.used \in Nat /\ found.used <= Len(rest)
        /\ found.raw = <<>> => found.used = 0
        /\ t \in Streams /\ Flows(t, k + found.used)
    <2>1. t = [s EXCEPT !.got = @ \o treated]
      OBVIOUS
    <2> HIDE DEF s, k, rest, found, treated
    <2>2. /\ s \in Streams /\ k \in Nat /\ rest \in Seq(Byte) /\ k + Len(rest) <= Len(s.input)
          /\ rest = SubSeq(s.input, k + 1, k + Len(rest))
          /\ Flows(s, k) /\ Uses(rest, found, treated)
      BY <1>1, <1>2, <1>3 DEF s, k, rest, found, treated
    <2> QED  BY <2>1, <2>2, FlowsTurn
  <1>5. Len(loop.rest) \in Nat
    BY <1>1, LenProperties
  <1> QED  BY <1>1, <1>4, <1>5 DEF NowUsed

LEMMA StreamInvTurn ==
  ASSUME StreamInv, Turn
  PROVE  StreamShape' /\ AllFlows' /\ NoneLeft'
  <1> DEFINE b == loop.bev
             s == stream[b]
             t == [s EXCEPT !.got = @ \o Treated]
             rest == loop.rest
  <1>1. /\ loop # Idle /\ phase' = phase
        /\ stream' = [stream EXCEPT ![b].got = @ \o Treated]
        /\ loop' = [loop EXCEPT !.used = NowUsed, !.rest = NowLeft]
    BY DEF Turn, vars, entryVars
  <1>2. StreamShape /\ AllFlows /\ NoneLeft
    BY DEF StreamInv
  <1>3. /\ stream \in [Bevs -> Streams] /\ b \in Bevs /\ phase[b] = "connected"
        /\ loop \in [bev : Bevs \union {NULL}, used : Nat, rest : Seq(Byte)]
        /\ loop.used + Len(rest) <= Window /\ loop.used + Len(rest) <= Len(s.input)
        /\ rest = SubSeq(s.input, loop.used + 1, loop.used + Len(rest))
    BY <1>1, <1>2 DEF StreamShape, LoopWell
  <1>4. /\ loop.used \in Nat /\ rest \in Seq(Byte) /\ Len(rest) \in Nat
        /\ Found.used \in Nat /\ Found.used <= Len(rest)
        /\ t \in Streams /\ Flows(t, NowUsed)
    BY <1>1, TurnFacts
  <1>5. t.input = s.input /\ t.burst = s.burst
    BY <1>3 DEF Streams
  <1>6. /\ stream' \in [Bevs -> Streams] /\ stream'[b] = t
        /\ \A c \in Bevs \ {b} : stream'[c] = stream[c]
    <2>1. stream' = [stream EXCEPT ![b] = t]
      BY <1>1, <1>3
    <2> HIDE DEF t, b
    <2> QED  BY <1>3, <1>4, <2>1
  <1>7. loop'.bev = b /\ loop'.used = NowUsed /\ loop'.rest = NowLeft
    BY <1>1, <1>3
  <1>8. /\ NowLeft \in Seq(Byte) /\ Len(NowLeft) = Len(rest) - Found.used
        /\ \A i \in 1..(Len(rest) - Found.used) : NowLeft[i] = rest[Found.used + i]
    BY <1>4, After DEF NowLeft
  <1>9. /\ NowUsed \in Nat /\ NowUsed + Len(NowLeft) = loop.used + Len(rest)
    BY <1>4, <1>8 DEF NowUsed
  <1>10. NowLeft = SubSeq(s.input, NowUsed + 1, NowUsed + Len(NowLeft))
    <2> DEFINE j == loop.used + Len(rest)
               inp == s.input
    <2>0. /\ loop.used \in Nat /\ Len(rest) \in Nat /\ Found.used \in Nat
          /\ Found.used <= Len(rest) /\ Len(NowLeft) = Len(rest) - Found.used
          /\ NowUsed = loop.used + Found.used
      BY <1>4, <1>8 DEF NowUsed
    <2>1. j \in Nat /\ NowUsed <= j /\ j - NowUsed = Len(NowLeft) /\ loop.used <= j
          /\ j - loop.used = Len(rest) /\ Len(NowLeft) \in Nat
      BY ONLY <2>0
    <2>2. inp \in Seq(Byte) /\ j <= Len(inp)
      BY <1>3 DEF Streams
    <2>3. \A i \in 1..Len(rest) : rest[i] = inp[loop.used + i]
      <3>1. \A i \in 1..(j - loop.used) : SubSeq(inp, loop.used + 1, j)[i] = inp[loop.used + i]
        <4> HIDE DEF j, inp
        <4> QED  BY <1>4, <2>1, <2>2, Slice, SMTT(20)
      <3> QED  BY <1>3, <2>1, <3>1
    <2> DEFINE late == SubSeq(inp, NowUsed + 1, j)
    <2>4. /\ late \in Seq(Byte) /\ Len(late) = j - NowUsed
          /\ \A i \in 1..(j - NowUsed) : late[i] = inp[NowUsed + i]
      <3> HIDE DEF j, inp
      <3> QED  BY <1>9, <2>1, <2>2, Slice
    <2> HIDE DEF inp, late
    <2>5. ASSUME NEW i \in 1..Len(NowLeft) PROVE NowLeft[i] = late[i]
      <3>1. /\ i \in 1..(Len(rest) - Found.used) /\ Found.used + i \in 1..Len(rest)
            /\ loop.used + (Found.used + i) = NowUsed + i /\ i \in 1..(j - NowUsed)
        BY <1>4, <1>8, <2>1, SMTT(20) DEF NowUsed
      <3> HIDE DEF j
      <3>2. NowLeft[i] = rest[Found.used + i] /\ rest[Found.used + i] = inp[NowUsed + i]
        BY <1>8, <2>3, <3>1
      <3> QED  BY <2>4, <3>1, <3>2
    <2> HIDE DEF j
    <2>6. NowLeft = late
      BY <1>8, <2>1, <2>4, <2>5, SeqEqual
    <2> QED  BY <1>9, <2>6 DEF late, inp, j
  <1> HIDE DEF t, rest
  <1>11. StreamShape'
    <2>1. \A c \in Bevs : phase'[c] # "connected" => stream'[c] = NoStream
      BY <1>1, <1>2, <1>3, <1>6 DEF StreamShape
    <2>2. loop' \in [bev : Bevs \union {NULL}, used : Nat, rest : Seq(Byte)]
      <3>1. loop' = [bev |-> b, used |-> NowUsed, rest |-> NowLeft]
        BY <1>1, <1>3
      <3> QED  BY <1>3, <1>8, <1>9, <3>1
    <2>3. LoopWell'
      <3>1. NowUsed + Len(NowLeft) <= Window /\ NowUsed + Len(NowLeft) <= Len(t.input)
        BY <1>3, <1>5, <1>9
      <3>2. stream'[loop'.bev] = t
        BY <1>6, <1>7
      <3> QED  BY <1>1, <1>3, <1>5, <1>7, <1>10, <3>1, <3>2 DEF LoopWell
    <2> QED  BY <1>6, <2>1, <2>2, <2>3 DEF StreamShape
  <1>12. AllFlows'
    <2>1. \A c \in Bevs \ {b} : (Skip(c))' = Skip(c)
      BY <1>7 DEF Skip
    <2>2. \A c \in Bevs \ {b} : Flows(stream'[c], Skip(c))
      BY <1>2, <1>6 DEF AllFlows
    <2>3. \A c \in Bevs : Flows(stream'[c], (Skip(c))')
      <3>1. SUFFICES ASSUME NEW c \in Bevs PROVE Flows(stream'[c], (Skip(c))')
        OBVIOUS
      <3>2. CASE c = b
        <4>1. stream'[c] = t /\ (Skip(c))' = NowUsed
          BY <1>6, <1>7, <3>2 DEF Skip
        <4>2. Flows(t, NowUsed)
          BY <1>4
        <4> QED  BY ONLY <4>1, <4>2
      <3>3. CASE c # b
        <4>1. (Skip(c))' = Skip(c) /\ Flows(stream'[c], Skip(c))
          BY <2>1, <2>2, <3>3
        <4> QED  BY ONLY <4>1
      <3> QED  BY <3>2, <3>3
    <2> QED  BY <2>3 DEF AllFlows
  <1>13. NoneLeft'
    <2>1. ~t.burst => NowUsed + Len(NowLeft) = Len(t.input)
      BY <1>2, <1>3, <1>5, <1>9 DEF NoneLeft, rest
    <2> QED  BY <1>2, <1>6, <1>7, <2>1 DEF NoneLeft, NothingWhole
  <1> QED  BY <1>11, <1>12, <1>13

LEMMA StreamInvFinish ==
  ASSUME StreamInv, Finish
  PROVE  StreamShape' /\ AllFlows' /\ NoneLeft'
  <1> DEFINE b == loop.bev
             s == stream[b]
             t == [s EXCEPT !.got = @ \o Treated]
             u == [t EXCEPT !.input = SubSeq(@, NowUsed + 1, Len(@))]
             rest == loop.rest
  <1>1. /\ loop # Idle /\ LastTurn /\ phase' = phase /\ loop' = Idle
        /\ stream' = [stream EXCEPT ![b].got = @ \o Treated,
                                    ![b].input = SubSeq(@, NowUsed + 1, Len(@))]
    BY DEF Finish, vars, entryVars
  <1>2. StreamShape /\ AllFlows /\ NoneLeft
    BY DEF StreamInv
  <1>3. /\ stream \in [Bevs -> Streams] /\ b \in Bevs /\ phase[b] = "connected"
        /\ loop.used + Len(rest) <= Len(s.input)
        /\ rest = SubSeq(s.input, loop.used + 1, loop.used + Len(rest))
    BY <1>1, <1>2 DEF StreamShape, LoopWell
  <1>4. /\ loop.used \in Nat /\ rest \in Seq(Byte) /\ Len(rest) \in Nat
        /\ Found.used \in Nat /\ Found.used <= Len(rest)
        /\ (Found.raw = <<>> => Found.used = 0)
        /\ t \in Streams /\ Flows(t, NowUsed)
    BY <1>1, TurnFacts
  <1>5. t.input = s.input /\ t.burst = s.burst /\ s.input \in Seq(Byte) /\ Len(s.input) \in Nat
    <2>1. t.input = s.input /\ t.burst = s.burst /\ s.input \in Seq(Byte)
      BY <1>3 DEF Streams
    <2> QED  BY <2>1, LenProperties
  <1>6. NowUsed \in Nat /\ NowUsed <= Len(t.input)
    BY <1>3, <1>4, <1>5, SMTT(20) DEF NowUsed
  <1>7. u \in Streams /\ Flows(u, 0)
    <2> HIDE DEF t
    <2> QED  BY <1>4, <1>6, FlowsDrain
  <1>8. u.burst = s.burst /\ u.input = SubSeq(s.input, NowUsed + 1, Len(s.input))
    BY <1>3 DEF Streams
  <1>9. /\ stream' \in [Bevs -> Streams] /\ stream'[b] = u
        /\ \A c \in Bevs \ {b} : stream'[c] = stream[c]
    <2>1. stream' = [stream EXCEPT ![b] = u]
      BY <1>1, <1>3 DEF Streams
    <2> HIDE DEF u, b
    <2> QED  BY <1>3, <1>7, <2>1
  <1>10. \A c \in Bevs : loop'.bev # c /\ (Skip(c))' = 0 /\ (c # b => Skip(c) = 0)
    BY <1>1, IdleFacts DEF Skip
  <1> HIDE DEF u, t
  <1>11. StreamShape'
    <2>1. \A c \in Bevs : phase'[c] # "connected" => stream'[c] = NoStream
      BY <1>1, <1>2, <1>3, <1>9 DEF StreamShape
    <2> QED  BY <1>1, <1>9, <2>1, IdleFacts DEF StreamShape
  <1>12. AllFlows'
    <2>1. \A c \in Bevs : Flows(stream'[c], 0)
      BY <1>2, <1>7, <1>9, <1>10 DEF AllFlows
    <2> QED  BY <1>10, <2>1 DEF AllFlows
  <1>13. NothingWhole(u)
    <2>1. SUFFICES ASSUME ~u.burst, NEW m \in Messages, StartsWith(u.input, Frame(m)) PROVE FALSE
      BY DEF NothingWhole
    <2>2. loop.used + Len(rest) = Len(s.input)
      BY <1>2, <1>3, <1>8, <2>1 DEF NoneLeft
    <2>3. Len(u.input) = Len(s.input) - NowUsed
      BY <1>5, <1>6, <1>8, After
    <2>4. Len(Frame(m)) \in Nat /\ Len(Frame(m)) >= 4 /\ Len(u.input) >= 4
      BY <1>5, <1>6, <2>1, <2>3, FrameLooks DEF StartsWith
    <2>5. CASE Found.raw = <<>>
      <3>1. Found.used = 0 /\ NowUsed = loop.used
        BY <1>4, <2>5 DEF NowUsed
      <3>2. u.input = rest
        BY <1>3, <1>8, <2>2, <3>1
      <3>3. Found = [used |-> Len(Frame(m)), raw |-> Frame(m)]
        BY <1>4, <2>1, <3>2, FullFrame DEF Found
      <3> QED  BY <2>4, <3>1, <3>3
    <2>6. CASE Found.raw # <<>>
      <3>1. NowLeft = <<>>
        BY <1>1, <2>6 DEF LastTurn
      <3>2. Len(NowLeft) = Len(rest) - Found.used
        BY <1>4, After DEF NowLeft
      <3>3. Len(rest) = Found.used
        BY <1>4, <3>1, <3>2
      <3> QED  BY <1>4, <2>2, <2>3, <2>4, <3>3 DEF NowUsed
    <2> QED  BY <2>5, <2>6
  <1>14. NoneLeft'
    <2>1. \A c \in Bevs \ {b} : NothingWhole(stream'[c])
      BY <1>2, <1>9 DEF NoneLeft
    <2>2. \A c \in Bevs : NothingWhole(stream'[c])
      BY <1>9, <1>13, <2>1
    <2> QED  BY <1>10, <2>2 DEF NoneLeft, NothingWhole
  <1> QED  BY <1>11, <1>12, <1>14

LEMMA StreamInvStep ==
  ASSUME StreamInv, [StreamNext]_streamVars
  PROVE  StreamInv'
  <1>1. SocketInv'
    BY StepOfSocket, SocketInvStep DEF StreamInv
  <1>2. StreamShape' /\ AllFlows' /\ NoneLeft'
    <2>1. CASE UNCHANGED streamVars \/ Sends
      <3>1. phase' = phase /\ stream' = stream /\ loop' = loop
        BY <2>1 DEF streamVars, vars, entryVars, Sends, Sender, SendCheck, SendWrite
      <3> QED  BY <3>1 DEF StreamInv, StreamShape, LoopWell, AllFlows, Skip, NoneLeft
    <2>2. CASE Ticks \/ \E b \in Bevs : Opens(b)
      BY <2>2, StreamInvTicks
    <2>3. CASE Turn
      BY <2>3, StreamInvTurn
    <2>4. CASE Finish
      BY <2>4, StreamInvFinish
    <2>5. ASSUME NEW b \in Bevs, Ends(b) PROVE StreamShape' /\ AllFlows' /\ NoneLeft'
      BY <2>5, StreamInvEnds
    <2>6. ASSUME NEW b \in Bevs, ReadCb(b) PROVE StreamShape' /\ AllFlows' /\ NoneLeft'
      BY <2>6, StreamInvReadCb
    <2>7. ASSUME NEW b \in Bevs, NEW m \in Messages, ServerSends(b, m)
          PROVE  StreamShape' /\ AllFlows' /\ NoneLeft'
      BY <2>7, StreamInvSends
    <2> QED  BY <2>1, <2>2, <2>3, <2>4, <2>5, <2>6, <2>7 DEF StreamNext
  <1> QED  BY <1>1, <1>2 DEF StreamInv

LEMMA StreamInvariant == StreamSpec => []StreamInv
<1>1. StreamInit => StreamInv
  BY StreamInvInit
<1>2. StreamInv /\ [StreamNext]_streamVars => StreamInv'
  BY StreamInvStep
<1> QED  BY <1>1, <1>2, PTL DEF StreamSpec

\* ServerStream implements MainSocket: with the bytes of the messages, the loop over them
\* and a thread that does nothing else meanwhile, the connection does what MainSocket lets
\* it do, and is as fair.
THEOREM StreamImplementsSocket == StreamSpec => Spec
<1>1. StreamInit => Init
  BY DEF StreamInit
<1>2. [StreamNext]_streamVars => [Next]_vars
  BY StepOfSocket
<1> QED  BY <1>1, <1>2, PTL DEF StreamSpec, Spec

\* With the bytes and the loop as well: a sender that meets no clearing of the entry writes to a
\* connected bufferevent, and between the callbacks a connection in use is not silent past the
\* threshold (fleety_socket_send, main_server_event_cb, socket_timeout_cb).
THEOREM StreamSafe == StreamSpec => [](SendTargetAlive /\ InUseIsRecent)
<1>1. SendTargetAlive /\ InUseIsRecent => SendTargetAlive /\ InUseIsRecent
  OBVIOUS
<1> QED  BY StreamImplementsSocket, SenderSafe, SilenceBounded, <1>1, PTL

\* The entry and the buffers keep their shape: a bufferevent that is not connected has no
\* bytes, and the loop of gb905_protocol_ayalyze stays within the copy and within the input
\* of a connected bufferevent.
THEOREM StreamTypeCorrect == StreamSpec => []StreamTypeOK
<1>1. StreamInv => StreamTypeOK
  BY ShapeIsType DEF StreamInv, SocketInv
<1> QED  BY <1>1, StreamInvariant, PTL

LEMMA FlowsPrefix ==
  ASSUME NEW s \in Streams, NEW k, Flows(s, k)
  PROVE  IsPrefix(s.got, s.sent)
  <1>1. PICK ms \in Seq(Messages) : s.sent = s.got \o ms
    BY DEF Flows
  <1> DEFINE got == s.got
             all == got \o ms
  <1>2. got \in Seq(Messages) /\ Len(got) \in Nat /\ Len(ms) \in Nat
    BY LenProperties DEF Flows
  <1> HIDE DEF got
  <1>3. /\ all \in Seq(Messages) /\ Len(all) = Len(got) + Len(ms)
        /\ \A i \in 1..(Len(got) + Len(ms)) : all[i] = IF i <= Len(got) THEN got[i] ELSE ms[i - Len(got)]
    BY <1>2, ConcatProperties
  <1> HIDE DEF all
  <1>4. /\ SubSeq(all, 0 + 1, Len(got)) \in Seq(Messages)
        /\ Len(SubSeq(all, 0 + 1, Len(got))) = Len(got) - 0
        /\ \A i \in 1..(Len(got) - 0) : SubSeq(all, 0 + 1, Len(got))[i] = all[0 + i]
    <2>1. 0 \in Nat /\ 0 <= Len(got) /\ Len(got) <= Len(all)
      BY <1>2, <1>3
    <2> QED  BY <1>2, <1>3, <2>1, Slice
  <1>5. \A i \in 1..Len(got) : SubSeq(all, 0 + 1, Len(got))[i] = got[i]
    <2>1. \A i \in 1..Len(got) : /\ i \in 1..(Len(got) - 0) /\ i \in 1..(Len(got) + Len(ms))
                                 /\ i <= Len(got) /\ 0 + i = i
      BY <1>2
    <2> QED  BY <1>3, <1>4, <2>1
  <1>6. SubSeq(all, 1, Len(got)) = got
    <2>1. Len(got) - 0 = Len(got) /\ 0 + 1 = 1
      BY <1>2
    <2>2. SubSeq(all, 0 + 1, Len(got)) = got
      BY <1>2, <1>4, <1>5, <2>1, SeqEqual
    <2> QED  BY <2>1, <2>2
  <1>7. SubSeq(got, 1, Len(got)) = got
    BY <1>2, SubSeqFull
  <1>8. s.got = got /\ s.sent = all
    BY <1>1 DEF got, all
  <1>9. Len(got) <= Len(all)
    BY <1>2, <1>3
  <1> QED  BY <1>6, <1>7, <1>8, <1>9 DEF IsPrefix

\* What is treated on a connection is what the server has sent on it, in order, nothing
\* twice and nothing in between, for messages of any bytes and any length, cut in any way
\* and copied through a window of any size (TreatedAsSent).
THEOREM MessagesAsSent == StreamSpec => []TreatedAsSent
<1>1. StreamInv => TreatedAsSent
  <2>1. SUFFICES ASSUME StreamInv, NEW b \in Bevs PROVE IsPrefix(stream[b].got, stream[b].sent)
    BY DEF TreatedAsSent
  <2>2. stream[b] \in Streams /\ Flows(stream[b], Skip(b))
    BY <2>1 DEF StreamInv, StreamShape, AllFlows
  <2> QED  BY <2>2, FlowsPrefix
<1> QED  BY <1>1, StreamInvariant, PTL

\* No message that has arrived whole stays untreated once the callback is through, as long
\* as no more has arrived at a time than is copied (Heard).
THEOREM AllHeard == StreamSpec => []Heard
<1>1. StreamInv => Heard
  <2>1. SUFFICES ASSUME StreamInv, NEW b \in Bevs, stream[b].wire = <<>>,
                        ~stream[b].burst, loop.bev # b
                 PROVE  stream[b].got = stream[b].sent
    BY DEF Heard
  <2> DEFINE s == stream[b]
  <2>2. s \in Streams /\ s.input \in Seq(Byte) /\ NothingWhole(s)
    BY <2>1 DEF StreamInv, StreamShape, NoneLeft, Streams
  <2>3. Flows(s, 0)
    <3>1. Skip(b) = 0
      BY <2>1 DEF Skip
    <3> QED  BY <2>1, <3>1 DEF StreamInv, AllFlows
  <2>4. PICK ms \in Seq(Messages) : s.sent = s.got \o ms /\ s.input = Frames(ms)
    <3>1. PICK ms \in Seq(Messages) :
            /\ s.sent = s.got \o ms
            /\ SubSeq(s.input, 0 + 1, Len(s.input)) \o s.wire = Frames(ms)
      BY <2>3 DEF Flows
    <3>2. SubSeq(s.input, 0 + 1, Len(s.input)) = s.input /\ s.input \o <<>> = s.input
      BY <2>2, BytesWhole, ConcatEmptySeq
    <3> QED  BY <2>1, <3>1, <3>2
  <2>5. ms = <<>>
    <3>1. SUFFICES ASSUME ms # <<>> PROVE FALSE
      OBVIOUS
    <3> DEFINE f == Frame(Head(ms))
               more == Frames(Tail(ms))
    <3>2. Head(ms) \in Messages /\ Tail(ms) \in Seq(Messages)
      BY <3>1, ListSplits
    <3>3. s.input = f \o more
      BY <2>4, <3>1, FramesHead DEF FirstFirst
    <3>4. f \in Seq(Byte) /\ more \in Seq(Byte) /\ Len(f) \in Nat /\ Len(more) \in Nat
      BY <3>2, FrameLooks, FramesAppend, LenProperties
    <3>5. ~StartsWith(s.input, f)
      BY <2>1, <2>2, <3>2 DEF NothingWhole
    <3> HIDE DEF f, more
    <3>6. /\ Len(f \o more) = Len(f) + Len(more)
          /\ \A i \in 1..(Len(f) + Len(more)) : (f \o more)[i] = IF i <= Len(f) THEN f[i] ELSE more[i - Len(f)]
      BY <3>4, ConcatProperties
    <3>7. StartsWith(f \o more, f)
      <4>1. Len(f) <= Len(f) + Len(more) /\ \A i \in 1..Len(f) : i \in 1..(Len(f) + Len(more)) /\ i <= Len(f)
        BY <3>4
      <4> QED  BY <3>6, <4>1 DEF StartsWith
    <3> QED  BY <3>3, <3>5, <3>7
  <2>6. s.got \in Seq(Messages)
    BY <2>3 DEF Flows
  <2> QED  BY <2>4, <2>5, <2>6, ConcatEmptySeq
<1> QED  BY <1>1, StreamInvariant, PTL
=============================================================================

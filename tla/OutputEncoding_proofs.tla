----------------------- MODULE OutputEncoding_proofs -----------------------
(***************************************************************************)
(* What module OutputEncoding promises, for texts of any length, read in   *)
(* pieces of any size.                                                     *)
(*                                                                         *)
(* The argument.  Flattening and decoding distribute over concatenation as *)
(* long as no character is cut, so what a whole read becomes is what its   *)
(* characters become, and what was kept is what the characters read so far *)
(* become.  Both are recursions over the data; they are handled by the     *)
(* least counterexample, which the natural numbers have for every set.     *)
(***************************************************************************)
EXTENDS OutputEncoding, SequenceTheorems, WellFoundedInduction, TLAPS

-----------------------------------------------------------------------------
(***************************************************************************)
(* Induction, for sets instead of predicates.                              *)
(***************************************************************************)
Less == {p \in Nat \X Nat : p[1] < p[2]}

LEMMA LessWellFounded == IsWellFoundedOn(Less, Nat)
<1>1. Less = OpToRel(<, Nat)
  BY Zenon DEF OpToRel, Less
<1> QED
  BY <1>1, NatLessThanWellFounded

\* A set that holds 0 and the successor of each of its numbers holds all of them.
LEMMA Induction ==
  ASSUME NEW S, 0 \in S, \A n \in Nat : n \in S => n + 1 \in S
  PROVE  \A n \in Nat : n \in S
<1> SUFFICES ASSUME Nat \ S # {} PROVE FALSE
  OBVIOUS
<1>1. PICK m \in Nat \ S : \A k \in Nat \ S : ~(<<k, m>> \in Less)
  BY LessWellFounded, WFMin
<1>2. m - 1 \in Nat
  BY <1>1
<1>3. m - 1 \notin S
  BY <1>1, <1>2
<1>4. <<m - 1, m>> \in Less
  BY <1>1, <1>2 DEF Less
<1> QED
  BY <1>1, <1>2, <1>3, <1>4

\* A set that holds the empty sequence and, with a sequence, each that is one longer
\* at the end, holds all sequences.
LEMMA SequenceInduction ==
  ASSUME NEW E, NEW Good, <<>> \in Good,
         \A s \in Seq(E), e \in E : s \in Good => Append(s, e) \in Good
  PROVE  \A s \in Seq(E) : s \in Good
<1> DEFINE S == {n \in Nat : \A s \in Seq(E) : Len(s) = n => s \in Good}
<1>1. 0 \in S
  BY EmptySeq
<1>2. ASSUME NEW n \in Nat, n \in S PROVE n + 1 \in S
  <2> SUFFICES ASSUME NEW s \in Seq(E), Len(s) = n + 1 PROVE s \in Good
    OBVIOUS
  <2>1. s # <<>>
    OBVIOUS
  <2>2. PICK t \in Seq(E), e \in E : s = Append(t, e)
    BY <2>1, SequenceEmptyOrAppend
  <2>3. Len(t) = n
    BY <2>2, AppendProperties, LenProperties
  <2>4. t \in Good
    BY <1>2, <2>3
  <2> QED
    BY <2>2, <2>4
<1> HIDE DEF S
<1>3. \A n \in Nat : n \in S
  BY <1>1, <1>2, Induction
<1> QED
  BY <1>3, LenProperties DEF S

\* The same, one longer at the front.
LEMMA SequenceInductionFront ==
  ASSUME NEW E, NEW Good, <<>> \in Good,
         \A s \in Seq(E) : s # <<>> /\ Tail(s) \in Good => s \in Good
  PROVE  \A s \in Seq(E) : s \in Good
<1> DEFINE S == {n \in Nat : \A s \in Seq(E) : Len(s) = n => s \in Good}
<1>1. 0 \in S
  BY EmptySeq
<1>2. ASSUME NEW n \in Nat, n \in S PROVE n + 1 \in S
  <2> SUFFICES ASSUME NEW s \in Seq(E), Len(s) = n + 1 PROVE s \in Good
    OBVIOUS
  <2>1. s # <<>>
    OBVIOUS
  <2>2. Tail(s) \in Seq(E) /\ Len(Tail(s)) = n
    BY <2>1, HeadTailProperties
  <2>3. Tail(s) \in Good
    BY <1>2, <2>2
  <2> QED
    BY <2>1, <2>3
<1> HIDE DEF S
<1>3. \A n \in Nat : n \in S
  BY <1>1, <1>2, Induction
<1> QED
  BY <1>3, LenProperties DEF S

-----------------------------------------------------------------------------
(***************************************************************************)
(* FlattenSeq.                                                             *)
(***************************************************************************)
\* The function that FlattenSeq's recursion defines for s, up to n.
IsFlattening(f, s, n) ==
  f = [i \in 1..n |-> IF i = 1 THEN s[i] ELSE f[i - 1] \o s[i]]

LEMMA FlatteningStep ==
  ASSUME NEW f, NEW s, NEW n \in Nat, IsFlattening(f, s, n), NEW i \in 1..n
  PROVE  f[i] = IF i = 1 THEN s[i] ELSE f[i - 1] \o s[i]
<1> DEFINE G == [j \in 1..n |-> IF j = 1 THEN s[j] ELSE f[j - 1] \o s[j]]
<1>1. f = G
  BY DEF IsFlattening
<1>2. G[i] = IF i = 1 THEN s[i] ELSE f[i - 1] \o s[i]
  OBVIOUS
<1> HIDE DEF G
<1> QED
  BY <1>1, <1>2

LEMMA FlatteningExists ==
  ASSUME NEW s, NEW n \in Nat
  PROVE  \E f : IsFlattening(f, s, n)
<1> DEFINE S == {m \in Nat : \E f : IsFlattening(f, s, m)}
<1>1. 0 \in S
  <2>1. IsFlattening([i \in 1..0 |-> s[i]], s, 0)
    BY DEF IsFlattening
  <2> QED
    BY <2>1
<1>2. ASSUME NEW m \in Nat, m \in S PROVE m + 1 \in S
  <2>1. PICK f : IsFlattening(f, s, m)
    BY <1>2
  <2> DEFINE g == [i \in 1..m + 1 |-> IF i = 1 THEN s[i] ELSE f[i - 1] \o s[i]]
  <2>2. \A i \in 1..m : g[i] = f[i]
    BY <2>1, FlatteningStep
  <2>3. \A i \in 1..m + 1 : i # 1 => i - 1 \in 1..m
    OBVIOUS
  <2>4. \A i \in 1..m + 1 : (IF i = 1 THEN s[i] ELSE f[i - 1] \o s[i])
                            = IF i = 1 THEN s[i] ELSE g[i - 1] \o s[i]
    BY <2>2, <2>3
  <2>5. g = [i \in 1..m + 1 |-> IF i = 1 THEN s[i] ELSE g[i - 1] \o s[i]]
    BY <2>4
  <2>6. IsFlattening(g, s, m + 1)
    BY <2>5 DEF IsFlattening
  <2> QED
    BY <2>6
<1> HIDE DEF S
<1>3. \A m \in Nat : m \in S
  BY <1>1, <1>2, Induction
<1> QED
  BY <1>3 DEF S

LEMMA FlattenIs ==
  ASSUME NEW s, Len(s) \in Nat \ {0}
  PROVE  \E f : IsFlattening(f, s, Len(s)) /\ FlattenSeq(s) = f[Len(s)]
<1> DEFINE f == CHOOSE g : IsFlattening(g, s, Len(s))
<1>1. FlattenSeq(s) = f[Len(s)]
  BY DEF FlattenSeq, IsFlattening
<1>2. IsFlattening(f, s, Len(s))
  BY FlatteningExists
<1> HIDE DEF f
<1> QED
  BY <1>1, <1>2

LEMMA FlattenEmpty == FlattenSeq(<<>>) = <<>>
BY DEF FlattenSeq

LEMMA FlattenAppend ==
  ASSUME NEW B, NEW s \in Seq(Seq(B)), NEW e \in Seq(B)
  PROVE  FlattenSeq(Append(s, e)) = FlattenSeq(s) \o e
<1> DEFINE t == Append(s, e)
<1>1. /\ Len(t) = Len(s) + 1 /\ Len(s) \in Nat
      /\ \A i \in 1..Len(s) : t[i] = s[i]
      /\ t[Len(s) + 1] = e
  BY AppendProperties, LenProperties
<1> HIDE DEF t
<1>2. PICK g : IsFlattening(g, t, Len(t)) /\ FlattenSeq(t) = g[Len(t)]
  BY <1>1, FlattenIs
<1>3. CASE Len(s) = 0
  <2>1. s = <<>>
    BY <1>3, EmptySeq
  <2>2. FlattenSeq(t) = e
    BY <1>1, <1>2, <1>3, FlatteningStep
  <2> QED
    BY <2>1, <2>2, FlattenEmpty, ConcatEmptySeq DEF t
<1>4. CASE Len(s) # 0
  <2>1. PICK f : IsFlattening(f, s, Len(s)) /\ FlattenSeq(s) = f[Len(s)]
    BY <1>1, <1>4, FlattenIs
  <2>8. \A i \in 1..Len(s) : f[i] = IF i = 1 THEN s[i] ELSE f[i - 1] \o s[i]
    BY <1>1, <2>1, FlatteningStep
  <2>9. \A i \in 1..Len(t) : g[i] = IF i = 1 THEN t[i] ELSE g[i - 1] \o t[i]
    <3>1. Len(t) \in Nat
      BY <1>1
    <3> QED
      BY <1>2, <3>1, FlatteningStep
  <2> DEFINE S == {n \in Nat : n + 1 \in 1..Len(s) => g[n + 1] = f[n + 1]}
  <2>2. 0 \in S
    BY <1>1, <1>2, <2>1, FlatteningStep
  <2>3. ASSUME NEW n \in Nat, n \in S PROVE n + 1 \in S
    <3> SUFFICES ASSUME n + 2 \in 1..Len(s) PROVE g[n + 2] = f[n + 2]
      OBVIOUS
    <3>1. g[n + 1] = f[n + 1]
      BY <1>1, <2>3
    <3>2. f[n + 2] = f[n + 1] \o s[n + 2]
      <4>1. n + 2 \in 1..Len(s) /\ n + 2 # 1 /\ (n + 2) - 1 = n + 1
        BY <1>1
      <4>2. f[n + 2] = IF n + 2 = 1 THEN s[n + 2] ELSE f[(n + 2) - 1] \o s[n + 2]
        BY <2>8, <4>1
      <4> QED
        BY <4>1, <4>2
    <3>3. g[n + 2] = g[n + 1] \o t[n + 2]
      <4>1. n + 2 \in 1..Len(t) /\ n + 2 # 1 /\ (n + 2) - 1 = n + 1
        BY <1>1
      <4>2. g[n + 2] = IF n + 2 = 1 THEN t[n + 2] ELSE g[(n + 2) - 1] \o t[n + 2]
        BY <1>1, <2>9, <4>1
      <4> QED
        BY <4>1, <4>2
    <3> QED
      BY <1>1, <3>1, <3>2, <3>3
  <2> HIDE DEF S
  <2>4. \A n \in Nat : n \in S
    BY <2>2, <2>3, Induction
  <2>5. Len(s) - 1 \in S
    BY <1>1, <1>4, <2>4
  <2>6. g[Len(s)] = f[Len(s)]
    BY <1>1, <1>4, <2>5 DEF S
  <2>7. g[Len(t)] = g[Len(s)] \o e
    <3>1. Len(t) \in 1..Len(t) /\ Len(t) # 1 /\ Len(t) - 1 = Len(s)
      BY <1>1, <1>4
    <3>2. g[Len(t)] = IF Len(t) = 1 THEN t[Len(t)] ELSE g[Len(t) - 1] \o t[Len(t)]
      BY <2>9, <3>1
    <3> QED
      BY <1>1, <3>1, <3>2
  <2> QED
    BY <1>2, <2>1, <2>6, <2>7 DEF t
<1> QED
  BY <1>3, <1>4

LEMMA FlattenType ==
  ASSUME NEW B, NEW s \in Seq(Seq(B))
  PROVE  FlattenSeq(s) \in Seq(B)
<1> DEFINE Good == {t \in Seq(Seq(B)) : FlattenSeq(t) \in Seq(B)}
<1>1. <<>> \in Good
  BY FlattenEmpty, EmptySeq
<1>2. \A t \in Seq(Seq(B)), e \in Seq(B) : t \in Good => Append(t, e) \in Good
  BY FlattenAppend, AppendProperties, ConcatProperties
<1> HIDE DEF Good
<1>3. \A t \in Seq(Seq(B)) : t \in Good
  BY <1>1, <1>2, SequenceInduction
<1> QED
  BY <1>3 DEF Good

\* Flattening distributes over concatenation.
LEMMA FlattenConcat ==
  ASSUME NEW B, NEW s \in Seq(Seq(B)), NEW t \in Seq(Seq(B))
  PROVE  FlattenSeq(s \o t) = FlattenSeq(s) \o FlattenSeq(t)
<1> DEFINE Good == {u \in Seq(Seq(B)) : FlattenSeq(s \o u) = FlattenSeq(s) \o FlattenSeq(u)}
<1>1. <<>> \in Good
  BY FlattenEmpty, FlattenType, EmptySeq, ConcatEmptySeq
<1>2. ASSUME NEW u \in Seq(Seq(B)), NEW e \in Seq(B), u \in Good PROVE Append(u, e) \in Good
  <2>1. s \o Append(u, e) = Append(s \o u, e)
    <3>1. Append(u, e) = u \o <<e>> /\ Append(s \o u, e) = (s \o u) \o <<e>>
      BY AppendIsConcat, ConcatProperties
    <3>2. <<e>> \in Seq(Seq(B))
      OBVIOUS
    <3> QED
      BY <3>1, <3>2, ConcatAssociative, SMTT(30)
  <2>2. FlattenSeq(Append(s \o u, e)) = (FlattenSeq(s) \o FlattenSeq(u)) \o e
    <3>1. s \o u \in Seq(Seq(B))
      BY ConcatProperties
    <3>2. FlattenSeq(Append(s \o u, e)) = FlattenSeq(s \o u) \o e
      BY <3>1, FlattenAppend
    <3> QED
      BY <1>2, <3>2
  <2>3. FlattenSeq(Append(u, e)) = FlattenSeq(u) \o e
    BY FlattenAppend
  <2>4. (FlattenSeq(s) \o FlattenSeq(u)) \o e = FlattenSeq(s) \o (FlattenSeq(u) \o e)
    <3>1. FlattenSeq(s) \in Seq(B) /\ FlattenSeq(u) \in Seq(B)
      BY FlattenType
    <3> QED
      BY <3>1, ConcatAssociative, SMTT(30)
  <2> QED
    BY <2>1, <2>2, <2>3, <2>4, AppendProperties
<1> HIDE DEF Good
<1>3. \A u \in Seq(Seq(B)) : u \in Good
  BY <1>1, <1>2, SequenceInduction
<1> QED
  BY <1>3 DEF Good

LEMMA FlattenOne ==
  ASSUME NEW B, NEW e \in Seq(B)
  PROVE  FlattenSeq(<<e>>) = e
<1>1. <<>> \in Seq(Seq(B)) /\ Append(<<>>, e) = <<e>>
  BY EmptySeq
<1>2. FlattenSeq(Append(<<>>, e)) = FlattenSeq(<<>>) \o e
  BY <1>1, FlattenAppend
<1> QED
  BY <1>1, <1>2, FlattenEmpty, ConcatEmptySeq

-----------------------------------------------------------------------------
(***************************************************************************)
(* Bytes, characters and Valid.                                            *)
(***************************************************************************)
Byte == {"a", "u1", "u2", "u3", "g1", "g2", "h1", "h2", "k1", "k2", "k3",
         "l1", "l2", "l3", "x1", "x2", "x3"}

GbkCharacters == {Ascii, Gbk, Chance}
Characters == {Ascii, Unicode, Gbk, Chance}

LEMMA CharacterType ==
  /\ Characters \subseteq Seq(Byte)
  /\ Utf8Characters \subseteq Seq(Byte)
  /\ \A c \in Characters \cup Utf8Characters : Len(c) \in 1..3
BY DEF Characters, Utf8Characters, Byte, Ascii, Unicode, Gbk, Chance, Converted,
       ConvertedChance, Wrong

\* Byte i of b is the j-th of a whole character c.
Whole(b, i, c, j) ==
  /\ j \in DOMAIN c
  /\ j <= i
  /\ i - j + Len(c) <= Len(b)
  /\ SubSeq(b, i - j + 1, i - j + Len(c)) = c

LEMMA ValidIs ==
  ASSUME NEW b
  PROVE  Valid(b) <=> \A i \in DOMAIN b : \E c \in Utf8Characters : \E j : Whole(b, i, c, j)
BY DEF Valid, Whole

LEMMA ValidEmpty == Valid(<<>>)
BY DEF Valid

\* A part of the first of two sequences is that part of both.
LEMMA SubSeqOfFirst ==
  ASSUME NEW B, NEW a \in Seq(B), NEW b \in Seq(B), NEW m \in 1..Len(a), NEW n \in 1..Len(a)
  PROVE  SubSeq(a \o b, m, n) = SubSeq(a, m, n)
BY SubSeqOfConcat1

\* And of the second, counted from its start.
LEMMA SubSeqOfSecond ==
  ASSUME NEW B, NEW a \in Seq(B), NEW b \in Seq(B), NEW m \in 1..Len(b), NEW n \in 1..Len(b)
  PROVE  SubSeq(a \o b, Len(a) + m, Len(a) + n) = SubSeq(b, m, n)
<1>1. Len(a) \in Nat /\ Len(b) \in Nat
  BY LenProperties
<1>2. /\ Len(a) + m \in Len(a) + 1 .. Len(a) + Len(b)
      /\ Len(a) + n \in Len(a) + 1 .. Len(a) + Len(b)
      /\ (Len(a) + m) - Len(a) = m /\ (Len(a) + n) - Len(a) = n
  BY <1>1
<1>3. SubSeq(a \o b, Len(a) + m, Len(a) + n)
        = SubSeq(b, (Len(a) + m) - Len(a), (Len(a) + n) - Len(a))
  BY <1>2, SubSeqOfConcat2
<1> QED
  BY <1>2, <1>3

\* UTF-8 after UTF-8 is UTF-8.
LEMMA ValidConcat ==
  ASSUME NEW a \in Seq(Byte), NEW b \in Seq(Byte), Valid(a), Valid(b)
  PROVE  Valid(a \o b)
<1> DEFINE d == a \o b
<1>1. /\ Len(a) \in Nat /\ Len(b) \in Nat /\ d \in Seq(Byte)
      /\ Len(d) = Len(a) + Len(b)
      /\ DOMAIN a = 1..Len(a) /\ DOMAIN b = 1..Len(b) /\ DOMAIN d = 1..Len(a) + Len(b)
  BY ConcatProperties, LenProperties
<1> SUFFICES ASSUME NEW i \in 1..Len(a) + Len(b)
             PROVE  \E c \in Utf8Characters : \E j : Whole(d, i, c, j)
  BY <1>1, ValidIs
<1>2. \A c \in Utf8Characters : Len(c) \in 1..3 /\ DOMAIN c = 1..Len(c)
  BY CharacterType, LenProperties
<1>3. CASE i <= Len(a)
  <2>0. i \in DOMAIN a
    BY <1>1, <1>3
  <2>1. PICK c, j : c \in Utf8Characters /\ Whole(a, i, c, j)
    BY <2>0, ValidIs
  <2>2. /\ c \in Utf8Characters /\ j \in 1..Len(c) /\ Len(c) \in 1..3
        /\ j <= i /\ i - j + Len(c) <= Len(a)
    BY <1>2, <2>1 DEF Whole
  <2>3. i - j + 1 \in 1..Len(a) /\ i - j + Len(c) \in 1..Len(a)
    BY <1>1, <2>2
  <2>4. SubSeq(d, i - j + 1, i - j + Len(c)) = c
    BY <2>1, <2>3, SubSeqOfFirst DEF Whole
  <2>5. i - j + Len(c) <= Len(d)
    BY <1>1, <2>2
  <2> QED
    BY <2>1, <2>4, <2>5 DEF Whole
<1>4. CASE i > Len(a)
  <2> DEFINE h == i - Len(a)
  <2>0. h \in 1..Len(b)
    BY <1>1, <1>4
  <2> HIDE DEF h
  <2>1. PICK c, j : c \in Utf8Characters /\ Whole(b, h, c, j)
    BY <1>1, <2>0, ValidIs
  <2>2. /\ j \in 1..Len(c) /\ Len(c) \in 1..3
        /\ j <= h /\ h - j + Len(c) <= Len(b)
    BY <1>2, <2>1 DEF Whole
  <2>3. h - j + 1 \in 1..Len(b) /\ h - j + Len(c) \in 1..Len(b)
    BY <1>1, <2>0, <2>2
  <2>4. SubSeq(d, Len(a) + (h - j + 1), Len(a) + (h - j + Len(c))) = c
    BY <2>1, <2>3, SubSeqOfSecond DEF Whole
  <2>5. /\ i - j + 1 = Len(a) + (h - j + 1) /\ i - j + Len(c) = Len(a) + (h - j + Len(c))
        /\ j <= i /\ i - j + Len(c) <= Len(a) + Len(b)
    BY <1>1, <2>0, <2>2 DEF h
  <2> QED
    BY <1>1, <2>1, <2>4, <2>5 DEF Whole
<1> QED
  BY <1>1, <1>3, <1>4

LEMMA ValidCharacter ==
  ASSUME NEW c \in Utf8Characters
  PROVE  Valid(c)
<1>1. c \in Seq(Byte) /\ Len(c) \in Nat /\ DOMAIN c = 1..Len(c)
  BY CharacterType, LenProperties
<1>2. \A i \in DOMAIN c :
        i <= i /\ i - i + Len(c) = Len(c) /\ i - i + 1 = 1
  BY <1>1
<1>3. SubSeq(c, 1, Len(c)) = c
  BY <1>1, SubSeqFull
<1>4. \A i \in DOMAIN c :
        i <= i /\ i - i + Len(c) <= Len(c) /\ SubSeq(c, i - i + 1, i - i + Len(c)) = c
  BY <1>1, <1>2, <1>3
<1>5. \A i \in DOMAIN c : Whole(c, i, c, i)
  BY <1>4 DEF Whole
<1> QED
  BY <1>5, ValidIs

LEMMA ValidFlatten ==
  ASSUME NEW s \in Seq(Utf8Characters)
  PROVE  Valid(FlattenSeq(s))
<1> DEFINE Good == {t \in Seq(Utf8Characters) : Valid(FlattenSeq(t))}
<1>1. <<>> \in Good
  BY FlattenEmpty, ValidEmpty, EmptySeq
<1>2. ASSUME NEW t \in Seq(Utf8Characters), NEW c \in Utf8Characters, t \in Good
      PROVE  Append(t, c) \in Good
  <2>1. t \in Seq(Seq(Byte)) /\ c \in Seq(Byte)
    BY CharacterType, SeqMonotonic
  <2>2. FlattenSeq(Append(t, c)) = FlattenSeq(t) \o c
    BY <2>1, FlattenAppend
  <2>3. Valid(FlattenSeq(t)) /\ Valid(c)
    BY <1>2, ValidCharacter
  <2>4. FlattenSeq(t) \in Seq(Byte)
    BY <2>1, FlattenType
  <2>5. Valid(FlattenSeq(t) \o c)
    BY <2>1, <2>3, <2>4, ValidConcat
  <2> QED
    BY <2>2, <2>5, AppendProperties
<1> HIDE DEF Good
<1>3. \A t \in Seq(Utf8Characters) : t \in Good
  BY <1>1, <1>2, SequenceInduction
<1> QED
  BY <1>3 DEF Good

\* The elements of a part.
LEMMA PartAt ==
  ASSUME NEW b, NEW m \in Int, NEW n \in Int, \A k \in m..n : b[k] \in Byte
  PROVE  \A k \in 1 .. n - m + 1 : SubSeq(b, m, n)[k] = b[m + k - 1]
BY SubSeqProperties

\* No character of UTF-8 has the first byte of a GBK character.
LEMMA ValidHasNoGbk ==
  ASSUME NEW b \in Seq(Byte), Valid(b), NEW i \in 1..Len(b)
  PROVE  b[i] # "g1"
<1>0. Len(b) \in Nat /\ DOMAIN b = 1..Len(b)
  BY LenProperties
<1>1. PICK c, j : c \in Utf8Characters /\ Whole(b, i, c, j)
  BY <1>0, ValidIs
<1>2. Len(c) \in 1..3 /\ j \in 1..Len(c)
  BY <1>1, CharacterType, LenProperties DEF Whole
<1>3. \A k \in i - j + 1 .. i - j + Len(c) : b[k] \in Byte
  BY <1>0, <1>1, <1>2, ElementOfSeq DEF Whole
<1> DEFINE m == i - j + 1
           n == i - j + Len(c)
<1>4. /\ m \in Int /\ n \in Int /\ j \in 1 .. n - m + 1 /\ m + j - 1 = i
      /\ \A k \in m..n : b[k] \in Byte
      /\ SubSeq(b, m, n) = c
  BY <1>1, <1>2, <1>3, SMTT(30) DEF Whole
<1> HIDE DEF m, n
<1>5. \A k \in 1 .. n - m + 1 : SubSeq(b, m, n)[k] = b[m + k - 1]
  BY <1>4, PartAt
<1>6. c[j] # "g1"
  BY <1>1, <1>2 DEF Utf8Characters, Ascii, Unicode, Gbk, Chance, Converted, ConvertedChance, Wrong
<1> QED
  BY <1>4, <1>5, <1>6

-----------------------------------------------------------------------------
(***************************************************************************)
(* DecodeGbk.                                                              *)
(***************************************************************************)
\* What the bytes of b from i on become, given what those further on become.
Decoding(f, b, i) ==
  IF i > Len(b) THEN <<>>
  ELSE IF b[i] = "a" THEN Ascii \o f[i + 1]
  ELSE IF i = Len(b) \/ b[i + 1] = "a" THEN Wrong \o f[i + 1]
  ELSE DecodedGbk(<<b[i], b[i + 1]>>) \o f[i + 2]

\* The function that the recursion of DecodeGbk defines, from byte k on.
IsDecoding(f, b, k) == f = [i \in k..Len(b) + 1 |-> Decoding(f, b, i)]

LEMMA DecodingStep ==
  ASSUME NEW f, NEW b, NEW k, IsDecoding(f, b, k), NEW i \in k..Len(b) + 1
  PROVE  f[i] = Decoding(f, b, i)
<1> DEFINE G == [j \in k..Len(b) + 1 |-> Decoding(f, b, j)]
<1>1. f = G
  BY DEF IsDecoding
<1>2. G[i] = Decoding(f, b, i)
  OBVIOUS
<1> HIDE DEF G
<1> QED
  BY <1>1, <1>2

\* What a byte becomes depends on what follows it only.
LEMMA DecodingLocal ==
  ASSUME NEW f, NEW g, NEW b, Len(b) \in Nat, NEW i \in Int, i <= Len(b) + 1,
         \A j \in i + 1 .. Len(b) + 1 : f[j] = g[j]
  PROVE  Decoding(f, b, i) = Decoding(g, b, i)
<1>1. CASE i > Len(b)
  BY <1>1 DEF Decoding
<1>2. CASE i <= Len(b)
  <2>1. f[i + 1] = g[i + 1]
    BY <1>2
  <2>2. i # Len(b) => f[i + 2] = g[i + 2]
    BY <1>2
  <2> QED
    BY <2>1, <2>2 DEF Decoding
<1> QED
  BY <1>1, <1>2

LEMMA DecodingExists ==
  ASSUME NEW b, Len(b) \in Nat
  PROVE  \E f : IsDecoding(f, b, 1)
<1> DEFINE L == Len(b)
           S == {n \in Nat : \E f : IsDecoding(f, b, L + 1 - n)}
<1>0. L \in Nat
  OBVIOUS
<1>1. 0 \in S
  <2> DEFINE f == [i \in L + 1 .. L + 1 |-> <<>>]
  <2>1. \A i \in L + 1 .. L + 1 : Decoding(f, b, i) = <<>>
    BY <1>0 DEF Decoding
  <2>2. f = [i \in L + 1 .. L + 1 |-> Decoding(f, b, i)]
    BY <2>1
  <2>3. IsDecoding(f, b, L + 1)
    BY <2>2 DEF IsDecoding
  <2>4. L + 1 - 0 = L + 1
    BY <1>0
  <2> QED
    BY <2>3, <2>4
<1>2. ASSUME NEW n \in Nat, n \in S PROVE n + 1 \in S
  <2> DEFINE k == L + 1 - n
  <2>1. PICK f : IsDecoding(f, b, k)
    BY <1>2
  <2>2. k \in Int /\ L + 1 - (n + 1) = k - 1 /\ k <= L + 1
    BY <1>0
  <2> DEFINE g == [i \in k - 1 .. L + 1 |-> Decoding(f, b, i)]
  <2> HIDE DEF L, k
  <2>3. \A i \in k..L + 1 : f[i] = Decoding(f, b, i)
    BY <2>1, DecodingStep DEF L
  <2>4. \A i \in k..L + 1 : g[i] = f[i]
    BY <1>0, <2>2, <2>3
  <2> HIDE DEF g
  <2>5. \A i \in k - 1 .. L + 1 : Decoding(f, b, i) = Decoding(g, b, i)
    <3> TAKE i \in k - 1 .. L + 1
    <3>1. i \in Int /\ i <= L + 1 /\ \A j \in i + 1 .. L + 1 : j \in k..L + 1
      BY <1>0, <2>2
    <3>2. \A j \in i + 1 .. L + 1 : f[j] = g[j]
      BY <2>4, <3>1
    <3> QED
      BY <3>1, <3>2, DecodingLocal DEF L
  <2>6. g = [i \in k - 1 .. L + 1 |-> Decoding(g, b, i)]
    BY <2>5 DEF g
  <2>7. IsDecoding(g, b, k - 1)
    BY <2>6 DEF IsDecoding, L
  <2> QED
    BY <2>2, <2>7
<1> HIDE DEF S
<1>3. \A n \in Nat : n \in S
  BY <1>1, <1>2, Induction
<1>4. L \in S /\ L + 1 - L = 1
  BY <1>0, <1>3
<1> QED
  BY <1>4 DEF S

LEMMA DecodeIs ==
  ASSUME NEW b, Len(b) \in Nat
  PROVE  \E f : /\ DecodeGbk(b) = f[1]
                /\ \A i \in 1..Len(b) + 1 : f[i] = Decoding(f, b, i)
<1> DEFINE f == CHOOSE g : IsDecoding(g, b, 1)
<1>1. DecodeGbk(b) = f[1]
  BY DEF DecodeGbk, IsDecoding, Decoding
<1>2. IsDecoding(f, b, 1)
  BY DecodingExists
<1> HIDE DEF f
<1>3. \A i \in 1..Len(b) + 1 : f[i] = Decoding(f, b, i)
  BY <1>2, DecodingStep
<1> QED
  BY <1>1, <1>3

\* Induction over the bytes of a sequence from its end.
LEMMA InductionFromEnd ==
  ASSUME NEW L \in Nat, NEW T,
         \A i \in 1..L + 1 : (\A j \in i + 1 .. L + 1 : j \in T) => i \in T
  PROVE  \A i \in 1..L + 1 : i \in T
<1> DEFINE S == {n \in Nat : \A i \in 1..L + 1 : i > L + 1 - n => i \in T}
<1>1. 0 \in S
  OBVIOUS
<1>2. ASSUME NEW n \in Nat, n \in S PROVE n + 1 \in S
  <2> SUFFICES ASSUME NEW i \in 1..L + 1, i > L + 1 - (n + 1) PROVE i \in T
    OBVIOUS
  <2>1. \A j \in i + 1 .. L + 1 : j \in T
    BY <1>2
  <2> QED
    BY <2>1
<1> HIDE DEF S
<1>3. L + 1 \in S
  BY <1>1, <1>2, Induction
<1> QED
  BY <1>3 DEF S

LEMMA DecodedCharacters ==
  /\ Ascii \in Utf8Characters /\ Wrong \in Utf8Characters
  /\ \A pair : DecodedGbk(pair) \in Utf8Characters
BY DEF Utf8Characters, DecodedGbk

\* The decoder gives UTF-8 whatever it is given (golang.org/x/text, encoding.go:57).
LEMMA DecodeValid ==
  ASSUME NEW b \in Seq(Byte)
  PROVE  DecodeGbk(b) \in Seq(Byte) /\ Valid(DecodeGbk(b))
<1>0. Len(b) \in Nat
  BY LenProperties
<1>1. PICK f : /\ DecodeGbk(b) = f[1]
               /\ \A i \in 1..Len(b) + 1 : f[i] = Decoding(f, b, i)
  BY <1>0, DecodeIs
<1> DEFINE T == {i \in 1..Len(b) + 1 : f[i] \in Seq(Byte) /\ Valid(f[i])}
<1>2. \A c \in Utf8Characters, s \in Seq(Byte) : Valid(s)
                                     => c \o s \in Seq(Byte) /\ Valid(c \o s)
  BY CharacterType, ValidCharacter, ValidConcat, ConcatProperties
<1>3. ASSUME NEW i \in 1..Len(b) + 1, \A j \in i + 1 .. Len(b) + 1 : j \in T
      PROVE  i \in T
  <2>1. f[i] = Decoding(f, b, i)
    BY <1>1
  <2>2. CASE i > Len(b)
    <3>1. f[i] = <<>>
      BY <2>1, <2>2 DEF Decoding
    <3> QED
      BY <3>1, ValidEmpty, EmptySeq
  <2>3. CASE i <= Len(b) /\ (b[i] = "a" \/ i = Len(b) \/ b[i + 1] = "a")
    <3>1. i + 1 \in T
      BY <1>0, <1>3, <2>3
    <3>2. f[i] = Ascii \o f[i + 1] \/ f[i] = Wrong \o f[i + 1]
      BY <1>0, <2>1, <2>3, SMTT(30) DEF Decoding
    <3> QED
      BY <1>2, <3>1, <3>2, DecodedCharacters
  <2>4. CASE i <= Len(b) /\ b[i] # "a" /\ i # Len(b) /\ b[i + 1] # "a"
    <3>1. i + 2 \in T
      BY <1>0, <1>3, <2>4
    <3>2. f[i] = DecodedGbk(<<b[i], b[i + 1]>>) \o f[i + 2]
      BY <1>0, <2>1, <2>4 DEF Decoding
    <3> QED
      BY <1>2, <3>1, <3>2, DecodedCharacters
  <2> QED
    BY <1>0, <2>2, <2>3, <2>4
<1> HIDE DEF T
<1>4. \A i \in 1..Len(b) + 1 : i \in T
  BY <1>0, <1>3, InductionFromEnd
<1>5. 1 \in T
  BY <1>0, <1>4
<1> QED
  BY <1>1, <1>5 DEF T

LEMMA DecodeEmpty == DecodeGbk(<<>>) = <<>>
<1>1. Len(<<>>) = 0
  BY EmptySeq
<1>2. PICK f : /\ DecodeGbk(<<>>) = f[1]
               /\ \A i \in 1..Len(<<>>) + 1 : f[i] = Decoding(f, <<>>, i)
  BY <1>1, DecodeIs
<1>3. f[1] = Decoding(f, <<>>, 1)
  BY <1>1, <1>2
<1> QED
  BY <1>1, <1>2, <1>3 DEF Decoding

\* What stands before some bytes does not change what they become.
LEMMA DecodeSuffix ==
  ASSUME NEW a \in Seq(Byte), NEW r \in Seq(Byte), NEW f,
         \A i \in 1..Len(a \o r) + 1 : f[i] = Decoding(f, a \o r, i)
  PROVE  f[Len(a) + 1] = DecodeGbk(r)
<1> DEFINE A == Len(a)
           L == Len(r)
           b == a \o r
<1>0. /\ A \in Nat /\ L \in Nat /\ Len(b) = A + L
      /\ \A i \in 1..L : b[A + i] = r[i]
  BY LenProperties, ConcatProperties
<1>1. PICK g : /\ DecodeGbk(r) = g[1]
               /\ \A i \in 1..L + 1 : g[i] = Decoding(g, r, i)
  BY <1>0, DecodeIs
<1> DEFINE T == {i \in 1..L + 1 : f[A + i] = g[i]}
<1> HIDE DEF A, L, b
<1>2. ASSUME NEW i \in 1..L + 1, \A j \in i + 1 .. L + 1 : j \in T
      PROVE  i \in T
  <2>1. f[A + i] = Decoding(f, b, A + i)
    BY <1>0 DEF b
  <2>2. g[i] = Decoding(g, r, i)
    BY <1>1
  <2>3. CASE i > L
    <3>1. A + i > Len(b) /\ i > Len(r)
      BY <1>0, <2>3 DEF L
    <3> QED
      BY <2>1, <2>2, <3>1 DEF Decoding
  <2>4. CASE i <= L
    <3>1. b[A + i] = r[i] /\ (i # L => b[A + i + 1] = r[i + 1])
      <4>1. i # L => i + 1 \in 1..L /\ A + (i + 1) = A + i + 1
        BY <1>0, <2>4
      <4> QED
        BY <1>0, <2>4, <4>1
    <3>2. f[A + i + 1] = g[i + 1]
      <4>1. i + 1 \in T /\ A + (i + 1) = A + i + 1
        BY <1>0, <1>2, <2>4
      <4> QED
        BY <4>1
    <3>3. i # L => f[A + i + 2] = g[i + 2]
      <4>1. i # L => i + 2 \in T /\ A + (i + 2) = A + i + 2
        BY <1>0, <1>2, <2>4
      <4> QED
        BY <4>1
    <3>0. L = Len(r)
      BY DEF L
    <3>4. /\ ~(A + i > Len(b)) /\ ~(i > L)
          /\ (A + i = Len(b)) <=> (i = L)
      BY <1>0, <2>4
    <3>5. Decoding(f, b, A + i) = Decoding(g, r, i)
      BY <3>0, <3>1, <3>2, <3>3, <3>4 DEF Decoding
    <3> QED
      BY <2>1, <2>2, <3>5
  <2> QED
    BY <1>0, <2>3, <2>4
<1> HIDE DEF T
<1>3. \A i \in 1..L + 1 : i \in T
  BY <1>0, <1>2, InductionFromEnd
<1>4. 1 \in T
  BY <1>0, <1>3
<1> QED
  BY <1>1, <1>4 DEF T, A

\* A whole character in front is decoded by itself.
LEMMA DecodeCharacter ==
  ASSUME NEW c \in GbkCharacters, NEW r \in Seq(Byte)
  PROVE  DecodeGbk(c \o r) = InUtf8(c) \o DecodeGbk(r)
<1> DEFINE b == c \o r
<1>1. c \in Seq(Byte)
  BY CharacterType DEF GbkCharacters, Characters
<1>2. /\ b \in Seq(Byte) /\ Len(b) \in Nat /\ Len(r) \in Nat
      /\ Len(b) = Len(c) + Len(r)
      /\ \A i \in 1..Len(c) + Len(r) : i <= Len(c) => b[i] = c[i]
  BY <1>1, ConcatProperties, LenProperties
<1> HIDE DEF b
<1>3. PICK f : /\ DecodeGbk(b) = f[1]
               /\ \A i \in 1..Len(b) + 1 : f[i] = Decoding(f, b, i)
  BY <1>2, DecodeIs
<1>4. f[Len(c) + 1] = DecodeGbk(r)
  BY <1>1, <1>3, DecodeSuffix DEF b
<1>5. f[1] = Decoding(f, b, 1)
  BY <1>2, <1>3
<1>6. CASE c = Ascii
  <2>1. Len(c) = 1 /\ c[1] = "a"
    BY <1>6 DEF Ascii
  <2>2. b[1] = "a" /\ ~(1 > Len(b))
    BY <1>2, <2>1
  <2>3. f[1] = Ascii \o f[1 + 1]
    BY <1>5, <2>2 DEF Decoding
  <2>4. InUtf8(c) = Ascii
    BY <1>6, <2>1 DEF InUtf8
  <2> QED
    BY <1>3, <1>4, <1>6, <2>1, <2>3, <2>4 DEF b
<1>7. CASE c \in {Gbk, Chance}
  <2>1. Len(c) = 2 /\ c[1] # "a" /\ c[2] # "a" /\ c = <<c[1], c[2]>>
    BY <1>7 DEF Gbk, Chance
  <2>2. b[1] = c[1] /\ b[2] = c[2] /\ ~(1 > Len(b)) /\ 1 # Len(b)
    BY <1>2, <2>1
  <2>3. f[1] = DecodedGbk(<<b[1], b[1 + 1]>>) \o f[1 + 2]
    BY <1>5, <2>1, <2>2 DEF Decoding
  <2>5. 1 + 2 = Len(c) + 1 /\ 1 + 1 = 2
    BY <2>1
  <2>4. InUtf8(c) = DecodedGbk(<<b[1], b[2]>>)
    BY <2>1, <2>2 DEF InUtf8
  <2> QED
    BY <1>3, <1>4, <2>3, <2>4, <2>5 DEF b
<1> QED
  BY <1>6, <1>7 DEF GbkCharacters

-----------------------------------------------------------------------------
(***************************************************************************)
(* Whole characters.                                                       *)
(***************************************************************************)
Utf8Written == {Ascii, Unicode}

\* The characters of s in UTF-8.
Mapped(s) == [i \in DOMAIN s |-> InUtf8(s[i])]

LEMMA InUtf8Type ==
  /\ \A c \in Characters : InUtf8(c) \in Utf8Characters
  /\ \A c \in Utf8Written : InUtf8(c) = c
BY DEF Characters, Utf8Written, InUtf8, DecodedGbk, Utf8Characters, Ascii, Unicode, Gbk,
       Chance

LEMMA OneUpToThree == \A n \in 1..3 : 1 \in 1..n
OBVIOUS

LEMMA WrittenCharacters ==
  /\ Utf8Written \subseteq Characters /\ Utf8Written \subseteq Utf8Characters
  /\ GbkCharacters \subseteq Characters
  /\ Characters \subseteq Seq(Byte) /\ Utf8Characters \subseteq Seq(Byte)
BY CharacterType DEF Characters, Utf8Written, GbkCharacters, Utf8Characters

LEMMA MappedType ==
  ASSUME NEW s \in Seq(Characters)
  PROVE  Mapped(s) \in Seq(Utf8Characters) /\ Len(Mapped(s)) = Len(s)
<1>1. /\ Len(s) \in Nat /\ DOMAIN s = 1..Len(s)
      /\ \A i \in 1..Len(s) : s[i] \in Characters
  BY LenProperties, ElementOfSeq
<1>2. \A i \in 1..Len(s) : InUtf8(s[i]) \in Utf8Characters
  BY <1>1, InUtf8Type
<1>3. Mapped(s) = [i \in 1..Len(s) |-> InUtf8(s[i])]
  BY <1>1 DEF Mapped
<1>4. Mapped(s) \in [1..Len(s) -> Utf8Characters]
  BY <1>2, <1>3
<1> QED
  BY <1>1, <1>4

LEMMA MappedConcat ==
  ASSUME NEW s \in Seq(Characters), NEW t \in Seq(Characters)
  PROVE  Mapped(s \o t) = Mapped(s) \o Mapped(t)
<1> DEFINE u == s \o t
           v == Mapped(s) \o Mapped(t)
<1>1. /\ u \in Seq(Characters) /\ Len(u) = Len(s) + Len(t)
      /\ Len(s) \in Nat /\ Len(t) \in Nat
      /\ DOMAIN s = 1..Len(s) /\ DOMAIN t = 1..Len(t) /\ DOMAIN u = 1..Len(u)
      /\ \A i \in 1..Len(s) + Len(t) : u[i] = IF i <= Len(s) THEN s[i] ELSE t[i - Len(s)]
  BY ConcatProperties, LenProperties
<1>2. /\ Mapped(s) \in Seq(Utf8Characters) /\ Len(Mapped(s)) = Len(s)
      /\ Mapped(t) \in Seq(Utf8Characters) /\ Len(Mapped(t)) = Len(t)
      /\ Mapped(u) \in Seq(Utf8Characters) /\ Len(Mapped(u)) = Len(u)
  BY <1>1, MappedType
<1>3. /\ v \in Seq(Utf8Characters) /\ Len(v) = Len(s) + Len(t)
      /\ \A i \in 1..Len(s) + Len(t) :
           v[i] = IF i <= Len(s) THEN Mapped(s)[i] ELSE Mapped(t)[i - Len(s)]
  BY <1>2, ConcatProperties
<1> HIDE DEF u, v
<1>4. /\ \A i \in 1..Len(s) : Mapped(s)[i] = InUtf8(s[i])
      /\ \A i \in 1..Len(t) : Mapped(t)[i] = InUtf8(t[i])
      /\ \A i \in 1..Len(u) : Mapped(u)[i] = InUtf8(u[i])
  BY <1>1 DEF Mapped
<1>5. \A i \in 1..Len(u) : Mapped(u)[i] = v[i]
  <2> TAKE i \in 1..Len(u)
  <2>1. CASE i <= Len(s)
    BY <1>1, <1>3, <1>4, <2>1
  <2>2. CASE i > Len(s)
    <3>1. i - Len(s) \in 1..Len(t) /\ ~(i <= Len(s)) /\ i \in 1..Len(s) + Len(t)
      BY <1>1, <2>2
    <3>2. u[i] = t[i - Len(s)] /\ v[i] = Mapped(t)[i - Len(s)]
      BY <1>1, <1>3, <3>1
    <3>3. Mapped(u)[i] = InUtf8(u[i]) /\ Mapped(t)[i - Len(s)] = InUtf8(t[i - Len(s)])
      BY <1>4, <3>1
    <3> QED
      BY <3>2, <3>3
  <2> QED
    BY <1>1, <2>1, <2>2
<1> QED
  BY <1>1, <1>2, <1>3, <1>5, SeqEqual DEF u, v

LEMMA MappedOne ==
  ASSUME NEW c \in Characters
  PROVE  Mapped(<<c>>) = <<InUtf8(c)>>
BY DEF Mapped

\* What is written in UTF-8 stays as it is.
LEMMA MappedUtf8 ==
  ASSUME NEW s \in Seq(Utf8Written)
  PROVE  Mapped(s) = s /\ Valid(FlattenSeq(s))
<1>1. /\ s \in [1..Len(s) -> Utf8Written] /\ DOMAIN s = 1..Len(s)
      /\ \A i \in 1..Len(s) : s[i] \in Utf8Written
  BY LenProperties, ElementOfSeq
<1>2. \A i \in 1..Len(s) : InUtf8(s[i]) = s[i]
  BY <1>1, InUtf8Type
<1>3. Mapped(s) = [i \in 1..Len(s) |-> s[i]]
  BY <1>1, <1>2 DEF Mapped
<1>4. s \in Seq(Utf8Characters)
  BY WrittenCharacters, SeqMonotonic
<1> QED
  BY <1>1, <1>3, <1>4, ValidFlatten

\* Whole characters of GBK become what they should (encoding.go:57).
LEMMA DecodeWhole ==
  ASSUME NEW s \in Seq(GbkCharacters)
  PROVE  DecodeGbk(FlattenSeq(s)) = FlattenSeq(Mapped(s))
<1> DEFINE Good == {t \in Seq(GbkCharacters) : DecodeGbk(FlattenSeq(t)) = FlattenSeq(Mapped(t))}
<1>1. <<>> \in Good
  <2>1. Mapped(<<>>) = <<>>
    BY DEF Mapped
  <2> QED
    BY <2>1, FlattenEmpty, DecodeEmpty, EmptySeq
<1>2. ASSUME NEW t \in Seq(GbkCharacters), t # <<>>, Tail(t) \in Good
      PROVE  t \in Good
  <2> DEFINE c == Head(t)
             r == Tail(t)
  <2>1. c \in GbkCharacters /\ r \in Seq(GbkCharacters) /\ t = <<c>> \o r
    BY <1>2
  <2> HIDE DEF c, r
  <2>2. /\ c \in Characters /\ r \in Seq(Characters) /\ <<c>> \in Seq(Characters)
        /\ c \in Seq(Byte) /\ r \in Seq(Seq(Byte)) /\ <<c>> \in Seq(Seq(Byte))
    BY <2>1, WrittenCharacters, SeqMonotonic
  <2>3. FlattenSeq(t) = c \o FlattenSeq(r)
    <3>1. FlattenSeq(<<c>>) = c
      BY <2>2, FlattenOne
    <3>2. FlattenSeq(<<c>> \o r) = FlattenSeq(<<c>>) \o FlattenSeq(r)
      BY <2>2, FlattenConcat
    <3> QED
      BY <2>1, <3>1, <3>2
  <2>4. FlattenSeq(r) \in Seq(Byte)
    BY <2>2, FlattenType
  <2>5. DecodeGbk(FlattenSeq(t)) = InUtf8(c) \o DecodeGbk(FlattenSeq(r))
    BY <2>1, <2>3, <2>4, DecodeCharacter
  <2>6. Mapped(t) = <<InUtf8(c)>> \o Mapped(r)
    BY <2>1, <2>2, MappedConcat, MappedOne
  <2>7. InUtf8(c) \in Seq(Byte) /\ <<InUtf8(c)>> \in Seq(Seq(Byte)) /\ Mapped(r) \in Seq(Seq(Byte))
    BY <2>2, InUtf8Type, MappedType, WrittenCharacters, SeqMonotonic
  <2>8. FlattenSeq(Mapped(t)) = InUtf8(c) \o FlattenSeq(Mapped(r))
    <3>1. FlattenSeq(<<InUtf8(c)>>) = InUtf8(c)
      BY <2>7, FlattenOne
    <3>2. FlattenSeq(<<InUtf8(c)>> \o Mapped(r))
            = FlattenSeq(<<InUtf8(c)>>) \o FlattenSeq(Mapped(r))
      BY <2>7, FlattenConcat
    <3> QED
      BY <2>6, <3>1, <3>2
  <2>9. DecodeGbk(FlattenSeq(r)) = FlattenSeq(Mapped(r))
    BY <1>2 DEF r
  <2> QED
    BY <2>5, <2>8, <2>9
<1> HIDE DEF Good
<1>3. \A t \in Seq(GbkCharacters) : t \in Good
  BY <1>1, <1>2, SequenceInductionFront
<1> QED
  BY <1>3 DEF Good

\* Every byte of every character is a byte of the text.
LEMMA FlattenHas ==
  ASSUME NEW B, NEW s \in Seq(Seq(B)), NEW i \in 1..Len(s), NEW j \in 1..Len(s[i])
  PROVE  \E k \in 1..Len(FlattenSeq(s)) : FlattenSeq(s)[k] = s[i][j]
<1> DEFINE Has(t, h, l) == \E k \in 1..Len(FlattenSeq(t)) : FlattenSeq(t)[k] = t[h][l]
           Good == {t \in Seq(Seq(B)) : \A h \in 1..Len(t) : \A l \in 1..Len(t[h]) : Has(t, h, l)}
<1>1. <<>> \in Good
  BY EmptySeq
<1>2. ASSUME NEW t \in Seq(Seq(B)), NEW e \in Seq(B), t \in Good PROVE Append(t, e) \in Good
  <2> DEFINE u == Append(t, e)
             a == FlattenSeq(t)
  <2>1. /\ u \in Seq(Seq(B)) /\ Len(u) = Len(t) + 1 /\ Len(t) \in Nat
        /\ \A h \in 1..Len(t) : u[h] = t[h]
        /\ u[Len(t) + 1] = e
    BY AppendProperties, LenProperties
  <2>2. FlattenSeq(u) = a \o e
    BY FlattenAppend
  <2>3. a \in Seq(B) /\ Len(a) \in Nat /\ Len(e) \in Nat
    BY FlattenType, LenProperties
  <2>4. /\ Len(a \o e) = Len(a) + Len(e)
        /\ \A k \in 1..Len(a) + Len(e) : (a \o e)[k] = IF k <= Len(a) THEN a[k] ELSE e[k - Len(a)]
    BY <2>3, ConcatProperties
  <2>5. \A h \in 1..Len(t) : \A l \in 1..Len(t[h]) : Has(t, h, l)
    BY <1>2
  <2> HIDE DEF u, a
  <2>6. ASSUME NEW h \in 1..Len(u), NEW l \in 1..Len(u[h]) PROVE Has(u, h, l)
    <3>1. CASE h <= Len(t)
      <4>1. u[h] = t[h] /\ h \in 1..Len(t)
        BY <2>1, <3>1, SMTT(30)
      <4>2. PICK k \in 1..Len(a) : a[k] = t[h][l]
        BY <2>5, <4>1 DEF a
      <4>3. k \in 1..Len(a \o e) /\ (a \o e)[k] = t[h][l]
        BY <2>3, <2>4, <4>2
      <4> QED
        BY <2>2, <4>1, <4>3
    <3>2. CASE h > Len(t)
      <4>1. u[h] = e
        BY <2>1, <3>2
      <4>2. /\ Len(a) + l \in 1..Len(a) + Len(e) /\ ~(Len(a) + l <= Len(a))
            /\ (Len(a) + l) - Len(a) = l
        BY <2>3, <4>1
      <4>3. Len(a) + l \in 1..Len(a \o e) /\ (a \o e)[Len(a) + l] = e[l]
        BY <2>4, <4>2
      <4> QED
        BY <2>2, <4>1, <4>3
    <3>3. h <= Len(t) \/ h > Len(t)
      BY <2>1
    <3> HIDE DEF Has
    <3> QED
      BY <3>1, <3>2, <3>3
  <2> QED
    BY <2>1, <2>6 DEF u
<1> HIDE DEF Good
<1>3. s \in Good
  BY <1>1, <1>2, SequenceInduction
<1> QED
  BY <1>3 DEF Good

\* Characters have bytes.
LEMMA FlattenNothing ==
  ASSUME NEW s \in Seq(Characters), Len(FlattenSeq(s)) = 0
  PROVE  s = <<>>
<1> SUFFICES ASSUME s # <<>> PROVE FALSE
  OBVIOUS
<1>1. 1 \in 1..Len(s) /\ s[1] \in Characters
  BY EmptySeq, ElementOfSeq
<1>2. s \in Seq(Seq(Byte))
  BY WrittenCharacters, SeqMonotonic
<1>4. 1 \in 1..Len(s[1])
  BY <1>1, CharacterType, OneUpToThree, Zenon
<1>3. \E k \in 1..Len(FlattenSeq(s)) : FlattenSeq(s)[k] = s[1][1]
  BY <1>1, <1>2, <1>4, FlattenHas
<1> QED
  BY <1>3

\* Of GBK, only ASCII is UTF-8 unless by chance.
LEMMA ValidGbk ==
  ASSUME NEW s \in Seq(GbkCharacters), Valid(FlattenSeq(s)),
         ~ \E k \in 1..Len(FlattenSeq(s)) : FlattenSeq(s)[k] = "h1"
  PROVE  s \in Seq(Utf8Written)
<1>1. s \in Seq(Seq(Byte)) /\ Len(s) \in Nat
  BY WrittenCharacters, SeqMonotonic, LenProperties
<1>2. ASSUME NEW i \in 1..Len(s) PROVE s[i] \in Utf8Written
  <2>1. s[i] \in GbkCharacters
    BY ElementOfSeq
  <2>2. Len(s[i]) \in 1..3
    BY <2>1, CharacterType DEF GbkCharacters, Characters
  <2>6. 1 \in 1..Len(s[i])
    BY <2>2, OneUpToThree, Zenon
  <2>3. PICK k \in 1..Len(FlattenSeq(s)) : FlattenSeq(s)[k] = s[i][1]
    BY <1>1, <2>6, FlattenHas
  <2>4. FlattenSeq(s) \in Seq(Byte)
    BY <1>1, FlattenType
  <2>5. s[i][1] # "g1" /\ s[i][1] # "h1"
    BY <2>3, <2>4, ValidHasNoGbk
  <2> QED
    BY <2>1, <2>5 DEF GbkCharacters, Utf8Written, Gbk, Chance
<1>3. s = [i \in 1..Len(s) |-> s[i]]
  BY LenProperties
<1> DEFINE n == Len(s)
<1>4. n \in Nat /\ s \in [1..n -> Utf8Written]
  BY <1>1, <1>2, <1>3
<1> HIDE DEF n
<1> QED
  BY <1>4, SeqDef

\* What a read of whole characters is converted to (encoding.go:40-62).
LEMMA ConvertWhole ==
  ASSUME NEW s \in Seq(Utf8Written) \cup Seq(GbkCharacters), NEW data,
         data = FlattenSeq(s),
         ~(Valid(data) /\ \E k \in 1..Len(data) : data[k] = "h1")
  PROVE  TryConvertToUTF8(data) = FlattenSeq(Mapped(s))
<1>1. CASE s \in Seq(Utf8Written)
  BY <1>1, MappedUtf8 DEF TryConvertToUTF8
<1>2. CASE s \in Seq(GbkCharacters) /\ Valid(data)
  <2>1. s \in Seq(Utf8Written)
    BY <1>2, ValidGbk
  <2> QED
    BY <2>1, MappedUtf8 DEF TryConvertToUTF8
<1>3. CASE s \in Seq(GbkCharacters) /\ ~Valid(data)
  BY <1>3, DecodeWhole DEF TryConvertToUTF8
<1> QED
  BY <1>1, <1>2, <1>3

\* Whatever a read returned, what it becomes is UTF-8.
LEMMA ConvertValid ==
  ASSUME NEW data \in Seq(Byte)
  PROVE  TryConvertToUTF8(data) \in Seq(Byte) /\ Valid(TryConvertToUTF8(data))
BY DecodeValid DEF TryConvertToUTF8

-----------------------------------------------------------------------------
(***************************************************************************)
(* The text, cut between characters.                                       *)
(***************************************************************************)
Written == text \in Seq(Utf8Written) \cup Seq(GbkCharacters)

\* The bytes of the first n characters.
Start(n) == FlattenSeq(SubSeq(text, 1, n))

LEMMA CutOut ==
  ASSUME NEW B, NEW a \in Seq(B), NEW d \in Seq(B), NEW r \in Seq(B)
  PROVE  SubSeq((a \o d) \o r, Len(a) + 1, Len(a) + Len(d)) = d
<1>1. Len(a) \in Nat /\ Len(d) \in Nat /\ d \o r \in Seq(B) /\ Len(d \o r) = Len(d) + Len(r)
      /\ Len(r) \in Nat
  BY ConcatProperties, LenProperties
<1>2. (a \o d) \o r = a \o (d \o r)
  BY ConcatAssociative
<1>3. CASE Len(d) = 0
  <2>1. d = <<>>
    BY <1>3, EmptySeq
  <2> QED
    BY <1>1, <1>3, <2>1, SubSeqEmpty
<1>4. CASE Len(d) # 0
  <2>1. /\ 1 \in 1..Len(d) /\ Len(d) \in 1..Len(d)
        /\ 1 \in 1..Len(d \o r) /\ Len(d) \in 1..Len(d \o r)
    BY <1>1, <1>4
  <2>2. SubSeq(a \o (d \o r), Len(a) + 1, Len(a) + Len(d)) = SubSeq(d \o r, 1, Len(d))
    BY <1>1, <2>1, SubSeqOfSecond
  <2>3. SubSeq(d \o r, 1, Len(d)) = SubSeq(d, 1, Len(d))
    BY <2>1, SubSeqOfFirst
  <2> QED
    BY <1>2, <2>2, <2>3, SubSeqFull
<1> QED
  BY <1>3, <1>4

LEMMA PartType ==
  ASSUME NEW E, NEW s \in Seq(E), NEW k \in Nat, NEW m \in 0..Len(s)
  PROVE  SubSeq(s, k + 1, m) \in Seq(E)
<1>1. Len(s) \in Nat /\ \A i \in 1..Len(s) : s[i] \in E
  BY LenProperties, ElementOfSeq
<1>2. k + 1 \in Int /\ m \in Int /\ \A i \in k + 1 .. m : s[i] \in E
  BY <1>1
<1> QED
  BY <1>2, SubSeqProperties

LEMMA PartsJoin ==
  ASSUME NEW s \in Seq(Characters), NEW m \in 0..Len(s), NEW k \in 0..m
  PROVE  /\ SubSeq(s, 1, m) = SubSeq(s, 1, k) \o SubSeq(s, k + 1, m)
         /\ SubSeq(s, 1, k) \in Seq(Characters) /\ SubSeq(s, k + 1, m) \in Seq(Characters)
         /\ FlattenSeq(SubSeq(s, 1, m))
              = FlattenSeq(SubSeq(s, 1, k)) \o FlattenSeq(SubSeq(s, k + 1, m))
         /\ FlattenSeq(SubSeq(s, 1, k)) \in Seq(Byte)
         /\ FlattenSeq(SubSeq(s, k + 1, m)) \in Seq(Byte)
<1>1. Len(s) \in Nat
  BY LenProperties
<1>2. /\ 1 \in 1..Len(s) + 1 /\ k \in 1 - 1 .. Len(s) /\ m \in k..Len(s)
      /\ k \in Nat /\ k \in 0..Len(s) /\ 0 \in Nat /\ 0 + 1 = 1
  BY <1>1
<1>3. SubSeq(s, 1, m) = SubSeq(s, 1, k) \o SubSeq(s, k + 1, m)
  BY <1>2, ConcatAdjacentSubSeq
<1>4. SubSeq(s, k + 1, m) \in Seq(Characters)
  BY <1>2, PartType
<1>5. SubSeq(s, 0 + 1, k) \in Seq(Characters)
  BY <1>2, PartType
<1>6. SubSeq(s, 1, k) \in Seq(Seq(Byte)) /\ SubSeq(s, k + 1, m) \in Seq(Seq(Byte))
  BY <1>2, <1>4, <1>5, WrittenCharacters, SeqMonotonic
<1> QED
  BY <1>2, <1>3, <1>4, <1>5, <1>6, FlattenConcat, FlattenType

\* A read that starts and ends between characters returns whole ones.
LEMMA ReadsWhole ==
  ASSUME Written, NEW k \in 0..Len(text), NEW n \in Nat \ {0},
         read = Len(Start(k)), read + n \in Boundaries
  PROVE  \E m \in k..Len(text) :
           /\ read + n = Len(Start(m))
           /\ SubSeq(Bytes, read + 1, read + n) = FlattenSeq(SubSeq(text, k + 1, m))
           /\ SubSeq(text, k + 1, m) \in Seq(Utf8Written) \cup Seq(GbkCharacters)
           /\ text \in Seq(Utf8Written) => SubSeq(text, k + 1, m) \in Seq(Utf8Written)
<1>1. text \in Seq(Characters)
  BY WrittenCharacters, SeqMonotonic DEF Written
<1>2. Len(text) \in Nat
  BY <1>1, LenProperties
<1>3. PICK m \in 0..Len(text) : read + n = Len(Start(m))
  BY DEF Boundaries, Start
<1>4. m >= k
  <2> SUFFICES ASSUME m < k PROVE FALSE
    BY <1>2, <1>3
  <2> DEFINE d == FlattenSeq(SubSeq(text, m + 1, k))
  <2>1. m \in 0..k
    BY <1>2
  <2>2. Start(k) = Start(m) \o d /\ Start(m) \in Seq(Byte) /\ d \in Seq(Byte)
    BY <1>1, <2>1, PartsJoin DEF Start
  <2>3. Len(Start(k)) = Len(Start(m)) + Len(d) /\ Len(d) \in Nat /\ Len(Start(m)) \in Nat
    BY <2>2, ConcatProperties, LenProperties
  <2> HIDE DEF d
  <2> QED
    BY <1>3, <2>3
<1> DEFINE d == FlattenSeq(SubSeq(text, k + 1, m))
           r == FlattenSeq(SubSeq(text, m + 1, Len(text)))
<1>5. k \in 0..m /\ m \in k..Len(text)
  BY <1>2, <1>4
<1>6. Start(m) = Start(k) \o d /\ Start(k) \in Seq(Byte) /\ d \in Seq(Byte)
  BY <1>1, <1>5, PartsJoin DEF Start
<1>7. Bytes = Start(m) \o r /\ r \in Seq(Byte)
  <2>1. Len(text) \in 0..Len(text) /\ m \in 0..Len(text)
    BY <1>2
  <2>2. FlattenSeq(SubSeq(text, 1, Len(text))) = Start(m) \o r /\ r \in Seq(Byte)
    BY <1>1, <2>1, PartsJoin DEF Start
  <2> QED
    BY <1>1, <2>2, SubSeqFull DEF Bytes
<1>8. Len(Start(m)) = Len(Start(k)) + Len(d)
  BY <1>6, ConcatProperties
<1> HIDE DEF d, r
<1>9. SubSeq(Bytes, read + 1, read + n) = d
  BY <1>3, <1>6, <1>7, <1>8, CutOut
<1>10. k \in Nat /\ m \in 0..Len(text)
  BY <1>5
<1>11. SubSeq(text, k + 1, m) \in Seq(Utf8Written) \cup Seq(GbkCharacters)
  <2>1. CASE text \in Seq(Utf8Written)
    BY <1>10, <2>1, PartType
  <2>2. CASE text \in Seq(GbkCharacters)
    BY <1>10, <2>2, PartType
  <2> QED
    BY <2>1, <2>2 DEF Written
<1>12. text \in Seq(Utf8Written) => SubSeq(text, k + 1, m) \in Seq(Utf8Written)
  BY <1>10, PartType
<1> QED
  BY <1>3, <1>5, <1>9, <1>11, <1>12 DEF d

-----------------------------------------------------------------------------
(***************************************************************************)
(* The invariant: while nothing was cut, whole characters were read, and   *)
(* what was kept is these characters in UTF-8.                             *)
(***************************************************************************)
Kept(n) == kept = FlattenSeq(Mapped(SubSeq(text, 1, n)))

WholeSoFar ==
  intact => \E n \in 0..Len(text) : read = Len(Start(n)) /\ (reading # "failed" => Kept(n))

OutputInv ==
  /\ Written
  /\ read \in Nat
  /\ kept \in Seq(Byte)
  /\ Valid(kept)
  /\ intact \in BOOLEAN
  /\ reading \in {"on", "ended", "failed"}
  /\ WholeSoFar
  /\ reading = "ended" => read = Len(Bytes)
  /\ OnlyConversionFails

LEMMA OutputInvHolds ==
  ASSUME OutputInit
  PROVE  OutputInv
<1>1. Written
  <2>1. \A n \in Nat : /\ [1..n -> {Ascii, Unicode}] \subseteq Seq({Ascii, Unicode})
                       /\ [1..n -> {Ascii, Gbk, Chance}] \subseteq Seq({Ascii, Gbk, Chance})
    OBVIOUS
  <2>2. \A n \in 0..MaxText : n \in Nat
    BY OutputAssumption
  <2> QED
    BY <2>1, <2>2 DEF OutputInit, Utf8Texts, GbkTexts, Written, Utf8Written, GbkCharacters
<1>2. /\ read = 0 /\ kept = <<>> /\ intact = TRUE /\ reading = "on"
  BY DEF OutputInit
<1>3. text \in Seq(Characters) /\ Len(text) \in Nat
  BY <1>1, WrittenCharacters, SeqMonotonic, LenProperties DEF Written
<1>4. SubSeq(text, 1, 0) = <<>>
  BY SubSeqEmpty
<1>5. Start(0) = <<>> /\ Len(Start(0)) = 0
  BY <1>4, FlattenEmpty, EmptySeq DEF Start
<1>6. Mapped(<<>>) = <<>>
  BY DEF Mapped
<1>7. Kept(0)
  BY <1>2, <1>4, <1>6, FlattenEmpty DEF Kept
<1>8. WholeSoFar
  BY <1>2, <1>3, <1>5, <1>7 DEF WholeSoFar
<1> QED
  BY <1>1, <1>2, <1>8, ValidEmpty, EmptySeq DEF OutputInv, OnlyConversionFails

\* A text without characters of GBK is UTF-8.
LEMMA NoGbkIsUtf8 ==
  ASSUME Written, ~ \E i \in DOMAIN text : text[i] \in {Gbk, Chance}
  PROVE  text \in Seq(Utf8Written)
<1>1. text \in Seq(Characters)
  BY WrittenCharacters, SeqMonotonic DEF Written
<1> DEFINE n == Len(text)
<1>2. n \in Nat /\ DOMAIN text = 1..n /\ text = [i \in 1..n |-> text[i]]
      /\ \A i \in 1..n : text[i] \in Characters
  BY <1>1, LenProperties, ElementOfSeq
<1> HIDE DEF n
<1>3. \A i \in 1..n : text[i] \in Utf8Written
  BY <1>2 DEF Characters, Utf8Written
<1>4. text \in [1..n -> Utf8Written]
  BY <1>2, <1>3
<1> QED
  BY <1>2, <1>4, SeqDef

\* One read, with what it asked for and what it got.
ReadOf(room, n) ==
  LET data == SubSeq(Bytes, read + 1, read + n)
      converted == TryConvertToUTF8(data)
  IN /\ read + n <= Len(Bytes)
     /\ intact' = (intact /\ read + n \in Boundaries
                     /\ ~(Valid(data) /\ \E i \in 1..n : data[i] = "h1"))
     /\ IF Len(converted) <= room
        THEN kept' = kept \o converted /\ reading' = "on"
        ELSE kept' = kept /\ reading' = "failed"
     /\ read' = read + n
     /\ text' = text

LEMMA ReadKeeps ==
  ASSUME OutputInv, reading = "on", NEW room \in 1..MaxRoom, NEW n \in 1..room,
         ReadOf(room, n)
  PROVE  OutputInv'
<1> DEFINE data == SubSeq(Bytes, read + 1, read + n)
           converted == TryConvertToUTF8(data)
<1>1. /\ read \in Nat /\ room \in Nat /\ n \in Nat \ {0} /\ n <= room
      /\ read' = read + n /\ text' = text /\ read + n <= Len(Bytes)
      /\ kept \in Seq(Byte) /\ Valid(kept) /\ intact \in BOOLEAN /\ Written
      /\ intact' = (intact /\ read + n \in Boundaries
                      /\ ~(Valid(data) /\ \E i \in 1..n : data[i] = "h1"))
  BY OutputAssumption DEF OutputInv, ReadOf
<1>2. IF Len(converted) <= room
      THEN kept' = kept \o converted /\ reading' = "on"
      ELSE kept' = kept /\ reading' = "failed"
  BY DEF ReadOf
<1>3. text \in Seq(Characters) /\ text \in Seq(Seq(Byte)) /\ Len(text) \in Nat
  BY <1>1, WrittenCharacters, SeqMonotonic, LenProperties DEF Written
<1>4. Bytes \in Seq(Byte) /\ Len(Bytes) \in Nat /\ \A i \in 1..Len(Bytes) : Bytes[i] \in Byte
  BY <1>3, FlattenType, LenProperties, ElementOfSeq DEF Bytes
<1>5. data \in Seq(Byte) /\ Len(data) = n
  <2>1. /\ read + 1 \in Int /\ read + n \in Int /\ read + 1 <= read + n
        /\ (read + n) - (read + 1) + 1 = n
        /\ \A i \in read + 1 .. read + n : Bytes[i] \in Byte
    BY <1>1, <1>4
  <2> QED
    BY <2>1, SubSeqProperties
<1> HIDE DEF data
<1>6. converted \in Seq(Byte) /\ Valid(converted)
  BY <1>5, ConvertValid
<1> HIDE DEF converted
<1>7. Written' /\ Bytes' = Bytes
  BY <1>1 DEF Written, Bytes
<1>8. kept' \in Seq(Byte) /\ Valid(kept') /\ reading' \in {"on", "failed"}
  BY <1>1, <1>2, <1>6, ValidConcat, ConcatProperties, ZenonT(60)
\* A read that left the text intact.
<1>9. ASSUME intact'
      PROVE  \E k \in 0..Len(text), m \in 0..Len(text) :
               /\ k <= m
               /\ read = Len(Start(k)) /\ Kept(k) /\ read + n = Len(Start(m))
               /\ data = FlattenSeq(SubSeq(text, k + 1, m))
               /\ SubSeq(text, k + 1, m) \in Seq(Utf8Written) \cup Seq(GbkCharacters)
               /\ text \in Seq(Utf8Written) => SubSeq(text, k + 1, m) \in Seq(Utf8Written)
  <2>1. intact /\ read + n \in Boundaries
    BY <1>1, <1>9
  <2>2. PICK k \in 0..Len(text) : read = Len(Start(k)) /\ Kept(k)
    BY <2>1 DEF OutputInv, WholeSoFar
  <2>3. PICK m \in k..Len(text) :
          /\ read + n = Len(Start(m))
          /\ data = FlattenSeq(SubSeq(text, k + 1, m))
          /\ SubSeq(text, k + 1, m) \in Seq(Utf8Written) \cup Seq(GbkCharacters)
          /\ text \in Seq(Utf8Written) => SubSeq(text, k + 1, m) \in Seq(Utf8Written)
    BY <1>1, <2>1, <2>2, ReadsWhole DEF data
  <2>4. m \in 0..Len(text) /\ k <= m
    BY <1>3
  <2> QED
    BY <2>2, <2>3, <2>4
<1>10. WholeSoFar'
  <2> SUFFICES ASSUME intact'
               PROVE  \E m \in 0..Len(text) :
                        /\ read' = Len(Start(m))
                        /\ reading' # "failed" => kept' = FlattenSeq(Mapped(SubSeq(text, 1, m)))
    BY <1>1 DEF WholeSoFar, Kept, Start
  <2>1. PICK k \in 0..Len(text), m \in 0..Len(text) :
               /\ k <= m
               /\ read = Len(Start(k)) /\ Kept(k) /\ read + n = Len(Start(m))
               /\ data = FlattenSeq(SubSeq(text, k + 1, m))
               /\ SubSeq(text, k + 1, m) \in Seq(Utf8Written) \cup Seq(GbkCharacters)
    BY <1>9
  <2> DEFINE a == SubSeq(text, 1, k)
             b == SubSeq(text, k + 1, m)
  <2>2. converted = FlattenSeq(Mapped(b))
    <3>1. ~(Valid(data) /\ \E i \in 1..Len(data) : data[i] = "h1")
      BY <1>1, <1>5
    <3> QED
      BY <2>1, <3>1, ConvertWhole DEF converted
  <2>3. k \in 0..m
    BY <1>3, <2>1
  <2>4. a \in Seq(Characters) /\ b \in Seq(Characters) /\ SubSeq(text, 1, m) = a \o b
    BY <1>3, <2>3, PartsJoin
  <2>5. kept = FlattenSeq(Mapped(a))
    BY <2>1 DEF Kept
  <2> HIDE DEF a, b
  <2>6. /\ Mapped(a) \in Seq(Seq(Byte)) /\ Mapped(b) \in Seq(Seq(Byte))
        /\ Mapped(a \o b) = Mapped(a) \o Mapped(b)
    BY <2>4, MappedType, MappedConcat, WrittenCharacters, SeqMonotonic
  <2>7. kept \o converted = FlattenSeq(Mapped(SubSeq(text, 1, m)))
    BY <2>2, <2>4, <2>5, <2>6, FlattenConcat
  <2>8. reading' # "failed" => kept' = kept \o converted
    BY <1>2
  <2> QED
    BY <1>1, <2>1, <2>7, <2>8
<1>11. OnlyConversionFails'
  <2> SUFFICES ASSUME reading' = "failed", intact', ~ \E i \in DOMAIN text : text[i] \in {Gbk, Chance}
               PROVE  FALSE
    BY <1>1 DEF OnlyConversionFails
  <2>1. text \in Seq(Utf8Written)
    BY <1>1, NoGbkIsUtf8
  <2>2. \E s \in Seq(Utf8Written) : data = FlattenSeq(s)
    BY <1>9, <2>1
  <2>3. Valid(data)
    BY <2>2, MappedUtf8
  <2>4. converted = data
    BY <2>3 DEF converted, TryConvertToUTF8
  <2>5. Len(converted) <= room
    BY <1>1, <1>5, <2>4
  <2> QED
    BY <1>2, <2>5
<1>12. intact' \in BOOLEAN /\ read' \in Nat
  BY <1>1
<1> QED
  BY <1>7, <1>8, <1>10, <1>11, <1>12 DEF OutputInv

LEMMA OutputInvInductive ==
  ASSUME OutputInv, [OutputNext]_output
  PROVE  OutputInv'
<1>1. CASE Read
  <2>1. PICK room \in 1..MaxRoom : \E n \in 1..room : ReadOf(room, n) /\ reading = "on"
    BY <1>1 DEF Read, ReadOf
  <2> QED
    BY <2>1, ReadKeeps
<1>2. CASE EndOfFile
  BY <1>2 DEF EndOfFile, OutputInv, Written, WholeSoFar, Start, Kept, Bytes,
              OnlyConversionFails
<1>3. CASE UNCHANGED output
  BY <1>3 DEF output, OutputInv, Written, WholeSoFar, Start, Kept, Bytes,
              OnlyConversionFails
<1> QED
  BY <1>1, <1>2, <1>3 DEF OutputNext

\* At the end of the file all characters were read, so what was kept is the text.
LEMMA AllKept ==
  ASSUME OutputInv
  PROVE  TextRight
<1> SUFFICES ASSUME reading = "ended", intact
             PROVE  kept = Expected
  BY DEF OutputInv, TextRight
<1>1. read = Len(Bytes) /\ Written
  BY DEF OutputInv
<1>2. PICK k \in 0..Len(text) : read = Len(Start(k)) /\ Kept(k)
  BY DEF OutputInv, WholeSoFar
<1>3. text \in Seq(Characters) /\ Len(text) \in Nat
  BY <1>1, WrittenCharacters, SeqMonotonic, LenProperties DEF Written
<1> DEFINE rest == SubSeq(text, k + 1, Len(text))
<1>4. /\ Len(text) \in 0..Len(text) /\ k \in 0..Len(text)
  BY <1>3
<1>5. /\ SubSeq(text, 1, Len(text)) = SubSeq(text, 1, k) \o rest
      /\ SubSeq(text, 1, k) \in Seq(Characters) /\ rest \in Seq(Characters)
      /\ FlattenSeq(SubSeq(text, 1, Len(text))) = Start(k) \o FlattenSeq(rest)
      /\ Start(k) \in Seq(Byte) /\ FlattenSeq(rest) \in Seq(Byte)
  BY <1>3, <1>4, PartsJoin DEF Start
<1>6. SubSeq(text, 1, Len(text)) = text
  BY <1>3, SubSeqFull
<1> HIDE DEF rest
<1> DEFINE a == Start(k)
           b == FlattenSeq(rest)
<1>7. FlattenSeq(text) = a \o b /\ a \in Seq(Byte) /\ b \in Seq(Byte) /\ Len(FlattenSeq(text)) = Len(a)
  BY <1>1, <1>2, <1>5, <1>6 DEF Bytes
<1> HIDE DEF a, b
<1>8. Len(b) = 0
  <2>1. Len(a) \in Nat /\ Len(b) \in Nat /\ Len(a \o b) = Len(a) + Len(b)
    BY <1>7, LenProperties, ConcatProperties
  <2> QED
    BY <1>7, <2>1
<1>9. rest = <<>>
  BY <1>5, <1>8, FlattenNothing DEF b
<1>10. SubSeq(text, 1, k) = text
  BY <1>5, <1>6, <1>9, ConcatEmptySeq
<1> QED
  BY <1>2, <1>10 DEF Kept, Expected, Mapped

\* Whatever was split or converted, what is kept is valid UTF-8; and unless a read
\* split a character or its bytes were UTF-8 by chance, it is the text that was
\* written (encoding.go:40-62).
THEOREM TextArrivesRight == OutputSpec => []TextRight
<1>1. OutputInit => OutputInv
  BY OutputInvHolds
<1>2. OutputInv /\ [OutputNext]_output => OutputInv'
  BY OutputInvInductive
<1>3. OutputInv => TextRight
  BY AllKept
<1> QED
  BY <1>1, <1>2, <1>3, PTL DEF OutputSpec

\* UTF-8 read whole never outgrows its buffer, so the reader only gives up on output
\* that is not UTF-8 or was split (encoding.go:61).
THEOREM OnlyConversionGivesUp == OutputSpec => []OnlyConversionFails
<1>1. OutputInit => OutputInv
  BY OutputInvHolds
<1>2. OutputInv /\ [OutputNext]_output => OutputInv'
  BY OutputInvInductive
<1>3. OutputInv => OnlyConversionFails
  BY DEF OutputInv
<1> QED
  BY <1>1, <1>2, <1>3, PTL DEF OutputSpec
=============================================================================

----------------------------- MODULE AdiosProofs ------------------------------
(***************************************************************************)
(* The tracking data of files with the ADIOS I/O type, for any I/O groups, *)
(* variables, decompositions and lengths of the buffers: every step of a   *)
(* file tells of each block of each variable which write it belongs to.    *)
(*                                                                         *)
(* The invariant counts, for each variable, what has been put in the step  *)
(* in progress together with what is still buffered.                       *)
(***************************************************************************)
EXTENDS Adios, SequenceTheorems, FiniteSetTheorems, NaturalsInduction, WellFoundedInduction, TLAPS

-----------------------------------------------------------------------------
(***************************************************************************)
(* Induction                                                               *)
(***************************************************************************)
\* The order of the numbers as a relation, in the form WFMin takes.
LEMMA LessThanWF ==
  \E R : IsWellFoundedOn(R, Nat) /\ \A x, y \in Nat : x < y => <<x, y>> \in R
<1> DEFINE L == OpToRel(<, Nat)
<1>1. IsWellFoundedOn(L, Nat)
  BY NatLessThanWellFounded
<1>2. \A x, y \in Nat : x < y => <<x, y>> \in L
  BY DEF OpToRel
<1>3. QED
  <2> HIDE DEF L
  <2> QED
    BY <1>1, <1>2, Zenon

\* A set with 0 and the successor of each of its numbers has all numbers.
LEMMA Induct ==
  ASSUME NEW T \in SUBSET Nat, 0 \in T, \A n \in T : n + 1 \in T
  PROVE  T = Nat
<1>1. SUFFICES ASSUME Nat \ T # {} PROVE FALSE
  OBVIOUS
<1>2. PICK R : IsWellFoundedOn(R, Nat) /\ \A x, y \in Nat : x < y => <<x, y>> \in R
  BY LessThanWF
<1>3. IsWellFoundedOn(R, Nat) /\ Nat \ T \subseteq Nat
  BY <1>2
<1>4. PICK x \in Nat \ T : \A y \in Nat \ T : ~ (<<y, x>> \in R)
  BY <1>1, <1>3, WFMin
<1>5. x # 0 /\ x - 1 \in Nat /\ x - 1 < x
  BY <1>4
<1>6. x - 1 \in T
  BY <1>2, <1>4, <1>5
<1>7. QED
  BY <1>4, <1>5, <1>6

\* What holds at 0 and at the successors up to n holds from 0 to n.
LEMMA InductTo ==
  ASSUME NEW n \in Nat, NEW T \in SUBSET (0..n), 0 \in T, \A i \in 0..n - 1 : i \in T => i + 1 \in T
  PROVE  T = 0..n
<1> DEFINE U == {i \in Nat : i <= n => i \in T}
<1>1. 0 \in U
  OBVIOUS
<1>2. ASSUME NEW i \in U PROVE i + 1 \in U
  <2>1. CASE i + 1 <= n
    <3>1. i \in 0..n - 1 /\ i \in T
      BY <2>1
    <3>2. QED
      BY <3>1
  <2>2. QED
    BY <2>1
<1>3. U = Nat
  <2> HIDE DEF U
  <2>1. U \in SUBSET Nat
    BY DEF U
  <2>2. QED
    BY <1>1, <1>2, <2>1, Induct
<1>4. \A i \in 0..n : i \in T
  BY <1>3
<1>5. QED
  BY <1>4

-----------------------------------------------------------------------------
(***************************************************************************)
(* Joining sequences                                                       *)
(***************************************************************************)
\* What FlattenSeq computes place by place.
Joins(f, ss) ==
  f = [i \in 1..Len(ss) |-> IF i = 1 THEN ss[i] ELSE f[i - 1] \o ss[i]]

LEMMA JoinsExists ==
  ASSUME NEW ss, NEW n \in Nat
  PROVE  \E f : f = [i \in 1..n |-> IF i = 1 THEN ss[i] ELSE f[i - 1] \o ss[i]]
<1> DEFINE T == {m \in Nat : \E f : f = [i \in 1..m |-> IF i = 1 THEN ss[i] ELSE f[i - 1] \o ss[i]]}
<1>1. 0 \in T
  <2> DEFINE f == [i \in 1..0 |-> ss[i]]
  <2>1. f = [i \in 1..0 |-> IF i = 1 THEN ss[i] ELSE f[i - 1] \o ss[i]]
    OBVIOUS
  <2>2. \E g : g = [i \in 1..0 |-> IF i = 1 THEN ss[i] ELSE g[i - 1] \o ss[i]]
    <3> HIDE DEF f
    <3> QED BY <2>1
  <2>3. QED
    BY <2>2
<1>2. ASSUME NEW m \in T PROVE m + 1 \in T
  <2>1. PICK f : f = [i \in 1..m |-> IF i = 1 THEN ss[i] ELSE f[i - 1] \o ss[i]]
    BY <1>2
  <2> DEFINE g == [i \in 1..m + 1 |->
                     IF i <= m THEN f[i] ELSE IF i = 1 THEN ss[i] ELSE f[m] \o ss[m + 1]]
  <2>2. \A i \in 1..m : f[i] = IF i = 1 THEN ss[i] ELSE f[i - 1] \o ss[i]
    BY <2>1
  <2>3. ASSUME NEW i \in 1..m + 1
        PROVE  g[i] = IF i = 1 THEN ss[i] ELSE g[i - 1] \o ss[i]
    <3>1. CASE i <= m
      <4>1. g[i] = f[i] /\ (i # 1 => g[i - 1] = f[i - 1])
        BY <3>1
      <4>2. QED
        BY <2>2, <3>1, <4>1
    <3>2. CASE ~(i <= m)
      <4>1. i = m + 1
        BY <3>2
      <4>2. g[m + 1] = IF m + 1 = 1 THEN ss[m + 1] ELSE f[m] \o ss[m + 1]
        BY <3>2, <4>1
      <4>3. m + 1 # 1 => g[m] = f[m]
        OBVIOUS
      <4>4. (m + 1) - 1 = m
        OBVIOUS
      <4> HIDE DEF g
      <4>5. QED
        BY ONLY <4>1, <4>2, <4>3, <4>4, Zenon
    <3>3. QED
      BY <3>1, <3>2
  <2>4. g = [i \in 1..m + 1 |-> IF i = 1 THEN ss[i] ELSE g[i - 1] \o ss[i]]
    BY <2>3
  <2>5. \E h : h = [i \in 1..m + 1 |-> IF i = 1 THEN ss[i] ELSE h[i - 1] \o ss[i]]
    <3> HIDE DEF g
    <3> QED BY <2>4
  <2>6. m + 1 \in Nat
    OBVIOUS
  <2>7. QED
    BY ONLY <2>5, <2>6, Zenon
<1>3. T = Nat
  <2> HIDE DEF T
  <2>1. T \in SUBSET Nat
    BY DEF T
  <2>2. QED
    BY <1>1, <1>2, <2>1, Induct
<1>4. QED
  BY <1>3

\* FlattenSeq gives the last of them.
LEMMA FlattenSeqIs ==
  ASSUME NEW ss, Len(ss) \in Nat \ {0}
  PROVE  \E f : Joins(f, ss) /\ FlattenSeq(ss) = f[Len(ss)]
<1> DEFINE f == CHOOSE g : g = [i \in 1..Len(ss) |-> IF i = 1 THEN ss[i] ELSE g[i - 1] \o ss[i]]
<1>1. \E g : g = [i \in 1..Len(ss) |-> IF i = 1 THEN ss[i] ELSE g[i - 1] \o ss[i]]
  BY JoinsExists
<1>2. f = [i \in 1..Len(ss) |-> IF i = 1 THEN ss[i] ELSE f[i - 1] \o ss[i]]
  BY ONLY <1>1, Zenon
<1>3. FlattenSeq(ss) = f[Len(ss)]
  BY Zenon DEF FlattenSeq
<1>4. QED
  <2> HIDE DEF f
  <2> QED BY <1>2, <1>3, Zenon DEF Joins
\* The places of a join, one by one.
LEMMA JoinsAre ==
  ASSUME NEW S, NEW ss \in Seq(Seq(S)), NEW f, Joins(f, ss)
  PROVE  /\ Len(ss) > 0 => f[1] = ss[1]
         /\ \A i \in 1..Len(ss) - 1 : f[i + 1] = f[i] \o ss[i + 1]
         /\ \A i \in 1..Len(ss) : f[i] \in Seq(S)
<1>0. Len(ss) \in Nat /\ \A i \in 1..Len(ss) : ss[i] \in Seq(S)
  BY LenProperties
<1>1. \A i \in 1..Len(ss) : f[i] = IF i = 1 THEN ss[i] ELSE f[i - 1] \o ss[i]
  BY <1>0 DEF Joins
<1>2. Len(ss) > 0 => f[1] = ss[1]
  BY <1>0, <1>1
<1>3. ASSUME NEW i \in 1..Len(ss) - 1
      PROVE  f[i + 1] = f[i] \o ss[i + 1]
  <2>1. i + 1 \in 1..Len(ss) /\ i + 1 # 1 /\ (i + 1) - 1 = i
    BY <1>0
  <2>2. QED
    BY ONLY <1>1, <2>1, Zenon
<1> DEFINE T == {i \in 0..Len(ss) : i > 0 => f[i] \in Seq(S)}
<1>4. 0 \in T
  BY <1>0
<1>5. ASSUME NEW i \in 0..Len(ss) - 1, i \in T PROVE i + 1 \in T
  <2>0. i + 1 \in 0..Len(ss) /\ i + 1 \in 1..Len(ss)
    BY <1>0
  <2>1. CASE i = 0
    BY <1>0, <1>2, <2>0, <2>1
  <2>2. CASE i # 0
    <3>1. i \in 1..Len(ss) - 1 /\ f[i] \in Seq(S) /\ ss[i + 1] \in Seq(S)
      BY <1>0, <1>5, <2>0, <2>2
    <3>2. f[i] \o ss[i + 1] \in Seq(S)
      BY <3>1, ConcatProperties
    <3>3. f[i + 1] \in Seq(S)
      BY <1>3, <3>1, <3>2
    <3>4. QED
      BY <2>0, <3>3
  <2>3. QED
    BY <2>1, <2>2
<1>6. T = 0..Len(ss)
  <2> HIDE DEF T
  <2>1. T \in SUBSET (0..Len(ss))
    BY DEF T
  <2>2. QED
    BY ONLY <1>0, <1>4, <1>5, <2>1, InductTo
<1>7. \A i \in 1..Len(ss) : f[i] \in Seq(S)
  <2>1. ASSUME NEW i \in 1..Len(ss) PROVE f[i] \in Seq(S)
    <3>1. i \in 0..Len(ss) /\ i > 0
      BY <1>0
    <3>2. QED
      BY ONLY <1>6, <3>1
  <2>2. QED
    BY <2>1
<1>8. QED
  BY <1>2, <1>3, <1>7

\* FlattenSeq gives the last place of such a join.
LEMMA FlattenBy ==
  ASSUME NEW S, NEW ss \in Seq(Seq(S)), Len(ss) > 0
  PROVE  \E f : /\ FlattenSeq(ss) = f[Len(ss)]
                /\ f[1] = ss[1]
                /\ \A i \in 1..Len(ss) - 1 : f[i + 1] = f[i] \o ss[i + 1]
                /\ \A i \in 1..Len(ss) : f[i] \in Seq(S)
<1>1. Len(ss) \in Nat \ {0}
  BY LenProperties
<1>2. PICK f : Joins(f, ss) /\ FlattenSeq(ss) = f[Len(ss)]
  BY ONLY <1>1, FlattenSeqIs
<1>3. /\ Len(ss) > 0 => f[1] = ss[1]
      /\ \A i \in 1..Len(ss) - 1 : f[i + 1] = f[i] \o ss[i + 1]
      /\ \A i \in 1..Len(ss) : f[i] \in Seq(S)
  BY ONLY ss \in Seq(Seq(S)), <1>2, JoinsAre, Zenon
<1>4. QED
  BY ONLY Len(ss) > 0, <1>2, <1>3, Zenon

LEMMA FlattenEmpty ==
  FlattenSeq(<<>>) = <<>>
BY DEF FlattenSeq

LEMMA FlattenType ==
  ASSUME NEW S, NEW ss \in Seq(Seq(S))
  PROVE  FlattenSeq(ss) \in Seq(S)
<1>1. Len(ss) \in Nat
  BY LenProperties
<1>2. CASE Len(ss) = 0
  BY <1>2, EmptySeq, FlattenEmpty
<1>3. CASE Len(ss) # 0
  <2>1. Len(ss) > 0 /\ Len(ss) \in 1..Len(ss)
    BY <1>1, <1>3
  <2>2. PICK f : FlattenSeq(ss) = f[Len(ss)] /\ \A i \in 1..Len(ss) : f[i] \in Seq(S)
    BY ONLY ss \in Seq(Seq(S)), <2>1, FlattenBy, Zenon
  <2>3. QED
    BY ONLY <2>1, <2>2, Zenon
<1>4. QED
  BY <1>2, <1>3

\* One more sequence at the end.
LEMMA FlattenAppend ==
  ASSUME NEW S, NEW ss \in Seq(Seq(S)), NEW d \in Seq(S)
  PROVE  FlattenSeq(Append(ss, d)) = FlattenSeq(ss) \o d
<1> DEFINE tt == Append(ss, d)
           n == Len(ss)
<1>1. /\ n \in Nat /\ tt \in Seq(Seq(S)) /\ Len(tt) = n + 1 /\ tt[n + 1] = d
      /\ \A i \in 1..n : tt[i] = ss[i]
  BY LenProperties, AppendProperties
<1> HIDE DEF tt
<1>2. Len(tt) > 0 /\ Len(tt) - 1 = n
  BY <1>1
<1>3. PICK g : /\ FlattenSeq(tt) = g[n + 1]
               /\ g[1] = tt[1]
               /\ \A i \in 1..n : g[i + 1] = g[i] \o tt[i + 1]
  <2>1. PICK g : /\ FlattenSeq(tt) = g[Len(tt)]
                 /\ g[1] = tt[1]
                 /\ \A i \in 1..Len(tt) - 1 : g[i + 1] = g[i] \o tt[i + 1]
                 /\ \A i \in 1..Len(tt) : g[i] \in Seq(S)
    <3>1. tt \in Seq(Seq(S)) /\ Len(tt) > 0
      BY <1>1
    <3>2. QED
      BY ONLY <3>1, FlattenBy
  <2>2. QED
    BY ONLY <1>1, <1>2, <2>1, Zenon
<1>4. CASE n = 0
  <2>1. ss = <<>> /\ FlattenSeq(ss) = <<>>
    BY <1>4, EmptySeq, FlattenEmpty
  <2>2. FlattenSeq(tt) = d
    BY <1>1, <1>3, <1>4
  <2>3. <<>> \o d = d
    BY ConcatEmptySeq
  <2>4. QED
    BY <2>1, <2>2, <2>3 DEF tt
<1>5. CASE n # 0
  <2>1. n > 0
    BY <1>1, <1>5
  <2>2. PICK f : /\ FlattenSeq(ss) = f[n]
                 /\ f[1] = ss[1]
                 /\ \A i \in 1..n - 1 : f[i + 1] = f[i] \o ss[i + 1]
                 /\ \A i \in 1..n : f[i] \in Seq(S)
    BY ONLY ss \in Seq(Seq(S)), <2>1, FlattenBy, Zenon
  <2> DEFINE T == {i \in 0..n : i > 0 => f[i] = g[i]}
  <2>3. 0 \in T
    BY <1>1
  <2>4. ASSUME NEW i \in 0..n - 1, i \in T PROVE i + 1 \in T
    <3>0. i + 1 \in 0..n /\ i + 1 \in 1..n
      BY <1>1
    <3>1. CASE i = 0
      BY <1>1, <1>3, <2>2, <3>0, <3>1
    <3>2. CASE i # 0
      <4>1. i \in 1..n - 1 /\ i \in 1..n /\ f[i] = g[i] /\ tt[i + 1] = ss[i + 1]
        BY <1>1, <2>4, <3>0, <3>2
      <4>2. f[i + 1] = g[i + 1]
        BY ONLY <1>3, <2>2, <4>1, Zenon
      <4>3. QED
        BY <3>0, <4>2
    <3>3. QED
      BY <3>1, <3>2
  <2>5. T = 0..n
    <3> HIDE DEF T
    <3>1. T \in SUBSET (0..n)
      BY DEF T
    <3>2. QED
      BY ONLY <1>1, <2>3, <2>4, <3>1, InductTo
  <2>6. f[n] = g[n]
    <3>1. n \in 0..n /\ n > 0
      BY <1>1, <1>5
    <3>2. QED
      BY ONLY <2>5, <3>1
  <2>7. n \in 1..n
    BY <1>1, <1>5
  <2>8. QED
    BY ONLY <1>1, <1>3, <2>2, <2>6, <2>7, Zenon DEF tt
<1>6. QED
  BY <1>4, <1>5

\* Only the last sequence has something.
LEMMA FlattenLast ==
  ASSUME NEW S, NEW ss \in Seq(Seq(S)), Len(ss) > 0, \A i \in 1..Len(ss) - 1 : ss[i] = <<>>
  PROVE  FlattenSeq(ss) = ss[Len(ss)]
<1>0. Len(ss) \in Nat /\ \A i \in 1..Len(ss) : ss[i] \in Seq(S)
  BY LenProperties
<1>2. PICK f : /\ FlattenSeq(ss) = f[Len(ss)]
               /\ f[1] = ss[1]
               /\ \A i \in 1..Len(ss) - 1 : f[i + 1] = f[i] \o ss[i + 1]
               /\ \A i \in 1..Len(ss) : f[i] \in Seq(S)
  BY ONLY ss \in Seq(Seq(S)), Len(ss) > 0, FlattenBy, Zenon
<1> DEFINE T == {i \in 0..Len(ss) : i > 0 => f[i] = ss[i]}
<1>3. 0 \in T
  BY <1>0
<1>4. ASSUME NEW i \in 0..Len(ss) - 1, i \in T PROVE i + 1 \in T
  <2>0. i + 1 \in 0..Len(ss) /\ i + 1 \in 1..Len(ss)
    BY <1>0
  <2>1. CASE i = 0
    BY <1>2, <2>0, <2>1
  <2>2. CASE i # 0
    <3>1. i \in 1..Len(ss) - 1 /\ f[i] = ss[i] /\ ss[i] = <<>> /\ ss[i + 1] \in Seq(S)
      BY <1>0, <1>4, <2>0, <2>2
    <3>2. <<>> \o ss[i + 1] = ss[i + 1]
      BY <3>1, ConcatEmptySeq
    <3>3. f[i + 1] = ss[i + 1]
      BY ONLY <1>2, <3>1, <3>2, Zenon
    <3>4. QED
      BY <2>0, <3>3
  <2>3. QED
    BY <2>1, <2>2
<1>5. T = 0..Len(ss)
  <2> HIDE DEF T
  <2>1. T \in SUBSET (0..Len(ss))
    BY DEF T
  <2>2. QED
    BY ONLY <1>0, <1>3, <1>4, <2>1, InductTo
<1>6. Len(ss) \in 0..Len(ss)
  BY <1>0
<1>7. QED
  BY ONLY <1>0, <1>2, <1>5, <1>6, Len(ss) > 0

\* The first sequence has something.
LEMMA FlattenNotEmpty ==
  ASSUME NEW S, NEW ss \in Seq(Seq(S)), Len(ss) > 0, Len(ss[1]) > 0
  PROVE  Len(FlattenSeq(ss)) > 0
<1>0. Len(ss) \in Nat /\ \A i \in 1..Len(ss) : ss[i] \in Seq(S)
  BY LenProperties
<1>2. PICK f : /\ FlattenSeq(ss) = f[Len(ss)]
               /\ f[1] = ss[1]
               /\ \A i \in 1..Len(ss) - 1 : f[i + 1] = f[i] \o ss[i + 1]
               /\ \A i \in 1..Len(ss) : f[i] \in Seq(S)
  BY ONLY ss \in Seq(Seq(S)), Len(ss) > 0, FlattenBy, Zenon
<1> DEFINE T == {i \in 0..Len(ss) : i > 0 => Len(f[i]) > 0}
<1>3. 0 \in T
  BY <1>0
<1>4. ASSUME NEW i \in 0..Len(ss) - 1, i \in T PROVE i + 1 \in T
  <2>0. i + 1 \in 0..Len(ss) /\ i + 1 \in 1..Len(ss)
    BY <1>0
  <2>1. CASE i = 0
    BY <1>2, <2>0, <2>1
  <2>2. CASE i # 0
    <3>1. i \in 1..Len(ss) - 1 /\ i \in 1..Len(ss) /\ Len(f[i]) > 0 /\ ss[i + 1] \in Seq(S)
      BY <1>0, <1>4, <2>0, <2>2
    <3>2. f[i] \in Seq(S)
      BY <1>2, <3>1
    <3>3. Len(f[i] \o ss[i + 1]) = Len(f[i]) + Len(ss[i + 1]) /\ Len(ss[i + 1]) \in Nat /\ Len(f[i]) \in Nat
      BY <3>1, <3>2, ConcatProperties, LenProperties
    <3>4. f[i + 1] = f[i] \o ss[i + 1]
      BY <1>2, <3>1
    <3>5. PICK a \in Nat, b \in Nat : a = Len(f[i]) /\ b = Len(ss[i + 1])
      BY <3>3
    <3>6. Len(f[i + 1]) = a + b
      BY ONLY <3>3, <3>4, <3>5, Zenon
    <3>7. a > 0
      BY ONLY <3>1, <3>5, Zenon
    <3>8. Len(f[i + 1]) > 0
      BY ONLY a \in Nat, b \in Nat, <3>6, <3>7
    <3>9. QED
      BY <2>0, <3>8
  <2>3. QED
    BY <2>1, <2>2
<1>5. T = 0..Len(ss)
  <2> HIDE DEF T
  <2>1. T \in SUBSET (0..Len(ss))
    BY DEF T
  <2>2. QED
    BY ONLY <1>0, <1>3, <1>4, <2>1, InductTo
<1>6. Len(ss) \in 0..Len(ss)
  BY <1>0
<1>7. QED
  BY ONLY <1>0, <1>2, <1>5, <1>6, Len(ss) > 0

-----------------------------------------------------------------------------
(***************************************************************************)
(* Counting the positive entries of a sequence                             *)
(***************************************************************************)
LEMMA PositivesEmpty ==
  Positives(<<>>) = 0
<1>1. {i \in DOMAIN <<>> : <<>>[i] > 0} = {}
  OBVIOUS
<1>2. QED
  BY <1>1, FS_EmptySet DEF Positives

LEMMA PositivesAppend ==
  ASSUME NEW s \in Seq(Int), NEW x \in Int
  PROVE  /\ Positives(s) \in Nat
         /\ Positives(Append(s, x)) = Positives(s) + (IF x > 0 THEN 1 ELSE 0)
<1> DEFINE n == Len(s)
           t == Append(s, x)
           P == {i \in DOMAIN s : s[i] > 0}
           Q == {i \in DOMAIN t : t[i] > 0}
<1>1. /\ n \in Nat /\ DOMAIN s = 1..n /\ DOMAIN t = 1..n + 1 /\ t[n + 1] = x
      /\ \A i \in 1..n : t[i] = s[i]
  BY LenProperties, AppendProperties
<1>2. IsFiniteSet(P) /\ n + 1 \notin P
  <2>1. P \in SUBSET (1..n)
    BY <1>1
  <2>2. IsFiniteSet(1..n)
    BY <1>1, FS_Interval
  <2>3. IsFiniteSet(P)
    <3> HIDE DEF P
    <3> QED BY <2>1, <2>2, FS_Subset
  <2>4. QED
    BY <1>1, <2>3
<1> HIDE DEF t
<1>3. Q = IF x > 0 THEN P \union {n + 1} ELSE P
  <2>1. CASE x > 0
    BY <1>1, <2>1
  <2>2. CASE ~(x > 0)
    BY <1>1, <2>2
  <2>3. QED
    BY <2>1, <2>2
<1>4. Positives(s) = Cardinality(P) /\ Positives(t) = Cardinality(Q)
  BY DEF Positives
<1> HIDE DEF P, Q
<1>5. Cardinality(P) \in Nat
  BY <1>2, FS_CardinalityType
<1>6. Cardinality(P \union {n + 1}) = Cardinality(P) + 1
  BY <1>2, FS_AddElement
<1>7. Cardinality(Q) = Cardinality(P) + (IF x > 0 THEN 1 ELSE 0)
  BY <1>3, <1>5, <1>6
<1>8. QED
  BY ONLY <1>4, <1>5, <1>7, Zenon DEF t

-----------------------------------------------------------------------------
(***************************************************************************)
(* What a put changes                                                      *)
(***************************************************************************)
LEMMA PutBlocks ==
  ASSUME NEW step, NEW name, NEW by, NEW data, NEW other, NEW g
  PROVE  BlocksBy(Put(step, name, by, data), other, g) =
           IF other = name /\ g = by THEN Append(BlocksBy(step, other, g), data)
           ELSE BlocksBy(step, other, g)
<1> DEFINE D == DOMAIN step \union {<<name, by>>}
           new == Put(step, name, by, data)
<1>1. /\ DOMAIN new = D
      /\ \A key \in D : new[key] = IF key = <<name, by>> THEN Append(BlocksBy(step, name, by), data)
                                   ELSE step[key]
  BY Zenon DEF Put
<1>2. <<other, g>> = <<name, by>> <=> other = name /\ g = by
  OBVIOUS
<1> HIDE DEF new
<1>3. CASE other = name /\ g = by
  <2>1. <<other, g>> \in D
    BY <1>3
  <2>2. BlocksBy(new, other, g) = new[<<other, g>>]
    BY <1>1, <2>1 DEF BlocksBy
  <2>3. QED
    BY ONLY <1>1, <1>3, <2>1, <2>2, Zenon DEF new
<1>4. CASE ~(other = name /\ g = by)
  <2>1. <<other, g>> \in D <=> <<other, g>> \in DOMAIN step
    BY <1>2, <1>4
  <2>2. <<other, g>> \in D => new[<<other, g>>] = step[<<other, g>>]
    BY <1>1, <1>2, <1>4
  <2>3. BlocksBy(new, other, g) = BlocksBy(step, other, g)
    BY ONLY <1>1, <2>1, <2>2, Zenon DEF BlocksBy
  <2>4. QED
    BY ONLY <1>4, <2>3, Zenon DEF new
<1>5. QED
  BY <1>3, <1>4

LEMMA PutEachBlocks ==
  ASSUME NEW step, NEW name, NEW data, NEW other, NEW g
  PROVE  BlocksBy(PutEach(step, name, data), other, g) =
           IF other = name /\ g \in DOMAIN data THEN Append(BlocksBy(step, other, g), data[g])
           ELSE BlocksBy(step, other, g)
<1> DEFINE D == DOMAIN step \union {<<name, h>> : h \in DOMAIN data}
           new == PutEach(step, name, data)
           key == <<other, g>>
<1>1. /\ DOMAIN new = D
      /\ \A k \in D : new[k] = IF k[1] = name /\ k[2] \in DOMAIN data
                                 THEN Append(BlocksBy(step, name, k[2]), data[k[2]]) ELSE step[k]
  BY Zenon DEF PutEach
<1>2. key[1] = other /\ key[2] = g
  OBVIOUS
<1> HIDE DEF new
<1>3. CASE other = name /\ g \in DOMAIN data
  <2>1. key \in D
    BY <1>3
  <2>2. BlocksBy(new, other, g) = new[key]
    BY <1>1, <2>1 DEF BlocksBy
  <2>3. new[key] = Append(BlocksBy(step, name, g), data[g])
    BY ONLY <1>1, <1>2, <1>3, <2>1
  <2>4. QED
    BY ONLY <1>3, <2>2, <2>3, Zenon DEF new
<1>4. CASE ~(other = name /\ g \in DOMAIN data)
  <2>1. key \in D <=> key \in DOMAIN step
    BY <1>4
  <2>2. key \in D => new[key] = step[key]
    BY ONLY <1>1, <1>2, <1>4
  <2>3. BlocksBy(new, other, g) = BlocksBy(step, other, g)
    BY ONLY <1>1, <2>1, <2>2, Zenon DEF BlocksBy
  <2>4. QED
    BY ONLY <1>4, <2>3, Zenon DEF new
<1>5. QED
  BY <1>3, <1>4

LEMMA PutWriters ==
  ASSUME NEW step, NEW name, NEW by, NEW data, NEW other
  PROVE  WritersOf(Put(step, name, by, data), other) =
           WritersOf(step, other) \union (IF other = name THEN {by} ELSE {})
<1>1. DOMAIN Put(step, name, by, data) = DOMAIN step \union {<<name, by>>}
  BY Zenon DEF Put
<1>2. <<name, by>>[1] = name /\ <<name, by>>[2] = by
  OBVIOUS
<1>3. QED
  BY <1>1, <1>2 DEF WritersOf

LEMMA PutEachWriters ==
  ASSUME NEW step, NEW name, NEW data, NEW other
  PROVE  WritersOf(PutEach(step, name, data), other) =
           WritersOf(step, other) \union (IF other = name THEN DOMAIN data ELSE {})
<1>1. DOMAIN PutEach(step, name, data) = DOMAIN step \union {<<name, g>> : g \in DOMAIN data}
  BY Zenon DEF PutEach
<1>2. \A g : <<name, g>>[1] = name /\ <<name, g>>[2] = g
  OBVIOUS
<1> DEFINE new == WritersOf(PutEach(step, name, data), other)
<1>3. new = {key[2] : key \in {k \in DOMAIN step \union {<<name, g>> : g \in DOMAIN data} : k[1] = other}}
  BY <1>1 DEF WritersOf
<1>4. WritersOf(step, other) = {key[2] : key \in {k \in DOMAIN step : k[1] = other}}
  BY DEF WritersOf
<1> HIDE DEF new
<1>5. CASE other = name
  <2>1. ASSUME NEW x \in new PROVE x \in WritersOf(step, other) \union DOMAIN data
    BY <1>2, <1>3, <1>4
  <2>2. ASSUME NEW x \in WritersOf(step, other) PROVE x \in new
    BY <1>3, <1>4
  <2>3. ASSUME NEW x \in DOMAIN data PROVE x \in new
    BY <1>2, <1>3, <1>5
  <2>4. QED
    BY <1>5, <2>1, <2>2, <2>3 DEF new
<1>6. CASE other # name
  <2>1. ASSUME NEW x \in new PROVE x \in WritersOf(step, other)
    BY <1>2, <1>3, <1>4, <1>6
  <2>2. ASSUME NEW x \in WritersOf(step, other) PROVE x \in new
    BY <1>3, <1>4
  <2>3. QED
    BY <1>6, <2>1, <2>2 DEF new
<1>7. QED
  BY <1>5, <1>6

\* What only one process puts.
LEMMA OneWriter ==
  ASSUME NEW step, NEW name, NEW S, NEW by \in Nat \ {0}, WritersOf(step, name) \subseteq {by},
         BlocksBy(step, name, by) \in Seq(Seq(S))
  PROVE  Elements(step, name) = FlattenSeq(BlocksBy(step, name, by))
<1> DEFINE own == BlocksBy(step, name, by)
           each == [g \in 1..by |-> BlocksBy(step, name, g)]
<1>1. \A g : g # by => BlocksBy(step, name, g) = <<>>
  <2>1. ASSUME NEW g, <<name, g>> \in DOMAIN step PROVE g = by
    <3>1. <<name, g>>[1] = name /\ <<name, g>>[2] = g
      OBVIOUS
    <3>2. g \in WritersOf(step, name)
      BY <2>1, <3>1 DEF WritersOf
    <3>3. QED
      BY <3>2
  <2>2. QED
    BY <2>1 DEF BlocksBy
<1>2. CASE Available(step, name)
  <2>1. WritersOf(step, name) = {by}
    BY <1>2 DEF Available
  <2>2. Max({by}) = by
    BY DEF Max
  <2>3. Blocks(step, name) = FlattenSeq(each)
    BY <1>2, <2>1, <2>2 DEF Blocks
  <2>4. each \in Seq(Seq(Seq(S))) /\ Len(each) = by /\ each[by] = own
    <3>1. \A g \in 1..by : BlocksBy(step, name, g) \in Seq(Seq(S))
      BY <1>1, EmptySeq
    <3>2. by \in 1..by
      OBVIOUS
    <3>3. QED
      BY <3>1, <3>2
  <2>5. \A g \in 1..Len(each) - 1 : each[g] = <<>>
    BY <1>1, <2>4
  <2>6. FlattenSeq(each) = own
    <3>1. each \in Seq(Seq(Seq(S))) /\ Len(each) > 0
      BY <2>4
    <3> HIDE DEF each, own
    <3>2. FlattenSeq(each) = each[Len(each)]
      BY ONLY <2>5, <3>1, FlattenLast
    <3>3. QED
      BY ONLY <2>4, <3>2, Zenon
  <2>7. QED
    BY <2>3, <2>6 DEF Elements
<1>3. CASE ~Available(step, name)
  <2>1. Blocks(step, name) = <<>>
    BY <1>3 DEF Blocks
  <2>2. <<name, by>> \notin DOMAIN step
    <3>1. <<name, by>>[1] = name /\ <<name, by>>[2] = by
      OBVIOUS
    <3>2. QED
      BY <1>3, <3>1 DEF Available, WritersOf
  <2>3. own = <<>>
    BY <2>2 DEF BlocksBy
  <2>4. QED
    BY <2>1, <2>3 DEF Elements
<1>4. QED
  BY <1>2, <1>3

-----------------------------------------------------------------------------
(***************************************************************************)
(* The invariant.  For n I/O groups: who puts which tracking data, and     *)
(* what there is of it, in the step and in the buffer t.                   *)
(***************************************************************************)
FramesBy(n) == ((n - 1) * 2) \div 3 + 1
FillsBy(n) == (n - 1) \div 3 + 1

AllOf(step, kind, v, by, buffer) == FlattenSeq(BlocksBy(step, <<kind, v>>, by)) \o buffer
AllFrames(n, step, v, t) == AllOf(step, "frame", v, FramesBy(n), t.frames)
AllDecomps(n, step, v, t) == AllOf(step, "decomp_id", v, n, t.decomps)
AllFills(n, step, v, t) == AllOf(step, "fillval", v, FillsBy(n), t.fills)
AllWriters(g, step, v, t) == AllOf(step, "writers", v, g, t.writers)

\* A put of one kind of tracking data has entries of the same set as the buffer.
Entries(step, kind, v, by, buffer, S) ==
  BlocksBy(step, <<kind, v>>, by) \in Seq(Seq(S)) /\ buffer \in Seq(S)

Kinds == {"frame", "decomp_id", "fillval", "writers", "data"}
Buffers == {"frames", "decomps", "fills", "writers"}

\* Everything in the step is put by the one who should, and is a sequence.
Neat(n, step, v, t) ==
  /\ DOMAIN t = Buffers
  /\ WritersOf(step, <<"frame", v>>) \subseteq {FramesBy(n)}
  /\ WritersOf(step, <<"decomp_id", v>>) \subseteq {n}
  /\ WritersOf(step, <<"fillval", v>>) \subseteq {FillsBy(n)}
  /\ \E S : Entries(step, "frame", v, FramesBy(n), t.frames, S)
  /\ Entries(step, "decomp_id", v, n, t.decomps, Int)
  /\ \E S : Entries(step, "fillval", v, FillsBy(n), t.fills, S)
  /\ \A g \in 1..n : Entries(step, "writers", v, g, t.writers, {1})
  /\ \A g \in 1..n : \E S : BlocksBy(step, <<"data", v>>, g) \in Seq(S)

\* Each block of data has its entries.
Balanced(n, step, v, t) ==
  /\ Len(AllDecomps(n, step, v, t)) = Len(AllFrames(n, step, v, t))
  /\ Positives(AllDecomps(n, step, v, t)) = Len(AllFills(n, step, v, t))
  /\ \A g \in 1..n : Len(AllWriters(g, step, v, t)) = Len(AllFrames(n, step, v, t))
  /\ \A g \in 1..n : Len(BlocksBy(step, <<"data", v>>, g)) = Len(AllFrames(n, step, v, t))

\* What holds of a variable in a step.
Told(n, step, v, t) ==
  Neat(n, step, v, t) /\ (VarDefs[v].op = "darray" => Balanced(n, step, v, t))

GroupsOK == Len(groups) \in Nat \ {0} /\ DOMAIN groups = 1..Len(groups)
StepsOK == \A s \in DOMAIN bp.steps : \A v \in Vars : Told(Len(groups), bp.steps[s], v, NoTracking)
CurOK == \A v \in Vars : Told(Len(groups), cur, v, tracked[v])

TrackingInv ==
  /\ GroupsOK
  /\ DOMAIN bp = {"steps", "atts"} /\ \E S : bp.steps \in Seq(S)
  /\ DOMAIN tracked = Vars
  /\ phase # "write" => cur = EmptyStep
  /\ StepsOK
  /\ CurOK

-----------------------------------------------------------------------------
(***************************************************************************)
(* What leaves a variable alone                                            *)
(***************************************************************************)
SameFor(v, step, new) ==
  \A kind \in Kinds :
    /\ WritersOf(new, <<kind, v>>) = WritersOf(step, <<kind, v>>)
    /\ \A g : BlocksBy(new, <<kind, v>>, g) = BlocksBy(step, <<kind, v>>, g)

LEMMA SameForTold ==
  ASSUME NEW v, NEW step, NEW new, SameFor(v, step, new), NEW n, NEW t
  PROVE  Told(n, new, v, t) = Told(n, step, v, t)
<1>1. \A kind \in Kinds : /\ WritersOf(new, <<kind, v>>) = WritersOf(step, <<kind, v>>)
                          /\ \A g : BlocksBy(new, <<kind, v>>, g) = BlocksBy(step, <<kind, v>>, g)
  BY DEF SameFor
<1>2. /\ "frame" \in Kinds /\ "decomp_id" \in Kinds /\ "fillval" \in Kinds
      /\ "writers" \in Kinds /\ "data" \in Kinds
  BY DEF Kinds
<1>3. Neat(n, new, v, t) = Neat(n, step, v, t)
  BY ONLY <1>1, <1>2, Zenon DEF Neat, Entries
<1>4. /\ AllFrames(n, new, v, t) = AllFrames(n, step, v, t)
      /\ AllDecomps(n, new, v, t) = AllDecomps(n, step, v, t)
      /\ AllFills(n, new, v, t) = AllFills(n, step, v, t)
      /\ \A g : AllWriters(g, new, v, t) = AllWriters(g, step, v, t)
      /\ \A g : BlocksBy(new, <<"data", v>>, g) = BlocksBy(step, <<"data", v>>, g)
  BY ONLY <1>1, <1>2, Zenon DEF AllFrames, AllDecomps, AllFills, AllWriters, AllOf
<1>5. Balanced(n, new, v, t) = Balanced(n, step, v, t)
  BY ONLY <1>4, Zenon DEF Balanced
<1>6. QED
  BY ONLY <1>3, <1>5, Zenon DEF Told

LEMMA PutElsewhere ==
  ASSUME NEW v, NEW step, NEW name, \A kind \in Kinds : name # <<kind, v>>, NEW by, NEW data
  PROVE  SameFor(v, step, Put(step, name, by, data)) /\ SameFor(v, step, PutEach(step, name, data))
<1> DEFINE x == Put(step, name, by, data)
           y == PutEach(step, name, data)
<1>1. ASSUME NEW other, other # name
      PROVE  /\ WritersOf(x, other) = WritersOf(step, other)
             /\ WritersOf(y, other) = WritersOf(step, other)
             /\ \A g : BlocksBy(x, other, g) = BlocksBy(step, other, g)
             /\ \A g : BlocksBy(y, other, g) = BlocksBy(step, other, g)
  <2>1. WritersOf(x, other) = WritersOf(step, other) \union (IF other = name THEN {by} ELSE {})
    BY ONLY PutWriters
  <2>2. WritersOf(y, other) = WritersOf(step, other) \union (IF other = name THEN DOMAIN data ELSE {})
    BY ONLY PutEachWriters
  <2>3. ASSUME NEW g PROVE BlocksBy(x, other, g) = BlocksBy(step, other, g)
    <3>1. BlocksBy(x, other, g) = IF other = name /\ g = by THEN Append(BlocksBy(step, other, g), data)
                                  ELSE BlocksBy(step, other, g)
      BY ONLY PutBlocks
    <3>2. QED
      BY ONLY <1>1, <3>1
  <2>4. ASSUME NEW g PROVE BlocksBy(y, other, g) = BlocksBy(step, other, g)
    <3>1. BlocksBy(y, other, g) = IF other = name /\ g \in DOMAIN data
                                    THEN Append(BlocksBy(step, other, g), data[g])
                                  ELSE BlocksBy(step, other, g)
      BY ONLY PutEachBlocks
    <3>2. QED
      BY ONLY <1>1, <3>1
  <2> HIDE DEF x, y
  <2>5. QED
    BY ONLY <1>1, <2>1, <2>2, <2>3, <2>4
<1> HIDE DEF x, y
<1>2. ASSUME NEW kind \in Kinds PROVE <<kind, v>> # name
  OBVIOUS
<1>3. SameFor(v, step, x) /\ SameFor(v, step, y)
  BY ONLY <1>1, <1>2, Zenon DEF SameFor
<1>4. QED
  BY ONLY <1>3 DEF x, y

LEMMA SameForBoth ==
  ASSUME NEW v, NEW x, NEW y, NEW z, SameFor(v, x, y), SameFor(v, y, z)
  PROVE  SameFor(v, x, z)
BY Zenon DEF SameFor

-----------------------------------------------------------------------------
(***************************************************************************)
(* Putting the buffers                                                     *)
(***************************************************************************)
\* A full buffer d becomes one more block, any other is kept.
MayPut(full, old, d, new, kept) ==
  /\ full \in BOOLEAN
  /\ new = IF full THEN Append(old, d) ELSE old
  /\ kept = IF full THEN <<>> ELSE d

NothingLost(S, old, d, new, kept) ==
  /\ new \in Seq(Seq(S)) /\ kept \in Seq(S)
  /\ FlattenSeq(new) \o kept = FlattenSeq(old) \o d

LEMMA PutOrKept ==
  ASSUME NEW S, NEW old \in Seq(Seq(S)), NEW d \in Seq(S), NEW full, NEW new, NEW kept,
         MayPut(full, old, d, new, kept)
  PROVE  NothingLost(S, old, d, new, kept)
<1>0. /\ full \in BOOLEAN
      /\ new = IF full THEN Append(old, d) ELSE old
      /\ kept = IF full THEN <<>> ELSE d
  BY DEF MayPut
<1>1. CASE full
  <2>1. new \in Seq(Seq(S)) /\ kept = <<>> /\ kept \in Seq(S)
    BY <1>0, <1>1, AppendProperties, EmptySeq
  <2>2. FlattenSeq(new) = FlattenSeq(old) \o d
    <3>1. FlattenSeq(Append(old, d)) = FlattenSeq(old) \o d
      BY ONLY old \in Seq(Seq(S)), d \in Seq(S), FlattenAppend
    <3>2. QED
      BY <1>0, <1>1, <3>1
  <2>3. FlattenSeq(new) \in Seq(S)
    BY ONLY <2>1, FlattenType
  <2>4. FlattenSeq(new) \o kept = FlattenSeq(new)
    BY ONLY <2>1, <2>3, ConcatEmptySeq
  <2>5. QED
    BY ONLY <2>1, <2>2, <2>4 DEF NothingLost
<1>2. CASE ~full
  BY <1>0, <1>2 DEF NothingLost
<1>3. QED
  BY <1>1, <1>2

\* What a put under a condition does to the blocks named other.
PutsIf(c, step, name, by, data, new, other) ==
  /\ WritersOf(new, other) \subseteq WritersOf(step, other) \union {by}
  /\ other # name => WritersOf(new, other) = WritersOf(step, other)
  /\ \A g : BlocksBy(new, other, g) = IF c /\ other = name /\ g = by
                                        THEN Append(BlocksBy(step, other, g), data)
                                      ELSE BlocksBy(step, other, g)
PutsEachIf(c, step, name, data, new, other) ==
  /\ other # name => WritersOf(new, other) = WritersOf(step, other)
  /\ \A g : BlocksBy(new, other, g) = IF c /\ other = name /\ g \in DOMAIN data
                                        THEN Append(BlocksBy(step, other, g), data[g])
                                      ELSE BlocksBy(step, other, g)

LEMMA PutIf ==
  ASSUME NEW c \in BOOLEAN, NEW step, NEW name, NEW by, NEW data,
         NEW new, new = IF c THEN Put(step, name, by, data) ELSE step, NEW other
  PROVE  PutsIf(c, step, name, by, data, new, other)
<1>1. CASE c
  <2>1. WritersOf(Put(step, name, by, data), other) =
          WritersOf(step, other) \union (IF other = name THEN {by} ELSE {})
    BY ONLY PutWriters
  <2>2. ASSUME NEW g
        PROVE  BlocksBy(Put(step, name, by, data), other, g) =
                 IF other = name /\ g = by THEN Append(BlocksBy(step, other, g), data)
                 ELSE BlocksBy(step, other, g)
    BY ONLY PutBlocks
  <2>3. QED
    BY <1>1, <2>1, <2>2 DEF PutsIf
<1>2. CASE ~c
  BY <1>2 DEF PutsIf
<1>3. QED
  BY <1>1, <1>2

LEMMA PutEachIf ==
  ASSUME NEW c \in BOOLEAN, NEW step, NEW name, NEW data,
         NEW new, new = IF c THEN PutEach(step, name, data) ELSE step, NEW other
  PROVE  PutsEachIf(c, step, name, data, new, other)
<1>1. CASE c
  <2>1. WritersOf(PutEach(step, name, data), other) =
          WritersOf(step, other) \union (IF other = name THEN DOMAIN data ELSE {})
    BY ONLY PutEachWriters
  <2>2. ASSUME NEW g
        PROVE  BlocksBy(PutEach(step, name, data), other, g) =
                 IF other = name /\ g \in DOMAIN data THEN Append(BlocksBy(step, other, g), data[g])
                 ELSE BlocksBy(step, other, g)
    BY ONLY PutEachBlocks
  <2>3. QED
    BY <1>1, <2>1, <2>2 DEF PutsEachIf
<1>2. CASE ~c
  BY <1>2 DEF PutsEachIf
<1>3. QED
  BY <1>1, <1>2

\* The blocks of the step with the buffers of v that are full.
BuffersPut(step, v, t, least, new) ==
  /\ \A g : BlocksBy(new, <<"writers", v>>, g) =
              IF Len(t.writers) >= least /\ g \in Writers
                THEN Append(BlocksBy(step, <<"writers", v>>, g), t.writers)
              ELSE BlocksBy(step, <<"writers", v>>, g)
  /\ \A g : BlocksBy(new, <<"fillval", v>>, g) =
              IF Len(t.fills) >= least /\ g = FillWriter
                THEN Append(BlocksBy(step, <<"fillval", v>>, g), t.fills)
              ELSE BlocksBy(step, <<"fillval", v>>, g)
  /\ \A g : BlocksBy(new, <<"decomp_id", v>>, g) =
              IF Len(t.decomps) >= least /\ g = DecompWriter
                THEN Append(BlocksBy(step, <<"decomp_id", v>>, g), t.decomps)
              ELSE BlocksBy(step, <<"decomp_id", v>>, g)
  /\ \A g : BlocksBy(new, <<"frame", v>>, g) =
              IF Len(t.frames) >= least /\ g = FrameWriter
                THEN Append(BlocksBy(step, <<"frame", v>>, g), t.frames)
              ELSE BlocksBy(step, <<"frame", v>>, g)
  /\ WritersOf(new, <<"fillval", v>>) \subseteq WritersOf(step, <<"fillval", v>>) \union {FillWriter}
  /\ WritersOf(new, <<"decomp_id", v>>) \subseteq WritersOf(step, <<"decomp_id", v>>) \union {DecompWriter}
  /\ WritersOf(new, <<"frame", v>>) \subseteq WritersOf(step, <<"frame", v>>) \union {FrameWriter}
  /\ \A other : other \notin {<<kind, v>> : kind \in Kinds \ {"data"}} =>
       /\ WritersOf(new, other) = WritersOf(step, other)
       /\ \A g : BlocksBy(new, other, g) = BlocksBy(step, other, g)

LEMMA PutBuffersBlocks ==
  ASSUME NEW step, NEW v, NEW t, NEW least, NEW new, new = PutBuffers(step, v, t, least)
  PROVE  BuffersPut(step, v, t, least, new)
<1> DEFINE nW == <<"writers", v>>
           nF == <<"fillval", v>>
           nD == <<"decomp_id", v>>
           nR == <<"frame", v>>
           c1 == Len(t.writers) >= least
           c2 == Len(t.fills) >= least
           c3 == Len(t.decomps) >= least
           c4 == Len(t.frames) >= least
           each == [g \in Writers |-> t.writers]
           s1 == IF c1 THEN PutEach(step, nW, each) ELSE step
           s2 == IF c2 THEN Put(s1, nF, FillWriter, t.fills) ELSE s1
           s3 == IF c3 THEN Put(s2, nD, DecompWriter, t.decomps) ELSE s2
           s4 == IF c4 THEN Put(s3, nR, FrameWriter, t.frames) ELSE s3
<1>1. new = s4
  BY Zenon DEF PutBuffers
<1>2. /\ nW # nF /\ nW # nD /\ nW # nR /\ nF # nD /\ nF # nR /\ nD # nR
      /\ \A other : other \notin {<<kind, v>> : kind \in Kinds \ {"data"}} =>
           other # nW /\ other # nF /\ other # nD /\ other # nR
  BY DEF Kinds
<1>3. c1 \in BOOLEAN /\ c2 \in BOOLEAN /\ c3 \in BOOLEAN /\ c4 \in BOOLEAN
  OBVIOUS
<1>4. DOMAIN each = Writers /\ \A g \in Writers : each[g] = t.writers
  OBVIOUS
<1> HIDE DEF nW, nF, nD, nR, c1, c2, c3, c4, each
<1>5. \A other : PutsEachIf(c1, step, nW, each, s1, other)
  <2>1. s1 = IF c1 THEN PutEach(step, nW, each) ELSE step
    OBVIOUS
  <2> HIDE DEF s1
  <2>2. QED
    BY ONLY <1>3, <2>1, PutEachIf
<1>6. \A other : PutsIf(c2, s1, nF, FillWriter, t.fills, s2, other)
  <2>1. s2 = IF c2 THEN Put(s1, nF, FillWriter, t.fills) ELSE s1
    OBVIOUS
  <2> HIDE DEF s1, s2
  <2>2. QED
    BY ONLY <1>3, <2>1, PutIf
<1>7. \A other : PutsIf(c3, s2, nD, DecompWriter, t.decomps, s3, other)
  <2>1. s3 = IF c3 THEN Put(s2, nD, DecompWriter, t.decomps) ELSE s2
    OBVIOUS
  <2> HIDE DEF s2, s3
  <2>2. QED
    BY ONLY <1>3, <2>1, PutIf
<1>8. \A other : PutsIf(c4, s3, nR, FrameWriter, t.frames, new, other)
  <2>1. new = IF c4 THEN Put(s3, nR, FrameWriter, t.frames) ELSE s3
    BY <1>1
  <2> HIDE DEF s3, s4
  <2>2. QED
    BY ONLY <1>3, <2>1, PutIf
<1> HIDE DEF s1, s2, s3, s4
<1>9. \A g : BlocksBy(new, nW, g) = IF c1 /\ g \in Writers THEN Append(BlocksBy(step, nW, g), t.writers)
                                    ELSE BlocksBy(step, nW, g)
  BY ONLY <1>2, <1>4, <1>5, <1>6, <1>7, <1>8 DEF PutsIf, PutsEachIf
<1>10. /\ \A g : BlocksBy(new, nF, g) = IF c2 /\ g = FillWriter THEN Append(BlocksBy(step, nF, g), t.fills)
                                        ELSE BlocksBy(step, nF, g)
       /\ WritersOf(new, nF) \subseteq WritersOf(step, nF) \union {FillWriter}
  BY ONLY <1>2, <1>5, <1>6, <1>7, <1>8 DEF PutsIf, PutsEachIf
<1>11. /\ \A g : BlocksBy(new, nD, g) = IF c3 /\ g = DecompWriter
                                          THEN Append(BlocksBy(step, nD, g), t.decomps)
                                        ELSE BlocksBy(step, nD, g)
       /\ WritersOf(new, nD) \subseteq WritersOf(step, nD) \union {DecompWriter}
  BY ONLY <1>2, <1>5, <1>6, <1>7, <1>8 DEF PutsIf, PutsEachIf
<1>12. /\ \A g : BlocksBy(new, nR, g) = IF c4 /\ g = FrameWriter
                                          THEN Append(BlocksBy(step, nR, g), t.frames)
                                        ELSE BlocksBy(step, nR, g)
       /\ WritersOf(new, nR) \subseteq WritersOf(step, nR) \union {FrameWriter}
  BY ONLY <1>2, <1>5, <1>6, <1>7, <1>8 DEF PutsIf, PutsEachIf
<1>13. ASSUME NEW other, other \notin {<<kind, v>> : kind \in Kinds \ {"data"}}
       PROVE  /\ WritersOf(new, other) = WritersOf(step, other)
              /\ \A g : BlocksBy(new, other, g) = BlocksBy(step, other, g)
  <2>1. other # nW /\ other # nF /\ other # nD /\ other # nR
    BY ONLY <1>2, <1>13, Zenon
  <2>2. QED
    BY ONLY <2>1, <1>5, <1>6, <1>7, <1>8 DEF PutsIf, PutsEachIf
<1>14. QED
  BY ONLY <1>9, <1>10, <1>11, <1>12, <1>13, Zenon DEF BuffersPut, nW, nF, nD, nR, c1, c2, c3, c4

EntriesKept(step, new, kind, v, by, buffer, kept, S) ==
  /\ Entries(new, kind, v, by, kept, S)
  /\ AllOf(new, kind, v, by, kept) = AllOf(step, kind, v, by, buffer)

LEMMA EntriesPutOrKept ==
  ASSUME NEW S, NEW step, NEW new, NEW kind, NEW v, NEW by, NEW buffer, NEW kept, NEW full,
         Entries(step, kind, v, by, buffer, S),
         MayPut(full, BlocksBy(step, <<kind, v>>, by), buffer, BlocksBy(new, <<kind, v>>, by), kept)
  PROVE  EntriesKept(step, new, kind, v, by, buffer, kept, S)
<1> DEFINE old == BlocksBy(step, <<kind, v>>, by)
           now == BlocksBy(new, <<kind, v>>, by)
<1>1. old \in Seq(Seq(S)) /\ buffer \in Seq(S)
  BY DEF Entries
<1>2. MayPut(full, old, buffer, now, kept)
  OBVIOUS
<1> HIDE DEF old, now
<1>3. NothingLost(S, old, buffer, now, kept)
  BY ONLY <1>1, <1>2, PutOrKept
<1>4. QED
  BY ONLY <1>3, Zenon DEF NothingLost, EntriesKept, Entries, AllOf, old, now

\* Putting the full buffers of a variable keeps what is told of it ...
LEMMA PutBuffersTold ==
  ASSUME GroupsOK, NEW step, NEW v, NEW t, NEW least, Told(Len(groups), step, v, t)
  PROVE  Told(Len(groups), PutBuffers(step, v, t, least), v, Kept(t, least))
<1> DEFINE n == Len(groups)
           new == PutBuffers(step, v, t, least)
           u == Kept(t, least)
<1>1. /\ Neat(n, step, v, t)
      /\ VarDefs[v].op = "darray" => Balanced(n, step, v, t)
  BY Zenon DEF Told
<1>2. /\ DOMAIN u = Buffers
      /\ u.frames = IF Len(t.frames) >= least THEN <<>> ELSE t.frames
      /\ u.decomps = IF Len(t.decomps) >= least THEN <<>> ELSE t.decomps
      /\ u.fills = IF Len(t.fills) >= least THEN <<>> ELSE t.fills
      /\ u.writers = IF Len(t.writers) >= least THEN <<>> ELSE t.writers
  <2>1. DOMAIN t = {"frames", "decomps", "fills", "writers"}
    BY <1>1 DEF Neat, Buffers
  <2>2. u = [b \in DOMAIN t |-> IF Len(t[b]) >= least THEN <<>> ELSE t[b]]
    BY DEF Kept
  <2> HIDE DEF u
  <2>3. QED
    BY <2>1, <2>2 DEF Buffers
<1>3. FrameWriter = FramesBy(n) /\ FillWriter = FillsBy(n) /\ DecompWriter = n /\ Writers = 1..n
  BY DEF FrameWriter, FillWriter, DecompWriter, Writers, FramesBy, FillsBy, GroupsOK
<1> HIDE DEF u, n
<1>4. new = PutBuffers(step, v, t, least)
  OBVIOUS
<1> HIDE DEF new
<1>5. BuffersPut(step, v, t, least, new)
  BY ONLY <1>4, PutBuffersBlocks
<1>6. PICK S : Entries(step, "frame", v, FramesBy(n), t.frames, S)
  BY <1>1 DEF Neat
<1>7. PICK F : Entries(step, "fillval", v, FillsBy(n), t.fills, F)
  BY <1>1 DEF Neat
<1>8. Entries(new, "frame", v, FramesBy(n), u.frames, S) /\ AllFrames(n, new, v, u) = AllFrames(n, step, v, t)
  <2>1. MayPut(Len(t.frames) >= least, BlocksBy(step, <<"frame", v>>, FramesBy(n)), t.frames, BlocksBy(new, <<"frame", v>>, FramesBy(n)), u.frames)
    BY ONLY <1>2, <1>3, <1>5, SMTT(30) DEF MayPut, BuffersPut
  <2>3. EntriesKept(step, new, "frame", v, FramesBy(n), t.frames, u.frames, S)
    BY ONLY <1>6, <2>1, EntriesPutOrKept
  <2>4. QED
    BY ONLY <2>3, Zenon DEF EntriesKept, AllFrames
<1>9. Entries(new, "fillval", v, FillsBy(n), u.fills, F) /\ AllFills(n, new, v, u) = AllFills(n, step, v, t)
  <2>1. MayPut(Len(t.fills) >= least, BlocksBy(step, <<"fillval", v>>, FillsBy(n)), t.fills, BlocksBy(new, <<"fillval", v>>, FillsBy(n)), u.fills)
    BY ONLY <1>2, <1>3, <1>5, SMTT(30) DEF MayPut, BuffersPut
  <2>3. EntriesKept(step, new, "fillval", v, FillsBy(n), t.fills, u.fills, F)
    BY ONLY <1>7, <2>1, EntriesPutOrKept
  <2>4. QED
    BY ONLY <2>3, Zenon DEF EntriesKept, AllFills
<1>10. Entries(new, "decomp_id", v, n, u.decomps, Int) /\ AllDecomps(n, new, v, u) = AllDecomps(n, step, v, t)
  <2>1. MayPut(Len(t.decomps) >= least, BlocksBy(step, <<"decomp_id", v>>, n), t.decomps, BlocksBy(new, <<"decomp_id", v>>, n), u.decomps)
    BY ONLY <1>2, <1>3, <1>5, SMTT(30) DEF MayPut, BuffersPut
  <2>3. Entries(step, "decomp_id", v, n, t.decomps, Int)
    BY <1>1 DEF Neat
  <2>4. EntriesKept(step, new, "decomp_id", v, n, t.decomps, u.decomps, Int)
    BY ONLY <2>1, <2>3, EntriesPutOrKept
  <2>5. QED
    BY ONLY <2>4, Zenon DEF EntriesKept, AllDecomps
<1>11. ASSUME NEW g \in 1..n
       PROVE  Entries(new, "writers", v, g, u.writers, {1}) /\ AllWriters(g, new, v, u) = AllWriters(g, step, v, t)
  <2>1. MayPut(Len(t.writers) >= least, BlocksBy(step, <<"writers", v>>, g), t.writers, BlocksBy(new, <<"writers", v>>, g), u.writers)
    BY ONLY <1>2, <1>3, <1>5, g \in 1..n, SMTT(30) DEF MayPut, BuffersPut
  <2>3. Entries(step, "writers", v, g, t.writers, {1})
    BY <1>1 DEF Neat
  <2>4. EntriesKept(step, new, "writers", v, g, t.writers, u.writers, {1})
    BY ONLY <2>1, <2>3, EntriesPutOrKept
  <2>5. QED
    BY ONLY <2>4, Zenon DEF EntriesKept, AllWriters
<1>12. \A g : BlocksBy(new, <<"data", v>>, g) = BlocksBy(step, <<"data", v>>, g)
  <2>1. <<"data", v>> \notin {<<kind, v>> : kind \in Kinds \ {"data"}}
    BY DEF Kinds
  <2>2. QED
    BY ONLY <1>5, <2>1 DEF BuffersPut
<1>13. Neat(n, new, v, u)
  <2>1. /\ WritersOf(new, <<"frame", v>>) \subseteq {FramesBy(n)}
        /\ WritersOf(new, <<"decomp_id", v>>) \subseteq {n}
        /\ WritersOf(new, <<"fillval", v>>) \subseteq {FillsBy(n)}
    BY ONLY <1>1, <1>3, <1>5 DEF Neat, BuffersPut
  <2>2. \A g \in 1..n : \E D : BlocksBy(new, <<"data", v>>, g) \in Seq(D)
    BY ONLY <1>1, <1>12 DEF Neat
  <2>3. QED
    BY ONLY <1>2, <1>8, <1>9, <1>10, <1>11, <2>1, <2>2, Zenon DEF Neat
<1>14. Balanced(n, step, v, t) => Balanced(n, new, v, u)
  BY ONLY <1>8, <1>9, <1>10, <1>11, <1>12, Zenon DEF Balanced
<1>15. Told(n, new, v, u)
  BY ONLY <1>1, <1>13, <1>14, Zenon DEF Told
<1>16. QED
  BY ONLY <1>15 DEF n, new, u

\* ... and of every other.
LEMMA PutBuffersOthers ==
  ASSUME NEW step, NEW v, NEW t, NEW least, NEW w, w # v
  PROVE  SameFor(w, step, PutBuffers(step, v, t, least))
<1> DEFINE new == PutBuffers(step, v, t, least)
<1>1. \A other : other \notin {<<kind, v>> : kind \in Kinds \ {"data"}} =>
        /\ WritersOf(new, other) = WritersOf(step, other)
        /\ \A g : BlocksBy(new, other, g) = BlocksBy(step, other, g)
  <2>1. BuffersPut(step, v, t, least, new)
    BY ONLY PutBuffersBlocks
  <2> HIDE DEF new
  <2>2. QED
    BY ONLY <2>1, Zenon DEF BuffersPut
<1>2. \A kind : <<kind, w>> \notin {<<k, v>> : k \in Kinds \ {"data"}}
  OBVIOUS
<1> HIDE DEF new
<1>3. SameFor(w, step, new)
  BY ONLY <1>1, <1>2, Zenon DEF SameFor
<1>4. QED
  BY ONLY <1>3 DEF new

-----------------------------------------------------------------------------
(***************************************************************************)
(* The end of a step                                                       *)
(***************************************************************************)
\* The step after the buffers of none, one, two, ... of the variables are put.
Flushes(f, step, n) ==
  f = [v \in 0..n |-> IF v = 0 THEN step ELSE PutBuffers(f[v - 1], v, tracked[v], 1)]

LEMMA FlushesExist ==
  ASSUME NEW step, NEW n \in Nat
  PROVE  \E f : Flushes(f, step, n)
<1> DEFINE T == {m \in Nat : \E f : Flushes(f, step, m)}
<1>1. 0 \in T
  <2> DEFINE f == [v \in 0..0 |-> step]
  <2>1. f = [v \in 0..0 |-> IF v = 0 THEN step ELSE PutBuffers(f[v - 1], v, tracked[v], 1)]
    OBVIOUS
  <2>2. Flushes(f, step, 0)
    <3> HIDE DEF f
    <3> QED BY <2>1 DEF Flushes
  <2>3. QED
    BY <2>2
<1>2. ASSUME NEW m \in T PROVE m + 1 \in T
  <2>0. m \in Nat
    OBVIOUS
  <2>1. PICK f : Flushes(f, step, m)
    BY <1>2
  <2> DEFINE g == [v \in 0..m + 1 |-> IF v <= m THEN f[v] ELSE PutBuffers(f[m], m + 1, tracked[m + 1], 1)]
  <2>2. \A v \in 0..m : f[v] = IF v = 0 THEN step ELSE PutBuffers(f[v - 1], v, tracked[v], 1)
    BY <2>1 DEF Flushes
  <2>3. ASSUME NEW v \in 0..m + 1
        PROVE  g[v] = IF v = 0 THEN step ELSE PutBuffers(g[v - 1], v, tracked[v], 1)
    <3>1. CASE v <= m
      <4>1. g[v] = f[v] /\ (v # 0 => g[v - 1] = f[v - 1])
        BY <2>0, <3>1
      <4>2. v \in 0..m
        BY <2>0, <3>1
      <4> HIDE DEF g
      <4>3. QED
        BY ONLY <2>2, <4>1, <4>2, Zenon
    <3>2. CASE ~(v <= m)
      <4>1. v = m + 1 /\ v # 0 /\ v - 1 = m
        BY <2>0, <3>2
      <4>2. g[v] = PutBuffers(f[m], m + 1, tracked[m + 1], 1) /\ g[m] = f[m]
        BY <2>0, <4>1
      <4> HIDE DEF g
      <4>3. QED
        BY ONLY <4>1, <4>2, Zenon
    <3>3. QED
      BY <3>1, <3>2
  <2>4. g = [v \in 0..m + 1 |-> IF v = 0 THEN step ELSE PutBuffers(g[v - 1], v, tracked[v], 1)]
    BY <2>3
  <2>5. Flushes(g, step, m + 1)
    <3> HIDE DEF g
    <3> QED BY <2>4 DEF Flushes
  <2>6. m + 1 \in Nat
    BY <2>0
  <2>7. QED
    <3> HIDE DEF g
    <3> QED BY ONLY <2>5, <2>6, Zenon
<1>3. T = Nat
  <2> HIDE DEF T
  <2>1. T \in SUBSET Nat
    BY DEF T
  <2>2. QED
    BY <1>1, <1>2, <2>1, Induct
<1>4. QED
  BY <1>3

\* FlushTracking gives the last of them.
LEMMA FlushTrackingIs ==
  ASSUME NEW step, Len(VarDefs) \in Nat
  PROVE  \E f : Flushes(f, step, Len(VarDefs)) /\ FlushTracking(step) = f[Len(VarDefs)]
<1> DEFINE f == CHOOSE g : g = [v \in 0..Len(VarDefs) |->
                                  IF v = 0 THEN step ELSE PutBuffers(g[v - 1], v, tracked[v], 1)]
<1>1. \E g : g = [v \in 0..Len(VarDefs) |-> IF v = 0 THEN step ELSE PutBuffers(g[v - 1], v, tracked[v], 1)]
  BY FlushesExist, ZenonT(60) DEF Flushes
<1>2. f = [v \in 0..Len(VarDefs) |-> IF v = 0 THEN step ELSE PutBuffers(f[v - 1], v, tracked[v], 1)]
  BY ONLY <1>1, Zenon
<1>3. FlushTracking(step) = f[Len(VarDefs)]
  BY Zenon DEF FlushTracking
<1>4. QED
  <2> HIDE DEF f
  <2> QED BY <1>2, <1>3, Zenon DEF Flushes

\* Buffers without entries.
NothingIn(t) ==
  /\ DOMAIN t = Buffers
  /\ t.frames = <<>> /\ t.decomps = <<>> /\ t.fills = <<>> /\ t.writers = <<>>

LEMMA NoTrackingEmpty ==
  NothingIn(NoTracking)
BY DEF NothingIn, NoTracking, Buffers

\* What is left when everything with an entry is put.
LEMMA KeptNone ==
  ASSUME NEW n \in Nat \ {0}, NEW step, NEW v, NEW t, Neat(n, step, v, t)
  PROVE  NothingIn(Kept(t, 1))
<1> DEFINE u == Kept(t, 1)
<1>1. /\ DOMAIN t = Buffers
      /\ \E S : t.frames \in Seq(S)
      /\ t.decomps \in Seq(Int)
      /\ \E S : t.fills \in Seq(S)
      /\ \A g \in 1..n : t.writers \in Seq({1})
  BY Zenon DEF Neat, Entries
<1>2. /\ Len(t.frames) >= 1 \/ t.frames = <<>>
      /\ Len(t.decomps) >= 1 \/ t.decomps = <<>>
      /\ Len(t.fills) >= 1 \/ t.fills = <<>>
      /\ Len(t.writers) >= 1 \/ t.writers = <<>>
  <2>1. ASSUME NEW S, NEW q \in Seq(S) PROVE Len(q) >= 1 \/ q = <<>>
    BY EmptySeq
  <2>2. t.writers \in Seq({1})
    <3>1. 1 \in 1..n
      OBVIOUS
    <3>2. QED
      BY <1>1, <3>1
  <2>3. QED
    BY <1>1, <2>1, <2>2
<1>3. u = [b \in DOMAIN t |-> IF Len(t[b]) >= 1 THEN <<>> ELSE t[b]]
  BY DEF Kept
<1> HIDE DEF u
<1>4. /\ u.frames = <<>> /\ u.decomps = <<>> /\ u.fills = <<>> /\ u.writers = <<>>
      /\ DOMAIN u = Buffers
  BY <1>1, <1>2, <1>3 DEF Buffers
<1>5. QED
  BY ONLY <1>4, Zenon DEF NothingIn, u

\* Empty buffers are all alike.
LEMMA EmptyAlike ==
  ASSUME NEW n, NEW new, NEW v, NEW t, NEW u, NothingIn(t), NothingIn(u), Told(n, new, v, t)
  PROVE  Told(n, new, v, u)
<1>1. /\ t.frames = u.frames /\ t.decomps = u.decomps /\ t.fills = u.fills /\ t.writers = u.writers
      /\ DOMAIN t = DOMAIN u
  BY Zenon DEF NothingIn
<1>2. Neat(n, new, v, t) => Neat(n, new, v, u)
  BY ONLY <1>1, Zenon DEF Neat
<1>3. Balanced(n, new, v, t) => Balanced(n, new, v, u)
  BY ONLY <1>1, Zenon DEF Balanced, AllFrames, AllDecomps, AllFills, AllWriters
<1>4. QED
  BY ONLY Told(n, new, v, t), <1>2, <1>3, Zenon DEF Told

\* A step that has ended tells of each of its blocks.
LEMMA FlushTold ==
  ASSUME GroupsOK, Len(VarDefs) \in Nat, Vars = 1..Len(VarDefs), NEW step,
         \A v \in Vars : Told(Len(groups), step, v, tracked[v])
  PROVE  \A v \in Vars : Told(Len(groups), FlushTracking(step), v, NoTracking)
<1> DEFINE n == Len(groups)
           m == Len(VarDefs)
<1>0. m \in Nat /\ n \in Nat \ {0}
  BY DEF GroupsOK
<1>1. PICK f : Flushes(f, step, m) /\ FlushTracking(step) = f[m]
  BY FlushTrackingIs
<1>2. \A k \in 0..m : f[k] = IF k = 0 THEN step ELSE PutBuffers(f[k - 1], k, tracked[k], 1)
  BY <1>1 DEF Flushes
<1>3. ASSUME NEW v \in Vars PROVE Told(n, f[m], v, NoTracking)
  <2>0. v \in 1..m /\ Told(n, step, v, tracked[v])
    OBVIOUS
  <2> DEFINE T == {k \in 0..m : IF v <= k THEN Told(n, f[k], v, NoTracking)
                                ELSE Told(n, f[k], v, tracked[v])}
  <2>1. 0 \in T
    BY <1>0, <1>2, <2>0
  <2>2. ASSUME NEW k \in 0..m - 1, k \in T PROVE k + 1 \in T
    <3>0. k + 1 \in 0..m /\ k + 1 # 0 /\ (k + 1) - 1 = k /\ k \in 0..m
      BY <1>0
    <3>1. f[k + 1] = PutBuffers(f[k], k + 1, tracked[k + 1], 1)
      BY ONLY <1>2, <3>0, Zenon
    <3>2. CASE v = k + 1
      <4>1. Told(n, f[k], v, tracked[v])
        BY <1>0, <2>2, <3>2
      <4>2. Told(n, f[k + 1], v, Kept(tracked[v], 1))
        BY ONLY GroupsOK, <3>1, <3>2, <4>1, PutBuffersTold DEF n
      <4>3. Neat(n, f[k], v, tracked[v])
        BY ONLY <4>1, Zenon DEF Told
      <4> HIDE DEF n
      <4>4. Told(n, f[k + 1], v, NoTracking)
        <5>1. NothingIn(Kept(tracked[v], 1))
          BY ONLY <1>0, <4>3, KeptNone
        <5>2. QED
          BY ONLY <4>2, <5>1, NoTrackingEmpty, EmptyAlike
      <4>5. v <= k + 1
        BY <1>0, <3>2
      <4>6. QED
        BY ONLY <3>0, <4>4, <4>5
    <3>3. CASE v # k + 1
      <4>1. SameFor(v, f[k], f[k + 1])
        BY ONLY <3>1, <3>3, PutBuffersOthers
      <4> HIDE DEF n
      <4>2. \A t : Told(n, f[k + 1], v, t) = Told(n, f[k], v, t)
        BY ONLY <4>1, SameForTold
      <4>3. v <= k + 1 <=> v <= k
        BY <1>0, <2>0, <3>3
      <4>4. IF v <= k THEN Told(n, f[k], v, NoTracking) ELSE Told(n, f[k], v, tracked[v])
        BY <2>2
      <4>5. IF v <= k + 1 THEN Told(n, f[k + 1], v, NoTracking) ELSE Told(n, f[k + 1], v, tracked[v])
        BY ONLY <4>2, <4>3, <4>4
      <4>6. QED
        BY ONLY <3>0, <4>5
    <3>4. QED
      BY <3>2, <3>3
  <2>3. T = 0..m
    <3> HIDE DEF T
    <3>1. T \in SUBSET (0..m)
      BY DEF T
    <3>2. QED
      BY ONLY <1>0, <2>1, <2>2, <3>1, InductTo
  <2>4. m \in T /\ v <= m
    BY <1>0, <2>0, <2>3
  <2>5. QED
    BY ONLY <2>4
<1>4. QED
  BY <1>1, <1>3

-----------------------------------------------------------------------------
(***************************************************************************)
(* A write of a distributed array                                          *)
(***************************************************************************)
LEMMA SeqWider ==
  ASSUME NEW S, NEW T, S \subseteq T
  PROVE  Seq(S) \subseteq Seq(T) /\ Seq(Seq(S)) \subseteq Seq(Seq(T))
<1>1. \A A, B : A \subseteq B => Seq(A) \subseteq Seq(B)
  <2>1. ASSUME NEW A, NEW B, A \subseteq B, NEW q \in Seq(A) PROVE q \in Seq(B)
    <3>1. Len(q) \in Nat /\ DOMAIN q = 1..Len(q) /\ q \in [1..Len(q) -> A]
      BY LenProperties
    <3>2. q \in [1..Len(q) -> B]
      BY <2>1, <3>1
    <3>3. QED
      BY ONLY <3>1, <3>2
  <2>2. QED
    BY <2>1
<1>2. QED
  BY <1>1

\* One more entry in a buffer, with nothing put.
EntryAdded(step, new, kind, v, by, buffer, x, S) ==
  /\ Entries(new, kind, v, by, Append(buffer, x), S)
  /\ AllOf(step, kind, v, by, buffer) \in Seq(S)
  /\ AllOf(new, kind, v, by, Append(buffer, x)) = Append(AllOf(step, kind, v, by, buffer), x)
  /\ Len(AllOf(new, kind, v, by, Append(buffer, x))) = Len(AllOf(step, kind, v, by, buffer)) + 1

LEMMA AddEntry ==
  ASSUME NEW S, NEW step, NEW new, NEW kind, NEW v, NEW by, NEW buffer, NEW x \in S,
         Entries(step, kind, v, by, buffer, S),
         BlocksBy(new, <<kind, v>>, by) = BlocksBy(step, <<kind, v>>, by)
  PROVE  EntryAdded(step, new, kind, v, by, buffer, x, S)
<1> DEFINE old == BlocksBy(step, <<kind, v>>, by)
           q == FlattenSeq(old)
<1>1. old \in Seq(Seq(S)) /\ buffer \in Seq(S)
  BY DEF Entries
<1>2. BlocksBy(new, <<kind, v>>, by) = old
  OBVIOUS
<1> HIDE DEF old
<1>3. q \in Seq(S)
  BY ONLY <1>1, FlattenType
<1> HIDE DEF q
<1>4. Append(buffer, x) \in Seq(S) /\ q \o buffer \in Seq(S)
  BY ONLY <1>1, <1>3, x \in S, AppendProperties, ConcatProperties
<1>5. q \o Append(buffer, x) = Append(q \o buffer, x)
  BY ONLY <1>1, <1>3, x \in S
<1>6. Len(Append(q \o buffer, x)) = Len(q \o buffer) + 1
  BY ONLY <1>4, x \in S, AppendProperties
<1>7. /\ AllOf(step, kind, v, by, buffer) = q \o buffer
      /\ AllOf(new, kind, v, by, Append(buffer, x)) = q \o Append(buffer, x)
  BY ONLY <1>2, Zenon DEF AllOf, q, old
<1>8. Entries(new, kind, v, by, Append(buffer, x), S)
  BY ONLY <1>1, <1>2, <1>4, Zenon DEF Entries
<1>9. QED
  BY ONLY <1>4, <1>5, <1>6, <1>7, <1>8, Zenon DEF EntryAdded

LEMMA EntriesWider ==
  ASSUME NEW S, NEW T, S \subseteq T, NEW step, NEW kind, NEW v, NEW by, NEW buffer,
         Entries(step, kind, v, by, buffer, S)
  PROVE  Entries(step, kind, v, by, buffer, T)
<1>1. Seq(S) \subseteq Seq(T) /\ Seq(Seq(S)) \subseteq Seq(Seq(T))
  BY SeqWider
<1>2. QED
  BY <1>1, Zenon DEF Entries

\* A block of every writer and its entries keep what is told of the variable.
LEMMA TrackTold ==
  ASSUME GroupsOK, NEW step, NEW v, NEW d \in Nat \ {0}, NEW filled \in BOOLEAN, NEW w,
         NEW merged, DOMAIN merged = Writers, Told(Len(groups), step, v, tracked[v])
  PROVE  Told(Len(groups), PutEach(step, <<"data", v>>, merged), v, Track(v, d, filled, w))
<1> DEFINE n == Len(groups)
           new == PutEach(step, <<"data", v>>, merged)
           t == tracked[v]
           u == Track(v, d, filled, w)
           x == record[v]
           y == IF filled THEN d ELSE -d
           z == FillOf(w)
<1>1. /\ Neat(n, step, v, t)
      /\ VarDefs[v].op = "darray" => Balanced(n, step, v, t)
  BY Zenon DEF Told
<1>2. /\ u.frames = Append(t.frames, x)
      /\ u.decomps = Append(t.decomps, y)
      /\ u.fills = IF filled THEN Append(t.fills, z) ELSE t.fills
      /\ u.writers = Append(t.writers, 1)
      /\ DOMAIN u = Buffers
  BY DEF Track, Buffers
<1>3. y \in Int /\ (y > 0 <=> filled)
  OBVIOUS
<1>4. Writers = 1..n /\ n \in Nat \ {0}
  BY DEF Writers, GroupsOK
<1>5. /\ \A other, g : BlocksBy(new, other, g) = IF other = <<"data", v>> /\ g \in DOMAIN merged
                                                   THEN Append(BlocksBy(step, other, g), merged[g])
                                                 ELSE BlocksBy(step, other, g)
      /\ \A other : WritersOf(new, other) =
                      WritersOf(step, other) \union (IF other = <<"data", v>> THEN DOMAIN merged ELSE {})
  BY ONLY PutEachBlocks, PutEachWriters
<1> HIDE DEF n, new, t, u, x, y, z
<1>6. ASSUME NEW kind \in {"frame", "decomp_id", "fillval", "writers"}
      PROVE  /\ WritersOf(new, <<kind, v>>) = WritersOf(step, <<kind, v>>)
             /\ \A g : BlocksBy(new, <<kind, v>>, g) = BlocksBy(step, <<kind, v>>, g)
  <2>1. <<kind, v>> # <<"data", v>>
    OBVIOUS
  <2> DEFINE other == <<kind, v>>
             name == <<"data", v>>
  <2>2. other # name
    BY <2>1
  <2>3. /\ \A g : BlocksBy(new, other, g) = IF other = name /\ g \in DOMAIN merged
                                              THEN Append(BlocksBy(step, other, g), merged[g])
                                            ELSE BlocksBy(step, other, g)
        /\ WritersOf(new, other) =
             WritersOf(step, other) \union (IF other = name THEN DOMAIN merged ELSE {})
    BY ONLY <1>5, Zenon
  <2> HIDE DEF other, name
  <2>4. /\ WritersOf(new, other) = WritersOf(step, other)
        /\ \A g : BlocksBy(new, other, g) = BlocksBy(step, other, g)
    BY ONLY <2>2, <2>3
  <2>5. QED
    BY ONLY <2>4 DEF other
<1>7. PICK S : Entries(step, "frame", v, FramesBy(n), t.frames, S)
  BY ONLY <1>1, Zenon DEF Neat
<1>8. PICK F : Entries(step, "fillval", v, FillsBy(n), t.fills, F)
  BY ONLY <1>1, Zenon DEF Neat
<1>9. EntryAdded(step, new, "frame", v, FramesBy(n), t.frames, x, S \union {x})
  <2>1. Entries(step, "frame", v, FramesBy(n), t.frames, S \union {x})
    BY ONLY <1>7, EntriesWider, S \subseteq S \union {x}
  <2>2. BlocksBy(new, <<"frame", v>>, FramesBy(n)) = BlocksBy(step, <<"frame", v>>, FramesBy(n))
    BY <1>6
  <2>3. x \in S \union {x}
    OBVIOUS
  <2>4. QED
    BY ONLY <2>1, <2>2, <2>3, AddEntry
<1>10. EntryAdded(step, new, "decomp_id", v, n, t.decomps, y, Int)
  <2>1. Entries(step, "decomp_id", v, n, t.decomps, Int)
    BY ONLY <1>1, Zenon DEF Neat
  <2>2. BlocksBy(new, <<"decomp_id", v>>, n) = BlocksBy(step, <<"decomp_id", v>>, n)
    BY <1>6
  <2>3. QED
    BY ONLY <1>3, <2>1, <2>2, AddEntry
<1>11. ASSUME filled PROVE EntryAdded(step, new, "fillval", v, FillsBy(n), t.fills, z, F \union {z})
  <2>1. Entries(step, "fillval", v, FillsBy(n), t.fills, F \union {z})
    BY ONLY <1>8, EntriesWider, F \subseteq F \union {z}
  <2>2. BlocksBy(new, <<"fillval", v>>, FillsBy(n)) = BlocksBy(step, <<"fillval", v>>, FillsBy(n))
    BY <1>6
  <2>3. z \in F \union {z}
    OBVIOUS
  <2>4. QED
    BY ONLY <2>1, <2>2, <2>3, AddEntry
<1>12. ASSUME ~filled
       PROVE  /\ Entries(new, "fillval", v, FillsBy(n), u.fills, F)
              /\ AllFills(n, new, v, u) = AllFills(n, step, v, t)
  <2>1. BlocksBy(new, <<"fillval", v>>, FillsBy(n)) = BlocksBy(step, <<"fillval", v>>, FillsBy(n))
    BY <1>6
  <2>2. u.fills = t.fills
    BY ONLY <1>2, <1>12
  <2>3. QED
    BY ONLY <1>8, <2>1, <2>2, Zenon DEF Entries, AllFills, AllOf
<1>13. ASSUME NEW g \in 1..n PROVE EntryAdded(step, new, "writers", v, g, t.writers, 1, {1})
  <2>1. Entries(step, "writers", v, g, t.writers, {1})
    BY ONLY <1>1, g \in 1..n, Zenon DEF Neat
  <2>2. BlocksBy(new, <<"writers", v>>, g) = BlocksBy(step, <<"writers", v>>, g)
    BY <1>6
  <2>3. 1 \in {1}
    OBVIOUS
  <2>4. QED
    BY ONLY <2>1, <2>2, <2>3, AddEntry
<1>14. ASSUME NEW g \in 1..n
       PROVE  /\ \E D : BlocksBy(new, <<"data", v>>, g) \in Seq(D)
              /\ Len(BlocksBy(new, <<"data", v>>, g)) = Len(BlocksBy(step, <<"data", v>>, g)) + 1
  <2> DEFINE old == BlocksBy(step, <<"data", v>>, g)
             now == BlocksBy(new, <<"data", v>>, g)
  <2>1. g \in DOMAIN merged
    BY <1>4
  <2>2. now = Append(old, merged[g])
    BY ONLY <1>5, <2>1
  <2>3. PICK D : old \in Seq(D)
    BY ONLY <1>1, g \in 1..n, Zenon DEF Neat
  <2> HIDE DEF old, now
  <2>4. old \in Seq(D \union {merged[g]})
    BY ONLY <2>3, SeqWider, D \subseteq D \union {merged[g]}
  <2>5. now \in Seq(D \union {merged[g]}) /\ Len(now) = Len(old) + 1
    <3>1. merged[g] \in D \union {merged[g]}
      OBVIOUS
    <3>2. QED
      BY ONLY <2>2, <2>4, <3>1, AppendProperties
  <2>6. QED
    BY ONLY <2>5, Zenon DEF old, now
<1>15. Neat(n, new, v, u)
  <2>1. /\ WritersOf(new, <<"frame", v>>) \subseteq {FramesBy(n)}
        /\ WritersOf(new, <<"decomp_id", v>>) \subseteq {n}
        /\ WritersOf(new, <<"fillval", v>>) \subseteq {FillsBy(n)}
    BY ONLY <1>1, <1>6 DEF Neat
  <2>2. \E T : Entries(new, "frame", v, FramesBy(n), u.frames, T)
    BY ONLY <1>2, <1>9, Zenon DEF EntryAdded
  <2>3. Entries(new, "decomp_id", v, n, u.decomps, Int)
    BY ONLY <1>2, <1>10, Zenon DEF EntryAdded
  <2>4. \E T : Entries(new, "fillval", v, FillsBy(n), u.fills, T)
    <3>1. CASE filled
      <4>1. u.fills = Append(t.fills, z)
        BY ONLY <1>2, <3>1
      <4>2. QED
        BY ONLY <1>11, <3>1, <4>1, Zenon DEF EntryAdded
    <3>2. QED
      BY ONLY <1>12, <3>1, Zenon
  <2>5. \A g \in 1..n : Entries(new, "writers", v, g, u.writers, {1})
    BY ONLY <1>2, <1>13, Zenon DEF EntryAdded
  <2>6. QED
    BY ONLY <1>2, <1>14, <2>1, <2>2, <2>3, <2>4, <2>5, Zenon DEF Neat
<1>16. ASSUME Balanced(n, step, v, t) PROVE Balanced(n, new, v, u)
  <2> DEFINE a == Len(AllFrames(n, step, v, t))
  <2>1. /\ Len(AllDecomps(n, step, v, t)) = a
        /\ Positives(AllDecomps(n, step, v, t)) = Len(AllFills(n, step, v, t))
        /\ \A g \in 1..n : Len(AllWriters(g, step, v, t)) = a
        /\ \A g \in 1..n : Len(BlocksBy(step, <<"data", v>>, g)) = a
    BY ONLY <1>16, Zenon DEF Balanced
  <2>2. Len(AllFrames(n, new, v, u)) = a + 1
    BY ONLY <1>2, <1>9 DEF EntryAdded, AllFrames
  <2>3. Len(AllDecomps(n, new, v, u)) = Len(AllDecomps(n, step, v, t)) + 1
    BY ONLY <1>2, <1>10 DEF EntryAdded, AllDecomps
  <2>4. \A g \in 1..n : Len(AllWriters(g, new, v, u)) = Len(AllWriters(g, step, v, t)) + 1
    BY ONLY <1>2, <1>13 DEF EntryAdded, AllWriters
  <2>5. /\ AllDecomps(n, step, v, t) \in Seq(Int)
        /\ AllDecomps(n, new, v, u) = Append(AllDecomps(n, step, v, t), y)
    BY ONLY <1>2, <1>10 DEF EntryAdded, AllDecomps
  <2>6. /\ Positives(AllDecomps(n, step, v, t)) \in Nat
        /\ Positives(AllDecomps(n, new, v, u)) = Positives(AllDecomps(n, step, v, t)) + (IF y > 0 THEN 1 ELSE 0)
    BY ONLY <1>3, <2>5, PositivesAppend
  <2>7. Len(AllFills(n, new, v, u)) = Len(AllFills(n, step, v, t)) + (IF filled THEN 1 ELSE 0)
    <3>1. CASE filled
      <4>1. u.fills = Append(t.fills, z)
        BY ONLY <1>2, <3>1
      <4>2. Len(AllFills(n, new, v, u)) = Len(AllFills(n, step, v, t)) + 1
        BY ONLY <1>11, <3>1, <4>1 DEF EntryAdded, AllFills
      <4>3. QED
        BY ONLY <3>1, <4>2
    <3>2. CASE ~filled
      BY ONLY <1>12, <2>1, <2>6, <3>2
    <3>3. QED
      BY ONLY <3>1, <3>2
  <2>8. Positives(AllDecomps(n, new, v, u)) = Len(AllFills(n, new, v, u))
    BY ONLY <1>3, <2>1, <2>6, <2>7
  <2> HIDE DEF a
  <2>9. QED
    BY ONLY <1>14, <2>1, <2>2, <2>3, <2>4, <2>8 DEF Balanced
<1>17. Told(n, new, v, u)
  BY ONLY <1>1, <1>15, <1>16, Zenon DEF Told
<1>18. QED
  BY ONLY <1>17 DEF n, new, u

-----------------------------------------------------------------------------
(***************************************************************************)
(* The I/O groups                                                          *)
(***************************************************************************)
\* A quotient is positive if the divisor fits.
LEMMA QuotientPositive ==
  ASSUME NEW a \in Nat, NEW b \in Nat \ {0}, a >= b
  PROVE  a \div b \in Nat /\ a \div b > 0
<1>1. a \div b \in Nat /\ a = b * (a \div b) + (a % b) /\ a % b \in 0..b - 1
  BY SMT
<1>2. a \div b # 0
  <2>1. ASSUME a \div b = 0 PROVE FALSE
    <3>1. b * (a \div b) = 0
      BY <2>1
    <3>2. QED
      BY <1>1, <3>1
  <2>2. QED
    BY <2>1
<1>3. QED
  BY <1>1, <1>2

\* A node that has processes has groups, which are parts of it.
LEMMA NodeGroupsAre ==
  ASSUME NEW node \in Seq(Procs), node # <<>>, NEW iotasks \in Int, NEW S,
         \A a, b \in Int : SubSeq(node, a, b) \in S
  PROVE  NodeGroups(node, iotasks) \in Seq(S) /\ Len(NodeGroups(node, iotasks)) > 0
<1> DEFINE size == GroupSize(node, iotasks)
           m == (Len(node) + size - 1) \div size
<1>1. Len(node) \in Nat \ {0} /\ NProcs \in Nat \ {0}
  BY AdiosFileAssumption, EmptySeq, LenProperties
<1>2. size \in Nat \ {0}
  <2>1. CASE iotasks <= 0 \/ iotasks > NProcs
    BY <1>1, <2>1 DEF GroupSize
  <2>2. CASE ~(iotasks <= 0 \/ iotasks > NProcs)
    <3> DEFINE q == (NProcs + iotasks - 1) \div iotasks
    <3>1. iotasks \in Nat \ {0} /\ NProcs + iotasks - 1 \in Nat /\ NProcs + iotasks - 1 >= iotasks
      BY <1>1, <2>2
    <3>2. q \in Nat \ {0}
      BY ONLY <3>1, QuotientPositive
    <3>3. size = Least(q, Len(node))
      BY <2>2 DEF GroupSize
    <3> HIDE DEF q, size
    <3>4. QED
      BY <1>1, <3>2, <3>3 DEF Least
  <2>3. QED
    BY <2>1, <2>2
<1> HIDE DEF size
<1>3. m \in Nat \ {0}
  <2>1. Len(node) + size - 1 \in Nat /\ Len(node) + size - 1 >= size
    BY <1>1, <1>2
  <2>2. QED
    BY ONLY <1>2, <2>1, QuotientPositive
<1>4. NodeGroups(node, iotasks) =
        [k \in 1..m |-> SubSeq(node, (k - 1) * size + 1, Least(k * size, Len(node)))]
  BY Zenon DEF NodeGroups, size
<1> HIDE DEF m
<1>5. ASSUME NEW k \in 1..m
      PROVE  SubSeq(node, (k - 1) * size + 1, Least(k * size, Len(node))) \in S
  <2>1. k - 1 \in Int /\ k \in Int /\ size \in Int /\ Len(node) \in Int
    BY <1>1, <1>2
  <2>2. (k - 1) * size + 1 \in Int /\ k * size \in Int
    BY ONLY <2>1
  <2>3. Least(k * size, Len(node)) \in Int
    BY ONLY <2>1, <2>2 DEF Least
  <2>4. QED
    BY ONLY <2>2, <2>3, \A a, b \in Int : SubSeq(node, a, b) \in S, Zenon
<1>6. QED
  BY <1>3, <1>4, <1>5

\* There is a group, and they are numbered from 1.
LEMMA InitAdiosCommAre ==
  ASSUME NEW layout \in Layouts
  PROVE  LET all == InitAdiosComm(layout) IN Len(all) \in Nat \ {0} /\ DOMAIN all = 1..Len(all)
<1> DEFINE nodes == layout.nodes
           iotasks == layout.iotasks
           Parts(n) == UNION {{SubSeq(nodes[n], a, b) : b \in Int} : a \in Int}
           S == UNION {Parts(n) : n \in DOMAIN nodes}
           ss == [n \in DOMAIN nodes |-> NodeGroups(nodes[n], iotasks)]
           all == FlattenSeq(ss)
           Place(i) == Cardinality({j \in DOMAIN all : all[j][1] <= all[i][1]})
           sorted == [k \in DOMAIN all |-> all[CHOOSE i \in DOMAIN all : Place(i) = k]]
<1>0. InitAdiosComm(layout) = sorted
  BY Zenon DEF InitAdiosComm
<1> HIDE DEF sorted
<1>1. nodes \in Seq(Seq(Procs) \ {<<>>}) /\ nodes # <<>> /\ iotasks \in Int
  BY AdiosFileAssumption
<1>2. Len(nodes) \in Nat \ {0} /\ DOMAIN nodes = 1..Len(nodes)
  BY <1>1, EmptySeq, LenProperties
<1>3. ASSUME NEW n \in DOMAIN nodes
      PROVE  NodeGroups(nodes[n], iotasks) \in Seq(S) /\ Len(NodeGroups(nodes[n], iotasks)) > 0
  <2> DEFINE node == nodes[n]
  <2>1. node \in Seq(Procs) /\ node # <<>>
    BY <1>1, <1>2
  <2>2. ASSUME NEW a \in Int, NEW b \in Int PROVE SubSeq(node, a, b) \in S
    <3>1. SubSeq(node, a, b) \in Parts(n)
      <4> DEFINE From(c) == {SubSeq(node, c, x) : x \in Int}
      <4>1. SubSeq(node, a, b) \in From(a)
        OBVIOUS
      <4>2. Parts(n) = UNION {From(c) : c \in Int}
        OBVIOUS
      <4> HIDE DEF From, Parts
      <4>3. QED
        BY ONLY <4>1, <4>2, a \in Int
    <3> HIDE DEF Parts
    <3>2. QED
      BY <3>1, Zenon
  <2> HIDE DEF node, S, iotasks
  <2>3. NodeGroups(node, iotasks) \in Seq(S) /\ Len(NodeGroups(node, iotasks)) > 0
    BY ONLY <1>1, <2>1, <2>2, NodeGroupsAre
  <2>4. QED
    BY <2>3 DEF node
<1> HIDE DEF S, Parts, nodes, iotasks
<1>4. ss \in Seq(Seq(S)) /\ Len(ss) > 0 /\ Len(ss[1]) > 0
  <2>1. 1 \in DOMAIN nodes
    BY <1>2
  <2>2. QED
    BY <1>2, <1>3, <2>1
<1>5. ss = [n \in DOMAIN nodes |-> NodeGroups(nodes[n], iotasks)]
  OBVIOUS
<1> HIDE DEF ss
<1>6. Len(all) > 0 /\ all \in Seq(S)
  BY ONLY <1>4, FlattenNotEmpty, FlattenType
<1> HIDE DEF all
<1>8. Len(all) \in Nat \ {0} /\ DOMAIN all = 1..Len(all)
  BY ONLY <1>6, LenProperties
<1>10. DOMAIN sorted = 1..Len(all) /\ Len(sorted) = Len(all)
  <2> HIDE DEF Place
  <2>1. QED
    BY ONLY <1>8 DEF sorted
<1>11. QED
  BY ONLY <1>0, <1>8, <1>10

\* A step with nothing in it and empty buffers tells of everything.
LEMMA EmptyTold ==
  ASSUME NEW n \in Nat \ {0}, NEW v, NEW t, NothingIn(t)
  PROVE  Told(n, EmptyStep, v, t)
<1>0. /\ DOMAIN t = Buffers
      /\ t.frames = <<>> /\ t.decomps = <<>> /\ t.fills = <<>> /\ t.writers = <<>>
  BY DEF NothingIn
<1>1. \A name, g : BlocksBy(EmptyStep, name, g) = <<>>
  BY DEF EmptyStep, BlocksBy
<1>2. \A name : WritersOf(EmptyStep, name) = {}
  BY DEF EmptyStep, WritersOf
<1>3. \A S : <<>> \in Seq(S) /\ <<>> \in Seq(Seq(S))
  OBVIOUS
<1>4. <<>> \o <<>> = <<>> /\ Len(<<>>) = 0
  OBVIOUS
<1>5. Neat(n, EmptyStep, v, t)
  BY <1>0, <1>1, <1>2, <1>3, Zenon DEF Neat, Entries
<1>6. /\ AllFrames(n, EmptyStep, v, t) = <<>>
      /\ AllDecomps(n, EmptyStep, v, t) = <<>>
      /\ AllFills(n, EmptyStep, v, t) = <<>>
      /\ \A g : AllWriters(g, EmptyStep, v, t) = <<>>
  BY <1>0, <1>1, <1>4, FlattenEmpty, Zenon DEF AllFrames, AllDecomps, AllFills, AllWriters, AllOf
<1>7. Balanced(n, EmptyStep, v, t)
  BY <1>1, <1>4, <1>6, PositivesEmpty, Zenon DEF Balanced
<1>8. QED
  BY <1>5, <1>7, Zenon DEF Told

-----------------------------------------------------------------------------
(***************************************************************************)
(* What the calls do                                                       *)
(***************************************************************************)
LEMMA VarsAre ==
  Len(VarDefs) \in Nat /\ Vars = 1..Len(VarDefs)
BY AdiosFileAssumption, LenProperties DEF Vars

\* The steps that have ended stay as they are.
StepsKept == DOMAIN bp' = {"steps", "atts"} /\ bp'.steps = bp.steps

LEMMA DefineAttsKeeps ==
  ASSUME TrackingInv, NEW atts, DefineAtts(atts)
  PROVE  StepsKept
<1> DEFINE x == bp.atts @@ atts
<1>1. bp' = [bp EXCEPT !.atts = x]
  BY Zenon DEF DefineAtts
<1>2. DOMAIN bp = {"steps", "atts"}
  BY Zenon DEF TrackingInv
<1> HIDE DEF x
<1>3. QED
  BY ONLY <1>1, <1>2 DEF StepsKept

\* A call within a step.
LEMMA StepGoesOn ==
  ASSUME TrackingInv, groups' = groups, StepsKept, DOMAIN tracked' = Vars,
         phase' # "write" => cur' = EmptyStep,
         \A v \in Vars : Told(Len(groups), cur', v, tracked'[v])
  PROVE  TrackingInv'
<1>1. GroupsOK'
  BY DEF TrackingInv, GroupsOK
<1>2. DOMAIN bp' = {"steps", "atts"} /\ \E S : bp'.steps \in Seq(S)
  BY DEF TrackingInv, StepsKept
<1>3. StepsOK'
  BY DEF TrackingInv, StepsKept, StepsOK
<1>4. CurOK'
  BY Zenon DEF CurOK
<1>5. QED
  BY ONLY <1>1, <1>2, <1>3, <1>4, DOMAIN tracked' = Vars, phase' # "write" => cur' = EmptyStep, Zenon
     DEF TrackingInv

\* A call that leaves the step in progress and the buffers alone.
LEMMA StepUntouched ==
  ASSUME TrackingInv, groups' = groups, StepsKept, tracked' = tracked, cur' = cur,
         phase' = phase \/ phase # "write"
  PROVE  TrackingInv'
<1>1. \A v \in Vars : Told(Len(groups), cur', v, tracked'[v])
  BY Zenon DEF TrackingInv, CurOK
<1>2. DOMAIN tracked' = Vars /\ (phase' # "write" => cur' = EmptyStep)
  BY Zenon DEF TrackingInv
<1>3. QED
  BY <1>1, <1>2, StepGoesOn

\* A call that puts something else than tracking data and blocks of variables.
LEMMA StepPutElsewhere ==
  ASSUME TrackingInv, groups' = groups, StepsKept, tracked' = tracked,
         phase' # "write" => cur' = EmptyStep, \A v \in Vars : SameFor(v, cur, cur')
  PROVE  TrackingInv'
<1>1. ASSUME NEW v \in Vars PROVE Told(Len(groups), cur', v, tracked'[v])
  <2> DEFINE n == Len(groups)
             t == tracked[v]
  <2>1. Told(n, cur, v, t)
    BY Zenon DEF TrackingInv, CurOK
  <2>2. SameFor(v, cur, cur')
    OBVIOUS
  <2> HIDE DEF n, t
  <2>3. Told(n, cur', v, t) = Told(n, cur, v, t)
    BY ONLY <2>2, SameForTold
  <2>4. QED
    BY <2>1, <2>3 DEF n, t
<1>2. DOMAIN tracked' = Vars
  BY Zenon DEF TrackingInv
<1>3. QED
  BY <1>1, <1>2, StepGoesOn

\* The end of a step.
LEMMA StepEnds ==
  ASSUME TrackingInv, groups' = groups, NEW step, \A v \in Vars : Told(Len(groups), step, v, NoTracking),
         DOMAIN bp' = {"steps", "atts"}, bp'.steps = Append(bp.steps, step),
         cur' = EmptyStep, DOMAIN tracked' = Vars, \A v \in Vars : NothingIn(tracked'[v])
  PROVE  TrackingInv'
<1>1. GroupsOK' /\ Len(groups) \in Nat \ {0}
  BY DEF TrackingInv, GroupsOK
<1>2. PICK S : bp.steps \in Seq(S)
  BY Zenon DEF TrackingInv
<1>3. /\ bp'.steps \in Seq(S \union {step})
      /\ \A s \in DOMAIN bp'.steps : (s \in DOMAIN bp.steps /\ bp'.steps[s] = bp.steps[s]) \/ bp'.steps[s] = step
  <2> DEFINE old == bp.steps
             new == bp'.steps
  <2>1. old \in Seq(S \union {step}) /\ step \in S \union {step}
    BY ONLY <1>2, SeqWider, S \subseteq S \union {step}
  <2>2. new = Append(old, step)
    OBVIOUS
  <2> HIDE DEF old, new
  <2>3. /\ new \in Seq(S \union {step})
        /\ \A s \in DOMAIN new : (s \in DOMAIN old /\ new[s] = old[s]) \/ new[s] = step
    BY ONLY <2>1, <2>2, AppendProperties, LenProperties
  <2>4. QED
    BY ONLY <2>3 DEF old, new
<1>4. StepsOK'
  <2>1. \A s \in DOMAIN bp.steps : \A v \in Vars : Told(Len(groups), bp.steps[s], v, NoTracking)
    BY Zenon DEF TrackingInv, StepsOK
  <2>2. \A s \in DOMAIN bp'.steps : \A v \in Vars : Told(Len(groups), bp'.steps[s], v, NoTracking)
    BY ONLY <1>3, <2>1, \A v \in Vars : Told(Len(groups), step, v, NoTracking), Zenon
  <2>3. QED
    BY ONLY <2>2, groups' = groups DEF StepsOK
<1>5. CurOK'
  <2>1. \A v \in Vars : Told(Len(groups), EmptyStep, v, tracked'[v])
    BY <1>1, EmptyTold
  <2>2. QED
    BY ONLY <2>1, groups' = groups, cur' = EmptyStep DEF CurOK
<1>6. QED
  BY <1>1, <1>3, <1>4, <1>5, Zenon DEF TrackingInv

LEMMA OtherKind ==
  ASSUME NEW a, a \notin Kinds, NEW b, NEW v
  PROVE  \A kind \in Kinds : <<a, b>> # <<kind, v>>
OBVIOUS

\* The variables that tell how the file was written.
LEMMA InfoElsewhere ==
  ASSUME NEW v
  PROVE  SameFor(v, EmptyStep, Info)
<1> DEFINE each == [g \in Writers |-> Len(groups[g])]
           s1 == Put(EmptyStep, <<"info", "nproc">>, 1, NProcs)
           s2 == Put(s1, <<"info", "decomp_stored">>, 1, stored)
           s3 == PutEach(s2, <<"info", "block_nprocs">>, each)
           s4 == PutEach(s3, <<"info", "block_list">>, BlockList)
<1>1. Info = s4
  BY Zenon DEF Info
<1>2. "info" \notin Kinds
  BY DEF Kinds
<1>3. ASSUME NEW b PROVE \A kind \in Kinds : <<"info", b>> # <<kind, v>>
  BY ONLY <1>2, OtherKind
<1> HIDE DEF each
<1>4. SameFor(v, EmptyStep, s1)
  BY ONLY <1>3, PutElsewhere
<1> HIDE DEF s1
<1>5. SameFor(v, s1, s2)
  BY ONLY <1>3, PutElsewhere
<1> HIDE DEF s2
<1>6. SameFor(v, s2, s3)
  BY ONLY <1>3, PutElsewhere
<1> HIDE DEF s3
<1>7. SameFor(v, s3, s4)
  BY ONLY <1>3, PutElsewhere
<1> HIDE DEF s4
<1>8. QED
  BY ONLY <1>1, <1>4, <1>5, <1>6, <1>7, SameForBoth

LEMMA WriteDecompElsewhere ==
  ASSUME NEW v, NEW step, NEW d
  PROVE  SameFor(v, step, WriteDecomp(step, d))
<1> DEFINE maps == MergedBlocks(StoredMap(Decomps[d]))
           ones == [g \in Writers |-> 1]
           s1 == PutEach(step, <<"decomp", d>>, maps)
           s2 == PutEach(s1, <<"decomp_writers", d>>, ones)
<1>1. WriteDecomp(step, d) = s2
  BY Zenon DEF WriteDecomp
<1>2. "decomp" \notin Kinds /\ "decomp_writers" \notin Kinds
  BY DEF Kinds
<1>3. /\ \A kind \in Kinds : <<"decomp", d>> # <<kind, v>>
      /\ \A kind \in Kinds : <<"decomp_writers", d>> # <<kind, v>>
  BY ONLY <1>2, OtherKind
<1> HIDE DEF maps, ones
<1>4. SameFor(v, step, s1)
  BY ONLY <1>3, PutElsewhere
<1> HIDE DEF s1
<1>5. SameFor(v, s1, s2)
  BY ONLY <1>3, PutElsewhere
<1> HIDE DEF s2
<1>6. QED
  BY ONLY <1>1, <1>4, <1>5, SameForBoth

\* A put to a variable that no distributed array is written to.
LEMMA PutDataTold ==
  ASSUME NEW n, NEW step, NEW v, NEW t, Told(n, step, v, t), VarDefs[v].op # "darray", NEW by, NEW data
  PROVE  Told(n, Put(step, <<"data", v>>, by, data), v, t)
<1> DEFINE new == Put(step, <<"data", v>>, by, data)
           name == <<"data", v>>
<1>1. Neat(n, step, v, t)
  BY Zenon DEF Told
<1>2. /\ \A other, g : BlocksBy(new, other, g) = IF other = name /\ g = by
                                                   THEN Append(BlocksBy(step, other, g), data)
                                                 ELSE BlocksBy(step, other, g)
      /\ \A other : WritersOf(new, other) = WritersOf(step, other) \union (IF other = name THEN {by} ELSE {})
  BY ONLY PutBlocks, PutWriters
<1>3. \A kind \in {"frame", "decomp_id", "fillval", "writers"} : <<kind, v>> # name
  OBVIOUS
<1> HIDE DEF new, name
<1>4. ASSUME NEW other, other # name
      PROVE  /\ WritersOf(new, other) = WritersOf(step, other)
             /\ \A g : BlocksBy(new, other, g) = BlocksBy(step, other, g)
  BY ONLY <1>2, <1>4
<1>5. \A kind \in {"frame", "decomp_id", "fillval", "writers"} :
        /\ WritersOf(new, <<kind, v>>) = WritersOf(step, <<kind, v>>)
        /\ \A g : BlocksBy(new, <<kind, v>>, g) = BlocksBy(step, <<kind, v>>, g)
  BY ONLY <1>3, <1>4, Zenon
<1>6. ASSUME NEW g \in 1..n PROVE \E D : BlocksBy(new, name, g) \in Seq(D)
  <2> DEFINE old == BlocksBy(step, name, g)
  <2>1. PICK D : old \in Seq(D)
    BY ONLY <1>1, g \in 1..n, Zenon DEF Neat, name
  <2>2. BlocksBy(new, name, g) = Append(old, data) \/ BlocksBy(new, name, g) = old
    BY ONLY <1>2
  <2> HIDE DEF old
  <2>3. old \in Seq(D \union {data})
    BY ONLY <2>1, SeqWider, D \subseteq D \union {data}
  <2>4. Append(old, data) \in Seq(D \union {data})
    BY ONLY <2>3, data \in D \union {data}, AppendProperties
  <2>5. QED
    BY ONLY <2>2, <2>3, <2>4, Zenon
<1>7. Neat(n, new, v, t)
  BY ONLY <1>1, <1>5, <1>6, Zenon DEF Neat, Entries, name
<1>8. QED
  BY ONLY <1>7, VarDefs[v].op # "darray", Zenon DEF Told, new

-----------------------------------------------------------------------------
(***************************************************************************)
(* The invariant of the file                                               *)
(***************************************************************************)
LEMMA TrackingInit ==
  Init => TrackingInv
<1> SUFFICES ASSUME Init PROVE TrackingInv
  OBVIOUS
<1>1. /\ \E layout \in Layouts : groups = InitAdiosComm(layout)
      /\ bp = [steps |-> <<>>, atts |-> <<>>]
      /\ cur = EmptyStep
      /\ tracked = [v \in Vars |-> NoTracking]
  BY Zenon DEF Init, InitWriter
<1>2. Len(groups) \in Nat \ {0} /\ DOMAIN groups = 1..Len(groups)
  <2>1. PICK layout \in Layouts : groups = InitAdiosComm(layout)
    BY <1>1
  <2>2. QED
    BY ONLY <2>1, InitAdiosCommAre
<1>3. GroupsOK
  BY ONLY <1>2 DEF GroupsOK
<1>4. DOMAIN bp = {"steps", "atts"} /\ bp.steps = <<>>
  BY <1>1
<1>5. \E S : bp.steps \in Seq(S)
  BY <1>4
<1>6. StepsOK
  BY <1>4 DEF StepsOK
<1>7. CurOK
  <2>1. \A v \in Vars : Told(Len(groups), EmptyStep, v, NoTracking)
    BY ONLY <1>2, NoTrackingEmpty, EmptyTold
  <2>2. QED
    BY ONLY <1>1, <2>1, Zenon DEF CurOK
<1>8. DOMAIN tracked = Vars
  BY <1>1
<1>9. QED
  BY ONLY <1>1, <1>3, <1>4, <1>5, <1>6, <1>7, <1>8, Zenon DEF TrackingInv

LEMMA CreateTracking ==
  ASSUME TrackingInv, NEW noclobber, Create(noclobber)
  PROVE  TrackingInv'
<1>1. /\ phase = "none"
      /\ (phase' = "refused" /\ cur' = cur) \/ (phase' = "write" /\ cur' = Info)
      /\ groups' = groups /\ bp' = bp /\ tracked' = tracked
  BY DEF Create
<1>2. StepsKept
  BY <1>1, Zenon DEF StepsKept, TrackingInv
<1>3. cur = EmptyStep
  BY <1>1 DEF TrackingInv
<1>4. CASE cur' = cur
  BY <1>1, <1>2, <1>4, StepUntouched
<1>5. CASE phase' = "write" /\ cur' = Info
  <2>1. \A v \in Vars : SameFor(v, cur, cur')
    BY <1>3, <1>5, InfoElsewhere, Zenon
  <2>2. QED
    BY <1>1, <1>2, <1>5, <2>1, StepPutElsewhere
<1>6. QED
  BY <1>1, <1>4, <1>5

LEMMA DefineTracking ==
  ASSUME TrackingInv, DefDim \/ DefVar \/ \E att \in AttArgs : PutAtt(att)
  PROVE  TrackingInv'
<1>1. CASE DefDim
  <2>1. /\ phase' = phase /\ Writing
        /\ groups' = groups /\ bp' = bp /\ tracked' = tracked
        /\ \E x, data : cur' = PutEach(cur, <<"dim", x>>, data)
    BY <1>1, Zenon DEF DefDim
  <2>2. StepsKept
    BY <2>1, Zenon DEF StepsKept, TrackingInv
  <2>3. PICK x, data : cur' = PutEach(cur, <<"dim", x>>, data)
    BY <2>1
  <2>4. "dim" \notin Kinds
    BY DEF Kinds
  <2>5. ASSUME NEW v \in Vars PROVE SameFor(v, cur, cur')
    <3>1. \A kind \in Kinds : <<"dim", x>> # <<kind, v>>
      BY ONLY <2>4, OtherKind
    <3>2. SameFor(v, cur, PutEach(cur, <<"dim", x>>, data))
      BY ONLY <3>1, PutElsewhere
    <3>3. QED
      BY ONLY <2>3, <3>2
  <2>6. phase' = "write"
    BY <2>1 DEF Writing
  <2>7. QED
    BY ONLY TrackingInv, <2>1, <2>2, <2>5, <2>6, StepPutElsewhere
<1>2. CASE DefVar
  <2>1. /\ phase' = phase
        /\ groups' = groups /\ cur' = cur /\ tracked' = tracked
        /\ \E atts : DefineAtts(atts)
    BY <1>2, Zenon DEF DefVar
  <2>2. StepsKept
    BY ONLY TrackingInv, <2>1, DefineAttsKeeps
  <2>3. QED
    BY ONLY TrackingInv, <2>1, <2>2, StepUntouched
<1>3. CASE \E att \in AttArgs : PutAtt(att)
  <2>1. /\ phase' = phase
        /\ groups' = groups /\ cur' = cur /\ tracked' = tracked
        /\ \E atts : DefineAtts(atts)
    BY <1>3, Zenon DEF PutAtt
  <2>2. StepsKept
    BY ONLY TrackingInv, <2>1, DefineAttsKeeps
  <2>3. QED
    BY ONLY TrackingInv, <2>1, <2>2, StepUntouched
<1>4. QED
  BY <1>1, <1>2, <1>3

LEMMA EndStepTracking ==
  ASSUME TrackingInv, EndStep(cur), groups' = groups
  PROVE  TrackingInv'
<1> DEFINE step == FlushTracking(cur)
<1>1. /\ bp' = [bp EXCEPT !.steps = Append(@, step)]
      /\ tracked' = [v \in Vars |-> Kept(tracked[v], 1)]
      /\ cur' = EmptyStep
  BY Zenon DEF EndStep
<1>2. \A v \in Vars : Told(Len(groups), step, v, NoTracking)
  <2>1. GroupsOK /\ \A v \in Vars : Told(Len(groups), cur, v, tracked[v])
    BY Zenon DEF TrackingInv, CurOK
  <2>2. QED
    BY ONLY <2>1, VarsAre, FlushTold
<1> HIDE DEF step
<1>3. DOMAIN bp' = {"steps", "atts"} /\ bp'.steps = Append(bp.steps, step)
  BY <1>1 DEF TrackingInv
<1>4. ASSUME NEW v \in Vars PROVE NothingIn(tracked'[v])
  <2> DEFINE n == Len(groups)
             t == tracked[v]
  <2>1. n \in Nat \ {0}
    BY DEF TrackingInv, GroupsOK
  <2>2. Neat(n, cur, v, t)
    BY Zenon DEF TrackingInv, CurOK, Told
  <2>3. tracked'[v] = Kept(t, 1)
    BY <1>1
  <2> HIDE DEF n, t
  <2>4. QED
    BY ONLY <2>1, <2>2, <2>3, KeptNone
<1>5. DOMAIN tracked' = Vars
  BY <1>1
<1>6. QED
  BY ONLY TrackingInv, groups' = groups, <1>1, <1>2, <1>3, <1>4, <1>5, StepEnds

LEMMA SetFrameTracking ==
  ASSUME TrackingInv, NEW v, NEW frame, SetFrame(v, frame)
  PROVE  TrackingInv'
<1>1. /\ phase' = phase /\ groups' = groups
      /\ EndStep(cur) \/ (bp' = bp /\ cur' = cur /\ tracked' = tracked)
  BY DEF SetFrame
<1>2. CASE EndStep(cur)
  BY <1>1, <1>2, EndStepTracking
<1>3. CASE bp' = bp /\ cur' = cur /\ tracked' = tracked
  <2>1. StepsKept
    BY <1>3, Zenon DEF StepsKept, TrackingInv
  <2>2. QED
    BY ONLY TrackingInv, <1>1, <1>3, <2>1, StepUntouched
<1>4. QED
  BY <1>1, <1>2, <1>3

LEMMA WriteDarrayTracking ==
  ASSUME TrackingInv, NEW v \in Vars, NEW d \in DOMAIN Decomps, NEW filled \in BOOLEAN,
         WriteDarray(v, d, filled)
  PROVE  TrackingInv'
<1> DEFINE n == Len(groups)
           needs == NeedsToWriteDecomp(d)
           step == IF needs THEN WriteDecomp(cur, d) ELSE cur
           merged == MergedBlocks([p \in Procs |-> Array(d, calls', p)])
           t == Track(v, d, filled, calls')
           more == PutEach(step, <<"data", v>>, merged)
           after == PutBuffers(more, v, t, MaxBuffer)
<1>1. /\ phase' = phase /\ groups' = groups /\ Writing
      /\ \/ cur' = step /\ bp' = bp /\ tracked' = tracked
         \/ /\ \E atts : DefineAtts(atts)
            /\ cur' = after
            /\ tracked' = [tracked EXCEPT ![v] = Kept(t, MaxBuffer)]
  BY Zenon DEF WriteDarray, NextCall
<1>2. /\ GroupsOK /\ DOMAIN tracked = Vars
      /\ \A w \in Vars : Told(n, cur, w, tracked[w])
      /\ phase' = "write"
  BY <1>1, Zenon DEF TrackingInv, CurOK, Writing
<1>3. DOMAIN merged = Writers
  BY DEF MergedBlocks
<1>4. d \in Nat \ {0}
  BY AdiosFileAssumption
<1> HIDE DEF merged
<1>5. ASSUME NEW w PROVE SameFor(w, cur, step)
  <2>1. SameFor(w, cur, WriteDecomp(cur, d)) /\ SameFor(w, cur, cur)
    BY ONLY WriteDecompElsewhere, ZenonT(60) DEF SameFor
  <2>2. QED
    BY <2>1
<1> HIDE DEF step
<1>6. CASE cur' = step /\ bp' = bp /\ tracked' = tracked
  <2>1. StepsKept
    BY <1>6, Zenon DEF StepsKept, TrackingInv
  <2>2. \A w \in Vars : SameFor(w, cur, cur')
    BY ONLY <1>5, <1>6
  <2>3. QED
    BY ONLY TrackingInv, <1>1, <1>2, <1>6, <2>1, <2>2, StepPutElsewhere
<1>7. CASE /\ \E atts : DefineAtts(atts)
           /\ cur' = after
           /\ tracked' = [tracked EXCEPT ![v] = Kept(t, MaxBuffer)]
  <2>1. StepsKept
    BY ONLY TrackingInv, <1>7, DefineAttsKeeps
  <2>2. DOMAIN tracked' = Vars /\ tracked'[v] = Kept(t, MaxBuffer) /\ \A w \in Vars \ {v} : tracked'[w] = tracked[w]
    BY ONLY <1>2, <1>7, v \in Vars
  <2>3. Told(Len(groups), step, v, tracked[v])
    <3>1. Told(n, step, v, tracked[v]) = Told(n, cur, v, tracked[v])
      BY ONLY <1>5, SameForTold
    <3>2. QED
      BY ONLY <1>2, <3>1, v \in Vars
  <2>4. Told(Len(groups), more, v, t)
    <3> HIDE DEF more, t
    <3>1. Told(Len(groups), PutEach(step, <<"data", v>>, merged), v, Track(v, d, filled, calls'))
      BY ONLY <1>2, <1>3, <1>4, filled \in BOOLEAN, <2>3, TrackTold
    <3>2. QED
      BY ONLY <3>1 DEF more, t
  <2> HIDE DEF t
  <2>5. Told(Len(groups), after, v, Kept(t, MaxBuffer))
    <3> HIDE DEF more
    <3>1. QED
      BY ONLY <1>2, <2>4, PutBuffersTold
  <2>6. ASSUME NEW w \in Vars \ {v} PROVE Told(Len(groups), after, w, tracked[w])
    <3>1. \A kind \in Kinds : <<"data", v>> # <<kind, w>>
      BY ONLY w \in Vars \ {v}
    <3>2. SameFor(w, step, more)
      BY ONLY <3>1, PutElsewhere
    <3> HIDE DEF more
    <3>3. SameFor(w, more, after)
      BY ONLY w \in Vars \ {v}, PutBuffersOthers
    <3> HIDE DEF after
    <3>4. SameFor(w, cur, after)
      BY ONLY <1>5, <3>2, <3>3, SameForBoth
    <3>5. Told(n, after, w, tracked[w]) = Told(n, cur, w, tracked[w])
      BY ONLY <3>4, SameForTold
    <3>6. QED
      BY ONLY <1>2, <3>5, w \in Vars \ {v}
  <2> HIDE DEF after
  <2>7. \A w \in Vars : Told(Len(groups), cur', w, tracked'[w])
    BY ONLY <1>7, <2>2, <2>5, <2>6
  <2>8. QED
    BY ONLY TrackingInv, <1>1, <1>2, <2>1, <2>2, <2>7, StepGoesOn
<1>8. QED
  BY ONLY <1>1, <1>6, <1>7

LEMMA PutVarTracking ==
  ASSUME TrackingInv, NEW arg, PutVar(arg)
  PROVE  TrackingInv'
<1> DEFINE n == Len(groups)
           v == arg.v
<1>1. /\ phase' = phase /\ groups' = groups /\ tracked' = tracked /\ Writing
      /\ VarDefs[v].op = "put_var"
      /\ \E data : cur' = Put(cur, <<"data", v>>, 1, data)
      /\ \E atts : DefineAtts(atts)
  BY Zenon DEF PutVar, NextCall
<1>2. PICK data : cur' = Put(cur, <<"data", v>>, 1, data)
  BY <1>1
<1>3. StepsKept
  BY ONLY TrackingInv, <1>1, DefineAttsKeeps
<1>4. /\ DOMAIN tracked = Vars
      /\ \A w \in Vars : Told(n, cur, w, tracked[w])
      /\ phase' = "write"
  BY <1>1, Zenon DEF TrackingInv, CurOK, Writing
<1> HIDE DEF v, n
<1>5. ASSUME NEW w \in Vars PROVE Told(n, cur', w, tracked[w])
  <2>1. CASE w = v
    <3>1. VarDefs[w].op # "darray" /\ Told(n, cur, w, tracked[w])
      BY ONLY <1>1, <1>4, <2>1, w \in Vars
    <3>2. Told(n, Put(cur, <<"data", w>>, 1, data), w, tracked[w])
      BY ONLY <3>1, PutDataTold
    <3>3. QED
      BY ONLY <1>2, <2>1, <3>2
  <2>2. CASE w # v
    <3>1. \A kind \in Kinds : <<"data", v>> # <<kind, w>>
      BY ONLY <2>2
    <3>2. SameFor(w, cur, Put(cur, <<"data", v>>, 1, data))
      BY ONLY <3>1, PutElsewhere
    <3>3. SameFor(w, cur, cur')
      BY ONLY <1>2, <3>2
    <3>4. Told(n, cur', w, tracked[w]) = Told(n, cur, w, tracked[w])
      BY ONLY <3>3, SameForTold
    <3>5. QED
      BY ONLY <1>4, <3>4, w \in Vars
  <2>3. QED
    BY <2>1, <2>2
<1>6. \A w \in Vars : Told(Len(groups), cur', w, tracked'[w])
  BY ONLY <1>1, <1>5 DEF n
<1>7. QED
  BY ONLY TrackingInv, <1>1, <1>3, <1>4, <1>6, StepGoesOn

LEMMA CloseWriterTracking ==
  ASSUME TrackingInv, CloseWriter
  PROVE  TrackingInv'
<1> DEFINE each == [g \in Writers |-> NProcs]
           put == PutEach(cur, <<"info", "testing">>, each)
           step == FlushTracking(put)
<1>1. /\ groups' = groups /\ cur' = EmptyStep
      /\ tracked' = [v \in Vars |-> NoTracking]
      /\ \E atts : bp' = [steps |-> Append(bp.steps, step), atts |-> atts]
  BY Zenon DEF CloseWriter
<1>2. GroupsOK /\ \A v \in Vars : Told(Len(groups), cur, v, tracked[v])
  BY Zenon DEF TrackingInv, CurOK
<1>3. "info" \notin Kinds
  BY DEF Kinds
<1> HIDE DEF each
<1>4. ASSUME NEW v \in Vars PROVE Told(Len(groups), put, v, tracked[v])
  <2>1. \A kind \in Kinds : <<"info", "testing">> # <<kind, v>>
    BY ONLY <1>3, OtherKind
  <2>2. SameFor(v, cur, put)
    BY ONLY <2>1, PutElsewhere
  <2> HIDE DEF put
  <2> DEFINE n == Len(groups)
  <2> HIDE DEF n
  <2>3. Told(n, put, v, tracked[v]) = Told(n, cur, v, tracked[v])
    BY ONLY <2>2, SameForTold
  <2>4. QED
    BY ONLY <1>2, <2>3, v \in Vars DEF n
<1> HIDE DEF put
<1>5. \A v \in Vars : Told(Len(groups), step, v, NoTracking)
  BY ONLY <1>2, <1>4, VarsAre, FlushTold
<1> HIDE DEF step
<1>6. DOMAIN bp' = {"steps", "atts"} /\ bp'.steps = Append(bp.steps, step)
  BY <1>1
<1>7. DOMAIN tracked' = Vars /\ \A v \in Vars : NothingIn(tracked'[v])
  BY <1>1, NoTrackingEmpty
<1>8. QED
  BY ONLY TrackingInv, <1>1, <1>5, <1>6, <1>7, StepEnds

\* Reading and converting change nothing of the file.
LEMMA ReadTracking ==
  ASSUME TrackingInv, NextReader \/ NextConvert
  PROVE  TrackingInv'
<1>1. /\ phase # "write"
      /\ groups' = groups /\ bp' = bp /\ cur' = cur /\ tracked' = tracked
  <2>1. CASE Open
    BY <2>1, Zenon DEF Open
  <2>2. CASE \E att \in AttArgs : GetAtt(att)
    BY <2>2, Zenon DEF GetAtt, NextRead, wvars
  <2>3. CASE \E v \in FrameVars, frame \in 0..MaxFrame : SetReadFrame(v, frame)
    BY <2>3, Zenon DEF SetReadFrame
  <2>4. CASE \E v \in Vars, d \in DOMAIN Decomps : ReadDarray(v, d)
    BY <2>4, ZenonT(60) DEF ReadDarray, NextRead
  <2>5. CASE \E arg \in GetArgs : GetVar(arg)
    BY <2>5, Zenon DEF GetVar, NextRead
  <2>6. CASE CloseReader
    BY <2>6, Zenon DEF CloseReader
  <2>7. CASE NextConvert
    BY <2>7, Zenon DEF NextConvert, Convert
  <2>8. QED
    BY <2>1, <2>2, <2>3, <2>4, <2>5, <2>6, <2>7 DEF NextReader
<1>2. StepsKept
  BY <1>1, Zenon DEF StepsKept, TrackingInv
<1>3. QED
  BY ONLY TrackingInv, <1>1, <1>2, StepUntouched

LEMMA TrackingNext ==
  TrackingInv /\ [Next]_vars => TrackingInv'
<1> SUFFICES ASSUME TrackingInv, [Next]_vars PROVE TrackingInv'
  OBVIOUS
<1>1. ASSUME NEW noclobber \in BOOLEAN, Create(noclobber) PROVE TrackingInv'
  BY <1>1, CreateTracking
<1>2. CASE DefDim \/ DefVar \/ \E att \in AttArgs : PutAtt(att)
  BY <1>2, DefineTracking
<1>3. ASSUME NEW v \in FrameVars, NEW frame \in 0..MaxFrame, SetFrame(v, frame) PROVE TrackingInv'
  BY <1>3, SetFrameTracking
<1>4. ASSUME NEW v \in Vars, NEW d \in DOMAIN Decomps, NEW filled \in BOOLEAN, WriteDarray(v, d, filled)
      PROVE  TrackingInv'
  BY <1>4, WriteDarrayTracking
<1>5. ASSUME NEW arg \in PutArgs, PutVar(arg) PROVE TrackingInv'
  BY <1>5, PutVarTracking
<1>6. CASE CloseWriter
  BY <1>6, CloseWriterTracking
<1>7. CASE NextReader \/ NextConvert
  BY <1>7, ReadTracking
<1>8. CASE UNCHANGED vars
  <2>1. phase' = phase /\ groups' = groups /\ bp' = bp /\ cur' = cur /\ tracked' = tracked
    BY <1>8 DEF vars, wvars
  <2>2. StepsKept
    BY <2>1, Zenon DEF StepsKept, TrackingInv
  <2>3. QED
    BY ONLY TrackingInv, <2>1, <2>2, StepUntouched
<1>9. QED
  BY <1>1, <1>2, <1>3, <1>4, <1>5, <1>6, <1>7, <1>8 DEF Next, NextWriter

\* What the invariant says of the steps of the file.
LEMMA TrackingAlignedBy ==
  TrackingInv => TrackingAligned
<1> SUFFICES ASSUME TrackingInv, NEW s \in DOMAIN bp.steps, NEW v \in Vars, VarDefs[v].op = "darray"
             PROVE  LET step == bp.steps[s]
                        frames == Elements(step, <<"frame", v>>)
                        decomps == Elements(step, <<"decomp_id", v>>)
                    IN  /\ Len(decomps) = Len(frames)
                        /\ Positives(decomps) = Len(Elements(step, <<"fillval", v>>))
                        /\ \A g \in Writers :
                             /\ Len(BlocksBy(step, <<"data", v>>, g)) = Len(frames)
                             /\ Len(FlattenSeq(BlocksBy(step, <<"writers", v>>, g))) = Len(frames)
  BY Zenon DEF TrackingAligned
<1> DEFINE n == Len(groups)
           step == bp.steps[s]
<1>1. Told(n, step, v, NoTracking)
  BY Zenon DEF TrackingInv, StepsOK
<1>2. Neat(n, step, v, NoTracking) /\ Balanced(n, step, v, NoTracking)
  BY ONLY <1>1, VarDefs[v].op = "darray", Zenon DEF Told
<1>3. n \in Nat \ {0} /\ Writers = 1..n
  BY DEF TrackingInv, GroupsOK, Writers
<1>4. /\ NoTracking.frames = <<>> /\ NoTracking.decomps = <<>>
      /\ NoTracking.fills = <<>> /\ NoTracking.writers = <<>>
  BY DEF NoTracking
<1> HIDE DEF n, step
<1>5. FramesBy(n) \in Nat \ {0} /\ FillsBy(n) \in Nat \ {0}
  BY <1>3 DEF FramesBy, FillsBy
<1>6. ASSUME NEW kind, NEW by, NEW S, BlocksBy(step, <<kind, v>>, by) \in Seq(Seq(S))
      PROVE  AllOf(step, kind, v, by, <<>>) = FlattenSeq(BlocksBy(step, <<kind, v>>, by))
  <2> DEFINE q == BlocksBy(step, <<kind, v>>, by)
  <2>1. FlattenSeq(q) \in Seq(S)
    BY ONLY <1>6, FlattenType
  <2>2. FlattenSeq(q) \o <<>> = FlattenSeq(q)
    BY ONLY <2>1, ConcatEmptySeq
  <2>3. QED
    BY ONLY <2>2, Zenon DEF AllOf
<1>7. PICK S : BlocksBy(step, <<"frame", v>>, FramesBy(n)) \in Seq(Seq(S))
  BY ONLY <1>2, Zenon DEF Neat, Entries
<1>8. PICK F : BlocksBy(step, <<"fillval", v>>, FillsBy(n)) \in Seq(Seq(F))
  BY ONLY <1>2, Zenon DEF Neat, Entries
<1>9. BlocksBy(step, <<"decomp_id", v>>, n) \in Seq(Seq(Int))
  BY ONLY <1>2, Zenon DEF Neat, Entries
<1>10. \A g \in 1..n : BlocksBy(step, <<"writers", v>>, g) \in Seq(Seq({1}))
  BY ONLY <1>2, Zenon DEF Neat, Entries
<1>11. /\ WritersOf(step, <<"frame", v>>) \subseteq {FramesBy(n)}
       /\ WritersOf(step, <<"decomp_id", v>>) \subseteq {n}
       /\ WritersOf(step, <<"fillval", v>>) \subseteq {FillsBy(n)}
  BY ONLY <1>2, Zenon DEF Neat
<1>12. Elements(step, <<"frame", v>>) = AllFrames(n, step, v, NoTracking)
  <2> DEFINE by == FramesBy(n)
             name == <<"frame", v>>
  <2>1. by \in Nat \ {0} /\ WritersOf(step, name) \subseteq {by} /\ BlocksBy(step, name, by) \in Seq(Seq(S))
    BY ONLY <1>5, <1>7, <1>11
  <2>2. AllOf(step, "frame", v, by, <<>>) = FlattenSeq(BlocksBy(step, name, by))
    BY ONLY <1>6, <1>7
  <2> HIDE DEF by, name
  <2>3. Elements(step, name) = FlattenSeq(BlocksBy(step, name, by))
    BY ONLY <2>1, OneWriter
  <2>4. QED
    BY ONLY <1>4, <2>2, <2>3, Zenon DEF AllFrames, by, name
<1>13. Elements(step, <<"fillval", v>>) = AllFills(n, step, v, NoTracking)
  <2> DEFINE by == FillsBy(n)
             name == <<"fillval", v>>
  <2>1. by \in Nat \ {0} /\ WritersOf(step, name) \subseteq {by} /\ BlocksBy(step, name, by) \in Seq(Seq(F))
    BY ONLY <1>5, <1>8, <1>11
  <2>2. AllOf(step, "fillval", v, by, <<>>) = FlattenSeq(BlocksBy(step, name, by))
    BY ONLY <1>6, <1>8
  <2> HIDE DEF by, name
  <2>3. Elements(step, name) = FlattenSeq(BlocksBy(step, name, by))
    BY ONLY <2>1, OneWriter
  <2>4. QED
    BY ONLY <1>4, <2>2, <2>3, Zenon DEF AllFills, by, name
<1>14. Elements(step, <<"decomp_id", v>>) = AllDecomps(n, step, v, NoTracking)
  <2> DEFINE name == <<"decomp_id", v>>
  <2>1. n \in Nat \ {0} /\ WritersOf(step, name) \subseteq {n} /\ BlocksBy(step, name, n) \in Seq(Seq(Int))
    BY ONLY <1>3, <1>9, <1>11
  <2>2. AllOf(step, "decomp_id", v, n, <<>>) = FlattenSeq(BlocksBy(step, name, n))
    BY ONLY <1>6, <1>9
  <2> HIDE DEF name
  <2>3. Elements(step, name) = FlattenSeq(BlocksBy(step, name, n))
    BY ONLY <2>1, OneWriter
  <2>4. QED
    BY ONLY <1>4, <2>2, <2>3, Zenon DEF AllDecomps, name
<1>15. ASSUME NEW g \in Writers
       PROVE  FlattenSeq(BlocksBy(step, <<"writers", v>>, g)) = AllWriters(g, step, v, NoTracking)
  <2>1. BlocksBy(step, <<"writers", v>>, g) \in Seq(Seq({1}))
    BY ONLY <1>3, <1>10, g \in Writers
  <2>2. AllOf(step, "writers", v, g, <<>>) = FlattenSeq(BlocksBy(step, <<"writers", v>>, g))
    BY ONLY <1>6, <2>1
  <2>3. QED
    BY ONLY <1>4, <2>2, Zenon DEF AllWriters
<1>16. /\ Len(Elements(step, <<"decomp_id", v>>)) = Len(Elements(step, <<"frame", v>>))
       /\ Positives(Elements(step, <<"decomp_id", v>>)) = Len(Elements(step, <<"fillval", v>>))
       /\ \A g \in Writers :
            /\ Len(BlocksBy(step, <<"data", v>>, g)) = Len(Elements(step, <<"frame", v>>))
            /\ Len(FlattenSeq(BlocksBy(step, <<"writers", v>>, g))) = Len(Elements(step, <<"frame", v>>))
  BY ONLY <1>2, <1>3, <1>12, <1>13, <1>14, <1>15, Zenon DEF Balanced
<1>17. QED
  BY ONLY <1>16 DEF step

(***************************************************************************)
(* In every step of the file, each block that an I/O group has of a        *)
(* variable has its frame, its decomposition and its count of writers, and *)
(* a fill value if one was given: whatever the groups, the decompositions, *)
(* the lengths of the buffers and the steps between two flushes.           *)
(***************************************************************************)
THEOREM AdiosTrackingAligned == Spec => []TrackingAligned
<1>1. TrackingInv => TrackingAligned
  BY TrackingAlignedBy
<1>2. QED
  BY <1>1, TrackingInit, TrackingNext, PTL DEF Spec
=============================================================================

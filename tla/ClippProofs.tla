---------------------------- MODULE ClippProofs -----------------------------
(***************************************************************************)
(* Lemmas about the parser of clipp: what an attempt to match a word       *)
(* returns, and what the mappings it adds have in common.  They hold for   *)
(* every finite grammar.                                                   *)
(***************************************************************************)
EXTENDS GrammarParser, SequenceTheorems, FiniteSetTheorems, WellFoundedInduction, TLAPS

(***************************************************************************)
(* Natural numbers.                                                        *)
(***************************************************************************)
LEMMA LeastNat ==
    ASSUME NEW T, T \subseteq Nat, T # {}
    PROVE  \E x \in T : \A y \in T : x <= y
<1>1. IsWellFoundedOn(OpToRel(<, Nat), Nat)
  BY NatLessThanWellFounded
<1>2. PICK x \in T : \A y \in T : ~(<<y, x>> \in OpToRel(<, Nat))
  BY <1>1, WFMin
<1>3. \A y \in T : y < x => <<y, x>> \in OpToRel(<, Nat)
  BY DEF OpToRel
<1>4. \A y \in T : ~(y < x)
  BY <1>2, <1>3
<1> QED
  BY <1>4

\* Induction up to n, over the set T of the numbers a fact holds for.
LEMMA UpTo ==
    ASSUME NEW n \in Nat, NEW T, 0 \in T, \A k \in 0..(n - 1) : k \in T => k + 1 \in T
    PROVE  \A k \in 0..n : k \in T
<1> SUFFICES ASSUME (0..n) \ T # {} PROVE FALSE
  OBVIOUS
<1>0. (0..n) \ T \subseteq Nat
  OBVIOUS
<1>1. PICK m \in (0..n) \ T : \A k \in (0..n) \ T : m <= k
  BY <1>0, LeastNat
<1>2. m # 0 /\ m - 1 \in 0..(n - 1)
  BY <1>1
<1>3. m - 1 \in T
  BY <1>1, <1>2
<1> QED
  BY <1>1, <1>2, <1>3

\* A bounded nonempty set of natural numbers has a greatest element.
LEMMA GreatestNat ==
    ASSUME NEW n \in Nat, NEW T, T \subseteq 0..n, T # {}
    PROVE  \E x \in T : \A y \in T : y <= x
<1> DEFINE U == {n - y : y \in T}
<1>0. \A y \in T : y \in 0..n /\ n - y \in Nat
  OBVIOUS
<1>1. U \subseteq Nat /\ U # {}
  BY <1>0
<1>2. PICK u \in U : \A v \in U : u <= v
  BY <1>1, LeastNat
<1>3. PICK x \in T : u = n - x
  BY <1>2
<1>4. \A y \in T : n - y \in U
  OBVIOUS
<1>5. \A y \in T : n - x <= n - y
  BY <1>2, <1>3, <1>4
<1>6. \A y \in T : y <= x
  BY <1>5
<1> QED
  BY <1>6

\* Innermost is the greatest element of a bounded set,
LEMMA InnermostIs ==
    ASSUME NEW n \in Nat, NEW T, T \subseteq 0..n, T # {}
    PROVE  Innermost(T) \in T /\ \A y \in T : y <= Innermost(T)
<1>1. \E x \in T : \A y \in T : y <= x
  BY GreatestNat
<1> QED
  BY <1>1 DEF Innermost

\* Max finds the same,
LEMMA MaxIs ==
    ASSUME NEW n \in Nat, NEW T, T \subseteq 0..n, T # {}
    PROVE  Max(T) \in T /\ \A y \in T : y <= Max(T)
<1>1. PICK x \in T : \A y \in T : y <= x
  BY GreatestNat
<1>2. \E z \in T : \A y \in T : z >= y
  BY <1>1
<1>3. Max(T) \in T /\ \A y \in T : Max(T) >= y
  BY <1>2 DEF Max
<1> QED
  BY <1>3

\* and Min the least element.
LEMMA MinIs ==
    ASSUME NEW T, T \subseteq Nat, T # {}
    PROVE  Min(T) \in T /\ \A y \in T : Min(T) <= y
<1>1. \E x \in T : \A y \in T : x <= y
  BY LeastNat
<1> QED
  BY <1>1 DEF Min
-----------------------------------------------------------------------------
(***************************************************************************)
(* Sequences of whatever elements, and the text of a sequence of words.    *)
(***************************************************************************)
IsSeq(s) == \E X : s \in Seq(X)

\* Its indices, and what Append and \o make of it.
LEMMA SeqLen ==
    ASSUME NEW s, IsSeq(s)
    PROVE  Len(s) \in Nat /\ DOMAIN s = 1..Len(s)
<1>1. PICK X : s \in Seq(X)
  BY DEF IsSeq
<1> QED
  BY <1>1, LenProperties

LEMMA SeqOfOne ==
    ASSUME NEW e
    PROVE  IsSeq(<<>>) /\ IsSeq(<<e>>)
<1>1. <<>> \in Seq({e}) /\ <<e>> \in Seq({e})
  OBVIOUS
<1> QED
  BY <1>1 DEF IsSeq

LEMMA SeqAppend ==
    ASSUME NEW s, NEW e, IsSeq(s)
    PROVE  /\ IsSeq(Append(s, e)) /\ Len(Append(s, e)) = Len(s) + 1
           /\ \A i \in 1..Len(s) : Append(s, e)[i] = s[i]
           /\ Append(s, e)[Len(s) + 1] = e
<1>1. PICK X : s \in Seq(X)
  BY DEF IsSeq
<1>2. s \in Seq(X \union {e})
  BY <1>1, SeqMonotonic
<1>3. Append(s, e) \in Seq(X \union {e})
  BY <1>2, AppendProperties
<1> QED
  BY <1>2, <1>3, AppendProperties DEF IsSeq

LEMMA SeqConcat ==
    ASSUME NEW s, NEW t, IsSeq(s), IsSeq(t)
    PROVE  /\ IsSeq(s \o t) /\ Len(s \o t) = Len(s) + Len(t)
           /\ \A i \in 1..Len(s) : (s \o t)[i] = s[i]
           /\ \A i \in 1..Len(t) : (s \o t)[Len(s) + i] = t[i]
<1>1. PICK X : s \in Seq(X)
  BY DEF IsSeq
<1>2. PICK Y : t \in Seq(Y)
  BY DEF IsSeq
<1>3. s \in Seq(X \union Y) /\ t \in Seq(X \union Y)
  BY <1>1, <1>2, SeqMonotonic
<1>4. s \o t \in Seq(X \union Y)
  BY <1>3, ConcatProperties
<1>5. Len(s) \in Nat /\ Len(t) \in Nat
  BY <1>3
<1>6. \A i \in 1..(Len(s) + Len(t)) : (s \o t)[i] = IF i <= Len(s) THEN s[i] ELSE t[i - Len(s)]
  BY <1>3, ConcatProperties
<1>7. \A i \in 1..Len(t) : (s \o t)[Len(s) + i] = t[i]
  <2> TAKE i \in 1..Len(t)
  <2>1. Len(s) + i \in 1..(Len(s) + Len(t)) /\ ~(Len(s) + i <= Len(s)) /\ Len(s) + i - Len(s) = i
    BY <1>5
  <2> QED
    BY <1>6, <2>1
<1>8. \A i \in 1..Len(s) : (s \o t)[i] = s[i]
  BY <1>5, <1>6
<1> QED
  BY <1>3, <1>4, <1>7, <1>8, ConcatProperties DEF IsSeq

\* The name under which the provers see no more of s \o t than they are told.
Glue(s, t) == s \o t

\* f is the function FlattenSeq(ss) recurses with.
IsFlat(f, ss, n) == f = [i \in 1..n |-> IF i = 1 THEN ss[i] ELSE Glue(f[i - 1], ss[i])]

LEMMA FlatSteps ==
    ASSUME NEW f, NEW ss, NEW n \in Nat \ {0}, IsFlat(f, ss, n)
    PROVE  DOMAIN f = 1..n /\ f[1] = ss[1] /\ \A i \in 1..n : i # 1 => f[i] = Glue(f[i - 1], ss[i])
<1>1. f = [i \in 1..n |-> IF i = 1 THEN ss[i] ELSE Glue(f[i - 1], ss[i])]
  BY DEF IsFlat
<1>2. 1 \in 1..n
  OBVIOUS
<1> DEFINE g(i) == IF i = 1 THEN ss[i] ELSE Glue(f[i - 1], ss[i])
<1>3. f = [i \in 1..n |-> g(i)]
  BY <1>1
<1>5. g(1) = ss[1] /\ \A i \in 1..n : i # 1 => g(i) = Glue(f[i - 1], ss[i])
  OBVIOUS
<1> HIDE DEF g
<1>4. DOMAIN f = 1..n /\ \A i \in 1..n : f[i] = g(i)
  BY <1>3
<1> QED
  BY <1>2, <1>4, <1>5

LEMMA FlatExists ==
    ASSUME NEW ss, NEW n \in Nat \ {0}
    PROVE  \E f : IsFlat(f, ss, n)
<1> DEFINE T == {k \in Nat : \E f : IsFlat(f, ss, k + 1)}
<1>1. 0 \in T
  <2>1. IsFlat([i \in 1..1 |-> ss[1]], ss, 1)
    BY DEF IsFlat
  <2> QED
    BY <2>1
<1>2. ASSUME NEW k \in 0..(n - 1), k \in T
      PROVE  k + 1 \in T
  <2>1. PICK g : IsFlat(g, ss, k + 1)
    BY <1>2
  <2>a. DOMAIN g = 1..(k + 1) /\ g[1] = ss[1] /\ \A i \in 1..(k + 1) : i # 1 => g[i] = Glue(g[i - 1], ss[i])
    BY <2>1, FlatSteps
  <2> DEFINE f == [i \in 1..(k + 2) |-> IF i <= k + 1 THEN g[i] ELSE Glue(g[k + 1], ss[i])]
  <2>2. \A i \in 1..(k + 2) : f[i] = IF i = 1 THEN ss[i] ELSE Glue(f[i - 1], ss[i])
    <3> TAKE i \in 1..(k + 2)
    <3>1. CASE i = 1
      BY <3>1, <2>a
    <3>2. CASE i \in 1..(k + 1) /\ i # 1
      <4>1. i - 1 \in 1..(k + 1) /\ f[i - 1] = g[i - 1] /\ f[i] = g[i]
        BY <3>2
      <4> QED
        BY <4>1, <3>2, <2>a
    <3>3. CASE i = k + 2
      <4>1. i - 1 = k + 1 /\ f[i - 1] = g[k + 1] /\ f[i] = Glue(g[k + 1], ss[i]) /\ i # 1
        BY <3>3
      <4> QED
        BY <4>1
    <3> QED
      BY <3>1, <3>2, <3>3
  <2>3. IsFlat(f, ss, k + 2)
    <3>1. f = [i \in 1..(k + 2) |-> f[i]]
      OBVIOUS
    <3> HIDE DEF f
    <3>2. f = [i \in 1..(k + 2) |-> IF i = 1 THEN ss[i] ELSE Glue(f[i - 1], ss[i])]
      BY <2>2, <3>1
    <3> QED
      BY <3>2 DEF IsFlat
  <2>4. (k + 1) + 1 = k + 2
    OBVIOUS
  <2> HIDE DEF f
  <2> QED
    BY <2>3, <2>4
<1> HIDE DEF T
<1>3. \A k \in 0..(n - 1) : k \in T
  BY <1>1, <1>2, UpTo
<1>4. n - 1 \in T
  BY <1>3
<1>5. n = (n - 1) + 1
  OBVIOUS
<1> QED
  BY <1>4, <1>5 DEF T

LEMMA FlattenIs ==
    ASSUME NEW ss, Len(ss) \in Nat \ {0}
    PROVE  \E f : IsFlat(f, ss, Len(ss)) /\ FlattenSeq(ss) = f[Len(ss)]
<1> DEFINE flatten == CHOOSE f : f = [i \in 1..Len(ss) |-> IF i = 1 THEN ss[i] ELSE f[i - 1] \o ss[i]]
<1>1. \E f : IsFlat(f, ss, Len(ss))
  BY FlatExists
<1>2. \E f : f = [i \in 1..Len(ss) |-> IF i = 1 THEN ss[i] ELSE f[i - 1] \o ss[i]]
  BY <1>1 DEF IsFlat, Glue
<1>3. flatten = [i \in 1..Len(ss) |-> IF i = 1 THEN ss[i] ELSE flatten[i - 1] \o ss[i]]
  BY <1>2
<1>4. IsFlat(flatten, ss, Len(ss))
  BY <1>3 DEF IsFlat, Glue
<1>5. FlattenSeq(ss) = flatten[Len(ss)]
  BY DEF FlattenSeq
<1> QED
  BY <1>4, <1>5

\* The text of no words.
LEMMA FlattenEmpty == FlattenSeq(<<>>) = <<>>
  BY DEF FlattenSeq

LEMMA GlueType ==
    ASSUME NEW S, NEW s \in Seq(S), NEW t \in Seq(S)
    PROVE  Glue(s, t) \in Seq(S) /\ Glue(s, t) = s \o t
BY ConcatProperties DEF Glue

\* The text of a sequence of words is a word, appended to it and put
\* together as they are.
LEMMA FlattenType ==
    ASSUME NEW S, NEW ss \in Seq(Seq(S))
    PROVE  FlattenSeq(ss) \in Seq(S)
<1>1. CASE ss = <<>>
  BY <1>1, FlattenEmpty, EmptySeq
<1>2. CASE ss # <<>>
  <2>1. Len(ss) \in Nat \ {0}
    BY <1>2, EmptySeq
  <2>0. \A i \in 1..Len(ss) : ss[i] \in Seq(S)
    BY ElementOfSeq
  <2>2. PICK f : IsFlat(f, ss, Len(ss)) /\ FlattenSeq(ss) = f[Len(ss)]
    BY <2>1, FlattenIs
  <2>a. f[1] = ss[1] /\ \A i \in 1..Len(ss) : i # 1 => f[i] = Glue(f[i - 1], ss[i])
    BY <2>1, <2>2, FlatSteps
  <2> DEFINE T == {k \in Nat : f[k + 1] \in Seq(S)}
  <2>3. 0 \in T
    <3>1. 0 + 1 = 1 /\ 1 \in 1..Len(ss)
      BY <2>1
    <3>2. f[1] \in Seq(S)
      BY <3>1, <2>0, <2>a
    <3>3. f[0 + 1] \in Seq(S)
      BY <3>1, <3>2
    <3> QED
      BY <3>3
  <2>4. ASSUME NEW k \in 0..(Len(ss) - 1 - 1), k \in T
        PROVE  k + 1 \in T
    <3>1. k + 2 \in 1..Len(ss) /\ k + 2 # 1 /\ (k + 2) - 1 = k + 1
      BY <2>1
    <3>2. f[k + 2] = Glue(f[k + 1], ss[k + 2])
      BY <3>1, <2>a
    <3>3. f[k + 1] \in Seq(S) /\ ss[k + 2] \in Seq(S)
      BY <2>0, <3>1, <2>4
    <3>4. f[k + 2] \in Seq(S)
      BY <3>2, <3>3, GlueType
    <3>5. (k + 1) + 1 = k + 2 /\ k + 1 \in Nat
      OBVIOUS
    <3> QED
      BY <3>4, <3>5
  <2> HIDE DEF T
  <2>b. Len(ss) - 1 \in Nat
    BY <2>1
  <2>5. \A k \in 0..(Len(ss) - 1) : k \in T
    BY <2>b, <2>3, <2>4, UpTo
  <2>6. Len(ss) - 1 \in T /\ (Len(ss) - 1) + 1 = Len(ss)
    BY <2>1, <2>5
  <2> QED
    BY <2>2, <2>6 DEF T
<1> QED
  BY <1>1, <1>2

LEMMA FlattenAppend ==
    ASSUME NEW S, NEW ss \in Seq(Seq(S)), NEW s \in Seq(S)
    PROVE  FlattenSeq(Append(ss, s)) = FlattenSeq(ss) \o s
<1> DEFINE tt == Append(ss, s)
<1>1. tt \in Seq(Seq(S)) /\ Len(tt) = Len(ss) + 1 /\ Len(ss) \in Nat /\ tt[Len(ss) + 1] = s
  BY AppendProperties
<1>a. \A i \in 1..Len(ss) : tt[i] = ss[i]
  BY AppendProperties
<1> HIDE DEF tt
<1>b. Len(tt) \in Nat \ {0}
  BY <1>1
<1>2. PICK g : IsFlat(g, tt, Len(tt)) /\ FlattenSeq(tt) = g[Len(tt)]
  BY <1>b, FlattenIs
<1>c. g[1] = tt[1] /\ \A i \in 1..(Len(ss) + 1) : i # 1 => g[i] = Glue(g[i - 1], tt[i])
  BY <1>1, <1>2, <1>b, FlatSteps
<1>d. FlattenSeq(ss) \in Seq(S)
  BY FlattenType
<1>3. CASE ss = <<>>
  <2>1. Len(ss) = 0
    BY <1>3
  <2>a. Len(tt) = 1 /\ tt[1] = s
    BY <1>1, <2>1
  <2>2. FlattenSeq(tt) = s
    BY <1>2, <1>c, <2>a
  <2>3. FlattenSeq(ss) = <<>>
    BY <1>3, FlattenEmpty
  <2>4. <<>> \o s = s
    BY ConcatEmptySeq
  <2> QED
    BY <2>2, <2>3, <2>4 DEF tt
<1>4. CASE ss # <<>>
  <2>1. Len(ss) \in Nat \ {0}
    BY <1>4, EmptySeq
  <2>2. PICK f : IsFlat(f, ss, Len(ss)) /\ FlattenSeq(ss) = f[Len(ss)]
    BY <2>1, FlattenIs
  <2>a. f[1] = ss[1] /\ \A i \in 1..Len(ss) : i # 1 => f[i] = Glue(f[i - 1], ss[i])
    BY <2>1, <2>2, FlatSteps
  <2> DEFINE T == {k \in Nat : f[k + 1] = g[k + 1]}
  <2>3. 0 \in T
    <3>1. 0 + 1 = 1 /\ 1 \in 1..Len(ss)
      BY <2>1
    <3>2. f[1] = g[1]
      BY <3>1, <1>a, <2>a, <1>c
    <3>3. f[0 + 1] = g[0 + 1]
      BY <3>1, <3>2
    <3> QED
      BY <3>3
  <2>4. ASSUME NEW k \in 0..(Len(ss) - 1 - 1), k \in T
        PROVE  k + 1 \in T
    <3>1. k + 2 \in 1..Len(ss) /\ k + 2 \in 1..(Len(ss) + 1) /\ k + 2 # 1 /\ (k + 2) - 1 = k + 1
      BY <2>1
    <3>2. f[k + 2] = Glue(f[k + 1], ss[k + 2])
      BY <3>1, <2>a
    <3>3. g[k + 2] = Glue(g[k + 1], tt[k + 2])
      BY <3>1, <1>c
    <3>4. tt[k + 2] = ss[k + 2] /\ f[k + 1] = g[k + 1]
      BY <1>a, <3>1, <2>4
    <3>5. (k + 1) + 1 = k + 2 /\ k + 1 \in Nat
      OBVIOUS
    <3> QED
      BY <3>2, <3>3, <3>4, <3>5
  <2> HIDE DEF T
  <2>b. Len(ss) - 1 \in Nat
    BY <2>1
  <2>5. \A k \in 0..(Len(ss) - 1) : k \in T
    BY <2>b, <2>3, <2>4, UpTo
  <2>6. Len(ss) - 1 \in T /\ (Len(ss) - 1) + 1 = Len(ss)
    BY <2>1, <2>5
  <2>7. f[Len(ss)] = g[Len(ss)]
    BY <2>6 DEF T
  <2>8. Len(ss) + 1 \in 1..(Len(ss) + 1) /\ Len(ss) + 1 # 1 /\ (Len(ss) + 1) - 1 = Len(ss)
    BY <2>1
  <2>9. g[Len(ss) + 1] = Glue(g[Len(ss)], tt[Len(ss) + 1])
    BY <2>8, <1>c
  <2>10. FlattenSeq(tt) = Glue(FlattenSeq(ss), s)
    BY <1>1, <1>2, <2>2, <2>7, <2>9
  <2> QED
    BY <1>d, <2>10, GlueType DEF tt
<1> QED
  BY <1>3, <1>4

LEMMA Associates ==
    ASSUME NEW S, NEW s \in Seq(S), NEW t \in Seq(S), NEW u \in Seq(S)
    PROVE  s \o (t \o u) = (s \o t) \o u
BY ConcatAssociative

\* An appended element is the last one of the whole.
LEMMA AppendGlued ==
    ASSUME NEW S, NEW s \in Seq(S), NEW t \in Seq(S), NEW e \in S
    PROVE  s \o Append(t, e) = Append(s \o t, e)
<1> DEFINE one == <<e>>
<1>1. one \in Seq(S)
  OBVIOUS
<1>2. Append(t, e) = t \o one
  BY AppendIsConcat
<1>3. s \o t \in Seq(S)
  BY ConcatProperties
<1>4. Append(s \o t, e) = (s \o t) \o one
  BY <1>3, AppendIsConcat
<1> HIDE DEF one
<1>5. s \o (t \o one) = (s \o t) \o one
  BY <1>1, Associates
<1> QED
  BY <1>2, <1>4, <1>5

LEMMA FlattenStep ==
    ASSUME NEW S, NEW ss \in Seq(Seq(S)), NEW a \in Seq(Seq(S)), NEW e \in Seq(S),
           FlattenSeq(ss \o a) = FlattenSeq(ss) \o FlattenSeq(a)
    PROVE  FlattenSeq(ss \o Append(a, e)) = FlattenSeq(ss) \o FlattenSeq(Append(a, e))
<1>1. ss \o Append(a, e) = Append(ss \o a, e)
  BY AppendGlued
<1>2. ss \o a \in Seq(Seq(S))
  BY ConcatProperties
<1>3. FlattenSeq(Append(ss \o a, e)) = FlattenSeq(ss \o a) \o e
  BY <1>2, FlattenAppend
<1>4. FlattenSeq(Append(a, e)) = FlattenSeq(a) \o e
  BY FlattenAppend
<1>5. FlattenSeq(ss) \in Seq(S) /\ FlattenSeq(a) \in Seq(S)
  BY FlattenType
<1>6. FlattenSeq(ss) \o (FlattenSeq(a) \o e) = (FlattenSeq(ss) \o FlattenSeq(a)) \o e
  BY <1>5, Associates
<1> QED
  BY <1>1, <1>3, <1>4, <1>6

\* A prefix grows by the next element.
LEMMA SubSeqGrows ==
    ASSUME NEW S, NEW s \in Seq(S), NEW k \in 0..(Len(s) - 1)
    PROVE  /\ SubSeq(s, 1, k) \in Seq(S) /\ s[k + 1] \in S
           /\ SubSeq(s, 1, k + 1) = Append(SubSeq(s, 1, k), s[k + 1])
<1>1. Len(s) \in Nat /\ k + 1 \in 1..Len(s) /\ 1 \in 1..Len(s) /\ k + 1 \in 1..Len(s) /\ (k + 1) - 1 = k /\ k \in Int
  OBVIOUS
<1>2. s[k + 1] \in S /\ \A i \in 1..k : s[i] \in S
  BY <1>1, ElementOfSeq
<1>3. SubSeq(s, 1, k) \in Seq(S)
  BY <1>1, <1>2, SubSeqProperties
<1>4. SubSeq(s, 1, k + 1) = SubSeq(s, 1, (k + 1) - 1) \o <<s[k + 1]>>
  BY <1>1, SubSeqRecursiveSecond
<1>5. SubSeq(s, 1, k + 1) = SubSeq(s, 1, k) \o <<s[k + 1]>>
  BY <1>1, <1>4
<1>6. Append(SubSeq(s, 1, k), s[k + 1]) = SubSeq(s, 1, k) \o <<s[k + 1]>>
  BY <1>2, <1>3, AppendIsConcat
<1> QED
  BY <1>2, <1>3, <1>5, <1>6

LEMMA FlattenConcat ==
    ASSUME NEW S, NEW ss \in Seq(Seq(S)), NEW tt \in Seq(Seq(S))
    PROVE  FlattenSeq(ss \o tt) = FlattenSeq(ss) \o FlattenSeq(tt)
<1> DEFINE F(a) == FlattenSeq(ss \o a) = FlattenSeq(ss) \o FlattenSeq(a)
           T == {k \in Nat : F(SubSeq(tt, 1, k))}
<1>0. Len(tt) \in Nat
  OBVIOUS
<1>1. 0 \in T
  <2>1. SubSeq(tt, 1, 0) = <<>>
    BY SubSeqEmpty
  <2>2. FlattenSeq(ss) \in Seq(S)
    BY FlattenType
  <2>3. FlattenSeq(ss) \o <<>> = FlattenSeq(ss) /\ ss \o <<>> = ss
    BY <2>2, ConcatEmptySeq
  <2>4. F(<<>>)
    BY <2>3, FlattenEmpty
  <2> HIDE DEF F
  <2>5. F(SubSeq(tt, 1, 0))
    BY <2>1, <2>4
  <2> QED
    BY <2>5
<1>2. ASSUME NEW k \in 0..(Len(tt) - 1), k \in T
      PROVE  k + 1 \in T
  <2>1. /\ SubSeq(tt, 1, k) \in Seq(Seq(S)) /\ tt[k + 1] \in Seq(S)
        /\ SubSeq(tt, 1, k + 1) = Append(SubSeq(tt, 1, k), tt[k + 1])
    BY SubSeqGrows
  <2>2. F(SubSeq(tt, 1, k))
    BY <1>2
  <2>3. F(Append(SubSeq(tt, 1, k), tt[k + 1]))
    BY <2>1, <2>2, FlattenStep
  <2> HIDE DEF F
  <2>4. F(SubSeq(tt, 1, k + 1))
    BY <2>1, <2>3
  <2> QED
    BY <2>4
<1> HIDE DEF T
<1>3. \A k \in 0..Len(tt) : k \in T
  BY <1>0, <1>1, <1>2, UpTo
<1>4. SubSeq(tt, 1, Len(tt)) = tt /\ Len(tt) \in T
  BY <1>0, <1>3, SubSeqFull
<1> QED
  BY <1>4 DEF T

LEMMA FlattenHead ==
    ASSUME NEW S, NEW ss \in Seq(Seq(S)), ss # <<>>
    PROVE  FlattenSeq(ss) = Head(ss) \o FlattenSeq(Tail(ss))
<1>1. Head(ss) \in Seq(S) /\ Tail(ss) \in Seq(Seq(S))
  BY HeadTailProperties
<1>2. <<Head(ss)>> \in Seq(Seq(S)) /\ ss = <<Head(ss)>> \o Tail(ss)
  BY <1>1
<1>3. FlattenSeq(<<Head(ss)>>) = Head(ss)
  <2>1. <<>> \in Seq(Seq(S)) /\ <<Head(ss)>> = Append(<<>>, Head(ss))
    BY <1>1, EmptySeq
  <2>2. FlattenSeq(Append(<<>>, Head(ss))) = FlattenSeq(<<>>) \o Head(ss)
    BY <1>1, <2>1, FlattenAppend
  <2> QED
    BY <1>1, <2>1, <2>2, FlattenEmpty, ConcatEmptySeq
<1> DEFINE one == <<Head(ss)>>
           rest == Tail(ss)
<1>4. one \in Seq(Seq(S)) /\ rest \in Seq(Seq(S)) /\ ss = one \o rest
  BY <1>1, <1>2
<1> HIDE DEF one, rest
<1>5. FlattenSeq(one \o rest) = FlattenSeq(one) \o FlattenSeq(rest)
  BY <1>4, FlattenConcat
<1> QED
  BY <1>3, <1>4, <1>5 DEF one, rest

-----------------------------------------------------------------------------
(***************************************************************************)
(* What the words found cover of the word.  Matches are lists of words     *)
(* found; in a grammar without joinable groups those of a word put         *)
(* together are the word.                                                  *)
(***************************************************************************)
\* What the words found are.
Texts(founds) == [i \in DOMAIN founds |-> founds[i].str]

\* A prefix that matches is not longer than the word.
LEMMA MatchLengthBound ==
    ASSUME NEW S, NEW word \in Seq(S), NEW p
    PROVE  MatchLength(p, word) \in 0..Len(word)
<1> DEFINE flags == Range(Nodes[p].flags)
           lengths == {n \in 1..Len(word) : SubSeq(word, 1, n) \in flags}
<1>1. MatchLength(p, word) = IF flags = {} THEN Len(word) ELSE IF lengths = {} THEN 0 ELSE Innermost(lengths)
  BY DEF MatchLength
<1>2. Len(word) \in Nat /\ lengths \subseteq 0..Len(word)
  OBVIOUS
<1> HIDE DEF flags, lengths
<1>3. lengths # {} => Innermost(lengths) \in lengths
  BY <1>2, InnermostIs
<1>4. CASE flags = {}
  BY <1>1, <1>2, <1>4
<1>5. CASE flags # {} /\ lengths = {}
  BY <1>1, <1>2, <1>5
<1>6. CASE flags # {} /\ lengths # {}
  BY <1>1, <1>2, <1>3, <1>6
<1> QED
  BY <1>4, <1>5, <1>6

\* What SelectInSeq finds.
LEMMA SelectedIs ==
    ASSUME NEW n, NEW I, I \subseteq 1..n, I # {}
    PROVE  Min(I) \in I /\ Min(I) # 0
<1>1. I \subseteq Nat /\ 0 \notin I
  OBVIOUS
<1> QED
  BY <1>1, MinIs

\* A full match is of the word, that of a prefix of its first characters.
LEMMA FullMatchIs ==
    ASSUME NEW walk, NEW word, NEW parameters
    PROVE  \/ FullMatch(walk, word, parameters) = <<>>
           \/ \E t : FullMatch(walk, word, parameters) = <<Found(t, word)>>
BY DEF FullMatch

LEMMA PrefixMatchIs ==
    ASSUME NEW walk, NEW word, NEW parameters
    PROVE  \/ PrefixMatch(walk, word, parameters) = <<>>
           \/ \E t : /\ MatchLength(At(t.pos), word) > 0
                     /\ PrefixMatch(walk, word, parameters) =
                            <<Found(t, SubSeq(word, 1, MatchLength(At(t.pos), word)))>>
<1> DEFINE I == {i \in 1..Len(walk) : At(walk[i].pos) \in parameters /\ MatchLength(At(walk[i].pos), word) > 0}
           i == IF I # {} THEN Min(I) ELSE 0
<1>1. SelectInSeq(walk, LAMBDA t : At(t.pos) \in parameters /\ MatchLength(At(t.pos), word) > 0) = i
  BY DEF SelectInSeq
<1>2. PrefixMatch(walk, word, parameters) =
        IF i = 0 THEN <<>> ELSE <<Found(walk[i], SubSeq(word, 1, MatchLength(At(walk[i].pos), word)))>>
  BY <1>1 DEF PrefixMatch
<1>3. I \subseteq 1..Len(walk)
  OBVIOUS
<1>4. I # {} => i \in I
  BY <1>3, SelectedIs
<1>5. i # 0 => MatchLength(At(walk[i].pos), word) > 0
  BY <1>4
<1> HIDE DEF i
<1> QED
  BY <1>2, <1>5

\* A word is its first n characters and the others.
LEMMA Splits ==
    ASSUME NEW S, NEW word \in Seq(S), NEW n \in 0..Len(word)
    PROVE  /\ SubSeq(word, 1, n) \in Seq(S) /\ Without(word, n) \in Seq(S)
           /\ SubSeq(word, 1, n) \o Without(word, n) = word
           /\ Len(SubSeq(word, 1, n)) = n
<1>1. Len(word) \in Nat /\ n \in Int /\ Len(word) \in Int /\ 1 \in 1..(Len(word) + 1) /\ n \in (1 - 1)..Len(word)
      /\ Len(word) \in n..Len(word) /\ n + 1 \in Int
  OBVIOUS
<1>2. \A i \in 1..Len(word) : word[i] \in S
  BY ElementOfSeq
<1>3. SubSeq(word, 1, n) \in Seq(S) /\ Len(SubSeq(word, 1, n)) = n
  BY <1>1, <1>2, SubSeqProperties
<1>4. SubSeq(word, n + 1, Len(word)) \in Seq(S)
  BY <1>1, <1>2, SubSeqProperties
<1>5. SubSeq(word, 1, n) \o SubSeq(word, n + 1, Len(word)) = SubSeq(word, 1, Len(word))
  BY <1>1, ConcatAdjacentSubSeq
<1>6. SubSeq(word, 1, Len(word)) = word
  BY SubSeqFull
<1> QED
  BY <1>3, <1>4, <1>5, <1>6 DEF Without

\* What the words found are of the word that was matched, rest being left.
Covers(founds, rest, word, S) ==
    /\ IsSeq(founds) /\ founds # <<>>
    /\ Texts(founds) \in Seq(Seq(S)) /\ rest \in Seq(S)
    /\ FlattenSeq(Texts(founds)) \o rest = word

\* What one match leaves of a word, and a match more.
LEMMA TextsOfOne ==
    ASSUME NEW S, NEW t, NEW str \in Seq(S), NEW rest \in Seq(S)
    PROVE  Covers(<<Found(t, str)>>, rest, str \o rest, S)
<1> DEFINE one == <<Found(t, str)>>
<1>1. Texts(one) = <<str>>
  BY DEF Texts, Found
<1>2. <<str>> \in Seq(Seq(S)) /\ <<>> \in Seq(Seq(S)) /\ <<str>> = Append(<<>>, str)
  OBVIOUS
<1>3. FlattenSeq(Append(<<>>, str)) = FlattenSeq(<<>>) \o str
  BY <1>2, FlattenAppend
<1>4. FlattenSeq(<<str>>) = str
  BY <1>2, <1>3, FlattenEmpty, ConcatEmptySeq
<1>5. IsSeq(one) /\ one # <<>>
  BY SeqOfOne
<1> HIDE DEF one
<1>6. Covers(one, rest, str \o rest, S)
  BY <1>1, <1>2, <1>4, <1>5 DEF Covers
<1> QED
  BY <1>6 DEF one

LEMMA TextsAppend ==
    ASSUME NEW S, NEW founds, NEW rest, NEW word, Covers(founds, rest, word, S),
           NEW t, NEW n \in 0..Len(rest)
    PROVE  Covers(Append(founds, Found(t, SubSeq(rest, 1, n))), Without(rest, n), word, S)
<1> DEFINE e == Found(t, SubSeq(rest, 1, n))
           new == Append(founds, e)
           head == SubSeq(rest, 1, n)
           tail == Without(rest, n)
<1>1. IsSeq(founds) /\ Texts(founds) \in Seq(Seq(S)) /\ rest \in Seq(S) /\ FlattenSeq(Texts(founds)) \o rest = word
  BY DEF Covers
<1>2. head \in Seq(S) /\ tail \in Seq(S) /\ head \o tail = rest
  BY <1>1, Splits
<1>3. IsSeq(new) /\ Len(new) = Len(founds) + 1 /\ new[Len(founds) + 1] = e /\ \A i \in 1..Len(founds) : new[i] = founds[i]
  BY <1>1, SeqAppend
<1>4. Len(founds) \in Nat /\ DOMAIN founds = 1..Len(founds) /\ DOMAIN new = 1..(Len(founds) + 1)
  BY <1>1, <1>3, SeqLen
<1>5. e.str = head
  BY DEF Found
<1> HIDE DEF e, new, head, tail
<1>6. DOMAIN Texts(founds) = 1..Len(founds) /\ Len(Texts(founds)) = Len(founds)
  BY <1>1, <1>4 DEF Texts
<1>7. Texts(new) = Append(Texts(founds), head)
  <2>1. Append(Texts(founds), head) \in Seq(Seq(S)) /\ Len(Append(Texts(founds), head)) = Len(founds) + 1
        /\ Append(Texts(founds), head)[Len(founds) + 1] = head
    BY <1>1, <1>2, <1>6, AppendProperties
  <2>2. \A i \in 1..Len(founds) : Append(Texts(founds), head)[i] = Texts(founds)[i]
    BY <1>1, <1>2, <1>6, AppendProperties
  <2>3. Append(Texts(founds), head) = [i \in 1..(Len(founds) + 1) |-> Append(Texts(founds), head)[i]]
    BY <2>1, LenProperties
  <2>4. \A i \in 1..(Len(founds) + 1) : Append(Texts(founds), head)[i] = new[i].str
    <3> TAKE i \in 1..(Len(founds) + 1)
    <3>1. CASE i = Len(founds) + 1
      BY <3>1, <2>1, <1>3, <1>5
    <3>2. CASE i \in 1..Len(founds)
      <4>1. Texts(founds)[i] = founds[i].str
        BY <3>2, <1>4 DEF Texts
      <4> QED
        BY <4>1, <3>2, <2>2, <1>3
    <3>3. Len(founds) \in Nat
      BY <1>4
    <3>4. i = Len(founds) + 1 \/ i \in 1..Len(founds)
      BY <3>3
    <3> QED
      BY <3>1, <3>2, <3>4
  <2>5. Texts(new) = [i \in 1..(Len(founds) + 1) |-> new[i].str]
    BY <1>4 DEF Texts
  <2> QED
    BY <2>3, <2>4, <2>5
<1>8. FlattenSeq(Append(Texts(founds), head)) = FlattenSeq(Texts(founds)) \o head
  BY <1>1, <1>2, FlattenAppend
<1>9. FlattenSeq(Texts(founds)) \in Seq(S)
  BY <1>1, FlattenType
<1>10. FlattenSeq(Texts(founds)) \o (head \o tail) = (FlattenSeq(Texts(founds)) \o head) \o tail
  <2>1. head \in Seq(S) /\ tail \in Seq(S)
    BY <1>2
  <2> QED
    BY <1>9, <2>1, Associates
<1>11. FlattenSeq(Texts(new)) \o tail = word
  BY <1>1, <1>2, <1>7, <1>8, <1>10
<1>12. Texts(new) \in Seq(Seq(S))
  BY <1>1, <1>2, <1>7, AppendProperties
<1>13. new # <<>>
  <2>1. Len(new) # 0
    BY <1>3, <1>4
  <2> QED
    BY <2>1
<1> QED
  BY <1>2, <1>3, <1>11, <1>12, <1>13 DEF Covers, new, e, tail, head

-----------------------------------------------------------------------------
(***************************************************************************)
(* match_joined_sequence(): the siblings of a parameter, joined one after  *)
(* the other.                                                              *)
(***************************************************************************)
\* f is what joining n siblings one after the other leaves of j.
IsJoining(f, j, n) == f = [k \in 0..n |-> IF k = 0 THEN j ELSE JoinSibling(f[k - 1])]

LEMMA JoiningExists ==
    ASSUME NEW j, NEW n \in Nat
    PROVE  \E f : IsJoining(f, j, n)
<1> DEFINE T == {k \in Nat : \E f : IsJoining(f, j, k)}
<1>1. 0 \in T
  <2>1. IsJoining([k \in 0..0 |-> j], j, 0)
    BY DEF IsJoining
  <2> QED
    BY <2>1
<1>2. ASSUME NEW k \in 0..(n - 1), k \in T
      PROVE  k + 1 \in T
  <2>1. PICK g : IsJoining(g, j, k)
    BY <1>2
  <2> DEFINE f == [m \in 0..(k + 1) |-> IF m = k + 1 THEN JoinSibling(g[k]) ELSE g[m]]
  <2>2. f = [m \in 0..(k + 1) |-> IF m = 0 THEN j ELSE JoinSibling(f[m - 1])]
    BY <2>1 DEF IsJoining
  <2>3. IsJoining(f, j, k + 1)
    BY <2>2 DEF IsJoining
  <2> QED
    BY <2>3
<1> HIDE DEF T
<1>3. \A k \in 0..n : k \in T
  BY <1>1, <1>2, UpTo
<1> QED
  BY <1>3 DEF T

LEMMA JoiningSteps ==
    ASSUME NEW f, NEW j, NEW n \in Nat, IsJoining(f, j, n)
    PROVE  f[0] = j /\ \A k \in 0..(n - 1) : f[k + 1] = JoinSibling(f[k])
BY DEF IsJoining

\* What was joined so far and what is left are the word.
CoversSo(j, word, S) ==
    /\ {"at", "rest", "founds"} \subseteq DOMAIN j
    /\ Covers(j.founds, j.rest, word, S)

\* The loop of match_joined_sequence() joins no character twice and drops
\* none.
LEMMA JoinSiblingCovers ==
    ASSUME NEW S, NEW word, NEW j, CoversSo(j, word, S)
    PROVE  CoversSo(JoinSibling(j), word, S)
<1> DEFINE t == j.at
           n == MatchLength(At(t.pos), j.rest)
           repeats == At(t.pos) \in Repeating
           next == [at |-> IF repeats THEN t ELSE Step(t), rest |-> Without(j.rest, n),
                    founds |-> Append(j.founds, Found(t, SubSeq(j.rest, 1, n)))]
           past == [j EXCEPT !.at = Step(t)]
<1>1. JoinSibling(j) \in {j, next, past}
  BY DEF JoinSibling
<1>2. j.rest \in Seq(S) /\ Covers(j.founds, j.rest, word, S)
  BY DEF CoversSo, Covers
<1>3. n \in 0..Len(j.rest)
  BY <1>2, MatchLengthBound
<1> HIDE DEF n
<1>4. Covers(Append(j.founds, Found(t, SubSeq(j.rest, 1, n))), Without(j.rest, n), word, S)
  BY <1>2, <1>3, TextsAppend
<1>5. CoversSo(next, word, S)
  BY <1>4 DEF CoversSo
<1>6. CoversSo(past, word, S)
  <2>1. DOMAIN past = DOMAIN j /\ past.rest = j.rest /\ past.founds = j.founds
    BY DEF CoversSo
  <2> QED
    BY <2>1 DEF CoversSo
<1> QED
  BY <1>1, <1>5, <1>6

LEMMA JoinedRestCovers ==
    ASSUME NEW S, NEW word, NEW t, NEW rest, NEW founds, Covers(founds, rest, word, S),
           IsFiniteSet(DOMAIN Nodes)
    PROVE  \/ JoinedRest(t, rest, founds) = <<>>
           \/ Covers(JoinedRest(t, rest, founds), <<>>, word, S)
<1> DEFINE siblings == {q \in DOMAIN Nodes : q # <<>> /\ Front(q) = Parent(founds[1].at.pos)}
           max == Len(rest) + Cardinality(siblings)
           j == [at |-> t, rest |-> rest, founds |-> founds]
           joined == CHOOSE f : f = [n \in 0..max |-> IF n = 0 THEN j ELSE JoinSibling(f[n - 1])]
           last == joined[max]
<1>1. JoinedRest(t, rest, founds) = IF last.rest = <<>> THEN last.founds ELSE <<>>
  BY DEF JoinedRest, Covering
<1>2. max \in Nat
  <2>1. rest \in Seq(S)
    BY DEF Covers
  <2>2. siblings \subseteq DOMAIN Nodes
    OBVIOUS
  <2> HIDE DEF siblings
  <2>3. Cardinality(siblings) \in Nat
    BY <2>2, FS_Subset, FS_CardinalityType
  <2> QED
    BY <2>1, <2>3
<1>3. CoversSo(j, word, S)
  BY DEF CoversSo
<1> HIDE DEF max, j
<1>4. \E f : IsJoining(f, j, max)
  BY <1>2, JoiningExists
<1>5. IsJoining(joined, j, max)
  BY <1>4 DEF IsJoining
<1> HIDE DEF joined
<1>6. joined[0] = j /\ \A k \in 0..(max - 1) : joined[k + 1] = JoinSibling(joined[k])
  BY <1>2, <1>5, JoiningSteps
<1> DEFINE T == {k \in Nat : CoversSo(joined[k], word, S)}
<1>7. 0 \in T
  BY <1>3, <1>6
<1>8. ASSUME NEW k \in 0..(max - 1), k \in T
      PROVE  k + 1 \in T
  <2>1. CoversSo(joined[k], word, S) /\ joined[k + 1] = JoinSibling(joined[k])
    BY <1>6, <1>8
  <2> QED
    BY <2>1, JoinSiblingCovers
<1> HIDE DEF T
<1>9. \A k \in 0..max : k \in T
  BY <1>2, <1>7, <1>8, UpTo
<1>10. CoversSo(last, word, S)
  BY <1>2, <1>9 DEF T
<1> HIDE DEF last
<1>11. last.rest = <<>> => Covers(last.founds, <<>>, word, S)
  BY <1>10 DEF CoversSo
<1> QED
  BY <1>1, <1>11

\* A list of matches that read the word.
IsReading(founds, word, S) == founds = <<>> \/ Covers(founds, <<>>, word, S)

\* What match_joined_sequence() finds reads the word.
LEMMA JoinedSequenceReads ==
    ASSUME NEW S, NEW word \in Seq(S), NEW walk, NEW parameters, IsFiniteSet(DOMAIN Nodes)
    PROVE  IsReading(JoinedSequence(walk, word, parameters), word, S)
<1> DEFINE first == PrefixMatch(walk, word, parameters)
<1>1. CASE first = <<>>
  <2>1. JoinedSequence(walk, word, parameters) = <<>>
    BY <1>1 DEF JoinedSequence, JoinedBehind
  <2> QED
    BY <2>1 DEF IsReading
<1>2. CASE first # <<>>
  <2>1. PICK t : /\ MatchLength(At(t.pos), word) > 0
                 /\ first = <<Found(t, SubSeq(word, 1, MatchLength(At(t.pos), word)))>>
    BY <1>2, PrefixMatchIs
  <2> DEFINE n == MatchLength(At(t.pos), word)
             str == SubSeq(word, 1, n)
             u == [first[1].at EXCEPT !.ignore = TRUE]
             from == IF At(u.pos) \in Repeating THEN u ELSE Step(u)
  <2>2. n \in 0..Len(word)
    BY MatchLengthBound
  <2>3. first = <<Found(t, str)>> /\ first[1].str = str
    BY <2>1 DEF Found
  <2> HIDE DEF n, first
  <2>4. str \in Seq(S) /\ Without(word, n) \in Seq(S) /\ str \o Without(word, n) = word /\ Len(str) = n
    BY <2>2, Splits
  <2> HIDE DEF str
  <2>5. Covers(first, Without(word, n), word, S)
    BY <2>3, <2>4, TextsOfOne
  <2>6. \/ JoinedRest(from, Without(word, n), first) = <<>>
        \/ Covers(JoinedRest(from, Without(word, n), first), <<>>, word, S)
    BY <2>5, JoinedRestCovers
  <2>7. str = word => Covers(first, <<>>, word, S)
    <3>1. SUFFICES ASSUME str = word PROVE Covers(<<Found(t, word)>>, <<>>, word, S)
      BY <2>3
    <3>2. <<>> \in Seq(S) /\ word \o <<>> = word
      BY ConcatEmptySeq, EmptySeq
    <3>3. Covers(<<Found(t, word)>>, <<>>, word \o <<>>, S)
      BY <3>2, TextsOfOne
    <3> QED
      BY <3>2, <3>3
  <2> HIDE DEF from
  <2>8. \/ JoinedSequence(walk, word, parameters) = <<>>
        \/ JoinedSequence(walk, word, parameters) = JoinedRest(from, Without(word, n), first)
        \/ str = word /\ JoinedSequence(walk, word, parameters) = first
    BY <1>2, <2>3, <2>4 DEF JoinedSequence, JoinedBehind, first, from
  <2> QED
    BY <2>6, <2>7, <2>8 DEF IsReading
<1> QED
  BY <1>1, <1>2

-----------------------------------------------------------------------------
(***************************************************************************)
(* match_joined_params(), and what try_match() finds of a word.            *)
(***************************************************************************)
\* f is what joining n flags one after the other leaves of j.
IsFlagJoining(f, j, n, flagsOnly, prefix) ==
    f = [k \in 0..n |-> IF k = 0 THEN j ELSE JoinFlag(f[k - 1], flagsOnly, prefix)]

LEMMA FlagJoiningExists ==
    ASSUME NEW j, NEW n \in Nat, NEW flagsOnly, NEW prefix
    PROVE  \E f : IsFlagJoining(f, j, n, flagsOnly, prefix)
<1> DEFINE T == {k \in Nat : \E f : IsFlagJoining(f, j, k, flagsOnly, prefix)}
<1>1. 0 \in T
  <2>1. IsFlagJoining([k \in 0..0 |-> j], j, 0, flagsOnly, prefix)
    BY DEF IsFlagJoining
  <2> QED
    BY <2>1
<1>2. ASSUME NEW k \in 0..(n - 1), k \in T
      PROVE  k + 1 \in T
  <2>1. PICK g : IsFlagJoining(g, j, k, flagsOnly, prefix)
    BY <1>2
  <2> DEFINE f == [m \in 0..(k + 1) |-> IF m = k + 1 THEN JoinFlag(g[k], flagsOnly, prefix) ELSE g[m]]
  <2>2. f = [m \in 0..(k + 1) |-> IF m = 0 THEN j ELSE JoinFlag(f[m - 1], flagsOnly, prefix)]
    BY <2>1 DEF IsFlagJoining
  <2>3. IsFlagJoining(f, j, k + 1, flagsOnly, prefix)
    BY <2>2 DEF IsFlagJoining
  <2> QED
    BY <2>3
<1> HIDE DEF T
<1>3. \A k \in 0..n : k \in T
  BY <1>1, <1>2, UpTo
<1> QED
  BY <1>3 DEF T

\* A record with a list of matches, and that joining a flag keeps it one.
HasFounds(j) == "founds" \in DOMAIN j /\ IsSeq(j.founds)

LEMMA PrefixMatchIsSeq ==
    ASSUME NEW walk, NEW word, NEW parameters
    PROVE  IsSeq(PrefixMatch(walk, word, parameters))
BY PrefixMatchIs, SeqOfOne

LEMMA JoinFlagFounds ==
    ASSUME NEW j, HasFounds(j), NEW flagsOnly, NEW prefix
    PROVE  HasFounds(JoinFlag(j, flagsOnly, prefix))
<1> DEFINE found == PrefixMatch(Walk(j.parser.pos), j.rest, IF flagsOnly THEN Flags ELSE Parameters)
           str == found[1].str
           behind == Without(j.rest, Len(str))
           next == [parser |-> AddMatches(j.parser, found), founds |-> j.founds \o found,
                    rest |-> IF behind # <<>> /\ ~IsPrefix(prefix, behind) /\ prefix # str
                             THEN prefix \o behind ELSE behind]
<1>1. JoinFlag(j, flagsOnly, prefix) \in {j, next}
  BY DEF JoinFlag, JoinFirst, JoinFound
<1>2. IsSeq(found)
  BY PrefixMatchIsSeq
<1>3. next.founds = j.founds \o found /\ "founds" \in DOMAIN next
  OBVIOUS
<1> HIDE DEF found, next
<1>4. IsSeq(j.founds \o found)
  BY <1>2, SeqConcat DEF HasFounds
<1> QED
  BY <1>1, <1>3, <1>4 DEF HasFounds

LEMMA JoinedIsSeq ==
    ASSUME NEW S, NEW word \in Seq(S), NEW p, NEW flagsOnly, NEW prefix
    PROVE  IsSeq(Joined(p, word, flagsOnly, prefix))
<1> DEFINE max == Len(word)
           j == [parser |-> p, rest |-> word, founds |-> <<>>]
           joined == CHOOSE f : f = [n \in 0..max |-> IF n = 0 THEN j ELSE JoinFlag(f[n - 1], flagsOnly, prefix)]
           last == joined[max]
<1>1. Joined(p, word, flagsOnly, prefix) \in {last.founds, <<>>}
  BY DEF Joined, JoinedFounds
<1>2. max \in Nat
  OBVIOUS
<1>3. HasFounds(j)
  BY SeqOfOne DEF HasFounds
<1> HIDE DEF max, j
<1>4. \E f : IsFlagJoining(f, j, max, flagsOnly, prefix)
  BY <1>2, FlagJoiningExists
<1>5. IsFlagJoining(joined, j, max, flagsOnly, prefix)
  BY <1>4 DEF IsFlagJoining
<1> HIDE DEF joined, last
<1>6. joined[0] = j /\ \A k \in 0..(max - 1) : joined[k + 1] = JoinFlag(joined[k], flagsOnly, prefix)
  BY <1>2, <1>5 DEF IsFlagJoining
<1> DEFINE T == {k \in Nat : HasFounds(joined[k])}
<1>7. 0 \in T
  BY <1>3, <1>6
<1>8. ASSUME NEW k \in 0..(max - 1), k \in T
      PROVE  k + 1 \in T
  <2>1. HasFounds(joined[k]) /\ joined[k + 1] = JoinFlag(joined[k], flagsOnly, prefix)
    BY <1>6, <1>8
  <2> QED
    BY <2>1, JoinFlagFounds
<1> HIDE DEF T
<1>9. \A k \in 0..max : k \in T
  BY <1>2, <1>7, <1>8, UpTo
<1>10. HasFounds(last)
  BY <1>2, <1>9 DEF T, last
<1> QED
  BY <1>1, <1>10, SeqOfOne DEF HasFounds

\* match_joined_params() finds a list, and nothing in a grammar without
\* joinable groups.
LEMMA JoinedFlagsIsSeq ==
    ASSUME NEW S, NEW word \in Seq(S), NEW t, NEW flagsOnly
    PROVE  IsSeq(JoinedFlags(t, word, flagsOnly)) /\ (Joinable = {} => JoinedFlags(t, word, flagsOnly) = <<>>)
<1>1. \A g : IsSeq(JoinedIn(g, word, flagsOnly))
  BY JoinedIsSeq DEF JoinedIn
<1>2. ASSUME NEW groups
      PROVE  IsSeq(JoinedInOneOf(groups, word, flagsOnly))
  BY <1>1, SeqOfOne DEF JoinedInOneOf
<1> QED
  BY <1>2, SeqOfOne DEF JoinedFlags

\* match_full() reads the whole word or finds nothing.
LEMMA FullMatchReads ==
    ASSUME NEW S, NEW word \in Seq(S), NEW walk, NEW parameters
    PROVE  IsReading(FullMatch(walk, word, parameters), word, S)
<1>1. CASE FullMatch(walk, word, parameters) = <<>>
  BY <1>1 DEF IsReading
<1>2. ASSUME NEW t, FullMatch(walk, word, parameters) = <<Found(t, word)>>
      PROVE  IsReading(FullMatch(walk, word, parameters), word, S)
  <2>1. <<>> \in Seq(S) /\ word \o <<>> = word
    BY ConcatEmptySeq, EmptySeq
  <2>2. Covers(<<Found(t, word)>>, <<>>, word \o <<>>, S)
    BY <2>1, TextsOfOne
  <2> QED
    BY <1>2, <2>1, <2>2 DEF IsReading
<1> QED
  BY <1>1, <1>2, FullMatchIs

LEMMA ReadingIsSeq ==
    ASSUME NEW S, NEW word, NEW founds, IsReading(founds, word, S)
    PROVE  IsSeq(founds)
BY SeqOfOne DEF IsReading, Covers

\* The first attempt that found something.
LEMMA FirstOfIs ==
    ASSUME NEW attempts
    PROVE  FirstOf(attempts) = <<>> \/ \E i \in 1..Len(attempts) : FirstOf(attempts) = attempts[i]
<1> DEFINE I == {i \in 1..Len(attempts) : attempts[i] # <<>>}
<1>1. FirstOf(attempts) = LET i == IF I # {} THEN Min(I) ELSE 0 IN IF i = 0 THEN <<>> ELSE attempts[i]
  BY DEF FirstOf, SelectInSeq
<1>2. I \subseteq 1..Len(attempts)
  OBVIOUS
<1>3. I # {} => Min(I) \in I
  BY <1>2, SelectedIs
<1> QED
  BY <1>1, <1>3

\* What the parser found of a word: a list, and without joinable groups a
\* reading of the word.
IsFound(founds, word, S) == IsSeq(founds) /\ (Joinable = {} => IsReading(founds, word, S))

\* What try_match() finds, whichever attempt found it.
LEMMA MatchesFound ==
    ASSUME NEW S, NEW word \in Seq(S), NEW p, IsFiniteSet(DOMAIN Nodes)
    PROVE  IsFound(Matches(p, word), word, S)
<1> DEFINE t == p.pos
           walk == Walk(p.pos)
           attempts == Attempts(t, word, walk)
<1>1. \/ Matches(p, word) = <<Found(p.pos, word)>> \/ Matches(p, word) = FirstOf(attempts)
  BY DEF Matches
<1>2. IsFound(<<Found(p.pos, word)>>, word, S)
  <2>1. <<>> \in Seq(S) /\ word \o <<>> = word
    BY ConcatEmptySeq, EmptySeq
  <2>2. Covers(<<Found(p.pos, word)>>, <<>>, word \o <<>>, S)
    BY <2>1, TextsOfOne
  <2>3. IsReading(<<Found(p.pos, word)>>, word, S)
    BY <2>1, <2>2 DEF IsReading
  <2> QED
    BY <2>3, SeqOfOne DEF IsFound
<1>3. \A i \in 1..6 : IsFound(attempts[i], word, S)
  <2> HIDE DEF walk, t
  <2>1. \A parameters : IsFound(FullMatch(walk, word, parameters), word, S)
    BY FullMatchReads, ReadingIsSeq DEF IsFound
  <2>2. \A parameters : IsFound(JoinedSequence(walk, word, parameters), word, S)
    BY JoinedSequenceReads, ReadingIsSeq DEF IsFound
  <2>3. \A flagsOnly : IsFound(JoinedFlags(t, word, flagsOnly), word, S)
    BY JoinedFlagsIsSeq DEF IsFound, IsReading
  <2> DEFINE F(founds) == IsFound(founds, word, S)
  <2>4. /\ F(FullMatch(walk, word, Flags)) /\ F(JoinedFlags(t, word, TRUE))
        /\ F(JoinedSequence(walk, word, Flags)) /\ F(FullMatch(walk, word, Flagless))
        /\ F(JoinedSequence(walk, word, Parameters)) /\ F(JoinedFlags(t, word, FALSE))
    BY <2>1, <2>2, <2>3
  <2> HIDE DEF F
  <2>a. F(attempts[1]) /\ F(attempts[2]) /\ F(attempts[3]) /\ F(attempts[4]) /\ F(attempts[5]) /\ F(attempts[6])
    BY <2>4 DEF Attempts
  <2>5. \A i \in 1..6 : F(attempts[i])
    BY <2>a
  <2> QED
    BY <2>5 DEF F
<1>4. Len(attempts) = 6
  BY DEF Attempts
<1> HIDE DEF attempts
<1>5. IsFound(<<>>, word, S)
  BY SeqOfOne DEF IsFound, IsReading
<1>6. IsFound(FirstOf(attempts), word, S)
  BY <1>3, <1>4, <1>5, FirstOfIs
<1> QED
  BY <1>1, <1>2, <1>6

-----------------------------------------------------------------------------
(***************************************************************************)
(* add_match(): the mapping of a word that was found.                      *)
(***************************************************************************)
\* A mapping of a word, and a list of them.
IsArg(a) ==
    /\ {"arg", "match", "repeat", "startsRepeatGroup", "blocked", "conflict"} \subseteq DOMAIN a
    /\ a.repeat \in Nat

IsArgs(args) == IsSeq(args) /\ \A i \in 1..Len(args) : IsArg(args[i])

\* A parser with a list of mappings.
HasArgs(p) == "args" \in DOMAIN p /\ IsArgs(p.args)

\* A mapping b that is the mapping a, but perhaps in conflict with a later one.
SameMapping(a, b) ==
    /\ b.arg = a.arg /\ b.match = a.match /\ b.repeat = a.repeat
    /\ b.startsRepeatGroup = a.startsRepeatGroup /\ b.blocked = a.blocked
    /\ a.conflict => b.conflict

\* What add_match() makes of args: a mapping of the text str more.
Adds(args, more, str) ==
    /\ IsArgs(more) /\ Len(more) = Len(args) + 1
    /\ \A i \in 1..Len(args) : SameMapping(args[i], more[i])
    /\ LET new == more[Len(args) + 1]
       IN /\ new.arg = str /\ new.repeat = OccurrencesOf(args, At(new.match))
          /\ new.startsRepeatGroup \/ (Conflicting(args, new.match) # {} => new.conflict)

\* How often a parameter was mapped is a number, not 0 once it was.
LEMMA OccurrencesType ==
    ASSUME NEW args, IsArgs(args), NEW p
    PROVE  OccurrencesOf(args, p) \in Nat
<1> DEFINE I == {i \in 1..Len(args) : args[i].match # <<>> /\ At(args[i].match) = p}
           k == IF I # {} THEN Max(I) ELSE 0
<1>1. OccurrencesOf(args, p) = IF k = 0 THEN 0 ELSE args[k].repeat + 1
  BY DEF OccurrencesOf, SelectLastInSeq
<1>2. Len(args) \in Nat /\ I \subseteq 0..Len(args)
  BY SeqLen DEF IsArgs
<1>3. I # {} => Max(I) \in I
  <2> HIDE DEF I
  <2> QED
    BY <1>2, MaxIs
<1>4. k # 0 => k \in 1..Len(args)
  BY <1>3
<1>5. k # 0 => args[k].repeat \in Nat
  BY <1>4 DEF IsArgs, IsArg
<1> HIDE DEF k
<1> QED
  BY <1>1, <1>5

LEMMA OccurrencesPositive ==
    ASSUME NEW args, IsArgs(args), NEW p, NEW i \in 1..Len(args),
           args[i].match # <<>>, At(args[i].match) = p
    PROVE  OccurrencesOf(args, p) > 0
<1> DEFINE I == {j \in 1..Len(args) : args[j].match # <<>> /\ At(args[j].match) = p}
           k == IF I # {} THEN Max(I) ELSE 0
<1>1. OccurrencesOf(args, p) = IF k = 0 THEN 0 ELSE args[k].repeat + 1
  BY DEF OccurrencesOf, SelectLastInSeq
<1>2. Len(args) \in Nat /\ I \subseteq 0..Len(args) /\ i \in I
  BY SeqLen DEF IsArgs
<1>3. Max(I) \in I /\ I # {}
  <2> HIDE DEF I
  <2> QED
    BY <1>2, MaxIs
<1>4. k \in 1..Len(args) /\ k # 0
  BY <1>3
<1>5. args[k].repeat \in Nat
  BY <1>4 DEF IsArgs, IsArg
<1> HIDE DEF k
<1> QED
  BY <1>1, <1>4, <1>5

\* A mapping is marked as in conflict.
Mark(a, b) == [a EXCEPT !.conflict = @ \/ b]

LEMMA MarkIs ==
    ASSUME NEW a, IsArg(a), NEW b \in BOOLEAN
    PROVE  IsArg(Mark(a, b)) /\ SameMapping(a, Mark(a, b))
<1>1. DOMAIN Mark(a, b) = DOMAIN a
  BY DEF Mark
<1>2. /\ Mark(a, b).arg = a.arg /\ Mark(a, b).match = a.match /\ Mark(a, b).repeat = a.repeat
      /\ Mark(a, b).startsRepeatGroup = a.startsRepeatGroup /\ Mark(a, b).blocked = a.blocked
  BY DEF Mark, IsArg
<1>3. Mark(a, b).conflict = (a.conflict \/ b)
  BY DEF Mark, IsArg
<1>4. a.conflict => Mark(a, b).conflict
  BY <1>3
<1> QED
  BY <1>1, <1>2, <1>4 DEF IsArg, SameMapping

\* add_match() adds one mapping, of the text that was found; it may mark
\* mappings before it and leaves them otherwise alone.
LEMMA RecordAdds ==
    ASSUME NEW p, HasArgs(p), NEW found, NEW t, NEW clash,
           t.repeatStarts \/ clash = Conflicting(p.args, found.at.pos)
    PROVE  HasArgs(Record(p, found, t, clash)) /\ Adds(p.args, Record(p, found, t, clash).args, found.str)
<1> DEFINE s == found.at.pos
           marked == [i \in DOMAIN p.args |-> [p.args[i] EXCEPT !.conflict = @ \/ i \in clash]]
           new == [index |-> p.index, arg |-> found.str, match |-> s,
                   repeat |-> OccurrencesOf(p.args, At(s)),
                   startsRepeatGroup |-> t.repeatStarts, blocked |-> FALSE, conflict |-> clash # {}]
           missing == p.missing \o NewCandidates(p, t.repeatStarts, s, p.index)
           rest == StillMissing(missing, s)
           q == [p EXCEPT !.pos = t, !.args = Append(marked, new), !.missing = rest]
<1>1. Record(p, found, t, clash) = q
  BY DEF Record
<1>2. IsSeq(p.args) /\ Len(p.args) \in Nat /\ DOMAIN p.args = 1..Len(p.args)
  BY SeqLen DEF HasArgs, IsArgs
<1>3. \A i \in 1..Len(p.args) : marked[i] = Mark(p.args[i], i \in clash)
  BY <1>2 DEF Mark
<1>4. \A i \in 1..Len(p.args) : IsArg(marked[i]) /\ SameMapping(p.args[i], marked[i])
  <2> TAKE i \in 1..Len(p.args)
  <2>1. IsArg(p.args[i]) /\ (i \in clash) \in BOOLEAN
    BY DEF HasArgs, IsArgs
  <2>2. IsArg(Mark(p.args[i], i \in clash)) /\ SameMapping(p.args[i], Mark(p.args[i], i \in clash))
    BY <2>1, MarkIs
  <2> QED
    BY <1>3, <2>2
<1>5. IsSeq(marked) /\ Len(marked) = Len(p.args)
  <2>1. marked = [i \in 1..Len(p.args) |-> marked[i]]
    BY <1>2
  <2>2. marked \in [1..Len(p.args) -> {marked[i] : i \in 1..Len(p.args)}]
    BY <2>1
  <2> HIDE DEF marked
  <2>3. marked \in Seq({marked[i] : i \in 1..Len(p.args)}) /\ Len(marked) = Len(p.args)
    BY <1>2, <2>2
  <2> QED
    BY <2>3 DEF IsSeq
<1>6. IsArg(new)
  BY OccurrencesType DEF IsArg, HasArgs
<1>7. /\ new.arg = found.str /\ new.repeat = OccurrencesOf(p.args, At(new.match))
      /\ new.startsRepeatGroup = t.repeatStarts /\ new.match = s /\ new.conflict = (clash # {})
  OBVIOUS
<1>8. new.startsRepeatGroup \/ (Conflicting(p.args, new.match) # {} => new.conflict)
  BY <1>7
<1> HIDE DEF marked, new, missing, rest
<1>9. q.args = Append(marked, new) /\ "args" \in DOMAIN q
  BY DEF HasArgs
<1> HIDE DEF q
<1>10. /\ IsSeq(q.args) /\ Len(q.args) = Len(p.args) + 1
       /\ \A i \in 1..Len(p.args) : q.args[i] = marked[i]
       /\ q.args[Len(p.args) + 1] = new
  BY <1>5, <1>9, SeqAppend
<1>11. \A i \in 1..(Len(p.args) + 1) : IsArg(q.args[i])
  <2> TAKE i \in 1..(Len(p.args) + 1)
  <2>1. i \in 1..Len(p.args) \/ i = Len(p.args) + 1
    BY <1>2
  <2> QED
    BY <2>1, <1>4, <1>6, <1>10
<1>12. IsArgs(q.args)
  BY <1>10, <1>11 DEF IsArgs
<1>13. Adds(p.args, q.args, found.str)
  BY <1>4, <1>7, <1>8, <1>10, <1>12 DEF Adds
<1> QED
  BY <1>1, <1>9, <1>12, <1>13 DEF HasArgs

LEMMA AddMatchAdds ==
    ASSUME NEW p, HasArgs(p), NEW found
    PROVE  HasArgs(AddMatch(p, found)) /\ Adds(p.args, AddMatch(p, found).args, found.str)
<1> DEFINE t == NextAfterMatch(p.pos, found.at)
           clash == IF t.repeatStarts THEN {} ELSE Conflicting(p.args, found.at.pos)
<1>1. AddMatch(p, found) = Record(p, found, t, clash)
  BY DEF AddMatch, RecordBehind
<1>2. t.repeatStarts \/ clash = Conflicting(p.args, found.at.pos)
  OBVIOUS
<1> HIDE DEF t, clash
<1> QED
  BY <1>1, <1>2, RecordAdds

\* f is what n matches of founds leave of the parser p.
IsAdded(f, p, founds, n) == f = [k \in 0..n |-> IF k = 0 THEN p ELSE AddMatch(f[k - 1], founds[k])]

LEMMA AddedExists ==
    ASSUME NEW p, NEW founds, NEW n \in Nat
    PROVE  \E f : IsAdded(f, p, founds, n)
<1> DEFINE T == {k \in Nat : \E f : IsAdded(f, p, founds, k)}
<1>1. 0 \in T
  <2>1. IsAdded([k \in 0..0 |-> p], p, founds, 0)
    BY DEF IsAdded
  <2> QED
    BY <2>1
<1>2. ASSUME NEW k \in 0..(n - 1), k \in T
      PROVE  k + 1 \in T
  <2>1. PICK g : IsAdded(g, p, founds, k)
    BY <1>2
  <2> DEFINE f == [m \in 0..(k + 1) |-> IF m = k + 1 THEN AddMatch(g[k], founds[m]) ELSE g[m]]
  <2>2. f = [m \in 0..(k + 1) |-> IF m = 0 THEN p ELSE AddMatch(f[m - 1], founds[m])]
    BY <2>1 DEF IsAdded
  <2>3. IsAdded(f, p, founds, k + 1)
    BY <2>2 DEF IsAdded
  <2> QED
    BY <2>3
<1> HIDE DEF T
<1>3. \A k \in 0..n : k \in T
  BY <1>1, <1>2, UpTo
<1> QED
  BY <1>3 DEF T

\* The parsers that add_match() makes of p, one match after the other.
IsChain(f, p, founds) ==
    /\ f[0] = p /\ f[Len(founds)] = AddMatches(p, founds)
    /\ \A k \in 0..(Len(founds) - 1) : f[k + 1] = AddMatch(f[k], founds[k + 1])

LEMMA AddMatchesIs ==
    ASSUME NEW p, NEW founds, Len(founds) \in Nat
    PROVE  \E f : IsChain(f, p, founds)
<1> DEFINE added == CHOOSE f : f = [n \in 0..Len(founds) |-> IF n = 0 THEN p ELSE AddMatch(f[n - 1], founds[n])]
<1>1. \E f : IsAdded(f, p, founds, Len(founds))
  BY AddedExists
<1>2. IsAdded(added, p, founds, Len(founds))
  BY <1>1 DEF IsAdded
<1>3. AddMatches(p, founds) = added[Len(founds)]
  BY DEF AddMatches
<1> HIDE DEF added
<1>4. added[0] = p
  BY <1>2 DEF IsAdded
<1>5. \A k \in 0..(Len(founds) - 1) : added[k + 1] = AddMatch(added[k], founds[k + 1])
  BY <1>2 DEF IsAdded
<1>6. IsChain(added, p, founds)
  BY <1>3, <1>4, <1>5 DEF IsChain
<1> QED
  BY <1>6

-----------------------------------------------------------------------------
(***************************************************************************)
(* The text of the mappings.                                               *)
(***************************************************************************)
\* Sequences with the same elements are the same.
LEMMA SeqSame ==
    ASSUME NEW s, NEW t, IsSeq(s), IsSeq(t), Len(s) = Len(t), \A i \in 1..Len(s) : s[i] = t[i]
    PROVE  s = t
<1>1. PICK X : s \in Seq(X)
  BY DEF IsSeq
<1>2. PICK Y : t \in Seq(Y)
  BY DEF IsSeq
<1>3. s \in Seq(X \union Y) /\ t \in Seq(X \union Y)
  BY <1>1, <1>2, SeqMonotonic
<1> QED
  BY <1>3, SeqEqual

\* The texts of the mappings, word by word.
ArgTexts(args) == [i \in DOMAIN args |-> args[i].arg]

LEMMA ArgTextsIs ==
    ASSUME NEW args, IsSeq(args)
    PROVE  /\ Len(args) \in Nat /\ IsSeq(ArgTexts(args)) /\ Len(ArgTexts(args)) = Len(args)
           /\ DOMAIN ArgTexts(args) = 1..Len(args)
           /\ \A i \in 1..Len(args) : ArgTexts(args)[i] = args[i].arg
<1>1. Len(args) \in Nat /\ DOMAIN args = 1..Len(args)
  BY SeqLen
<1> DEFINE E == {args[i].arg : i \in 1..Len(args)}
<1>2. ArgTexts(args) \in [1..Len(args) -> E]
  BY <1>1 DEF ArgTexts
<1> HIDE DEF E
<1>3. ArgTexts(args) \in Seq(E) /\ Len(ArgTexts(args)) = Len(args)
  BY <1>1, <1>2
<1>4. \A i \in 1..Len(args) : ArgTexts(args)[i] = args[i].arg
  BY <1>1 DEF ArgTexts
<1> QED
  BY <1>1, <1>2, <1>3, <1>4 DEF IsSeq

\* A mapping added is a text more.
LEMMA ArgTextsAdds ==
    ASSUME NEW S, NEW args, IsArgs(args), ArgTexts(args) \in Seq(Seq(S)),
           NEW more, NEW str \in Seq(S), Adds(args, more, str)
    PROVE  ArgTexts(more) = Append(ArgTexts(args), str)
<1> DEFINE x == ArgTexts(args)
           y == ArgTexts(more)
           n == Len(args)
<1>1. IsSeq(args) /\ IsSeq(more) /\ Len(more) = n + 1
      /\ \A i \in 1..n : SameMapping(args[i], more[i])
      /\ more[n + 1].arg = str
  BY DEF IsArgs, Adds
<1>2. /\ n \in Nat /\ Len(x) = n /\ x \in Seq(Seq(S))
      /\ \A i \in 1..n : x[i] = args[i].arg
  BY <1>1, ArgTextsIs
<1>3. /\ DOMAIN y = 1..(n + 1) /\ \A i \in 1..(n + 1) : y[i] = more[i].arg
  BY <1>1, ArgTextsIs
<1>4. /\ Append(x, str) \in Seq(Seq(S)) /\ Len(Append(x, str)) = n + 1 /\ Append(x, str)[n + 1] = str
  BY <1>2, AppendProperties
<1>5. \A i \in 1..n : Append(x, str)[i] = x[i]
  BY <1>2, AppendProperties
<1>6. \A i \in 1..(n + 1) : Append(x, str)[i] = y[i]
  <2> TAKE i \in 1..(n + 1)
  <2>1. i \in 1..n \/ i = n + 1
    BY <1>2
  <2>2. CASE i \in 1..n
    <3>1. more[i].arg = args[i].arg
      BY <2>2, <1>1 DEF SameMapping
    <3> QED
      BY <2>2, <3>1, <1>2, <1>3, <1>5
  <2>3. CASE i = n + 1
    <3>1. y[n + 1] = more[n + 1].arg
      BY <1>2, <1>3
    <3>0. more[n + 1].arg = str
      BY DEF Adds
    <3>2. y[n + 1] = str
      BY <3>0, <3>1
    <3> QED
      BY <2>3, <3>2, <1>4
  <2> QED
    BY <2>1, <2>2, <2>3
<1>7. DOMAIN Append(x, str) = 1..(n + 1) /\ Append(x, str) = [i \in 1..(n + 1) |-> Append(x, str)[i]]
  BY <1>4, LenProperties
<1>8. y = [i \in 1..(n + 1) |-> y[i]]
  BY <1>3 DEF ArgTexts
<1> HIDE DEF x, y, n
<1>9. y = Append(x, str)
  BY <1>6, <1>7, <1>8
<1> QED
  BY <1>9 DEF x, y

\* add_match() for every word found adds their texts.
LEMMA AddMatchesTexts ==
    ASSUME NEW S, NEW p, HasArgs(p), ArgTexts(p.args) \in Seq(Seq(S)),
           NEW founds, IsSeq(founds), Texts(founds) \in Seq(Seq(S))
    PROVE  /\ HasArgs(AddMatches(p, founds))
           /\ ArgTexts(AddMatches(p, founds).args) = ArgTexts(p.args) \o Texts(founds)
<1>0. Len(founds) \in Nat /\ DOMAIN founds = 1..Len(founds)
  BY SeqLen
<1>a. PICK f : IsChain(f, p, founds)
  BY <1>0, AddMatchesIs
<1> DEFINE x == ArgTexts(p.args)
           y == Texts(founds)
           n == Len(founds)
<1>1. n \in Nat /\ DOMAIN founds = 1..n
  BY <1>0
<1>2. /\ f[0] = p /\ f[n] = AddMatches(p, founds)
      /\ \A k \in 0..(n - 1) : f[k + 1] = AddMatch(f[k], founds[k + 1])
  BY <1>a DEF IsChain
<1>3. x \in Seq(Seq(S)) /\ y \in Seq(Seq(S)) /\ Len(y) = n /\ \A i \in 1..n : y[i] = founds[i].str
  BY <1>1 DEF Texts
<1> HIDE DEF x, y
<1> DEFINE F(k) == HasArgs(f[k]) /\ ArgTexts(f[k].args) = x \o SubSeq(y, 1, k)
           T == {k \in Nat : F(k)}
<1>4. 0 \in T
  <2>1. SubSeq(y, 1, 0) = <<>> /\ x \o <<>> = x
    BY <1>3, SubSeqEmpty, ConcatEmptySeq
  <2>2. F(0)
    BY <1>2, <2>1 DEF x
  <2> QED
    BY <2>2
<1>5. ASSUME NEW k \in 0..(n - 1), k \in T
      PROVE  k + 1 \in T
  <2> DEFINE e == y[k + 1]
             pre == SubSeq(y, 1, k)
  <2>1. pre \in Seq(Seq(S)) /\ e \in Seq(S) /\ SubSeq(y, 1, k + 1) = Append(pre, e)
    BY <1>3, SubSeqGrows
  <2>2. HasArgs(f[k]) /\ ArgTexts(f[k].args) = x \o pre
    BY <1>5
  <2>3. f[k + 1] = AddMatch(f[k], founds[k + 1]) /\ founds[k + 1].str = e
    BY <1>1, <1>2, <1>3
  <2> HIDE DEF e, pre
  <2>4. HasArgs(f[k + 1]) /\ Adds(f[k].args, f[k + 1].args, e)
    BY <2>2, <2>3, AddMatchAdds
  <2>5. x \o pre \in Seq(Seq(S))
    BY <1>3, <2>1, ConcatProperties
  <2>6. ArgTexts(f[k + 1].args) = Append(x \o pre, e)
    <3>1. IsArgs(f[k].args) /\ ArgTexts(f[k].args) \in Seq(Seq(S)) /\ e \in Seq(S)
      BY <2>1, <2>2, <2>5 DEF HasArgs
    <3>2. ArgTexts(f[k + 1].args) = Append(ArgTexts(f[k].args), e)
      BY <2>4, <3>1, ArgTextsAdds
    <3> QED
      BY <2>2, <3>2
  <2>7. x \o Append(pre, e) = Append(x \o pre, e)
    <3>1. x \in Seq(Seq(S)) /\ pre \in Seq(Seq(S)) /\ e \in Seq(S)
      BY <1>3, <2>1
    <3> QED
      BY <3>1, AppendGlued
  <2>8. F(k + 1)
    BY <2>1, <2>4, <2>6, <2>7
  <2> HIDE DEF F
  <2> QED
    BY <2>8
<1> HIDE DEF T
<1>6. \A k \in 0..n : k \in T
  BY <1>1, <1>4, <1>5, UpTo
<1>7. n \in T
  BY <1>1, <1>6
<1>8. SubSeq(y, 1, n) = y
  BY <1>3, SubSeqFull
<1>9. HasArgs(f[n]) /\ ArgTexts(f[n].args) = x \o SubSeq(y, 1, n)
  BY <1>7 DEF T
<1> QED
  BY <1>2, <1>8, <1>9 DEF x, y

\* The text of the last mappings.
LEMMA WithoutTexts ==
    ASSUME NEW S, NEW args, IsArgs(args), NEW x \in Seq(Seq(S)), NEW y \in Seq(Seq(S)),
           ArgTexts(args) = x \o y
    PROVE  /\ IsArgs(Without(args, Len(x)))
           /\ ArgTexts(Without(args, Len(x))) = y
<1> DEFINE n == Len(x)
           m == Len(y)
           rest == Without(args, n)
<1>1. n \in Nat /\ m \in Nat /\ Len(x \o y) = n + m /\ \A i \in 1..(n + m) : (x \o y)[i] = IF i <= n THEN x[i] ELSE y[i - n]
  BY ConcatProperties
<1>2. IsSeq(args) /\ Len(args) = n + m /\ \A i \in 1..(n + m) : (x \o y)[i] = args[i].arg
  BY <1>1, ArgTextsIs DEF IsArgs
<1>3. PICK X : args \in Seq(X)
  BY <1>2 DEF IsSeq
<1>4. n + 1 \in Int /\ Len(args) \in Int /\ \A i \in (n + 1)..Len(args) : args[i] \in X
  BY <1>1, <1>2, <1>3, ElementOfSeq
<1>5. /\ rest \in Seq(X) /\ Len(rest) = IF n + 1 <= Len(args) THEN Len(args) - (n + 1) + 1 ELSE 0
      /\ \A i \in 1..(Len(args) - (n + 1) + 1) : rest[i] = args[(n + 1) + i - 1]
  BY <1>4, SubSeqProperties DEF Without
<1>6. Len(rest) = m
  BY <1>1, <1>2, <1>5
<1>7. \A i \in 1..m : rest[i] = args[n + i]
  <2> TAKE i \in 1..m
  <2>1. i \in 1..(Len(args) - (n + 1) + 1) /\ (n + 1) + i - 1 = n + i
    BY <1>1, <1>2
  <2> QED
    BY <1>5, <2>1
<1> HIDE DEF rest, n, m
<1>8. \A i \in 1..m : n + i \in 1..(n + m) /\ ~(n + i <= n) /\ n + i - n = i
  BY <1>1
<1>9. \A i \in 1..m : rest[i].arg = y[i]
  <2> TAKE i \in 1..m
  <2>1. (x \o y)[n + i] = y[i]
    BY <1>1, <1>8
  <2> QED
    BY <1>2, <1>7, <1>8, <2>1
<1>10. IsArgs(rest)
  <2>1. IsSeq(rest)
    BY <1>5 DEF IsSeq
  <2>2. \A i \in 1..m : IsArg(rest[i])
    BY <1>2, <1>7, <1>8 DEF IsArgs
  <2> QED
    BY <1>6, <2>1, <2>2 DEF IsArgs
<1>11. /\ DOMAIN ArgTexts(rest) = 1..m /\ \A i \in 1..m : ArgTexts(rest)[i] = rest[i].arg
  BY <1>6, <1>10, ArgTextsIs DEF IsArgs
<1>12. ArgTexts(rest) = [i \in 1..m |-> ArgTexts(rest)[i]]
  BY <1>11 DEF ArgTexts
<1>13. y = [i \in 1..m |-> y[i]]
  BY LenProperties DEF m
<1>14. ArgTexts(rest) = y
  BY <1>9, <1>11, <1>12, <1>13
<1> QED
  BY <1>10, <1>14 DEF rest, n

LEMMA ConcatTexts ==
    ASSUME NEW a, NEW b, IsArgs(a), IsArgs(b)
    PROVE  IsArgs(a \o b) /\ ArgTexts(a \o b) = ArgTexts(a) \o ArgTexts(b)
<1> DEFINE n == Len(a)
           m == Len(b)
<1>1. IsSeq(a) /\ IsSeq(b) /\ n \in Nat /\ m \in Nat
  BY SeqLen DEF IsArgs
<1>2. /\ IsSeq(a \o b) /\ Len(a \o b) = n + m
      /\ \A i \in 1..n : (a \o b)[i] = a[i]
      /\ \A i \in 1..m : (a \o b)[n + i] = b[i]
  BY <1>1, SeqConcat
<1>3. \A i \in 1..(n + m) : i \in 1..n \/ (i - n \in 1..m /\ i = n + (i - n))
  BY <1>1
<1>4. IsArgs(a \o b)
  BY <1>2, <1>3 DEF IsArgs
<1>5. /\ IsSeq(ArgTexts(a)) /\ IsSeq(ArgTexts(b)) /\ Len(ArgTexts(a)) = n /\ Len(ArgTexts(b)) = m
      /\ \A i \in 1..n : ArgTexts(a)[i] = a[i].arg
      /\ \A i \in 1..m : ArgTexts(b)[i] = b[i].arg
  BY <1>1, ArgTextsIs
<1>6. /\ IsSeq(ArgTexts(a) \o ArgTexts(b)) /\ Len(ArgTexts(a) \o ArgTexts(b)) = n + m
      /\ \A i \in 1..n : (ArgTexts(a) \o ArgTexts(b))[i] = a[i].arg
      /\ \A i \in 1..m : (ArgTexts(a) \o ArgTexts(b))[n + i] = b[i].arg
  <2>1. IsSeq(ArgTexts(a)) /\ IsSeq(ArgTexts(b))
    BY <1>5
  <2> DEFINE x == ArgTexts(a)
             y == ArgTexts(b)
  <2>2. /\ IsSeq(x \o y) /\ Len(x \o y) = Len(x) + Len(y)
        /\ \A i \in 1..Len(x) : (x \o y)[i] = x[i]
        /\ \A i \in 1..Len(y) : (x \o y)[Len(x) + i] = y[i]
    <3> HIDE DEF x, y
    <3>1. IsSeq(x) /\ IsSeq(y)
      BY <2>1 DEF x, y
    <3> QED
      BY <3>1, SeqConcat
  <2> QED
    BY <1>5, <2>2
<1>7. /\ IsSeq(ArgTexts(a \o b)) /\ Len(ArgTexts(a \o b)) = n + m
      /\ \A i \in 1..(n + m) : ArgTexts(a \o b)[i] = (a \o b)[i].arg
  BY <1>2, ArgTextsIs
<1>8. \A i \in 1..(n + m) : ArgTexts(a \o b)[i] = (ArgTexts(a) \o ArgTexts(b))[i]
  BY <1>2, <1>3, <1>6, <1>7
<1> QED
  BY <1>4, <1>6, <1>7, <1>8, SeqSame

-----------------------------------------------------------------------------
(***************************************************************************)
(* parse_once(): the mappings of one word.                                 *)
(***************************************************************************)
\* A mapping appended is a text more.
LEMMA AppendTexts ==
    ASSUME NEW args, IsArgs(args), NEW e, IsArg(e)
    PROVE  IsArgs(Append(args, e)) /\ ArgTexts(Append(args, e)) = Append(ArgTexts(args), e.arg)
<1> DEFINE n == Len(args)
           more == Append(args, e)
           x == ArgTexts(args)
           y == Append(x, e.arg)
<1>0. IsSeq(args)
  BY DEF IsArgs
<1>1. n \in Nat /\ IsSeq(x) /\ Len(x) = n /\ \A i \in 1..n : x[i] = args[i].arg
  BY <1>0, ArgTextsIs
<1>2. /\ IsSeq(more) /\ Len(more) = n + 1
      /\ \A i \in 1..n : more[i] = args[i]
      /\ more[n + 1] = e
  BY <1>0, SeqAppend
<1> HIDE DEF more, x, n
<1>3. IsSeq(y) /\ Len(y) = n + 1 /\ (\A i \in 1..n : y[i] = x[i]) /\ y[n + 1] = e.arg
  BY <1>1, SeqAppend
<1> HIDE DEF y
<1>4. \A i \in 1..(n + 1) : i \in 1..n \/ i = n + 1
  BY <1>1
<1>5. IsArgs(more)
  BY <1>2, <1>4 DEF IsArgs, n
<1>6. /\ IsSeq(ArgTexts(more)) /\ Len(ArgTexts(more)) = n + 1
      /\ \A i \in 1..(n + 1) : ArgTexts(more)[i] = more[i].arg
  BY <1>2, ArgTextsIs
<1>7. \A i \in 1..(n + 1) : ArgTexts(more)[i] = y[i]
  <2> TAKE i \in 1..(n + 1)
  <2>1. ArgTexts(more)[i] = more[i].arg
    BY <1>6
  <2>2. CASE i \in 1..n
    BY <2>1, <2>2, <1>1, <1>2, <1>3
  <2>3. CASE i = n + 1
    BY <2>1, <2>3, <1>2, <1>3
  <2> QED
    BY <1>4, <2>2, <2>3
<1>8. ArgTexts(more) = y
  BY <1>3, <1>6, <1>7, SeqSame
<1> QED
  BY <1>5, <1>8 DEF more, y, x

\* The parser reads on: what the mappings had is there, and the word.
ReadsText(p, q, word, S) ==
    /\ HasArgs(q) /\ ArgTexts(q.args) \in Seq(Seq(S))
    /\ FlattenSeq(ArgTexts(q.args)) = FlattenSeq(ArgTexts(p.args)) \o word

\* A parser whose mappings are of words.
HasTexts(p, S) == HasArgs(p) /\ ArgTexts(p.args) \in Seq(Seq(S))

\* The mappings of a word that was read carry its text.
LEMMA CoversWord ==
    ASSUME NEW S, NEW word \in Seq(S), NEW founds, Covers(founds, <<>>, word, S)
    PROVE  IsSeq(founds) /\ Texts(founds) \in Seq(Seq(S)) /\ FlattenSeq(Texts(founds)) = word
<1>1. IsSeq(founds) /\ Texts(founds) \in Seq(Seq(S)) /\ FlattenSeq(Texts(founds)) \o <<>> = word
  BY DEF Covers
<1>2. FlattenSeq(Texts(founds)) \in Seq(S)
  BY <1>1, FlattenType
<1>3. FlattenSeq(Texts(founds)) \o <<>> = FlattenSeq(Texts(founds))
  BY <1>2, ConcatEmptySeq
<1> QED
  BY <1>1, <1>3

LEMMA JoinTexts ==
    ASSUME NEW S, NEW p, HasTexts(p, S), NEW word \in Seq(S), NEW q, HasArgs(q),
           NEW y \in Seq(Seq(S)), FlattenSeq(y) = word, ArgTexts(q.args) = ArgTexts(p.args) \o y
    PROVE  ReadsText(p, q, word, S)
<1>1. ArgTexts(p.args) \in Seq(Seq(S))
  BY DEF HasTexts
<1>2. FlattenSeq(ArgTexts(p.args) \o y) = FlattenSeq(ArgTexts(p.args)) \o FlattenSeq(y)
  BY <1>1, FlattenConcat
<1>3. ArgTexts(p.args) \o y \in Seq(Seq(S))
  BY <1>1, ConcatProperties
<1> QED
  BY <1>2, <1>3 DEF ReadsText

LEMMA MappedTexts ==
    ASSUME NEW S, NEW p, HasTexts(p, S), NEW word \in Seq(S), NEW founds, Covers(founds, <<>>, word, S)
    PROVE  ReadsText(p, AddMatches(p, founds), word, S)
<1>1. IsSeq(founds) /\ Texts(founds) \in Seq(Seq(S)) /\ FlattenSeq(Texts(founds)) = word
  BY CoversWord
<1>2. HasArgs(p) /\ ArgTexts(p.args) \in Seq(Seq(S))
  BY DEF HasTexts
<1>3. HasArgs(AddMatches(p, founds)) /\ ArgTexts(AddMatches(p, founds).args) = ArgTexts(p.args) \o Texts(founds)
  BY <1>1, <1>2, AddMatchesTexts
<1> QED
  BY <1>1, <1>3, JoinTexts

\* The mappings of a word that only a parser without blocking places.
IsBlocked(args, word, S) ==
    /\ IsArgs(args)
    /\ args # <<>> => ArgTexts(args) \in Seq(Seq(S)) /\ FlattenSeq(ArgTexts(args)) = word

\* The other parsers parse_once() asks about a word have read the same.
LEMMA UnblockedTexts ==
    ASSUME NEW S, NEW p, HasTexts(p, S)
    PROVE  HasTexts(Unblocked(p), S) /\ Unblocked(p).args = p.args
<1>1. "args" \in DOMAIN Unblocked(p) /\ Unblocked(p).args = p.args
  BY DEF Unblocked, HasTexts, HasArgs
<1> QED
  BY <1>1 DEF HasTexts, HasArgs

LEMMA FreshTexts ==
    ASSUME NEW S, NEW g, NEW index
    PROVE  HasTexts(Parser(g, index), S) /\ Parser(g, index).args = <<>>
<1>1. "args" \in DOMAIN Parser(g, index) /\ Parser(g, index).args = <<>>
  BY DEF Parser
<1>2. IsArgs(<<>>)
  <2>1. \A i \in 1..Len(<<>>) : FALSE
    OBVIOUS
  <2> QED
    BY <2>1, SeqOfOne DEF IsArgs
<1>3. ArgTexts(<<>>) = <<>>
  BY DEF ArgTexts
<1>4. <<>> \in Seq(Seq(S))
  BY EmptySeq
<1> QED
  BY <1>1, <1>2, <1>3, <1>4 DEF HasTexts, HasArgs

\* What a parser maps of a word is behind what it had mapped before.
LEMMA NewTexts ==
    ASSUME NEW S, NEW p, HasTexts(p, S), NEW word \in Seq(S), NEW founds, IsReading(founds, word, S)
    PROVE  /\ IsArgs(Without(AddMatches(p, founds).args, Len(p.args)))
           /\ ArgTexts(Without(AddMatches(p, founds).args, Len(p.args))) = Texts(founds)
           /\ Texts(founds) \in Seq(Seq(S))
           /\ founds # <<>> => FlattenSeq(Texts(founds)) = word
           /\ founds = <<>> => Texts(founds) = <<>>
<1> DEFINE q == AddMatches(p, founds)
<1>1. HasArgs(p) /\ ArgTexts(p.args) \in Seq(Seq(S)) /\ Len(ArgTexts(p.args)) = Len(p.args)
  <2>1. HasArgs(p) /\ ArgTexts(p.args) \in Seq(Seq(S)) /\ IsSeq(p.args)
    BY DEF HasTexts, HasArgs, IsArgs
  <2> QED
    BY <2>1, ArgTextsIs
<1>2. IsSeq(founds) /\ Texts(founds) \in Seq(Seq(S)) /\ (founds # <<>> => FlattenSeq(Texts(founds)) = word)
      /\ (founds = <<>> => Texts(founds) = <<>>)
  <2>1. CASE founds = <<>>
    <3>1. Texts(<<>>) = <<>>
      BY DEF Texts
    <3> QED
      BY <2>1, <3>1, SeqOfOne, EmptySeq
  <2>2. CASE founds # <<>>
    BY <2>2, CoversWord DEF IsReading
  <2> QED
    BY <2>1, <2>2
<1>3. HasArgs(q) /\ ArgTexts(q.args) = ArgTexts(p.args) \o Texts(founds)
  BY <1>1, <1>2, AddMatchesTexts
<1> HIDE DEF q
<1>4. IsArgs(q.args)
  BY <1>3 DEF HasArgs
<1>5. /\ IsArgs(Without(q.args, Len(ArgTexts(p.args))))
      /\ ArgTexts(Without(q.args, Len(ArgTexts(p.args)))) = Texts(founds)
  <2>1. ArgTexts(p.args) \in Seq(Seq(S)) /\ Texts(founds) \in Seq(Seq(S)) /\ ArgTexts(q.args) = ArgTexts(p.args) \o Texts(founds)
    BY <1>1, <1>2, <1>3
  <2> DEFINE x == ArgTexts(p.args)
             y == Texts(founds)
  <2>2. x \in Seq(Seq(S)) /\ y \in Seq(Seq(S)) /\ ArgTexts(q.args) = x \o y
    BY <2>1
  <2> HIDE DEF x, y
  <2>3. IsArgs(Without(q.args, Len(x))) /\ ArgTexts(Without(q.args, Len(x))) = y
    BY <1>4, <2>2, WithoutTexts
  <2> QED
    BY <2>3 DEF x, y
<1> QED
  BY <1>1, <1>2, <1>5 DEF q

\* Marking mappings as blocked leaves their text.
LEMMA BlockedTexts ==
    ASSUME NEW args, IsArgs(args)
    PROVE  LET blocked == [i \in DOMAIN args |-> [args[i] EXCEPT !.blocked = TRUE]]
           IN /\ IsArgs(blocked) /\ ArgTexts(blocked) = ArgTexts(args) /\ Len(blocked) = Len(args)
              /\ \A i \in 1..Len(args) : blocked[i].blocked
<1> DEFINE blocked == [i \in DOMAIN args |-> [args[i] EXCEPT !.blocked = TRUE]]
           n == Len(args)
<1>1. n \in Nat /\ DOMAIN args = 1..n
  BY SeqLen DEF IsArgs
<1>2. \A i \in 1..n : IsArg(args[i])
  BY DEF IsArgs
<1>3. \A i \in 1..n : blocked[i] = [args[i] EXCEPT !.blocked = TRUE]
  BY <1>1
<1>4. \A i \in 1..n : IsArg(blocked[i]) /\ blocked[i].arg = args[i].arg /\ blocked[i].blocked
  BY <1>2, <1>3 DEF IsArg
<1> DEFINE E == {blocked[i] : i \in 1..n}
<1>5. blocked \in [1..n -> E]
  BY <1>1
<1>6. DOMAIN blocked = 1..n
  BY <1>1
<1> HIDE DEF blocked, E, n
<1>7. blocked \in Seq(E) /\ Len(blocked) = n
  BY <1>1, <1>5
<1>8. IsArgs(blocked)
  BY <1>4, <1>7 DEF IsArgs, IsSeq
<1>9. ArgTexts(blocked) = ArgTexts(args)
  BY <1>1, <1>4, <1>6 DEF ArgTexts
<1> QED
  BY <1>4, <1>7, <1>8, <1>9 DEF blocked, n

\* What only a parser without blocking places matched is the word.
LEMMA BlockedArgsAre ==
    ASSUME NEW S, NEW p, HasTexts(p, S), NEW word \in Seq(S), Joinable = {}, IsFiniteSet(DOMAIN Nodes)
    PROVE  IsBlocked(BlockedArgs(p, word), word, S)
<1> DEFINE tries == <<Unblocked(p), Unblocked(Parser(p.root, p.index))>>
           founds == [k \in 1..2 |-> Matches(tries[k], word)]
           k == IF founds[1] # <<>> THEN 1 ELSE 2
           args == Without(AddMatches(tries[k], founds[k]).args, Len(tries[k].args))
           blocked == [i \in DOMAIN args |-> [args[i] EXCEPT !.blocked = TRUE]]
<1>1. BlockedArgs(p, word) = blocked
  BY DEF BlockedArgs, FirstSuccess, NewArgs, Blocked
<1>2. k \in 1..2
  OBVIOUS
<1>3. HasTexts(tries[1], S) /\ HasTexts(tries[2], S)
  BY UnblockedTexts, FreshTexts
<1> HIDE DEF tries
<1>4. IsReading(founds[1], word, S) /\ IsReading(founds[2], word, S)
  BY MatchesFound DEF IsFound
<1> HIDE DEF founds
<1>5. HasTexts(tries[k], S) /\ IsReading(founds[k], word, S)
  BY <1>3, <1>4
<1> HIDE DEF k
<1>6. /\ IsArgs(args) /\ ArgTexts(args) = Texts(founds[k]) /\ Texts(founds[k]) \in Seq(Seq(S))
      /\ founds[k] # <<>> => FlattenSeq(Texts(founds[k])) = word
      /\ founds[k] = <<>> => Texts(founds[k]) = <<>>
  BY <1>5, NewTexts
<1> HIDE DEF args
<1>7. IsArgs(blocked) /\ ArgTexts(blocked) = ArgTexts(args) /\ Len(blocked) = Len(args)
  BY <1>6, BlockedTexts
<1> HIDE DEF blocked
<1>8. founds[k] = <<>> => blocked = <<>>
  <2> SUFFICES ASSUME founds[k] = <<>> PROVE blocked = <<>>
    OBVIOUS
  <2>1. ArgTexts(blocked) = <<>>
    BY <1>6, <1>7
  <2>2. IsSeq(blocked)
    BY <1>7 DEF IsArgs
  <2>3. Len(blocked) = 0
    BY <2>1, <2>2, ArgTextsIs
  <2> QED
    BY <2>2, <2>3, SeqOfOne, SeqSame
<1> QED
  BY <1>1, <1>6, <1>7, <1>8 DEF IsBlocked

\* A word that was not matched is in the text of what is reported for it.
LEMMA UnmatchedTexts ==
    ASSUME NEW S, NEW p, HasTexts(p, S), NEW word \in Seq(S), NEW blockedArgs, IsBlocked(blockedArgs, word, S)
    PROVE  ReadsText(p, Unmatched(p, word, blockedArgs), word, S)
<1> DEFINE q == Unmatched(p, word, blockedArgs)
<1>1. HasArgs(p) /\ IsArgs(p.args) /\ ArgTexts(p.args) \in Seq(Seq(S))
  BY DEF HasTexts, HasArgs
<1>2. CASE blockedArgs # <<>>
  <2>1. "args" \in DOMAIN q /\ q.args = p.args \o blockedArgs
    BY <1>1, <1>2 DEF Unmatched, HasArgs
  <2>2. IsArgs(blockedArgs) /\ ArgTexts(blockedArgs) \in Seq(Seq(S)) /\ FlattenSeq(ArgTexts(blockedArgs)) = word
    BY <1>2 DEF IsBlocked
  <2>3. IsArgs(p.args \o blockedArgs) /\ ArgTexts(p.args \o blockedArgs) = ArgTexts(p.args) \o ArgTexts(blockedArgs)
    BY <1>1, <2>2, ConcatTexts
  <2> HIDE DEF q
  <2>4. HasArgs(q) /\ ArgTexts(q.args) = ArgTexts(p.args) \o ArgTexts(blockedArgs)
    BY <2>1, <2>3 DEF HasArgs
  <2>5. ReadsText(p, q, word, S)
    BY <2>2, <2>4, JoinTexts
  <2> QED
    BY <2>5 DEF q
<1>3. CASE blockedArgs = <<>>
  <2> DEFINE e == NoMatch(p.index, word)
  <2>1. "args" \in DOMAIN q /\ q.args = Append(p.args, e)
    BY <1>1, <1>3 DEF Unmatched, HasArgs
  <2>2. IsArg(e) /\ e.arg = word
    BY DEF NoMatch, IsArg
  <2> HIDE DEF q, e
  <2>3. IsArgs(q.args) /\ ArgTexts(q.args) = Append(ArgTexts(p.args), word)
    BY <1>1, <2>1, <2>2, AppendTexts
  <2> DEFINE x == ArgTexts(p.args)
  <2>4. x \in Seq(Seq(S))
    BY <1>1
  <2> HIDE DEF x
  <2>5. FlattenSeq(Append(x, word)) = FlattenSeq(x) \o word /\ Append(x, word) \in Seq(Seq(S))
    BY <2>4, FlattenAppend, AppendProperties
  <2>6. ReadsText(p, q, word, S)
    BY <2>1, <2>3, <2>5 DEF ReadsText, x, HasArgs
  <2> QED
    BY <2>6 DEF q
<1> QED
  BY <1>2, <1>3

\* Whatever parse_once() does with a word, its text is mapped, behind the
\* text of the words before.
LEMMA ReadKeepsText ==
    ASSUME NEW S, NEW parser, HasTexts(parser, S), NEW word \in Seq(S), Valid(parser.pos),
           Joinable = {}, IsFiniteSet(DOMAIN Nodes)
    PROVE  ReadsText(parser, Read(parser, word), word, S)
<1> DEFINE p == [parser EXCEPT !.index = @ + 1]
           founds == IF p.blocked THEN <<>> ELSE Matches(p, word)
<1>1. HasTexts(p, S) /\ p.args = parser.args
  <2>1. "args" \in DOMAIN p /\ p.args = parser.args
    BY DEF HasTexts, HasArgs
  <2> QED
    BY <2>1 DEF HasTexts, HasArgs
<1>2. Valid(p.pos) <=> Valid(parser.pos)
  <2>1. CASE "pos" \in DOMAIN parser
    BY <2>1
  <2> QED
    BY <2>1
<1>3. Read(parser, word) = IF ~Valid(p.pos) \/ word = <<>> THEN p
                           ELSE IF founds # <<>> THEN AddMatches(p, founds)
                           ELSE Unmatched(p, word, BlockedArgs(p, word))
  BY DEF Read, Mapped
<1> HIDE DEF p
<1>4. IsReading(founds, word, S)
  BY MatchesFound DEF IsFound, IsReading
<1> HIDE DEF founds
<1>5. CASE word = <<>>
  <2>1. Read(parser, word) = p
    BY <1>3, <1>5
  <2>2. FlattenSeq(ArgTexts(parser.args)) \in Seq(S)
    BY FlattenType DEF HasTexts
  <2>3. FlattenSeq(ArgTexts(parser.args)) \o <<>> = FlattenSeq(ArgTexts(parser.args))
    BY <2>2, ConcatEmptySeq
  <2> QED
    BY <1>1, <1>5, <2>1, <2>3 DEF ReadsText, HasTexts
<1>6. CASE word # <<>> /\ founds # <<>>
  <2>1. Read(parser, word) = AddMatches(p, founds)
    BY <1>2, <1>3, <1>6
  <2>2. Covers(founds, <<>>, word, S)
    BY <1>4, <1>6 DEF IsReading
  <2>3. ReadsText(p, AddMatches(p, founds), word, S)
    BY <1>1, <2>2, MappedTexts
  <2> QED
    BY <1>1, <2>1, <2>3 DEF ReadsText
<1>7. CASE word # <<>> /\ founds = <<>>
  <2>1. Read(parser, word) = Unmatched(p, word, BlockedArgs(p, word))
    BY <1>2, <1>3, <1>7
  <2>2. IsBlocked(BlockedArgs(p, word), word, S)
    BY <1>1, BlockedArgsAre
  <2>3. ReadsText(p, Unmatched(p, word, BlockedArgs(p, word)), word, S)
    BY <1>1, <2>2, UnmatchedTexts
  <2> QED
    BY <1>1, <2>1, <2>3 DEF ReadsText
<1> QED
  BY <1>5, <1>6, <1>7
=============================================================================

----------------------------- MODULE CliProofs ------------------------------
(***************************************************************************)
(* Proof that irpc maps every character that was typed, whatever the       *)
(* command line: the words as sanitize_args() leaves them, and as the parser *)
(* of clipp maps, splits or reports them, spell what was typed.            *)
(***************************************************************************)
EXTENDS Cli, ClippProofs

-----------------------------------------------------------------------------
(***************************************************************************)
(* sanitize_args(): a number moves from the end of a word to the front of  *)
(* the next.                                                               *)
(***************************************************************************)
\* The number at the end of a word starts within it.
LEMMA StemType ==
    ASSUME NEW S, NEW word \in Seq(S)
    PROVE  Stem(word) \in 0..Len(word)
<1> DEFINE I == {i \in 1..Len(word) : word[i] \notin Digits}
           k == IF I # {} THEN Max(I) ELSE 0
<1>1. Stem(word) = IF k > 0 /\ word[k] \in {"+", "-"} THEN k - 1 ELSE k
  BY DEF Stem, SelectLastInSeq
<1>2. Len(word) \in Nat /\ I \subseteq 0..Len(word) /\ 0 \notin I
  OBVIOUS
<1>3. I # {} => Max(I) \in I
  <2> HIDE DEF I
  <2> QED
    BY <1>2, MaxIs
<1>4. k \in 0..Len(word)
  BY <1>2, <1>3
<1> HIDE DEF k
<1> QED
  BY <1>1, <1>2, <1>4

\* Two neighbours of a sequence are replaced.
LEMMA PairReplaced ==
    ASSUME NEW S, NEW s \in Seq(S), NEW i \in 2..Len(s), NEW a \in S, NEW b \in S
    PROVE  [s EXCEPT ![i - 1] = a, ![i] = b] =
               Glue(SubSeq(s, 1, i - 2), Glue(<<a, b>>, SubSeq(s, i + 1, Len(s))))
<1> DEFINE l == SubSeq(s, 1, i - 2)
           r == SubSeq(s, i + 1, Len(s))
           pair == <<a, b>>
           n == Len(s)
           t == [s EXCEPT ![i - 1] = a, ![i] = b]
<1>1. n \in Nat /\ i \in Int /\ i - 2 \in Nat /\ i + 1 \in Int /\ 2 <= i /\ i <= n /\ DOMAIN s = 1..n
  OBVIOUS
<1>2. \A j \in 1..n : s[j] \in S
  BY ElementOfSeq
<1>3. l \in Seq(S) /\ Len(l) = i - 2 /\ \A j \in 1..(i - 2) : l[j] = s[j]
  <2>1. /\ SubSeq(s, 1, i - 2) \in Seq(S)
        /\ Len(SubSeq(s, 1, i - 2)) = IF 1 <= i - 2 THEN (i - 2) - 1 + 1 ELSE 0
        /\ \A j \in 1..((i - 2) - 1 + 1) : SubSeq(s, 1, i - 2)[j] = s[1 + j - 1]
    BY <1>1, <1>2, SubSeqProperties
  <2> QED
    BY <1>1, <2>1
<1>4. r \in Seq(S) /\ Len(r) = n - i /\ \A j \in 1..(n - i) : r[j] = s[i + j]
  <2>1. /\ SubSeq(s, i + 1, n) \in Seq(S)
        /\ Len(SubSeq(s, i + 1, n)) = IF i + 1 <= n THEN n - (i + 1) + 1 ELSE 0
        /\ \A j \in 1..(n - (i + 1) + 1) : SubSeq(s, i + 1, n)[j] = s[(i + 1) + j - 1]
    BY <1>1, <1>2, SubSeqProperties
  <2> HIDE DEF n
  <2>2. Len(SubSeq(s, i + 1, n)) = n - i
    BY <1>1, <2>1
  <2>3. \A j \in 1..(n - i) : j \in 1..(n - (i + 1) + 1) /\ (i + 1) + j - 1 = i + j
    BY <1>1
  <2> QED
    BY <2>1, <2>2, <2>3 DEF n
<1>5. pair \in Seq(S) /\ Len(pair) = 2 /\ pair[1] = a /\ pair[2] = b
  OBVIOUS
<1> HIDE DEF l, r, pair, n
<1> DEFINE right == pair \o r
<1>a. pair \in Seq(S) /\ r \in Seq(S) /\ l \in Seq(S)
  BY <1>3, <1>4, <1>5
<1>b. /\ right \in Seq(S) /\ Len(right) = Len(pair) + Len(r)
      /\ \A j \in 1..(Len(pair) + Len(r)) : right[j] = IF j <= Len(pair) THEN pair[j] ELSE r[j - Len(pair)]
  BY <1>a, ConcatProperties
<1>6. /\ right \in Seq(S) /\ Len(right) = 2 + (n - i)
      /\ \A j \in 1..(2 + (n - i)) : right[j] = IF j <= 2 THEN pair[j] ELSE r[j - 2]
  BY <1>4, <1>5, <1>b
<1> HIDE DEF right
<1>c. /\ l \o right \in Seq(S) /\ Len(l \o right) = Len(l) + Len(right)
      /\ \A j \in 1..(Len(l) + Len(right)) : (l \o right)[j] = IF j <= Len(l) THEN l[j] ELSE right[j - Len(l)]
  BY <1>a, <1>6, ConcatProperties
<1>7. l \o right \in Seq(S) /\ Len(l \o right) = (i - 2) + (2 + (n - i))
      /\ \A j \in 1..((i - 2) + (2 + (n - i))) : (l \o right)[j] = IF j <= i - 2 THEN l[j] ELSE right[j - (i - 2)]
  BY <1>3, <1>6, <1>c
<1>8. DOMAIN t = 1..n /\ t = [j \in 1..n |-> t[j]]
  BY <1>1
<1>9. \A j \in 1..n : t[j] = IF j = i THEN b ELSE IF j = i - 1 THEN a ELSE s[j]
  BY <1>1
<1>10. (i - 2) + (2 + (n - i)) = n
  BY <1>1
<1>11. DOMAIN (l \o right) = 1..n /\ (l \o right) = [j \in 1..n |-> (l \o right)[j]]
  BY <1>7, <1>10, LenProperties
<1>12. \A j \in 1..n : t[j] = (l \o right)[j]
  <2> TAKE j \in 1..n
  <2>1. (l \o right)[j] = IF j <= i - 2 THEN l[j] ELSE right[j - (i - 2)]
    BY <1>7, <1>10
  <2>2. CASE j <= i - 2
    <3>1. j \in 1..(i - 2) /\ j # i /\ j # i - 1
      BY <1>1, <2>2
    <3> QED
      BY <2>1, <2>2, <3>1, <1>3, <1>9
  <2>3. CASE j = i - 1
    <3>1. ~(j <= i - 2) /\ j - (i - 2) = 1 /\ j # i /\ 1 \in 1..(2 + (n - i)) /\ 1 <= 2
      BY <1>1, <2>3
    <3>2. right[1] = a
      BY <3>1, <1>5, <1>6
    <3> QED
      BY <2>1, <2>3, <3>1, <3>2, <1>9
  <2>4. CASE j = i
    <3>1. ~(j <= i - 2) /\ j - (i - 2) = 2 /\ 2 \in 1..(2 + (n - i)) /\ 2 <= 2
      BY <1>1, <2>4
    <3>2. right[2] = b
      BY <3>1, <1>5, <1>6
    <3> QED
      BY <2>1, <2>4, <3>1, <3>2, <1>9
  <2>5. CASE j > i
    <3>1. /\ ~(j <= i - 2) /\ j - (i - 2) \in 1..(2 + (n - i)) /\ ~(j - (i - 2) <= 2)
          /\ (j - (i - 2)) - 2 = j - i /\ j - i \in 1..(n - i) /\ i + (j - i) = j /\ j # i /\ j # i - 1
      BY <1>1, <2>5
    <3>2. right[j - (i - 2)] = r[j - i]
      BY <3>1, <1>6
    <3>3. r[j - i] = s[j]
      BY <3>1, <1>4
    <3> QED
      BY <2>1, <3>1, <3>2, <3>3, <1>9
  <2>6. j <= i - 2 \/ j = i - 1 \/ j = i \/ j > i
    BY <1>1
  <2> QED
    BY <2>2, <2>3, <2>4, <2>5, <2>6
<1> HIDE DEF t
<1>13. t = l \o right
  BY <1>8, <1>11, <1>12
<1> QED
  BY <1>13 DEF t, right, l, r, pair, n, Glue

\* Where words are put together makes no difference to the text.
LEMMA GlueAssociates ==
    ASSUME NEW S, NEW s \in Seq(S), NEW t \in Seq(S), NEW u \in Seq(S)
    PROVE  Glue(s, Glue(t, u)) = Glue(Glue(s, t), u)
BY Associates DEF Glue

\* The text of words, and that it is the same when only the border between
\* two neighbours moves.
LEMMA PairText ==
    ASSUME NEW S, NEW l \in Seq(Seq(S)), NEW r \in Seq(Seq(S)), NEW a \in Seq(S), NEW b \in Seq(S)
    PROVE  FlattenSeq(Glue(l, Glue(<<a, b>>, r))) = Glue(FlattenSeq(l), Glue(Glue(a, b), FlattenSeq(r)))
<1> DEFINE one == <<a>>
           pair == <<a, b>>
<1>1. one \in Seq(Seq(S)) /\ pair \in Seq(Seq(S)) /\ pair = Append(one, b)
      /\ one = Append(<<>>, a) /\ <<>> \in Seq(Seq(S))
  OBVIOUS
<1>2. FlattenSeq(one) = a
  <2>1. FlattenSeq(Append(<<>>, a)) = FlattenSeq(<<>>) \o a
    BY <1>1, FlattenAppend
  <2> QED
    BY <1>1, <2>1, FlattenEmpty, ConcatEmptySeq
<1> HIDE DEF one, pair
<1>3. FlattenSeq(Append(one, b)) = FlattenSeq(one) \o b
  BY <1>1, FlattenAppend
<1>4. FlattenSeq(pair) = a \o b
  BY <1>1, <1>2, <1>3
<1>5. FlattenSeq(pair \o r) = FlattenSeq(pair) \o FlattenSeq(r)
  BY <1>1, FlattenConcat
<1>6. pair \o r \in Seq(Seq(S))
  BY <1>1, ConcatProperties
<1>7. FlattenSeq(l \o (pair \o r)) = FlattenSeq(l) \o FlattenSeq(pair \o r)
  BY <1>6, FlattenConcat
<1> QED
  BY <1>4, <1>5, <1>7 DEF pair, Glue

LEMMA PairRewritten ==
    ASSUME NEW S, NEW s \in Seq(Seq(S)), NEW i \in 2..Len(s), NEW a \in Seq(S), NEW b \in Seq(S),
           Glue(a, b) = Glue(s[i - 1], s[i])
    PROVE  LET t == [s EXCEPT ![i - 1] = a, ![i] = b]
           IN t \in Seq(Seq(S)) /\ Len(t) = Len(s) /\ FlattenSeq(t) = FlattenSeq(s)
<1> DEFINE t == [s EXCEPT ![i - 1] = a, ![i] = b]
           prv == s[i - 1]
           word == s[i]
           l == SubSeq(s, 1, i - 2)
           r == SubSeq(s, i + 1, Len(s))
<1>1. i - 1 \in 1..Len(s) /\ i \in 1..Len(s) /\ Len(s) \in Nat /\ i \in Int
  OBVIOUS
<1>2. word \in Seq(S) /\ prv \in Seq(S)
  BY <1>1, ElementOfSeq
<1>3. l \in Seq(Seq(S)) /\ r \in Seq(Seq(S))
  <2>1. \A j \in 1..Len(s) : s[j] \in Seq(S)
    BY ElementOfSeq
  <2>2. (\A j \in 1..(i - 2) : s[j] \in Seq(S)) /\ (\A j \in (i + 1)..Len(s) : s[j] \in Seq(S))
    BY <1>1, <2>1
  <2>3. 1 \in Int /\ i - 2 \in Int /\ i + 1 \in Int /\ Len(s) \in Int
    BY <1>1
  <2> QED
    BY <2>2, <2>3, SubSeqProperties
<1>4. t = Glue(l, Glue(<<a, b>>, r))
  <2> DEFINE T == Seq(S)
  <2>1. s \in Seq(T) /\ a \in T /\ b \in T
    OBVIOUS
  <2> HIDE DEF T
  <2> QED
    BY <2>1, PairReplaced
<1>5. s = Glue(l, Glue(<<prv, word>>, r))
  <2> DEFINE T == Seq(S)
  <2>1. s \in Seq(T) /\ prv \in T /\ word \in T
    BY <1>2
  <2>2. [s EXCEPT ![i - 1] = prv, ![i] = word] = s
    BY <1>1
  <2> HIDE DEF T, prv, word
  <2>3. [s EXCEPT ![i - 1] = prv, ![i] = word] = Glue(l, Glue(<<prv, word>>, r))
    BY <2>1, PairReplaced
  <2> QED
    BY <2>2, <2>3
<1>6. t \in Seq(Seq(S)) /\ Len(t) = Len(s)
  <2> DEFINE T == Seq(S)
  <2>1. s \in Seq(T) /\ a \in T /\ b \in T
    OBVIOUS
  <2> HIDE DEF T
  <2>2. [s EXCEPT ![i - 1] = a] \in Seq(T) /\ Len([s EXCEPT ![i - 1] = a]) = Len(s)
    BY <1>1, <2>1, ExceptSeq
  <2>3. [[s EXCEPT ![i - 1] = a] EXCEPT ![i] = b] \in Seq(T) /\ Len([[s EXCEPT ![i - 1] = a] EXCEPT ![i] = b]) = Len(s)
    BY <1>1, <2>1, <2>2, ExceptSeq
  <2> QED
    BY <2>3 DEF T
<1> HIDE DEF l, r, t, prv, word
<1>7. FlattenSeq(Glue(l, Glue(<<a, b>>, r))) = Glue(FlattenSeq(l), Glue(Glue(a, b), FlattenSeq(r)))
  BY <1>3, PairText
<1>8. FlattenSeq(Glue(l, Glue(<<prv, word>>, r))) = Glue(FlattenSeq(l), Glue(Glue(prv, word), FlattenSeq(r)))
  BY <1>2, <1>3, PairText
<1>9. Glue(a, b) = Glue(prv, word)
  BY DEF prv, word
<1> QED
  BY <1>4, <1>5, <1>6, <1>7, <1>8, <1>9 DEF t

\* sanitize_args() moves such a border.
LEMMA SanitizeArgKeepsText ==
    ASSUME NEW S, NEW s \in Seq(Seq(S)), NEW i \in 2..Len(s)
    PROVE  /\ SanitizeArg(s, i) \in Seq(Seq(S)) /\ Len(SanitizeArg(s, i)) = Len(s)
           /\ FlattenSeq(SanitizeArg(s, i)) = FlattenSeq(s)
<1> DEFINE prv == s[i - 1]
           word == s[i]
           a == SubSeq(prv, 1, Stem(prv))
           z == Without(prv, Stem(prv))
           b == Glue(z, word)
           t == [s EXCEPT ![i - 1] = a, ![i] = b]
<1>1. i - 1 \in 1..Len(s) /\ i \in 1..Len(s)
  OBVIOUS
<1>2. word \in Seq(S) /\ prv \in Seq(S)
  BY <1>1, ElementOfSeq
<1>3. SanitizeArg(s, i) \in {s, t}
  BY DEF SanitizeArg, Without, Glue
<1>4. Stem(prv) \in 0..Len(prv)
  BY <1>2, StemType
<1>5. a \in Seq(S) /\ z \in Seq(S) /\ Glue(a, z) = prv
  BY <1>2, <1>4, Splits DEF Glue
<1>6. Glue(a, b) = Glue(prv, word)
  <2>1. a \in Seq(S) /\ z \in Seq(S) /\ word \in Seq(S)
    BY <1>2, <1>5
  <2> HIDE DEF a, z, word, prv
  <2>2. Glue(a, Glue(z, word)) = Glue(Glue(a, z), word)
    BY <2>1, GlueAssociates
  <2> QED
    BY <1>5, <2>2
<1>7. b \in Seq(S)
  BY <1>2, <1>5, GlueType
<1>8. t \in Seq(Seq(S)) /\ Len(t) = Len(s) /\ FlattenSeq(t) = FlattenSeq(s)
  <2> HIDE DEF a, b
  <2>1. a \in Seq(S) /\ b \in Seq(S) /\ Glue(a, b) = Glue(s[i - 1], s[i])
    BY <1>5, <1>6, <1>7
  <2> QED
    BY <2>1, PairRewritten
<1> HIDE DEF t
<1> QED
  BY <1>3, <1>8

\* f is the function SanitizeArgs(s) recurses with.
IsSanitizing(f, s, n) == f = [i \in 1..n |-> IF i = 1 THEN s ELSE SanitizeArg(f[i - 1], i)]

LEMMA SanitizingExists ==
    ASSUME NEW s, NEW n \in Nat \ {0}
    PROVE  \E f : IsSanitizing(f, s, n)
<1> DEFINE T == {k \in Nat : \E f : IsSanitizing(f, s, k + 1)}
<1>1. 0 \in T
  <2>1. IsSanitizing([k \in 1..1 |-> s], s, 1)
    BY DEF IsSanitizing
  <2> QED
    BY <2>1
<1>2. ASSUME NEW k \in 0..(n - 1 - 1), k \in T
      PROVE  k + 1 \in T
  <2>1. PICK g : IsSanitizing(g, s, k + 1)
    BY <1>2
  <2> DEFINE f == [m \in 1..(k + 2) |-> IF m = k + 2 THEN SanitizeArg(g[k + 1], m) ELSE g[m]]
  <2>2. f = [m \in 1..(k + 2) |-> IF m = 1 THEN s ELSE SanitizeArg(f[m - 1], m)]
    BY <2>1 DEF IsSanitizing
  <2>3. IsSanitizing(f, s, k + 2) /\ (k + 1) + 1 = k + 2
    BY <2>2 DEF IsSanitizing
  <2> HIDE DEF f
  <2> QED
    BY <2>3
<1> HIDE DEF T
<1>3. n - 1 \in Nat /\ (n - 1) + 1 = n
  OBVIOUS
<1>4. \A k \in 0..(n - 1) : k \in T
  BY <1>1, <1>2, <1>3, UpTo
<1>5. n - 1 \in T
  BY <1>3, <1>4
<1> QED
  BY <1>3, <1>5 DEF T

\* What sanitize_args() moves from one word to the next stays in the text.
LEMMA SanitizeKeepsText ==
    ASSUME NEW S, NEW s \in Seq(Seq(S))
    PROVE  SanitizeArgs(s) \in Seq(Seq(S)) /\ FlattenSeq(SanitizeArgs(s)) = FlattenSeq(s)
<1>1. CASE s = <<>>
  BY <1>1 DEF SanitizeArgs
<1>2. CASE s # <<>>
  <2> DEFINE n == Len(s)
             sanitized == CHOOSE f : f = [i \in 1..n |-> IF i = 1 THEN s ELSE SanitizeArg(f[i - 1], i)]
  <2>1. SanitizeArgs(s) = sanitized[n]
    BY <1>2 DEF SanitizeArgs
  <2>2. n \in Nat \ {0}
    BY <1>2, EmptySeq
  <2> HIDE DEF n
  <2>3. \E f : IsSanitizing(f, s, n)
    BY <2>2, SanitizingExists
  <2>4. IsSanitizing(sanitized, s, n)
    BY <2>3 DEF IsSanitizing
  <2> HIDE DEF sanitized
  <2>5. sanitized[1] = s /\ \A i \in 2..n : sanitized[i] = SanitizeArg(sanitized[i - 1], i)
    BY <2>2, <2>4 DEF IsSanitizing
  <2> DEFINE F(t) == t \in Seq(Seq(S)) /\ Len(t) = n /\ FlattenSeq(t) = FlattenSeq(s)
             T == {k \in Nat : F(sanitized[k + 1])}
  <2>6. 0 \in T
    <3>1. F(s)
      BY DEF n
    <3> HIDE DEF F
    <3>2. F(sanitized[0 + 1])
      BY <3>1, <2>5
    <3> QED
      BY <3>2
  <2>7. ASSUME NEW k \in 0..(n - 1 - 1), k \in T
        PROVE  k + 1 \in T
    <3> DEFINE t == sanitized[k + 1]
    <3>1. k + 2 \in 2..n /\ (k + 2) - 1 = k + 1 /\ (k + 1) + 1 = k + 2
      BY <2>2
    <3>2. sanitized[k + 2] = SanitizeArg(t, k + 2)
      BY <2>5, <3>1
    <3>3. t \in Seq(Seq(S)) /\ Len(t) = n /\ FlattenSeq(t) = FlattenSeq(s)
      BY <2>7
    <3> HIDE DEF t
    <3>4. k + 2 \in 2..Len(t)
      BY <3>1, <3>3
    <3>5. /\ SanitizeArg(t, k + 2) \in Seq(Seq(S)) /\ Len(SanitizeArg(t, k + 2)) = Len(t)
          /\ FlattenSeq(SanitizeArg(t, k + 2)) = FlattenSeq(t)
      BY <3>3, <3>4, SanitizeArgKeepsText
    <3>6. F(sanitized[k + 2])
      BY <3>2, <3>3, <3>5
    <3> HIDE DEF F
    <3>7. F(sanitized[(k + 1) + 1])
      BY <3>1, <3>6
    <3> QED
      BY <3>7
  <2> HIDE DEF T
  <2>8. n - 1 \in Nat /\ (n - 1) + 1 = n
    BY <2>2
  <2>9. \A k \in 0..(n - 1) : k \in T
    BY <2>6, <2>7, <2>8, UpTo
  <2>10. n - 1 \in T
    BY <2>8, <2>9
  <2> QED
    BY <2>1, <2>8, <2>10 DEF T
<1> QED
  BY <1>1, <1>2

-----------------------------------------------------------------------------
(***************************************************************************)
(* The text while it is parsed.                                            *)
(***************************************************************************)
\* While it parses: what was mapped and what is still to be read is what was
\* typed, and a parser that has become invalid reads nothing more.
ReadSoFar ==
    /\ args \in Seq(Seq(STRING)) /\ HasTexts(parser, STRING)
    /\ args # <<>> => Valid(parser.pos)
    /\ Valid(parser.pos) => FlattenSeq(ArgTexts(parser.args)) \o FlattenSeq(args) = FlattenSeq(typed)

\* The parser has read no word.
Unread == HasTexts(parser, STRING) /\ parser.args = <<>> /\ Valid(parser.pos)

\* The inductive invariant.
TextInv ==
    /\ grammar = CliGrammar /\ typed \in CommandLines
    /\ pc = "start" => Unread
    /\ pc = "parse" => ReadSoFar
    /\ NoTextLost

\* A word read moves its text from what is left to what is mapped.
LEMMA ReadSoFarReads ==
    ASSUME ReadSoFar, args # <<>>, Joinable = {}, IsFiniteSet(DOMAIN Nodes),
           NEW q, q = Read(parser, Head(args)), NEW rest, rest = Tail(args)
    PROVE  /\ HasTexts(q, STRING) /\ rest \in Seq(Seq(STRING))
           /\ FlattenSeq(ArgTexts(q.args)) \o FlattenSeq(rest) = FlattenSeq(typed)
<1> DEFINE S == STRING
<1>1. args \in Seq(Seq(S)) /\ HasTexts(parser, S) /\ Valid(parser.pos)
      /\ FlattenSeq(ArgTexts(parser.args)) \o FlattenSeq(args) = FlattenSeq(typed)
  BY DEF ReadSoFar
<1> HIDE DEF S
<1>2. Head(args) \in Seq(S) /\ rest \in Seq(Seq(S))
  BY <1>1, HeadTailProperties
<1>3. ReadsText(parser, q, Head(args), S)
  BY <1>1, <1>2, ReadKeepsText
<1>4. FlattenSeq(args) = Head(args) \o FlattenSeq(rest)
  BY <1>1, FlattenHead
<1> DEFINE x == FlattenSeq(ArgTexts(parser.args))
           h == Head(args)
           y == FlattenSeq(rest)
<1>5. x \in Seq(S) /\ h \in Seq(S) /\ y \in Seq(S)
  BY <1>1, <1>2, FlattenType DEF HasTexts
<1>6. Glue(x, Glue(h, y)) = Glue(Glue(x, h), y)
  BY <1>5, GlueAssociates
<1>7. FlattenSeq(ArgTexts(q.args)) = Glue(x, h)
  BY <1>3 DEF ReadsText, Glue
<1>8. Glue(x, FlattenSeq(args)) = FlattenSeq(typed) /\ FlattenSeq(args) = Glue(h, y)
  BY <1>1, <1>4 DEF Glue
<1> HIDE DEF x, h, y
<1>9. Glue(FlattenSeq(ArgTexts(q.args)), y) = FlattenSeq(typed)
  BY <1>6, <1>7, <1>8
<1> QED
  BY <1>2, <1>3, <1>9 DEF ReadsText, HasTexts, Glue, y, S

LEMMA TextStarts == Init => TextInv
<1> SUFFICES ASSUME Init PROVE TextInv
  OBVIOUS
<1>1. Fresh.pos = Scoped(<<>>)
  BY DEF Fresh, Parser
<1>2. Scoped(<<>>).pos = <<Enter(<<>>)>>
  BY DEF Scoped, Start
<1>3. HasTexts(Fresh, STRING) /\ Fresh.args = <<>> /\ Valid(Fresh.pos)
  BY <1>1, <1>2, FreshTexts DEF Fresh, Valid
<1>4. Unread
  BY <1>3 DEF Init, Unread
<1> QED
  BY <1>4 DEF Init, TextInv, NoTextLost

LEMMA TextSteps == TextInv /\ [Next]_vars => TextInv'
<1> SUFFICES ASSUME TextInv, [Next]_vars PROVE TextInv'
  OBVIOUS
<1>0. grammar = CliGrammar /\ Joinable = {} /\ IsFiniteSet(DOMAIN Nodes) /\ typed \in Seq(Seq(STRING))
  BY CliAssumption DEF TextInv, Joinable, Nodes
<1>1. CASE Prepare
  <2>1. parser' = parser /\ Unread /\ pc' = "parse" /\ args' = SanitizeArgs(typed) /\ typed' = typed /\ grammar' = grammar
    BY <1>1 DEF Prepare, TextInv
  <2> DEFINE s == SanitizeArgs(typed)
  <2>2. s \in Seq(Seq(STRING)) /\ FlattenSeq(s) = FlattenSeq(typed)
    BY <1>0, SanitizeKeepsText
  <2> HIDE DEF s
  <2>3. HasTexts(parser, STRING) /\ Valid(parser.pos) /\ FlattenSeq(ArgTexts(parser.args)) = <<>>
    <3>1. ArgTexts(<<>>) = <<>>
      BY DEF ArgTexts
    <3> QED
      BY <2>1, <3>1, FlattenEmpty DEF Unread
  <2>4. <<>> \o FlattenSeq(s) = FlattenSeq(s)
    BY <2>2, FlattenType, ConcatEmptySeq
  <2>5. args' = s /\ parser' = parser
    BY <2>1 DEF s
  <2>6. ReadSoFar'
    BY <2>1, <2>2, <2>3, <2>4, <2>5 DEF ReadSoFar
  <2> QED
    BY <2>1, <2>6 DEF TextInv, NoTextLost
<1>2. CASE ParseWord
  <2>1. /\ pc = "parse" /\ pc' = pc /\ args # <<>> /\ typed' = typed /\ grammar' = grammar
        /\ parser' = Read(parser, Head(args))
        /\ args' = IF Valid(parser'.pos) THEN Tail(args) ELSE <<>>
    BY <1>2 DEF ParseWord
  <2> DEFINE q == Read(parser, Head(args))
             rest == Tail(args)
  <2>2. ReadSoFar
    BY <2>1 DEF TextInv
  <2>3. /\ HasTexts(q, STRING) /\ rest \in Seq(Seq(STRING))
        /\ FlattenSeq(ArgTexts(q.args)) \o FlattenSeq(rest) = FlattenSeq(typed)
    BY <1>0, <2>1, <2>2, ReadSoFarReads
  <2>4. parser' = q /\ args' = IF Valid(q.pos) THEN rest ELSE <<>>
    BY <2>1
  <2> HIDE DEF q, rest
  <2>5. ReadSoFar'
    BY <2>1, <2>3, <2>4, EmptySeq DEF ReadSoFar
  <2> QED
    BY <2>1, <2>5 DEF TextInv, NoTextLost
<1>3. CASE ParseEnds
  <2>1. /\ pc = "parse" /\ pc' = "execute" /\ args = <<>>
        /\ typed' = typed /\ grammar' = grammar /\ parser' = parser
    BY <1>3 DEF ParseEnds
  <2>2. /\ HasTexts(parser, STRING)
        /\ Valid(parser.pos) => FlattenSeq(ArgTexts(parser.args)) \o FlattenSeq(args) = FlattenSeq(typed)
    BY <2>1 DEF TextInv, ReadSoFar
  <2> DEFINE x == FlattenSeq(ArgTexts(parser.args))
  <2>3. x \in Seq(STRING)
    BY <2>2, FlattenType DEF HasTexts
  <2>4. x \o <<>> = x /\ FlattenSeq(args) = <<>>
    BY <2>1, <2>3, ConcatEmptySeq, FlattenEmpty
  <2>5. Valid(parser.pos) => x = FlattenSeq(typed)
    BY <2>2, <2>4
  <2>6. NoTextLost'
    BY <2>1, <2>5 DEF NoTextLost, ArgTexts
  <2> QED
    BY <2>1, <2>6 DEF TextInv
<1>4. CASE Execute \/ Answer \/ Done \/ UNCHANGED vars
  <2>1. /\ typed' = typed /\ grammar' = grammar /\ parser' = parser /\ args' = args
        /\ pc' = pc \/ pc' = "done"
    BY <1>4 DEF Execute, Answer, Done, vars
  <2>2. ReadSoFar => ReadSoFar'
    BY <2>1 DEF ReadSoFar
  <2>4. Unread => Unread'
    BY <2>1 DEF Unread
  <2>3. NoTextLost => NoTextLost'
    BY <2>1 DEF NoTextLost
  <2> QED
    BY <2>1, <2>2, <2>3, <2>4 DEF TextInv
<1> QED
  BY <1>1, <1>2, <1>3, <1>4 DEF Next

\* For every grammar without joinable groups and all command lines:
\* sanitize_args() and the parser of clipp lose no character that was typed.
THEOREM TextIsKept == Spec => []NoTextLost
<1>1. TextInv => NoTextLost
  BY DEF TextInv
<1> QED
  BY <1>1, TextStarts, TextSteps, PTL DEF Spec
=============================================================================

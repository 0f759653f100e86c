----------------------------- MODULE WalkProofs -----------------------------
(***************************************************************************)
(* Proofs about the traverser, for every tree, every sequence of moves and *)
(* any number of places remembered and put back.                           *)
(***************************************************************************)
EXTENDS Walk, WellFoundedInduction, TLAPS

-----------------------------------------------------------------------------
(***************************************************************************)
(* The innermost of some levels of a stack.                                *)
(***************************************************************************)
LEMMA LeastNat ==
    ASSUME NEW T, T \subseteq Nat, T # {}
    PROVE  \E x \in T : \A y \in T : x <= y
<1>1. IsWellFoundedOn(OpToRel(<, Nat), Nat)
  BY NatLessThanWellFounded
<1>2. PICK x \in T : \A y \in T : ~(<<y, x>> \in OpToRel(<, Nat))
  BY <1>1, WFMin
<1>3. \A y \in T : y < x => <<y, x>> \in OpToRel(<, Nat)
  BY DEF OpToRel
<1>4. \A y \in T : ~(y < x)
  BY <1>2, <1>3
<1>5. \A y \in T : x <= y
  BY <1>4
<1> QED
  BY <1>5

LEMMA InnermostFacts ==
    ASSUME NEW n \in Nat, NEW I, I \subseteq 1..n, I # {}
    PROVE  Innermost(I) \in I /\ \A j \in I : j <= Innermost(I)
<1> DEFINE T == {n - i : i \in I}
<1>1. T \subseteq Nat
  BY SMT
<1>2. T # {}
  OBVIOUS
<1>3. PICK x \in T : \A y \in T : x <= y
  BY <1>1, <1>2, LeastNat
<1>4. PICK i \in I : x = n - i
  OBVIOUS
<1>5. \A j \in I : n - j \in T /\ j \in Int /\ i \in Int
  OBVIOUS
<1>6. \A j \in I : j <= i
  BY <1>3, <1>4, <1>5
<1> QED
  BY <1>6 DEF Innermost
-----------------------------------------------------------------------------
(***************************************************************************)
(* The moves.  Each lemma says what stack the move leaves, that it stands  *)
(* in the grammar and that no level of it strays that did not before.      *)
(***************************************************************************)
Keeps(s, t) == Stands(t) /\ StrayLevels(t) \subseteq StrayLevels(s)

LEMMA StandFacts ==
    ASSUME NEW s, Stands(s), NEW i \in 1..Len(s)
    PROVE  /\ Len(s) \in Nat /\ s[i] \in Contexts
           /\ s[i].parent \in Groups /\ s[i].cur \in Nat \ {0} /\ s[i].end \in Nat
           /\ s[i].cur < s[i].end /\ s[i].end <= Width[s[i].parent] + 1
           /\ Width[s[i].parent] \in Nat \ {0}
<1>1. s \in Seq(Contexts) /\ IsContext(s[i])
  BY DEF Stands
<1>2. s[i] \in Contexts /\ Len(s) \in Nat
  BY <1>1
<1> QED
  BY <1>1, <1>2, TreeAssumption DEF Contexts, IsContext, Groups

\* The part of a stack above a level.
LEMMA Prefix ==
    ASSUME NEW s, Stands(s), NEW k \in 0..Len(s)
    PROVE  /\ Stands(SubSeq(s, 1, k)) /\ Len(SubSeq(s, 1, k)) = k
           /\ \A i \in 1..k : SubSeq(s, 1, k)[i] = s[i]
<1>1. s \in Seq(Contexts) /\ Len(s) \in Nat
  BY DEF Stands
<1>2. /\ SubSeq(s, 1, k) \in Seq(Contexts) /\ Len(SubSeq(s, 1, k)) = k
      /\ \A i \in 1..k : SubSeq(s, 1, k)[i] = s[i]
  BY <1>1
<1> QED
  BY <1>1, <1>2 DEF Stands

\* A stack whose last context is replaced by another one of the same group.
LEMMA LastReplaced ==
    ASSUME NEW s, Stands(s), s # <<>>, NEW c \in Contexts,
           c.parent = Top(s).parent, IsContext(c)
    PROVE  /\ Stands([s EXCEPT ![Len(s)] = c])
           /\ Len([s EXCEPT ![Len(s)] = c]) = Len(s)
           /\ [s EXCEPT ![Len(s)] = c][Len(s)] = c
           /\ \A i \in 1..(Len(s) - 1) : [s EXCEPT ![Len(s)] = c][i] = s[i]
<1> DEFINE t == [s EXCEPT ![Len(s)] = c]
<1>1. s \in Seq(Contexts) /\ Len(s) \in Nat \ {0}
  BY DEF Stands
<1>2. /\ t \in Seq(Contexts) /\ Len(t) = Len(s) /\ t[Len(s)] = c
      /\ \A i \in 1..(Len(s) - 1) : t[i] = s[i]
  BY <1>1
<1> HIDE DEF t
<1>3. \A i \in 1..Len(t) : IsContext(t[i])
  <2> SUFFICES ASSUME NEW i \in 1..Len(s) PROVE IsContext(t[i])
    BY <1>2
  <2>1. CASE i = Len(s)
    BY <1>2, <2>1
  <2>2. CASE i # Len(s)
    BY <1>1, <1>2, <2>2 DEF Stands
  <2> QED
    BY <2>1, <2>2
<1> QED
  BY <1>2, <1>3 DEF Stands, t

\* A stack that goes the way of another, to a child of one of its groups.
LEMMA NoNewStray ==
    ASSUME NEW s, Stands(s), NEW t, Stands(t), Len(t) <= Len(s),
           \A i \in 1..Len(t) : t[i].parent = s[i].parent,
           \A i \in 1..(Len(t) - 1) : t[i].cur = s[i].cur
    PROVE  Keeps(s, t)
<1> SUFFICES ASSUME NEW i \in StrayLevels(t) PROVE i \in StrayLevels(s)
  BY DEF Keeps
<1>1. Len(s) \in Nat /\ Len(t) \in Nat
  BY DEF Stands
<1>2. i \in 2..Len(t) /\ t[i].parent # Node(t[i - 1])
  BY DEF StrayLevels
<1>3. i \in 1..Len(t) /\ i - 1 \in 1..(Len(t) - 1) /\ i - 1 \in 1..Len(t) /\ i \in 2..Len(s)
  BY <1>1, <1>2
<1>4. Node(t[i - 1]) = Node(s[i - 1])
  BY <1>3 DEF Node
<1> QED
  BY <1>2, <1>3, <1>4 DEF StrayLevels

LEMMA EmptyKeeps ==
    ASSUME NEW s
    PROVE  Keeps(s, <<>>)
BY DEF Keeps, Stands, StrayLevels

LEMMA NextSiblingFacts ==
    ASSUME NEW s, Stands(s), LevelsLeft(s) # {}
    PROVE  \E k \in LevelsLeft(s) :
              /\ k \in 1..Len(s)
              /\ \A j \in LevelsLeft(s) : j <= k
              /\ Stands(NextSibling(s)) /\ Len(NextSibling(s)) = k
              /\ NextSibling(s)[k].parent = s[k].parent
              /\ NextSibling(s)[k].cur = s[k].cur + 1
              /\ \A i \in 1..(k - 1) : NextSibling(s)[i] = s[i]
<1> DEFINE k == Innermost(LevelsLeft(s))
           p == SubSeq(s, 1, k)
           c == [s[k] EXCEPT !.cur = @ + 1]
<1>1. s \in Seq(Contexts) /\ Len(s) \in Nat /\ DOMAIN s = 1..Len(s)
  BY DEF Stands
<1>2. LevelsLeft(s) \subseteq 1..Len(s)
  BY <1>1 DEF LevelsLeft
<1>3. k \in LevelsLeft(s) /\ k \in 1..Len(s) /\ \A j \in LevelsLeft(s) : j <= k
  BY <1>1, <1>2, InnermostFacts
<1>4. s[k].cur + 1 # s[k].end
  BY <1>3 DEF LevelsLeft, AtLast
<1>5. Stands(p) /\ Len(p) = k /\ \A i \in 1..k : p[i] = s[i]
  BY <1>1, <1>3, Prefix
<1>6. p # <<>> /\ Top(p) = s[k]
  BY <1>3, <1>5 DEF Top
<1>7. c \in Contexts /\ c.parent = s[k].parent /\ c.cur = s[k].cur + 1 /\ IsContext(c)
  BY <1>3, <1>4, StandFacts DEF Contexts, IsContext
<1>8. NextSibling(s) = [p EXCEPT ![k] = c]
  <2>1. NextSibling(s) = [p EXCEPT ![k].cur = @ + 1]
    BY DEF NextSibling
  <2>2. p[k] = s[k]
    BY <1>3, <1>5
  <2> HIDE DEF k, p
  <2> QED
    BY <2>1, <2>2
<1> HIDE DEF k, p, c
<1>9. /\ Stands([p EXCEPT ![k] = c]) /\ Len([p EXCEPT ![k] = c]) = k
      /\ [p EXCEPT ![k] = c][k] = c
      /\ \A i \in 1..(k - 1) : [p EXCEPT ![k] = c][i] = p[i]
  <2>1. c.parent = Top(p).parent /\ k = Len(p)
    BY <1>5, <1>6, <1>7
  <2>2. /\ Stands([p EXCEPT ![Len(p)] = c]) /\ Len([p EXCEPT ![Len(p)] = c]) = Len(p)
        /\ [p EXCEPT ![Len(p)] = c][Len(p)] = c
        /\ \A i \in 1..(Len(p) - 1) : [p EXCEPT ![Len(p)] = c][i] = p[i]
    BY <1>5, <1>6, <1>7, <2>1, LastReplaced
  <2> QED
    BY <2>1, <2>2
<1>10. \A i \in 1..(k - 1) : NextSibling(s)[i] = s[i]
  BY <1>3, <1>5, <1>8, <1>9
<1> QED
  BY <1>3, <1>7, <1>8, <1>9, <1>10

LEMMA NextSiblingMoves ==
    ASSUME NEW s, Stands(s)
    PROVE  /\ Keeps(s, NextSibling(s))
           /\ NextSibling(s) = <<>> \/ Precedes(s, NextSibling(s))
<1>1. CASE LevelsLeft(s) = {}
  BY <1>1, EmptyKeeps DEF NextSibling
<1>2. CASE LevelsLeft(s) # {}
  <2>1. PICK k \in LevelsLeft(s) :
              /\ k \in 1..Len(s)
              /\ Stands(NextSibling(s)) /\ Len(NextSibling(s)) = k
              /\ NextSibling(s)[k].parent = s[k].parent
              /\ NextSibling(s)[k].cur = s[k].cur + 1
              /\ \A i \in 1..(k - 1) : NextSibling(s)[i] = s[i]
    BY <1>2, NextSiblingFacts
  <2>2. s[k].cur \in Nat /\ Len(s) \in Nat
    BY <2>1, StandFacts
  <2>3. k - 1 \in 0..Len(s) /\ k - 1 < k /\ (k - 1) + 1 = k
    BY <2>1, <2>2
  <2>4. s[k].cur < NextSibling(s)[k].cur
    BY <2>1, <2>2
  <2>5. \A i \in 1..(k - 1) : s[i].cur = NextSibling(s)[i].cur
    BY <2>1
  <2>6. Precedes(s, NextSibling(s))
    BY <2>1, <2>3, <2>4, <2>5 DEF Precedes
  <2>7. \A i \in 1..k : NextSibling(s)[i].parent = s[i].parent
    <3>1. \A i \in 1..k : i = k \/ i \in 1..(k - 1)
      BY <2>1
    <3> QED
      BY <2>1, <3>1
  <2>8. Keeps(s, NextSibling(s))
    BY <2>1, <2>2, <2>5, <2>7, NoNewStray
  <2> QED
    BY <2>6, <2>8
<1> QED
  BY <1>1, <1>2

LEMMA IncrementMoves ==
    ASSUME NEW s, Stands(s), s # <<>>
    PROVE  /\ Keeps(s, Increment(s))
           /\ Increment(s) = <<>> \/ Precedes(s, Increment(s))
<1>1. s \in Seq(Contexts) /\ Len(s) \in Nat \ {0}
  BY DEF Stands
<1>2. CASE IsGroup(At(s))
  <2> DEFINE e == Enter(At(s))
             t == Append(s, e)
  <2>1. At(s) \in Groups /\ Width[At(s)] \in Nat \ {0}
    BY <1>2, TreeAssumption DEF IsGroup
  <2>2. e \in Contexts /\ IsContext(e) /\ e.parent = Node(s[Len(s)])
    BY <2>1 DEF Enter, Contexts, IsContext, At, Top
  <2>3. /\ t \in Seq(Contexts) /\ Len(t) = Len(s) + 1 /\ t[Len(s) + 1] = e
        /\ \A i \in 1..Len(s) : t[i] = s[i]
    BY <1>1, <2>2
  <2> HIDE DEF e, t
  <2>4. Stands(t)
    <3>1. \A i \in 1..Len(t) : IsContext(t[i])
      BY <1>1, <2>2, <2>3 DEF Stands
    <3> QED
      BY <2>3, <3>1 DEF Stands
  <2>5. Precedes(s, t)
    BY <1>1, <2>3 DEF Precedes
  <2>6. Increment(s) = t
    BY <1>2 DEF Increment, t, e
  <2>7. StrayLevels(t) \subseteq StrayLevels(s)
    <3> SUFFICES ASSUME NEW i \in StrayLevels(t) PROVE i \in StrayLevels(s)
      OBVIOUS
    <3>1. i \in 2..(Len(s) + 1) /\ t[i].parent # Node(t[i - 1])
      BY <2>3 DEF StrayLevels
    <3>2. i - 1 \in 1..Len(s) /\ t[i - 1] = s[i - 1]
      BY <1>1, <2>3, <3>1
    <3>3. i # Len(s) + 1
      BY <1>1, <2>2, <2>3, <3>1, <3>2
    <3>4. i \in 2..Len(s) /\ i \in 1..Len(s)
      BY <1>1, <3>1, <3>3
    <3> QED
      BY <2>3, <3>1, <3>2, <3>4 DEF StrayLevels
  <2> QED
    BY <2>4, <2>5, <2>6, <2>7 DEF Keeps
<1>3. CASE ~IsGroup(At(s))
  BY <1>3, NextSiblingMoves DEF Increment
<1> QED
  BY <1>2, <1>3

LEMMA NextAfterSiblingsMoves ==
    ASSUME NEW s, Stands(s), s # <<>>
    PROVE  /\ Keeps(s, NextAfterSiblings(s))
           /\ NextAfterSiblings(s) = <<>> \/ Precedes(s, NextAfterSiblings(s))
<1> DEFINE n == Len(s)
           c == [s[n] EXCEPT !.cur = s[n].end - 1]
           t == [s EXCEPT ![n] = c]
<1>1. s \in Seq(Contexts) /\ n \in Nat \ {0} /\ n \in 1..Len(s)
  BY DEF Stands
<1>2. /\ c \in Contexts /\ c.parent = s[n].parent /\ c.cur + 1 = s[n].end
      /\ c.end = s[n].end /\ IsContext(c)
  <2>1. /\ s[n] \in Contexts /\ s[n].cur \in Nat \ {0} /\ s[n].end \in Nat
        /\ s[n].cur < s[n].end /\ s[n].end <= Width[s[n].parent] + 1
    BY <1>1, StandFacts
  <2>2. s[n].end - 1 \in Nat \ {0}
    BY <2>1
  <2> HIDE DEF n
  <2> QED
    BY <2>1, <2>2 DEF Contexts, IsContext
<1>3. c.parent = Top(s).parent
  BY <1>2 DEF Top
<1>4. /\ Stands(t) /\ Len(t) = n /\ t[n] = c /\ \A i \in 1..(n - 1) : t[i] = s[i]
  BY <1>2, <1>3, LastReplaced
<1>5. NextAfterSiblings(s) = NextSibling(t)
  BY DEF NextAfterSiblings, Top
<1>9. Keeps(s, t)
  <2>1. Len(t) <= Len(s) /\ Len(t) - 1 = n - 1 /\ \A i \in 1..n : i = n \/ i \in 1..(n - 1)
    BY <1>1, <1>4
  <2>2. \A i \in 1..n : t[i].parent = s[i].parent
    BY <1>2, <1>4, <2>1
  <2>3. \A i \in 1..(n - 1) : t[i].cur = s[i].cur
    BY <1>4
  <2> HIDE DEF t, c, n
  <2> QED
    BY <1>4, <2>1, <2>2, <2>3, NoNewStray
<1>10. Keeps(s, NextSibling(t))
  BY <1>4, <1>9, NextSiblingMoves DEF Keeps
<1>6. n \notin LevelsLeft(t)
  BY <1>2, <1>4 DEF LevelsLeft, AtLast
<1> HIDE DEF t, c
<1>7. CASE LevelsLeft(t) # {}
  <2>1. PICK k \in LevelsLeft(t) :
              /\ k \in 1..Len(t)
              /\ Stands(NextSibling(t)) /\ Len(NextSibling(t)) = k
              /\ NextSibling(t)[k].cur = t[k].cur + 1
              /\ \A i \in 1..(k - 1) : NextSibling(t)[i] = t[i]
    BY <1>4, <1>7, NextSiblingFacts
  <2>2. k \in 1..(n - 1)
    BY <1>1, <1>4, <1>6, <2>1
  <2>3. s[k].cur \in Nat
    BY <1>1, <2>2, StandFacts
  <2>4. s[k].cur < NextSibling(t)[k].cur
    BY <1>4, <2>1, <2>2, <2>3
  <2>5. \A i \in 1..(k - 1) : s[i].cur = NextSibling(t)[i].cur
    <3> SUFFICES ASSUME NEW i \in 1..(k - 1) PROVE s[i].cur = NextSibling(t)[i].cur
      OBVIOUS
    <3>1. n \in Nat
      BY <1>1
    <3>2. i \in 1..(n - 1)
      BY <2>2, <3>1
    <3>3. t[i] = s[i]
      BY <1>4, <3>2
    <3> QED
      BY <2>1, <3>3
  <2>6. k - 1 \in 0..Len(s) /\ k - 1 < k /\ (k - 1) + 1 = k
    BY <1>1, <2>2
  <2>7. Precedes(s, NextSibling(t))
    BY <2>1, <2>4, <2>5, <2>6 DEF Precedes
  <2> QED
    BY <1>5, <1>10, <2>7
<1>8. CASE LevelsLeft(t) = {}
  BY <1>5, <1>8, <1>10 DEF NextSibling
<1> QED
  BY <1>7, <1>8

LEMMA NextAlternativeMoves ==
    ASSUME NEW s, Stands(s), IsAlternative(s)
    PROVE  /\ Keeps(s, NextAlternative(s))
           /\ NextAlternative(s) = <<>> \/ Precedes(s, NextAlternative(s))
<1> DEFINE I == {i \in DOMAIN s : s[i].parent \in Exclusive}
           n == Innermost(I)
           t == SubSeq(s, 1, n)
<1>1. s \in Seq(Contexts) /\ Len(s) \in Nat /\ DOMAIN s = 1..Len(s)
  BY DEF Stands
<1>2. I # {} /\ I \subseteq 1..Len(s)
  BY <1>1 DEF IsAlternative
<1>3. n \in 1..Len(s)
  BY <1>1, <1>2, InnermostFacts
<1>5. NextAlternative(s) = NextSibling(t)
  BY <1>2 DEF NextAlternative
<1> HIDE DEF I, n
<1>4. Stands(t) /\ Len(t) = n /\ \A i \in 1..n : t[i] = s[i]
  BY <1>1, <1>3, Prefix
<1> HIDE DEF I, n, t
<1>8. Keeps(s, NextSibling(t))
  <2>1. Len(t) <= Len(s) /\ \A i \in 1..(n - 1) : i \in 1..n
    BY <1>1, <1>3, <1>4
  <2>2. Keeps(s, t)
    BY <1>4, <2>1, NoNewStray
  <2> QED
    BY <1>4, <2>2, NextSiblingMoves DEF Keeps
<1>6. CASE LevelsLeft(t) # {}
  <2>1. PICK k \in LevelsLeft(t) :
              /\ k \in 1..Len(t)
              /\ Stands(NextSibling(t)) /\ Len(NextSibling(t)) = k
              /\ NextSibling(t)[k].cur = t[k].cur + 1
              /\ \A i \in 1..(k - 1) : NextSibling(t)[i] = t[i]
    BY <1>4, <1>6, NextSiblingFacts
  <2>2. k \in 1..n /\ k \in 1..Len(s)
    BY <1>1, <1>3, <1>4, <2>1
  <2>3. s[k].cur \in Nat
    BY <1>1, <2>2, StandFacts
  <2>4. s[k].cur < NextSibling(t)[k].cur
    BY <1>4, <2>1, <2>2, <2>3
  <2>5. \A i \in 1..(k - 1) : s[i].cur = NextSibling(t)[i].cur
    BY <1>1, <1>3, <1>4, <2>1, <2>2
  <2>6. k - 1 \in 0..Len(s) /\ k - 1 < k /\ (k - 1) + 1 = k
    BY <1>1, <2>2
  <2>7. Precedes(s, NextSibling(t))
    BY <2>1, <2>4, <2>5, <2>6 DEF Precedes
  <2> QED
    BY <1>5, <1>8, <2>7
<1>7. CASE LevelsLeft(t) = {}
  BY <1>5, <1>7, <1>8 DEF NextSibling
<1> QED
  BY <1>6, <1>7

LEMMA BackToParentKeeps ==
    ASSUME NEW s, Stands(s)
    PROVE  Keeps(s, BackToParent(s))
<1>1. s \in Seq(Contexts) /\ Len(s) \in Nat
  BY DEF Stands
<1>2. CASE s = <<>>
  BY <1>2, EmptyKeeps DEF BackToParent
<1>3. CASE s # <<>>
  <2> DEFINE n == Len(s) - 1
             t == SubSeq(s, 1, n)
  <2>1. n \in 0..Len(s) /\ n \in Nat /\ n <= Len(s) /\ \A i \in 1..(n - 1) : i \in 1..n
    BY <1>1, <1>3
  <2>2. Stands(t) /\ Len(t) = n /\ \A i \in 1..n : t[i] = s[i]
    BY <2>1, Prefix
  <2>3. BackToParent(s) = t
    BY <1>3 DEF BackToParent
  <2> HIDE DEF t, n
  <2> QED
    BY <2>1, <2>2, <2>3, NoNewStray
<1> QED
  BY <1>2, <1>3

LEMMA SkipSiblingsKeeps ==
    ASSUME NEW s, Stands(s), s # <<>>
    PROVE  Keeps(s, SkipSiblings(s))
<1> DEFINE n == Len(s)
           c == [s[n] EXCEPT !.end = s[n].cur + 1]
<1>1. n \in 1..Len(s)
  BY DEF Stands
<1>2. /\ s[n] \in Contexts /\ s[n].cur \in Nat \ {0} /\ s[n].end \in Nat
      /\ s[n].cur < s[n].end /\ s[n].end <= Width[s[n].parent] + 1
      /\ Width[s[n].parent] \in Nat \ {0}
  BY <1>1, StandFacts
<1>3. SkipSiblings(s) = [s EXCEPT ![n] = c]
  BY DEF SkipSiblings, Top
<1>4. Top(s) = s[n]
  BY DEF Top
<1> HIDE DEF n
<1>5. c \in Contexts /\ c.parent = Top(s).parent /\ IsContext(c)
  BY <1>2, <1>4 DEF Contexts, IsContext
<1> HIDE DEF c
<1> DEFINE t == [s EXCEPT ![Len(s)] = c]
<1>6. /\ Stands(t) /\ Len(t) = Len(s) /\ t[Len(s)] = c
      /\ \A i \in 1..(Len(s) - 1) : t[i] = s[i]
  BY <1>5, LastReplaced
<1> HIDE DEF t
<1>7. Len(s) \in Nat /\ \A i \in 1..Len(s) : i = Len(s) \/ i \in 1..(Len(s) - 1)
  BY DEF Stands
<1>8. \A i \in 1..Len(s) : t[i].parent = s[i].parent
  BY <1>5, <1>6, <1>7 DEF Top
<1>9. Keeps(s, t)
  BY <1>6, <1>7, <1>8, NoNewStray
<1> QED
  BY <1>3, <1>9 DEF n, t

LEMMA SkipAlternativesKeeps ==
    ASSUME NEW s, Stands(s)
    PROVE  Keeps(s, SkipAlternatives(s))
<1> DEFINE t == SkipAlternatives(s)
<1>1. s \in Seq(Contexts) /\ Len(s) \in Nat /\ DOMAIN s = 1..Len(s)
  BY DEF Stands
<1>2. \A i \in 1..Len(s) : t[i] = IF s[i].parent \in Exclusive
                                  THEN [s[i] EXCEPT !.end = s[i].cur + 1] ELSE s[i]
  BY <1>1 DEF SkipAlternatives
<1>3. ASSUME NEW i \in 1..Len(s)
      PROVE  /\ t[i] \in Contexts /\ IsContext(t[i])
             /\ t[i].parent = s[i].parent /\ t[i].cur = s[i].cur
  <2>1. CASE s[i].parent \in Exclusive
    <3>1. t[i] = [s[i] EXCEPT !.end = s[i].cur + 1]
      BY <1>2, <2>1
    <3> QED
      BY <3>1, StandFacts DEF Contexts, IsContext
  <2>2. CASE s[i].parent \notin Exclusive
    BY <1>2, <2>2, StandFacts DEF IsContext
  <2> QED
    BY <2>1, <2>2
<1>4. t \in Seq(Contexts) /\ Len(t) = Len(s)
  <2>1. t = [i \in 1..Len(s) |-> t[i]]
    BY <1>1 DEF SkipAlternatives
  <2> HIDE DEF t
  <2>2. t \in [1..Len(s) -> Contexts]
    BY <1>3, <2>1
  <2> QED
    BY <1>1, <2>2
<1> HIDE DEF t
<1>5. Stands(t)
  BY <1>3, <1>4 DEF Stands
<1>6. Keeps(s, t)
  <2>1. Len(t) <= Len(s) /\ \A i \in 1..(Len(t) - 1) : i \in 1..Len(s)
    BY <1>1, <1>4
  <2> QED
    BY <1>3, <1>4, <1>5, <2>1, NoNewStray
<1> QED
  BY <1>6 DEF t

\* undo() puts the memento on what was above its level.
LEMMA UndoMoves ==
    ASSUME NEW s, Stands(s), NEW m, m.level = 0 \/ (m.level \in Nat /\ m.context \in Places)
    PROVE  /\ Stands(Undo(s, m))
           /\ \A i \in StrayLevels(Undo(s, m)) \ StrayLevels(s) :
                 m.level = i /\ m.context.parent # Node(s[i - 1])
<1> DEFINE k == m.level - 1
           p == SubSeq(s, 1, k)
           t == Append(p, m.context)
<1>1. s \in Seq(Contexts) /\ Len(s) \in Nat
  BY DEF Stands
<1>2. CASE ~(m.level \in 1..Len(s) \/ (s = <<>> /\ m.level = 1))
  <2>1. Undo(s, m) = s
    BY <1>2 DEF Undo
  <2> QED
    BY <2>1
<1>3. CASE m.level \in 1..Len(s) \/ (s = <<>> /\ m.level = 1)
  <2>1. Undo(s, m) = t
    BY <1>3 DEF Undo
  <2>2. k \in 0..Len(s) /\ m.level = k + 1 /\ k \in Nat /\ m.context \in Contexts /\ IsContext(m.context)
    BY <1>1, <1>3 DEF Places
  <2>3. Stands(p) /\ Len(p) = k /\ \A i \in 1..k : p[i] = s[i]
    BY <2>2, Prefix
  <2>4. p \in Seq(Contexts)
    BY <2>3 DEF Stands
  <2> HIDE DEF k, p
  <2>5. /\ t \in Seq(Contexts) /\ Len(t) = k + 1 /\ t[k + 1] = m.context
        /\ \A i \in 1..k : t[i] = p[i]
    BY <2>2, <2>3, <2>4
  <2> HIDE DEF t
  <2>6. Stands(t)
    <3>1. \A i \in 1..(k + 1) : i = k + 1 \/ i \in 1..k
      BY <2>2
    <3>2. \A i \in 1..k : IsContext(p[i])
      BY <2>3 DEF Stands
    <3> QED
      BY <2>2, <2>5, <3>1, <3>2 DEF Stands
  <2>7. ASSUME NEW i \in StrayLevels(t), i \notin StrayLevels(s)
        PROVE  m.level = i /\ m.context.parent # Node(s[i - 1])
    <3>1. i \in 2..(k + 1) /\ t[i].parent # Node(t[i - 1])
      BY <2>5 DEF StrayLevels
    <3>2. i - 1 \in 1..k /\ t[i - 1] = s[i - 1]
      BY <2>2, <2>3, <2>5, <3>1
    <3>3. CASE i = k + 1
      BY <2>2, <2>5, <3>1, <3>2, <3>3
    <3>4. CASE i # k + 1
      <4>1. i \in 1..k /\ i \in 2..Len(s)
        BY <1>1, <2>2, <3>1, <3>4
      <4>2. t[i] = s[i]
        BY <2>3, <2>5, <4>1
      <4>3. i \in StrayLevels(s)
        BY <3>1, <3>2, <4>1, <4>2 DEF StrayLevels
      <4> QED
        BY <2>7, <4>3
    <3> QED
      BY <3>3, <3>4
  <2> QED
    BY <2>1, <2>6, <2>7
<1> QED
  BY <1>2, <1>3

\* What undo_point() remembers of a stack.
LEMMA UndoPointStands ==
    ASSUME NEW s, Stands(s)
    PROVE  UndoPoint(s).level = 0 \/ (UndoPoint(s).level \in Nat /\ UndoPoint(s).context \in Places)
<1>1. CASE s = <<>>
  BY <1>1 DEF UndoPoint
<1>2. CASE s # <<>>
  <2>1. Len(s) \in Nat /\ Len(s) \in 1..Len(s)
    BY <1>2 DEF Stands
  <2>2. s[Len(s)] \in Contexts /\ IsContext(s[Len(s)])
    BY <2>1 DEF Stands
  <2> QED
    BY <1>2, <2>1, <2>2 DEF UndoPoint, Places, Top
<1> QED
  BY <1>1, <1>2
-----------------------------------------------------------------------------
(***************************************************************************)
(* The walk.                                                               *)
(***************************************************************************)
LEMMA InitStands == Init => StandsInGrammar
<1> SUFFICES ASSUME NEW g \in Groups, cursor = Start(g), mementos = {} PROVE StandsInGrammar
  BY DEF Init
<1>1. Enter(g) \in Contexts /\ IsContext(Enter(g))
  BY TreeAssumption DEF Enter, Contexts, IsContext, Groups
<1>2. cursor = <<Enter(g)>>
  BY DEF Start
<1> HIDE DEF Groups
<1> QED
  BY <1>1, <1>2 DEF StandsInGrammar, Stands

\* The moves of the traverser itself keep it on its way.
LEMMA ForwardFacts ==
    ASSUME StandsInGrammar, Forward
    PROVE  /\ Keeps(cursor, cursor') /\ UNCHANGED mementos
           /\ cursor' = <<>> \/ Precedes(cursor, cursor')
<1>1. Stands(cursor) /\ cursor # <<>> /\ UNCHANGED mementos
  BY DEF StandsInGrammar, Forward, Advance, SkipChildren, SkipRest, SkipToAlternative, Valid
<1>2. CASE Advance
  BY <1>1, <1>2, IncrementMoves DEF Advance
<1>3. CASE SkipChildren
  BY <1>1, <1>3, NextSiblingMoves DEF SkipChildren
<1>4. CASE SkipRest
  BY <1>1, <1>4, NextAfterSiblingsMoves DEF SkipRest
<1>5. CASE SkipToAlternative
  BY <1>1, <1>5, NextAlternativeMoves DEF SkipToAlternative
<1> QED
  BY <1>1, <1>2, <1>3, <1>4, <1>5 DEF Forward

LEMMA MoveFacts ==
    ASSUME StandsInGrammar, Forward \/ Rise \/ RuleOutAlternatives \/ RuleOutSiblings
    PROVE  Keeps(cursor, cursor') /\ UNCHANGED mementos
<1>1. Stands(cursor)
  BY DEF StandsInGrammar
<1>2. CASE Forward
  BY <1>2, ForwardFacts
<1>3. CASE Rise
  BY <1>1, <1>3, BackToParentKeeps DEF Rise
<1>4. CASE RuleOutAlternatives
  BY <1>1, <1>4, SkipAlternativesKeeps DEF RuleOutAlternatives
<1>5. CASE RuleOutSiblings
  BY <1>1, <1>5, SkipSiblingsKeeps DEF RuleOutSiblings, Valid
<1> QED
  BY <1>2, <1>3, <1>4, <1>5

\* One step: where the cursor may have come to.
LEMMA NextFacts ==
    ASSUME StandsInGrammar, [Next]_vars
    PROVE  /\ StandsInGrammar'
           /\ \A i \in StrayLevels(cursor') \ StrayLevels(cursor) :
                 \E m \in mementos : /\ Restore(m) /\ m.level = i
                                     /\ m.context.parent # Node(cursor[i - 1])
<1>1. /\ Stands(cursor)
      /\ \A m \in mementos : m.level = 0 \/ (m.level \in Nat /\ m.context \in Places)
  BY DEF StandsInGrammar
<1>2. CASE Forward \/ Rise \/ RuleOutAlternatives \/ RuleOutSiblings
  <2>1. Keeps(cursor, cursor') /\ mementos' = mementos
    BY <1>2, MoveFacts
  <2>2. Stands(cursor') /\ StrayLevels(cursor') \subseteq StrayLevels(cursor)
    BY <2>1 DEF Keeps
  <2> QED
    BY <1>1, <2>1, <2>2 DEF StandsInGrammar
<1>3. CASE Remember
  <2>1. cursor' = cursor /\ mementos' = mementos \union {UndoPoint(cursor)}
    BY <1>3 DEF Remember
  <2>2. UndoPoint(cursor).level = 0
          \/ (UndoPoint(cursor).level \in Nat /\ UndoPoint(cursor).context \in Places)
    BY <1>1, UndoPointStands
  <2> QED
    BY <1>1, <2>1, <2>2 DEF StandsInGrammar
<1>4. ASSUME NEW m \in mementos, Restore(m)
      PROVE  /\ StandsInGrammar'
             /\ \A i \in StrayLevels(cursor') \ StrayLevels(cursor) :
                   m.level = i /\ m.context.parent # Node(cursor[i - 1])
  <2>1. cursor' = Undo(cursor, m) /\ mementos' = mementos
    BY <1>4 DEF Restore
  <2>2. /\ Stands(cursor')
        /\ \A i \in StrayLevels(cursor') \ StrayLevels(cursor) :
              m.level = i /\ m.context.parent # Node(cursor[i - 1])
    BY <1>1, <2>1, UndoMoves
  <2> QED
    BY <1>1, <2>1, <2>2 DEF StandsInGrammar
<1>5. ASSUME NEW m \in mementos, Forget(m) PROVE StandsInGrammar' /\ cursor' = cursor
  BY <1>1, <1>5 DEF Forget, StandsInGrammar
<1>6. CASE UNCHANGED vars
  BY <1>1, <1>6 DEF vars, StandsInGrammar
<1> QED
  BY <1>2, <1>3, <1>4, <1>5, <1>6 DEF Next

\* In every tree the cursor and what is remembered of it stay on children of
\* groups, whatever moves are made with it and whatever is put back.
THEOREM CursorStandsInGrammar == Spec => []StandsInGrammar
<1>1. StandsInGrammar /\ [Next]_vars => StandsInGrammar'
  BY NextFacts
<1> QED
  BY <1>1, InitStands, PTL DEF Spec

\* In every tree no move but undo() leaves a path, and undo() leaves it at the
\* level of the memento, and only if that was taken on another branch.
THEOREM PathsAreLeftByUndo == Spec => OnlyUndoStrays
<1>1. StandsInGrammar /\ [Next]_vars
        => [\A i \in StrayLevels(cursor') \ StrayLevels(cursor) :
               \E m \in mementos : /\ Restore(m) /\ m.level = i
                                   /\ m.context.parent # Node(cursor[i - 1])]_vars
  BY NextFacts
<1> QED
  BY <1>1, CursorStandsInGrammar, PTL DEF Spec, OnlyUndoStrays

\* In every tree the moves that look for the next parameter without undoing
\* anything lead on.
THEOREM WalkLeadsOn == Spec => OnlyForward
<1>1. StandsInGrammar /\ [Next]_vars
        => [Forward => cursor' = <<>> \/ Precedes(cursor, cursor')]_vars
  BY ForwardFacts
<1> QED
  BY <1>1, CursorStandsInGrammar, PTL DEF Spec, OnlyForward

-----------------------------------------------------------------------------
(***************************************************************************)
(* ++ passes no node of the grammar by.  The contexts of a cursor spell    *)
(* the path of its node; what comes later in the order of the walk is      *)
(* below that node, ruled out, or not before the node ++ leads to.         *)
(***************************************************************************)

(***************************************************************************)
(* Two ways for a node not to be before another one.                       *)
(***************************************************************************)
LEMMA LaterAtFork ==
    ASSUME NEW n \in Seq(Nat), NEW q \in Seq(Nat), NEW k \in Nat,
           k < Len(n), k < Len(q), \A i \in 1..k : n[i] = q[i], q[k + 1] < n[k + 1]
    PROVE  ~Before(n, q)
<1> SUFFICES ASSUME NEW j \in 0..Len(n), j < Len(q), \A i \in 1..j : n[i] = q[i],
                    j < Len(n) => n[j + 1] < q[j + 1]
             PROVE  FALSE
  BY DEF Before
<1>1. Len(n) \in Nat /\ Len(q) \in Nat /\ n[k + 1] \in Nat /\ q[k + 1] \in Nat
  <2>1. k + 1 \in 1..Len(n) /\ k + 1 \in 1..Len(q)
    OBVIOUS
  <2> QED
    BY <2>1
<1>2. CASE j < k
  <2>1. j + 1 \in 1..k /\ j < Len(n)
    BY <1>1, <1>2
  <2>2. n[j + 1] = q[j + 1]
    BY <2>1
  <2>3. j + 1 \in 1..Len(n)
    BY <1>1, <2>1
  <2>4. n[j + 1] \in Nat
    BY <2>3
  <2> QED
    BY <2>1, <2>2, <2>4
<1>3. CASE j = k
  BY <1>1, <1>3
<1>4. CASE j > k
  <2>1. k + 1 \in 1..j
    BY <1>4
  <2> QED
    BY <1>1, <2>1
<1> QED
  BY <1>2, <1>3, <1>4

LEMMA NotAbove ==
    ASSUME NEW n \in Seq(Nat), NEW q \in Seq(Nat),
           Len(q) <= Len(n), \A i \in 1..Len(q) : n[i] = q[i]
    PROVE  ~Before(n, q)
<1> SUFFICES ASSUME NEW j \in 0..Len(n), j < Len(q), j < Len(n) => n[j + 1] < q[j + 1]
             PROVE  FALSE
  BY DEF Before
<1>1. j < Len(n) /\ j + 1 \in 1..Len(q) /\ j + 1 \in 1..Len(n)
  OBVIOUS
<1>2. n[j + 1] = q[j + 1] /\ n[j + 1] \in Nat
  BY <1>1
<1> QED
  BY <1>1, <1>2
-----------------------------------------------------------------------------
(***************************************************************************)
(* The node at a level of a cursor: the path of the group the walk began   *)
(* with, and then the children its contexts point at.                      *)
(***************************************************************************)
Origin(s) == Len(s[1].parent)

Spelled(s, i) ==
    /\ Node(s[i]) \in Seq(Nat \ {0}) /\ Len(Node(s[i])) = Origin(s) + i
    /\ \A x \in 1..Origin(s) : Node(s[i])[x] = s[1].parent[x]
    /\ \A j \in 1..i : Node(s[i])[Origin(s) + j] = s[j].cur

LEMMA NodeOf ==
    ASSUME NEW s, IsPath(s), NEW i \in 1..Len(s)
    PROVE  /\ s[i].parent \in Seq(Nat \ {0}) /\ s[i].cur \in Nat \ {0}
           /\ Len(Node(s[i])) = Len(s[i].parent) + 1
           /\ Node(s[i]) \in Seq(Nat \ {0})
           /\ Node(s[i])[Len(s[i].parent) + 1] = s[i].cur
           /\ \A x \in 1..Len(s[i].parent) : Node(s[i])[x] = s[i].parent[x]
<1>1. s[i].parent \in Groups /\ s[i].cur \in Nat \ {0}
  BY StandFacts DEF IsPath
<1>2. s[i].parent \in Seq(Nat \ {0})
  BY <1>1, TreeAssumption
<1> QED
  BY <1>1, <1>2 DEF Node

LEMMA SpelledFacts ==
    ASSUME NEW s, IsPath(s)
    PROVE  \A i \in 1..Len(s) : Spelled(s, i)
<1> DEFINE T == {i \in 1..Len(s) : ~Spelled(s, i)}
<1> SUFFICES ASSUME T # {} PROVE FALSE
  OBVIOUS
<1>1. Len(s) \in Nat
  BY DEF IsPath, Stands
<1>2. PICK i \in T : \A j \in T : i <= j
  <2>1. T \subseteq Nat
    BY <1>1
  <2> HIDE DEF T
  <2> QED
    BY <2>1, LeastNat
<1>3. i \in 1..Len(s) /\ ~Spelled(s, i)
  BY <1>2 DEF T
<1> HIDE DEF T
<1>4. i # 1
  <2> SUFFICES Spelled(s, 1)
    BY <1>3
  <2>1. 1 \in 1..Len(s)
    BY <1>1, <1>3
  <2> QED
    BY <2>1, NodeOf DEF Spelled, Origin
<1>5. i - 1 \in 1..Len(s) /\ i - 1 \in 1..(Len(s) - 1) /\ (i - 1) + 1 = i
  BY <1>1, <1>3, <1>4
<1>6. Spelled(s, i - 1)
  BY <1>2, <1>5 DEF T
<1>7. s[i].parent = Node(s[i - 1])
  <2>1. i \in 2..Len(s) /\ i \notin StrayLevels(s)
    BY <1>1, <1>3, <1>4 DEF IsPath
  <2> QED
    BY <2>1 DEF StrayLevels
<1>8. Origin(s) \in Nat
  <2>1. 1 \in 1..Len(s)
    BY <1>1, <1>3
  <2> QED
    BY <2>1, NodeOf DEF Origin
<1>9. Len(s[i].parent) = Origin(s) + (i - 1)
  BY <1>6, <1>7 DEF Spelled
<1>10. Len(s[i].parent) + 1 = Origin(s) + i
  BY <1>3, <1>8, <1>9
<1>11. Node(s[i]) \in Seq(Nat \ {0}) /\ Len(Node(s[i])) = Origin(s) + i
  BY <1>3, <1>10, NodeOf
<1>12. \A x \in 1..(Origin(s) + (i - 1)) : Node(s[i])[x] = Node(s[i - 1])[x]
  <2>1. \A x \in 1..Len(s[i].parent) : Node(s[i])[x] = s[i].parent[x]
    BY <1>3, NodeOf
  <2> QED
    BY <1>7, <1>9, <2>1
<1>13. \A x \in 1..Origin(s) : Node(s[i])[x] = s[1].parent[x]
  <2> SUFFICES ASSUME NEW x \in 1..Origin(s) PROVE Node(s[i])[x] = s[1].parent[x]
    OBVIOUS
  <2>1. x \in 1..(Origin(s) + (i - 1))
    BY <1>5, <1>8
  <2> QED
    BY <1>6, <1>12, <2>1 DEF Spelled
<1>14. \A j \in 1..i : Node(s[i])[Origin(s) + j] = s[j].cur
  <2> SUFFICES ASSUME NEW j \in 1..i PROVE Node(s[i])[Origin(s) + j] = s[j].cur
    OBVIOUS
  <2>1. CASE j = i
    BY <1>3, <1>10, <2>1, NodeOf
  <2>2. CASE j # i
    <3>1. j \in 1..(i - 1) /\ Origin(s) + j \in 1..(Origin(s) + (i - 1))
      BY <1>3, <1>8, <2>2
    <3>2. Node(s[i])[Origin(s) + j] = Node(s[i - 1])[Origin(s) + j]
      BY <1>12, <3>1
    <3>3. Node(s[i - 1])[Origin(s) + j] = s[j].cur
      BY <1>6, <3>1 DEF Spelled
    <3> QED
      BY <3>2, <3>3
  <2> QED
    BY <2>1, <2>2
<1> QED
  BY <1>3, <1>11, <1>13, <1>14 DEF Spelled

\* Two cursors through the same children.
SameWay(s, t, l) ==
    s[1].parent = t[1].parent /\ \A x \in 1..l : s[x].cur = t[x].cur

LEMMA SameSpelling ==
    ASSUME NEW s, NEW t, NEW i \in Nat, NEW j \in Nat, NEW l \in Nat, l <= i, l <= j,
           Spelled(s, i), Spelled(t, j), Origin(s) \in Nat, SameWay(s, t, l)
    PROVE  \A x \in 1..(Origin(s) + l) : Node(s[i])[x] = Node(t[j])[x]
<1>1. Origin(t) = Origin(s)
  BY DEF Origin, SameWay
<1> SUFFICES ASSUME NEW x \in 1..(Origin(s) + l) PROVE Node(s[i])[x] = Node(t[j])[x]
  OBVIOUS
<1>2. CASE x <= Origin(s)
  <2>1. x \in 1..Origin(s)
    BY <1>2
  <2> QED
    BY <1>1, <2>1 DEF Spelled, SameWay
<1>3. CASE x > Origin(s)
  <2> DEFINE y == x - Origin(s)
  <2>1. y \in 1..l /\ y \in 1..i /\ y \in 1..j /\ Origin(s) + y = x
    BY <1>3
  <2> HIDE DEF y
  <2>2. Node(s[i])[Origin(s) + y] = s[y].cur /\ Node(t[j])[Origin(t) + y] = t[y].cur
    BY <2>1 DEF Spelled
  <2>3. s[y].cur = t[y].cur
    BY <2>1 DEF SameWay
  <2> QED
    BY <1>1, <2>1, <2>2, <2>3
<1> QED
  BY <1>2, <1>3
-----------------------------------------------------------------------------
(***************************************************************************)
(* ++ goes to the first node behind its own that is left to visit.         *)
(***************************************************************************)
\* A node below that of the cursor: ++ goes to its first child.
LEMMA DownToFirstChild ==
    ASSUME NEW s, IsPath(s), s # <<>>, IsGroup(At(s))
    PROVE  /\ Increment(s) # <<>>
           /\ At(Increment(s)) = Append(At(s), 1)
<1>1. s \in Seq(Contexts) /\ Len(s) \in Nat \ {0}
  BY DEF IsPath, Stands
<1>2. Enter(At(s)) \in Contexts
  <2>1. At(s) \in Groups /\ Width[At(s)] \in Nat \ {0}
    BY TreeAssumption DEF IsGroup
  <2> QED
    BY <2>1 DEF Enter, Contexts
<1>3. Increment(s) = Append(s, Enter(At(s)))
  BY DEF Increment
<1>4. Increment(s) # <<>> /\ Top(Increment(s)) = Enter(At(s))
  BY <1>1, <1>2, <1>3 DEF Top
<1> QED
  BY <1>4 DEF At, Node, Enter

LEMMA PassesNothing ==
    ASSUME NEW s, IsPath(s), s # <<>>, NEW n \in Nodes, Below(s[1].parent, n),
           Before(At(s), n), Increment(s) # <<>> => Before(n, At(Increment(s)))
    PROVE  RuledOut(s, n)
<1> DEFINE m == Len(s)
           p == At(s)
           d == Origin(s)
           first == Append(p, 1)
<1>1. m \in Nat /\ m \in 1..m /\ 1 \in 1..m /\ s \in Seq(Contexts) /\ p = Node(s[m])
  BY DEF IsPath, Stands, At, Top
<1>2. Spelled(s, m)
  BY <1>1, SpelledFacts
<1>3. d \in Nat /\ p \in Seq(Nat \ {0}) /\ Len(p) = d + m
  BY <1>1, <1>2, NodeOf DEF Spelled, Origin
<1>4. PICK h \in Groups : \E c \in 1..Width[h] : n = Append(h, c)
  BY DEF Nodes
<1>5. h \in Seq(Nat \ {0})
  BY TreeAssumption
<1>6. n \in Seq(Nat \ {0}) /\ Len(n) = Len(h) + 1 /\ \A x \in 1..Len(h) : n[x] = h[x]
  <2>1. PICK c \in 1..Width[h] : n = Append(h, c)
    BY <1>4
  <2>2. c \in Nat \ {0}
    BY TreeAssumption
  <2> QED
    BY <1>5, <2>1, <2>2
<1>7. d < Len(n) /\ \A x \in 1..d : n[x] = s[1].parent[x]
  <2>1. Len(s[1].parent) < Len(n) /\ SubSeq(n, 1, Len(s[1].parent)) = s[1].parent
    BY DEF Below
  <2> QED
    BY <1>3, <1>6, <2>1 DEF Origin
<1>8. PICK k \in 0..Len(p) : /\ k < Len(n)
                             /\ \A x \in 1..k : p[x] = n[x]
                             /\ k < Len(p) => p[k + 1] < n[k + 1]
  BY DEF Before
<1>9. /\ first \in Seq(Nat) /\ Len(first) = Len(p) + 1 /\ first[Len(p) + 1] = 1
      /\ \A x \in 1..Len(p) : first[x] = p[x]
  <2>1. p \in Seq(Nat) /\ 1 \in Nat
    BY <1>3
  <2> HIDE DEF p
  <2> QED
    BY <2>1
<1>10. n \in Seq(Nat) /\ Len(n) \in Nat /\ \A x \in 1..Len(n) : n[x] \in Nat \ {0}
  BY <1>6
<1> HIDE DEF m, p, d, first
<1>11. CASE k = Len(p)
  <2>1. p \in Groups
    <3>1. Len(p) <= Len(h) /\ \A x \in 1..Len(p) : p[x] = h[x]
      <4>1. Len(p) \in Nat /\ Len(h) \in Nat /\ Len(p) <= Len(h)
        BY <1>3, <1>5, <1>6, <1>8, <1>11
      <4> SUFFICES ASSUME NEW x \in 1..Len(p) PROVE p[x] = h[x]
        BY <4>1
      <4>2. x \in 1..Len(h)
        BY <4>1
      <4>3. n[x] = h[x]
        BY <1>6, <4>2
      <4>4. p[x] = n[x]
        BY <1>8, <1>11
      <4> QED
        BY <4>3, <4>4
    <3>2. CASE Len(p) = Len(h)
      BY <1>3, <1>5, <3>1, <3>2, SMTT(20)
    <3>3. CASE Len(p) < Len(h)
      <4>1. Len(p) + 1 \in 1..Len(h)
        BY <1>3, <1>5, <3>3
      <4>2. SubSeq(h, 1, (Len(p) + 1) - 1) \in Groups
        BY <4>1, TreeAssumption
      <4>3. SubSeq(h, 1, (Len(p) + 1) - 1) = p
        BY <1>3, <1>5, <3>1, <3>3
      <4> QED
        BY <4>2, <4>3
    <3> QED
      BY <1>3, <1>5, <3>1, <3>2, <3>3
  <2>2. Before(n, first)
    BY <2>1, DownToFirstChild DEF IsGroup, first, p
  <2>3. n[Len(p) + 1] \in Nat \ {0}
    BY <1>3, <1>8, <1>10, <1>11
  <2>4. CASE n[Len(p) + 1] = 1
    <3>1. \A x \in 1..Len(first) : n[x] = first[x]
      BY <1>3, <1>8, <1>9, <1>11, <2>4
    <3>2. Len(first) <= Len(n)
      BY <1>3, <1>8, <1>9, <1>10, <1>11
    <3>3. ~Before(n, first)
      BY <1>9, <1>10, <3>1, <3>2, NotAbove
    <3> QED
      BY <2>2, <3>3
  <2>5. CASE n[Len(p) + 1] > 1
    <3>1. Len(p) \in Nat /\ Len(p) < Len(n) /\ Len(p) < Len(first)
      BY <1>3, <1>8, <1>9, <1>11
    <3>2. \A x \in 1..Len(p) : n[x] = first[x]
      BY <1>8, <1>9, <1>11
    <3>3. first[Len(p) + 1] < n[Len(p) + 1]
      BY <1>9, <2>5
    <3>4. first \in Seq(Nat) /\ n \in Seq(Nat)
      BY <1>9, <1>10
    <3>5. ~Before(n, first)
      BY <3>1, <3>2, <3>3, <3>4, LaterAtFork
    <3> QED
      BY <2>2, <3>5
  <2> QED
    BY <2>3, <2>4, <2>5
<1>12. CASE k < Len(p) /\ IsGroup(p)
  <2>1. Before(n, first)
    BY <1>12, DownToFirstChild DEF first, p
  <2>2. /\ k \in Nat /\ k < Len(first) /\ \A x \in 1..k : n[x] = first[x]
        /\ first[k + 1] < n[k + 1]
    BY <1>3, <1>8, <1>9, <1>12
  <2> QED
    BY <1>8, <1>9, <1>10, <2>1, <2>2, LaterAtFork
<1>13. CASE k < Len(p) /\ ~IsGroup(p)
  <2> DEFINE i == k - d + 1
             t == NextSibling(s)
  <2>1. d <= k
    <3> SUFFICES ASSUME k < d PROVE FALSE
      BY <1>3
    <3>1. k + 1 \in 1..d /\ k + 1 \in 1..Len(n)
      BY <1>3, <1>8, <1>10
    <3>2. p[k + 1] = s[1].parent[k + 1]
      BY <1>1, <1>2, <3>1 DEF Spelled, d
    <3> QED
      BY <1>7, <1>8, <1>10, <1>13, <3>1, <3>2
  <2>2. i \in 1..m /\ d + i = k + 1 /\ d + (i - 1) = k
    BY <1>1, <1>3, <1>8, <1>13, <2>1
  <2> HIDE DEF i
  <2>3. p[k + 1] = s[i].cur
    BY <1>1, <1>2, <2>2 DEF Spelled, d
  <2>4. Spelled(s, i) /\ i \in 1..Len(s)
    BY <2>2, SpelledFacts DEF m
  <2>5. Len(s[i].parent) = k /\ \A x \in 1..k : s[i].parent[x] = n[x]
    <3>1. Len(s[i].parent) = k
      BY <1>8, <2>2, <2>4, NodeOf DEF Spelled, d
    <3>2. \A x \in 1..(d + i) : Node(s[i])[x] = Node(s[m])[x]
      <4>1. i \in Nat /\ m \in Nat /\ i <= i /\ i <= m
        BY <1>1, <2>2
      <4>2. SameWay(s, s, i)
        BY DEF SameWay
      <4>3. Origin(s) = d /\ Origin(s) \in Nat
        BY <1>3 DEF d
      <4>4. \A x \in 1..(Origin(s) + i) : Node(s[i])[x] = Node(s[m])[x]
        BY <1>2, <2>4, <4>1, <4>2, <4>3, SameSpelling
      <4> QED
        BY <4>3, <4>4
    <3>3. \A x \in 1..k : s[i].parent[x] = p[x]
      <4>1. \A x \in 1..k : Node(s[i])[x] = s[i].parent[x]
        BY <2>4, <3>1, NodeOf
      <4>2. \A x \in 1..k : x \in 1..(d + i)
        BY <1>8, <2>2
      <4> QED
        BY <1>1, <3>2, <4>1, <4>2
    <3> QED
      BY <1>8, <3>1, <3>3
  <2>6. s[i].parent \in Seq(Nat \ {0}) /\ s[i].cur \in Nat \ {0} /\ s[i].end \in Nat
    BY <2>4, NodeOf, StandFacts DEF IsPath
  <2>7. Below(s[i].parent, n)
    <3>1. SubSeq(n, 1, k) = s[i].parent
      BY <1>8, <1>10, <2>5, <2>6
    <3> QED
      BY <1>8, <2>5, <3>1 DEF Below
  <2>8. k + 1 \in 1..Len(n) /\ n[k + 1] \in Nat /\ s[i].cur < n[k + 1]
    BY <1>8, <1>10, <1>13, <2>3
  <2>9. CASE n[k + 1] >= s[i].end
    <3>1. i \in DOMAIN s
      BY <1>1, <2>4
    <3> QED
      BY <2>5, <2>7, <2>9, <3>1 DEF RuledOut
  <2>10. CASE n[k + 1] < s[i].end
    <3>1. i \in LevelsLeft(s)
      <4>1. s[i].cur + 1 # s[i].end
        BY <2>6, <2>8, <2>10
      <4> QED
        BY <1>1, <2>4, <4>1 DEF LevelsLeft, AtLast
    <3>2. PICK K \in LevelsLeft(s) :
              /\ K \in 1..Len(s)
              /\ \A j \in LevelsLeft(s) : j <= K
              /\ Len(NextSibling(s)) = K
              /\ NextSibling(s)[K].parent = s[K].parent
              /\ NextSibling(s)[K].cur = s[K].cur + 1
              /\ \A j \in 1..(K - 1) : NextSibling(s)[j] = s[j]
      BY <3>1, NextSiblingFacts DEF IsPath
    <3>3. K \in Nat /\ i \in Nat /\ 1 <= i /\ i <= K
      BY <2>4, <3>1, <3>2
    <3>4. IsPath(t) /\ Len(t) = K /\ K \in 1..Len(t) /\ t # <<>> /\ At(t) = Node(t[K])
      <4>1. IsPath(t)
        BY NextSiblingMoves DEF IsPath, Keeps
      <4>2. Len(t) = K /\ K \in 1..Len(t)
        BY <3>2, <3>3
      <4> HIDE DEF t
      <4>3. t # <<>> /\ At(t) = Node(t[K])
        BY <4>2 DEF At, Top
      <4> QED
        BY <4>1, <4>2, <4>3
    <3>5. t[1].parent = s[1].parent
      <4>1. K = 1 \/ 1 \in 1..(K - 1)
        BY <3>3
      <4> QED
        BY <3>2, <4>1
    <3>6. \A j \in 1..(i - 1) : t[j].cur = s[j].cur
      <4>1. \A j \in 1..(i - 1) : j \in 1..(K - 1)
        BY <3>3
      <4> QED
        BY <3>2, <4>1
    <3> DEFINE q == At(t)
    <3>7. Before(n, q)
      <4>1. Increment(s) = t
        BY <1>13 DEF Increment, p
      <4> QED
        BY <3>4, <4>1
    <3> HIDE DEF t
    <3>8. Spelled(t, K) /\ Origin(t) = d
      BY <3>4, <3>5, SpelledFacts DEF Origin, d
    <3>9. q \in Seq(Nat) /\ Len(q) = d + K /\ Len(q) \in Nat
      BY <1>3, <3>3, <3>4, <3>8 DEF Spelled
    <3> HIDE DEF q
    <3>10. q[k + 1] = t[i].cur
      BY <2>2, <3>3, <3>4, <3>8 DEF Spelled, q
    <3>11. \A x \in 1..k : n[x] = q[x]
      <4>1. i - 1 \in Nat /\ i - 1 <= m /\ i - 1 <= K
        BY <1>1, <2>2, <3>3
      <4>2. \A x \in 1..(d + (i - 1)) : Node(s[m])[x] = Node(t[K])[x]
        <5>1. m \in Nat /\ K \in Nat /\ Origin(s) \in Nat /\ Origin(s) = d
          BY <1>1, <1>3, <3>3 DEF d
        <5>2. Spelled(s, m) /\ Spelled(t, K)
          BY <1>2, <3>8
        <5> DEFINE l == i - 1
        <5>3. SameWay(s, t, l)
          BY <3>5, <3>6 DEF SameWay
        <5>4. l \in Nat /\ l <= m /\ l <= K
          BY <4>1
        <5> HIDE DEF l
        <5>5. \A x \in 1..(Origin(s) + l) : Node(s[m])[x] = Node(t[K])[x]
          BY <5>1, <5>2, <5>3, <5>4, SameSpelling
        <5> QED
          BY <5>1, <5>5 DEF l
      <4> QED
        BY <1>1, <1>8, <2>2, <3>4, <4>2 DEF q
    <3>12. k \in Nat /\ k < Len(q)
      BY <1>3, <1>8, <2>2, <3>3, <3>9
    <3>13. CASE i < K
      <4>1. i \in 1..(K - 1)
        BY <3>3, <3>13
      <4>2. q[k + 1] = s[i].cur
        BY <3>2, <3>10, <4>1 DEF t
      <4> QED
        BY <1>8, <1>10, <2>8, <3>7, <3>9, <3>11, <3>12, <4>2, LaterAtFork
    <3>14. CASE i = K
      <4>1. q[k + 1] = s[i].cur + 1
        BY <3>2, <3>10, <3>14 DEF t
      <4>2. CASE n[k + 1] = q[k + 1]
        <5>1. Len(q) = k + 1
          BY <2>2, <3>9, <3>14
        <5>2. \A x \in 1..Len(q) : n[x] = q[x]
          BY <3>11, <3>12, <4>2, <5>1
        <5>3. Len(q) <= Len(n)
          BY <1>8, <1>10, <5>1
        <5>4. ~Before(n, q)
          BY <1>10, <3>9, <5>2, <5>3, NotAbove
        <5> QED
          BY <3>7, <5>4
      <4>3. CASE q[k + 1] < n[k + 1]
        BY <1>8, <1>10, <3>7, <3>9, <3>11, <3>12, <4>3, LaterAtFork
      <4> QED
        BY <2>6, <2>8, <4>1, <4>2, <4>3
    <3> QED
      BY <3>3, <3>13, <3>14
  <2> QED
    BY <2>6, <2>8, <2>9, <2>10
<1> QED
  BY <1>3, <1>8, <1>11, <1>12, <1>13

\* In every tree, ++ goes past no node from a path but those that were ruled out.
THEOREM AdvancePassesNothing == Spec => NothingPassedBy
<1>1. [Next]_vars
        => [Advance /\ IsPath(cursor) =>
              \A n \in Nodes :
                 /\ Below(cursor[1].parent, n)
                 /\ Before(At(cursor), n)
                 /\ cursor' # <<>> => Before(n, At(cursor'))
                 => RuledOut(cursor, n)]_vars
  BY PassesNothing DEF Advance, Valid
<1> QED
  BY <1>1, PTL DEF Spec, NothingPassedBy
=============================================================================

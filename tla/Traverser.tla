------------------------------ MODULE Traverser ------------------------------
(***************************************************************************)
(* group::depth_first_traverser of clipp: a cursor over a tree of groups   *)
(* and parameters that the command line parser moves, copies, restricts    *)
(* and rewinds.  The cursor is a stack of contexts, outermost first; the   *)
(* empty stack is the traverser that reached the end.                      *)
(*                                                                         *)
(* A node of the tree is named by its path: <<>> is the root group and     *)
(* Append(g, i) the i-th child of the group g.                             *)
(***************************************************************************)
EXTENDS Integers, Sequences

CONSTANTS
    Width,      \* Width[g]: the number of children of the group g
    Exclusive   \* the groups whose children are alternatives

Groups == DOMAIN Width

(***************************************************************************)
(* Width is a tree: what is above a group is a group.  The parsers of this *)
(* library are started on groups that have children                        *)
(* (depth_first_traverser(cur) keeps its stack empty for an empty group).  *)
(***************************************************************************)
ASSUME TreeAssumption ==
    /\ \A g \in Groups : g \in Seq(Nat \ {0}) /\ Width[g] \in Nat \ {0}
    /\ \A g \in Groups : \A k \in 1..Len(g) : SubSeq(g, 1, k - 1) \in Groups
    /\ Exclusive \subseteq Groups
-----------------------------------------------------------------------------
(***************************************************************************)
(* Contexts: the child cur of the group parent; end is one past the last   *)
(* child this traverser still visits.                                      *)
(***************************************************************************)
Contexts == [parent : Groups, cur : Nat \ {0}, end : Nat]

IsContext(c) == c.cur < c.end /\ c.end <= Width[c.parent] + 1

\* Where a traverser may stand in a group.
Places == {c \in Contexts : IsContext(c)}

\* context(): what the memento of an ended traverser holds.
NoContext == [parent |-> <<0>>, cur |-> 0, end |-> 0]

Enter(g) == [parent |-> g, cur |-> 1, end |-> Width[g] + 1]

Node(c) == Append(c.parent, c.cur)

AtLast(c) == c.cur + 1 = c.end

Start(g) == <<Enter(g)>>

Top(s) == s[Len(s)]

\* operator * and parent(): only a traverser that has not ended has them.
At(s) == Node(Top(s))
Parent(s) == Top(s).parent

IsGroup(n) == n \in Groups

IsFirstInGroup(s) == s # <<>> /\ Top(s).cur = 1

IsLastInGroup(s) == s # <<>> /\ AtLast(Top(s))

IsLastInPath(s) ==
    /\ s # <<>>
    /\ \A i \in DOMAIN s : AtLast(s[i])
    /\ ~IsGroup(At(s))

IsAlternative(s) == \E i \in DOMAIN s : s[i].parent \in Exclusive

\* operator ==; a context never stands at its end, so positions are the same
\* when the children are.
SamePlace(s, t) == s # <<>> /\ t # <<>> /\ At(s) = At(t) /\ Parent(s) = Parent(t)
-----------------------------------------------------------------------------
(***************************************************************************)
(* Moves.                                                                  *)
(***************************************************************************)
LevelsLeft(s) == {i \in DOMAIN s : ~AtLast(s[i])}

Innermost(I) == CHOOSE i \in I : \A j \in I : j <= i

\* The contexts that ran out are popped, and the one above stays.
NextSiblingAbove(s) ==
    IF LevelsLeft(s) = {} THEN <<>> ELSE SubSeq(s, 1, Innermost(LevelsLeft(s)))

\* next_sibling(): the contexts that ran out are popped, the one above moves on.
NextSibling(s) ==
    IF LevelsLeft(s) = {} THEN <<>>
    ELSE LET k == Innermost(LevelsLeft(s))
         IN [SubSeq(s, 1, k) EXCEPT ![k].cur = @ + 1]

\* The children of a group whose turn is last are not walked.
IncrementShallow(s) ==
    IF s # <<>> /\ IsGroup(At(s)) /\ ~AtLast(Top(s)) THEN Append(s, Enter(At(s)))
    ELSE NextSibling(s)

\* operator ++
Increment(s) ==
    IF s = <<>> THEN s
    ELSE IF IsGroup(At(s)) THEN Append(s, Enter(At(s))) ELSE NextSibling(s)

NextAfterSiblings(s) ==
    IF s = <<>> THEN s
    ELSE NextSibling([s EXCEPT ![Len(s)].cur = Top(s).end - 1])

\* next_alternative(): to the next child of the innermost exclusive group.
NextAlternative(s) ==
    LET I == {i \in DOMAIN s : s[i].parent \in Exclusive}
    IN IF I = {} THEN s ELSE NextSibling(SubSeq(s, 1, Innermost(I)))

BackToParent(s) == IF s = <<>> THEN s ELSE SubSeq(s, 1, Len(s) - 1)

\* skip_siblings(): the current child becomes the last one.
SkipSiblings(s) == IF s = <<>> THEN s ELSE [s EXCEPT ![Len(s)].end = Top(s).cur + 1]

\* The end is put on the current child and not behind it.
SkipAlternativesShort(s) ==
    [i \in DOMAIN s |-> IF s[i].parent \in Exclusive
                        THEN [s[i] EXCEPT !.end = s[i].cur] ELSE s[i]]

\* skip_alternatives(): in every exclusive group above, the current child
\* becomes the last one.
SkipAlternatives(s) ==
    [i \in DOMAIN s |-> IF s[i].parent \in Exclusive
                        THEN [s[i] EXCEPT !.end = s[i].cur + 1] ELSE s[i]]

UndoPoint(s) == [level |-> Len(s), context |-> IF s = <<>> THEN NoContext ELSE Top(s)]

\* What is below the level of the memento stays on the stack.
UndoKeepingBelow(s, m) ==
    IF m.level \in 1..Len(s) THEN [s EXCEPT ![m.level] = m.context]
    ELSE IF s = <<>> /\ m.level = 1 THEN <<m.context>>
    ELSE s

\* undo() leaves a traverser alone that is above the level of the memento, and
\* does nothing with that of a traverser that has ended.
Undo(s, m) ==
    IF \/ m.level \in 1..Len(s)
       \/ s = <<>> /\ m.level = 1
    THEN Append(SubSeq(s, 1, m.level - 1), m.context)
    ELSE s
=============================================================================

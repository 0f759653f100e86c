-------------------------------- MODULE Walk --------------------------------
(***************************************************************************)
(* A depth_first_traverser under every sequence of the moves clipp makes   *)
(* with it: the search for a matching parameter (++, from where the last   *)
(* match left it), what it skips when a parameter blocks, the traversers   *)
(* derived from a position (its parent's, one without the alternatives or  *)
(* siblings that are ruled out), and the return to a place that was        *)
(* remembered (a scope of the scoped traverser), wherever the traverser    *)
(* has gone meanwhile.                                                     *)
(***************************************************************************)
EXTENDS Traverser, FiniteSets

CONSTANT MaxMementos    \* how many places are remembered at a time

ASSUME WalkAssumption == MaxMementos \in Nat

VARIABLES
    cursor,
    mementos    \* the places remembered, in whatever order they were

vars == <<cursor, mementos>>

Init ==
    /\ \E g \in Groups : cursor = Start(g)
    /\ mementos = {}

Valid == cursor # <<>>

\* A move of the traverser.
Advance == Valid /\ cursor' = Increment(cursor) /\ UNCHANGED mementos
SkipChildren == Valid /\ cursor' = NextSibling(cursor) /\ UNCHANGED mementos
SkipRest == Valid /\ cursor' = NextAfterSiblings(cursor) /\ UNCHANGED mementos
SkipToAlternative ==
    Valid /\ IsAlternative(cursor) /\ cursor' = NextAlternative(cursor) /\ UNCHANGED mementos
Rise == Valid /\ cursor' = BackToParent(cursor) /\ UNCHANGED mementos
RuleOutAlternatives == Valid /\ cursor' = SkipAlternatives(cursor) /\ UNCHANGED mementos
RuleOutSiblings == Valid /\ cursor' = SkipSiblings(cursor) /\ UNCHANGED mementos

\* scopes_.push(pos_.undo_point()), also of a traverser that has ended.
Remember ==
    /\ Cardinality(mementos) < MaxMementos
    /\ mementos' = mementos \union {UndoPoint(cursor)}
    /\ UNCHANGED cursor

\* pos_.undo(scopes_.top()), and scopes_.pop().
Restore(m) == cursor' = Undo(cursor, m) /\ UNCHANGED mementos
Forget(m) == mementos' = mementos \ {m} /\ UNCHANGED cursor

Forward == Advance \/ SkipChildren \/ SkipRest \/ SkipToAlternative

Next ==
    \/ Forward
    \/ Rise
    \/ RuleOutAlternatives
    \/ RuleOutSiblings
    \/ Remember
    \/ \E m \in mementos : Restore(m) \/ Forget(m)

Spec == Init /\ [][Next]_vars
-----------------------------------------------------------------------------
(***************************************************************************)
(* Properties.                                                             *)
(***************************************************************************)
\* A stack of places: every level is on a child of a group, before its end.
Stands(s) == s \in Seq(Contexts) /\ \A i \in 1..Len(s) : IsContext(s[i])

\* The cursor and what undo() puts back of it are always on children of groups,
\* wherever they were ruled out, put back or have ended: *pos and parent() are
\* defined of every cursor that has not ended.
StandsInGrammar ==
    /\ Stands(cursor)
    /\ \A m \in mementos : m.level = 0 \/ (m.level \in Nat /\ m.context \in Places)

\* The levels of a cursor whose group is not the child the level above is on.
StrayLevels(s) == {i \in 2..Len(s) : s[i].parent # Node(s[i - 1])}

\* A path down the tree.
IsPath(s) == Stands(s) /\ StrayLevels(s) = {}

\* A cursor leaves the path it stands on only by undo(): by a memento of a group
\* that it has left meanwhile, and then at the level that is put back and at no
\* other.  (The scopes of the parser are put back so: its grammar positions are
\* not always paths.)  No other move makes a level stray.
OnlyUndoStrays ==
    [][\A i \in StrayLevels(cursor') \ StrayLevels(cursor) :
          \E m \in mementos : /\ Restore(m) /\ m.level = i
                              /\ m.context.parent # Node(cursor[i - 1])]_vars

\* The order of a depth first walk: a node, what is below it, what follows it.
Precedes(s, t) ==
    \E k \in 0..Len(s) :
       /\ k < Len(t)
       /\ \A i \in 1..k : s[i].cur = t[i].cur
       /\ k < Len(s) => s[k + 1].cur < t[k + 1].cur

\* ++ and the skipping moves lead on in that order or to the end, from wherever
\* the cursor was put.  So a walk that makes these moves only ends and comes to no
\* place twice, as the loop over the parameters that may be missing does (clipp.h
\* 4841-4863).  Nothing follows for a search of the parser, whose ++ undoes scopes.
OnlyForward == [][Forward => cursor' = <<>> \/ Precedes(cursor, cursor')]_vars

\* From a path, ++ passes no node by (of those below the cursor's outermost group)
\* but those that were ruled out.
Before(p, q) ==
    \E k \in 0..Len(p) :
       /\ k < Len(q)
       /\ \A i \in 1..k : p[i] = q[i]
       /\ k < Len(p) => p[k + 1] < q[k + 1]

Below(g, n) == Len(g) < Len(n) /\ SubSeq(n, 1, Len(g)) = g

RuledOut(s, n) == \E i \in DOMAIN s : /\ Below(s[i].parent, n)
                                      /\ n[Len(s[i].parent) + 1] >= s[i].end

Nodes == UNION {{Append(g, i) : i \in 1..Width[g]} : g \in Groups}

NothingPassedBy ==
    [][Advance /\ IsPath(cursor) =>
         \A n \in Nodes :
            /\ Below(cursor[1].parent, n)
            /\ Before(At(cursor), n)
            /\ cursor' # <<>> => Before(n, At(cursor'))
            => RuledOut(cursor, n)]_vars
=============================================================================

------------------------------- MODULE Grammar -------------------------------
(***************************************************************************)
(* The data of clipp: parameters and groups, the factories and operators a *)
(* program builds its command line grammar with, and the attributes the    *)
(* parser reads from them.                                                 *)
(*                                                                         *)
(* A word of the command line and a flag are sequences of atoms: an atom   *)
(* is a piece of text no flag ends inside of, so that "is a prefix of" is  *)
(* all the parser needs to know of strings.  The empty word is <<>>.       *)
(***************************************************************************)
EXTENDS SequencesExt, Naturals

\* What a parameter does with a word mapped to it: sets a variable to a value
\* or, for value(label, target), to the word.
NoAction == [sets |-> "nothing", to |-> FALSE, word |-> FALSE]
-----------------------------------------------------------------------------
(***************************************************************************)
(* Tokens.  A parameter without flags is a value: it takes any non-empty   *)
(* word (match::nonempty).                                                 *)
(***************************************************************************)
Token == [doc |-> "", repeatable |-> FALSE, blocking |-> FALSE]

Parameter(flags) ==
    Token @@ [kind |-> "parameter", flags |-> flags, label |-> "",
              required |-> FALSE, greedy |-> FALSE, action |-> NoAction]

Command(flag) == [Parameter(<<flag>>) EXCEPT !.required = TRUE, !.blocking = TRUE]

Required(flags) == [Parameter(flags) EXCEPT !.required = TRUE]

Option(flags) == Parameter(flags)

Value(label, target) ==
    [Parameter(<<>>) EXCEPT !.label = label, !.required = TRUE, !.blocking = TRUE,
                            !.action = [NoAction EXCEPT !.sets = target, !.word = TRUE]]

Values(label, target) == [Value(label, target) EXCEPT !.repeatable = TRUE]

\* parameter::set(target, value) and call(action)
Set(p, target, value) == [p EXCEPT !.action = [NoAction EXCEPT !.sets = target, !.to = value]]

\* operator %
Doc(token, text) == [token EXCEPT !.doc = text]

Group(children) ==
    Token @@ [kind |-> "group", children |-> children, exclusive |-> FALSE,
              joinable |-> FALSE, scoped |-> TRUE]

IsParameter(n) == n.kind = "parameter"
-----------------------------------------------------------------------------
(***************************************************************************)
(* Attributes a group derives from its children.                           *)
(***************************************************************************)
RECURSIVE IsBlocking(_)
IsBlocking(n) ==
    \/ n.blocking
    \/ ~IsParameter(n) /\ n.exclusive /\ \A i \in DOMAIN n.children : IsBlocking(n.children[i])

AllBlocking(g) == \A i \in DOMAIN g.children : IsBlocking(g.children[i])

RECURSIVE IsRequired(_)
AnyRequired(g) == \E i \in DOMAIN g.children : IsRequired(g.children[i])
AllRequired(g) == \A i \in DOMAIN g.children : IsRequired(g.children[i])
IsRequired(n) ==
    IF IsParameter(n) THEN n.required
    ELSE IF n.exclusive THEN AllRequired(n) ELSE AnyRequired(n)

AnyOptional(g) == ~AllRequired(g)
AllOptional(g) == ~AnyRequired(g)

-----------------------------------------------------------------------------
(***************************************************************************)
(* Operators , | and &.  The operators , and | put the other operand into  *)
(* an existing group when that group is unscoped, not repeatable, not      *)
(* joinable and documented like it, and make a new unscoped group          *)
(* otherwise.                                                              *)
(***************************************************************************)
Open(g, other) ==
    /\ ~IsParameter(g) /\ ~g.scoped /\ ~g.repeatable /\ ~g.joinable
    /\ g.doc \in {"", other.doc}

PushBack(g, n) == [g EXCEPT !.children = Append(@, n)]
PushFront(g, n) == [g EXCEPT !.children = <<n>> \o @]

Unscoped(a, b) == [Group(<<a, b>>) EXCEPT !.scoped = FALSE]

Comma(a, b) ==
    LET Lists(g, other) == Open(g, other) /\ ~IsBlocking(g) /\ ~g.exclusive
    IN IF Lists(a, b) THEN PushBack(a, b)
       ELSE IF IsParameter(a) /\ Lists(b, a) THEN PushFront(b, a)
       ELSE Unscoped(a, b)

OneOf(a, b) ==
    IF Open(a, b) /\ a.exclusive /\ IsBlocking(a) = IsBlocking(b) THEN PushBack(a, b)
    ELSE IF IsParameter(a) /\ Open(b, a) /\ b.exclusive /\ ~IsBlocking(b) THEN PushFront(b, a)
    ELSE [Unscoped(a, b) EXCEPT !.exclusive = TRUE]

\* operator & makes its operands blocking, unless a group already consists of
\* blocking children only.
InSequence(a, b) ==
    LET Blocked(n) == IF ~IsParameter(n) /\ AllBlocking(n) THEN n
                      ELSE [n EXCEPT !.blocking = TRUE]
        \* (parameter, group) leaves the group as it is.
        second == IF IsParameter(a) /\ ~IsParameter(b) THEN b ELSE Blocked(b)
    IN IF /\ ~IsParameter(a) /\ AllBlocking(a) /\ ~a.exclusive /\ ~a.repeatable
          /\ ~a.joinable /\ a.doc \in {"", b.doc}
       THEN PushBack(a, second)
       ELSE Group(<<Blocked(a), second>>)
-----------------------------------------------------------------------------
(***************************************************************************)
(* The tree as a function from paths: Tree(root)[<<>>] = root.             *)
(***************************************************************************)
RECURSIVE TreeAt(_, _)
TreeAt(path, n) ==
    LET below(f, i) == TreeAt(Append(path, i), n.children[i]) @@ f
    IN IF IsParameter(n) THEN path :> n
       ELSE FoldLeft(below, path :> n, [i \in DOMAIN n.children |-> i])

Tree(root) == TreeAt(<<>>, root)

\* Of a spared group no parameter need be missed.
IsSpared(n) == ~IsParameter(n) /\ (AllOptional(n) \/ (n.exclusive /\ AnyOptional(n)))

\* A grammar as its parser sees it: the nodes by their paths, and the sets of
\* nodes the parser tells apart (the constants of Clipp).
GrammarOf(root) ==
    LET nodes == Tree(root)
        Those(Has(_)) == {p \in DOMAIN nodes : Has(nodes[p])}
        groups == Those(LAMBDA n : ~IsParameter(n))
    IN [nodes |-> nodes,
        width |-> [g \in groups |-> Len(nodes[g].children)],
        exclusive |-> {g \in groups : nodes[g].exclusive},
        joinable |-> {g \in groups : nodes[g].joinable},
        flags |-> Those(LAMBDA n : IsParameter(n) /\ n.flags # <<>>),
        flagless |-> Those(LAMBDA n : IsParameter(n) /\ n.flags = <<>>),
        blocking |-> Those(IsBlocking),
        repeating |-> Those(LAMBDA n : n.repeatable),
        required |-> Those(IsRequired),
        spared |-> Those(IsSpared)]
=============================================================================

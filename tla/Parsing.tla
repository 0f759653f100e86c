------------------------------- MODULE Parsing -------------------------------
(***************************************************************************)
(* The loop of clipp's parse_args() over any grammar and any words, and    *)
(* what its result must be whatever the grammar.                           *)
(***************************************************************************)
EXTENDS GrammarParser

CONSTANTS           \* by the names of the examples:
    Grammars,       \* the grammars
    Alphabet,       \* the words a command line is made of
    MaxWords        \* bound on their number

ASSUME ParsingAssumption ==
    /\ DOMAIN Alphabet = DOMAIN Grammars /\ MaxWords \in [DOMAIN Grammars -> Nat]
    /\ \A e \in DOMAIN Grammars :
          /\ IsFiniteSet(DOMAIN Grammars[e].nodes) /\ Alphabet[e] \subseteq Seq(STRING)
          /\ LET width == Grammars[e].width
             IN /\ <<>> \in DOMAIN width /\ \A g \in DOMAIN width : width[g] \in Nat \ {0}
                /\ Grammars[e].joinable \subseteq DOMAIN width

VARIABLES
    example,    \* the name of the grammar
    typed,      \* the words read so far
    parser      \* the parser behind them

vars == <<grammar, example, typed, parser>>

Init ==
    /\ example \in DOMAIN Grammars
    /\ grammar = Grammars[example]
    /\ typed = <<>>
    /\ parser = Parser(<<>>, 0)

\* parse_args() stops at a parser that has become invalid.
ReadWord ==
    /\ Valid(parser.pos) /\ Len(typed) < MaxWords[example]
    /\ \E word \in Alphabet[example] : typed' = Append(typed, word) /\ parser' = Read(parser, word)
    /\ UNCHANGED <<grammar, example>>

Next == ReadWord

Spec == Init /\ [][Next]_vars
-----------------------------------------------------------------------------
\* A position is a path of the grammar: each context is below the child the one
\* above it points at.
IsPath(s, roots) ==
    \A i \in DOMAIN s : s[i].parent \in IF i = 1 THEN roots ELSE {Node(s[i - 1])}

\* Wherever next_after_match(), ++ and the undoing of scopes leave the parser,
\* it and all it remembers stand on paths of the grammar; what the parser of
\* a joinable group found, on paths of that group.
PositionsArePaths ==
    /\ \A s \in {parser.pos.pos, parser.pos.after} : IsPath(s, {<<>>})
    /\ \A i \in DOMAIN parser.missing : IsPath(parser.missing[i].pos, {<<>>})
    /\ IsPath(parser.pos.last, {<<>>} \union Joinable)
    /\ \A i \in DOMAIN parser.args : IsPath(parser.args[i].match, {<<>>} \union Joinable)

\* A traverser that has ended stands too.
Stands(s) == s \in Seq(Places)

\* Every position the parser holds, and those of the scopes it may still return
\* to, consists of places: groups of the grammar, each with an iterator that is
\* on one of their children.  The iterator behind the last child, which ++ and
\* skip_alternatives() compare with, is never the one that clipp dereferences.
PositionsInGrammar ==
    /\ Stands(parser.pos.pos) /\ Stands(parser.pos.last) /\ Stands(parser.pos.after)
    /\ \A i \in DOMAIN parser.pos.scopes :
          parser.pos.scopes[i].level # 0 => parser.pos.scopes[i].context \in Places
    /\ \A i \in DOMAIN parser.missing : Stands(parser.missing[i].pos)
    /\ \A i \in DOMAIN parser.args : Stands(parser.args[i].match)

(***************************************************************************)
(* A result without an error.  A group is complete when what it requires   *)
(* was given, of its alternatives one; an optional blocking parameter that *)
(* was not given excuses what follows it in its group.  A repeatable group *)
(* may be given up at any point of a cycle.                                *)
(***************************************************************************)
Matched == {At(parser.args[i].match) : i \in DOMAIN parser.args}
Touched(p) == \E m \in Matched : IsPrefix(p, m)

Children(g) == {Append(g, i) : i \in 1..Width[g]}

Excused(p) ==
    \E i \in 1..(Last(p) - 1) :
       LET q == Append(Front(p), i)
       IN ~IsGroup(q) /\ q \in Blocking /\ q \notin RequiredNodes /\ ~Touched(q)

Complete(root) ==
    LET complete[p \in DOMAIN Nodes] ==
          IF ~IsGroup(p) THEN Touched(p) \/ p \notin RequiredNodes
          ELSE IF p \in Repeating THEN TRUE
          ELSE IF p \in Exclusive
          THEN \/ p \in Spared /\ ~Touched(p)
               \/ \E q \in Children(p) : Touched(q) /\ complete[q]
          ELSE \A q \in Children(p) : Excused(q) \/ complete[q]
    IN complete[root]

\* The missing parameters are kept track of word by word, candidate by
\* candidate; the result is that of a look at the whole line.
AcceptedIsComplete == ~Failed(parser) => Complete(<<>>)

\* No two alternatives in one cycle of repeatable groups, and nothing twice
\* that is not repeatable or in a repeatable group.
Excludes(a, b) == \E k \in DOMAIN b.match : Alternatives(b.match[k], a.match)

SameCycle(args, i, j) == \A k \in (i + 1)..j : ~args[k].startsRepeatGroup

MayRepeat(s) == At(s) \in Repeating \/ RepeatGroup(s) # NoGroup

AcceptedIsUnambiguous ==
    ~Failed(parser) =>
        \A i, j \in DOMAIN parser.args :
           LET first == parser.args[i]
               second == parser.args[j]
           IN i < j => /\ SameCycle(parser.args, i, j) => ~Excludes(first, second)
                       /\ At(first.match) = At(second.match) => MayRepeat(second.match)

\* The searches of the parser end, with blocking and without.
SearchesEnd ==
    \A ignore \in BOOLEAN : ~Valid(Search(Step, [parser.pos EXCEPT !.ignore = ignore]).at)

\* The words of one joinable group may be written as one: "-ab" for "-a -b".
Mappings(p) == [i \in DOMAIN p.args |-> [at |-> At(p.args[i].match), arg |-> p.args[i].arg]]

SameReading(p, q) == ~Failed(p) => ~Failed(q) /\ Mappings(p) = Mappings(q)

JoinedIsSeparate(whole, parts) ==
    LET Same(after) == SameReading(after[1], after[2])
    IN Same([i \in 1..2 |-> FoldLeft(Read, parser, <<parts, <<whole>>>>[i])])
=============================================================================

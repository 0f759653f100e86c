------------------------------ MODULE MCParsing ------------------------------
(***************************************************************************)
(* Grammars for Parsing.                                                   *)
(***************************************************************************)
EXTENDS Parsing, Grammar

Flag(letter) == <<"-", letter>>
Repeatable(n) == [n EXCEPT !.repeatable = TRUE]
JoinableGroup(children) == [Group(children) EXCEPT !.joinable = TRUE]

\* -x X..., then m (-r [-s]) or n K L, and -v
Sequences ==
    Comma(Comma(InSequence(Option(<<Flag("x")>>), Values("X", "xs")),
                OneOf(Comma(Command(<<"m">>),
                            Group(<<Required(<<Flag("r")>>), Option(<<Flag("s")>>)>>)),
                      InSequence(InSequence(Command(<<"n">>), Value("K", "k")), Value("L", "l")))),
          Option(<<Flag("v")>>))
SequenceWords == {<<"m">>, <<"n">>, <<"w">>, Flag("x"), Flag("r"), Flag("s"), Flag("v"),
                  <<"-", "x", "w">>}

\* ((p | q) [-x X] [-y])... -e
Cycles ==
    Comma(Repeatable(Group(<<OneOf(Command(<<"p">>), Command(<<"q">>)),
                             InSequence(Option(<<Flag("x")>>), Value("X", "x")),
                             Option(<<Flag("y")>>)>>)),
          Required(<<Flag("e")>>))
CycleWords == {<<"p">>, <<"q">>, <<"w">>, Flag("x"), Flag("y"), Flag("e"), <<"-", "x", "w">>}

\* c (-a -b joinable) [-v]
Joins == Comma(Comma(Command(<<"c">>), JoinableGroup(<<Option(<<Flag("a")>>), Option(<<Flag("b")>>)>>)),
               Option(<<Flag("v")>>))
JoinWords == {<<"c">>, Flag("a"), Flag("b"), Flag("v"), <<"-", "a", "b">>, <<"-", "b", "a">>, <<"w">>}

\* [-x] (a b...): "a a" leaves the last b behind, and remembers an ended traverser
Scopes == Group(<<Option(<<Flag("x")>>),
                  Group(<<Command(<<"a">>), Repeatable(Command(<<"b">>))>>)>>)
ScopeWords == {<<"a">>, <<"b">>, Flag("x"), <<"w">>}

Examples == [sequences |-> GrammarOf(Sequences), cycles |-> GrammarOf(Cycles),
             joins |-> GrammarOf(Joins), scopes |-> GrammarOf(Scopes)]
WordsOf == [sequences |-> SequenceWords, cycles |-> CycleWords, joins |-> JoinWords, scopes |-> ScopeWords]
BoundOf == [sequences |-> 5, cycles |-> 5, joins |-> 4, scopes |-> 5]

Text(g) == INSTANCE UsageText WITH
             Nodes <- g.nodes, Width <- g.width, Exclusive <- g.exclusive,
             Joinable <- g.joinable, Flags <- g.flags, Flagless <- g.flagless,
             Blocking <- g.blocking, Repeating <- g.repeating,
             RequiredNodes <- g.required, Spared <- g.spared,
             Program <- <<"tool">>, ValueWord <- <<"w">>
-----------------------------------------------------------------------------
\* "-ab" is read like "-a -b", wherever it is typed.
JoinedFlagsAreSeparate ==
    example = "joins" =>
        \A order \in {<<"a", "b">>, <<"b", "a">>} :
           JoinedIsSeparate(<<"-">> \o order, <<Flag(order[1]), Flag(order[2])>>)

\* The lines the usage text of a grammar shows are read without an error.
Shown == [e \in DOMAIN Examples |-> Text(Examples[e])!Advertised]
AdvertisedIsRead == typed \in Shown[example] => ~Failed(parser)
=============================================================================

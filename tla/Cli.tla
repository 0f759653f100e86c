--------------------------------- MODULE Cli ---------------------------------
(***************************************************************************)
(* main() of irpc: what a command line leads to under the grammar it built *)
(* (module IrpcGrammar).                                                   *)
(*                                                                         *)
(* parse() corrects the words, lets the parser read them one by one, and   *)
(* then executes the actions of the words that were mapped without error,  *)
(* also when the command line as a whole fails; only then main() looks at  *)
(* the result and calls a method of Network or IProute.                    *)
(***************************************************************************)
EXTENDS GrammarParser

CONSTANTS
    CliGrammar,     \* the grammar, as GrammarOf tabulates it
    CommandLines    \* the words irpc is started with

\* No group of the grammar is joinable, and a word consists of atoms.
ASSUME CliAssumption ==
    /\ CliGrammar.joinable = {}
    /\ IsFiniteSet(DOMAIN CliGrammar.nodes)
    /\ CommandLines \subseteq Seq(Seq(STRING))
-----------------------------------------------------------------------------
(***************************************************************************)
(* sanitize_args(): a word that starts with a point and a digit takes over *)
(* the number the word before it ends with, {"-o12", ".34"} becoming       *)
(* {"-o", "12.34"}.  Digits, points and signs are atoms of their own.      *)
(***************************************************************************)
Digits == {"0", "1", "2", "5"}

\* The length of a word without the number at its end.
Stem(word) ==
    LET i == SelectLastInSeq(word, LAMBDA c : c \notin Digits)
    IN IF i > 0 /\ word[i] \in {"+", "-"} THEN i - 1 ELSE i

\* The number is cut off the word before, and not put in front of the point.
SanitizeArgCutting(args, i) ==
    IF Len(args[i]) > 1 /\ args[i][1] = "." /\ args[i][2] \in Digits
    THEN [args EXCEPT ![i - 1] = SubSeq(@, 1, Stem(@))] ELSE args

SanitizeArg(args, i) ==
    LET word == args[i]
        prv == args[i - 1]
    IN IF Len(word) > 1 /\ word[1] = "." /\ word[2] \in Digits
       THEN [args EXCEPT ![i - 1] = SubSeq(prv, 1, Stem(prv)),
                         ![i] = SubSeq(prv, Stem(prv) + 1, Len(prv)) \o word]
       ELSE args

SanitizeArgs(args) ==
    LET sanitized[i \in 1..Len(args)] == IF i = 1 THEN args ELSE SanitizeArg(sanitized[i - 1], i)
    IN IF args = <<>> THEN args ELSE sanitized[Len(args)]
-----------------------------------------------------------------------------
VARIABLES
    typed,      \* argv without the program's name
    args,       \* the words the parser has still to read
    parser,     \* clipp's parser, then its result
    executed,   \* the number of mappings whose actions were executed
    settings,   \* what the actions write: variables of main(), and
                \* whether the version was printed
    answer,     \* the method called, or what is printed instead
    pc

vars == <<grammar, typed, args, parser, executed, settings, answer, pc>>

\* The command line the commands run with when it names no other values.
Defaults ==
    [selected |-> "help", IP_TYPE |-> <<"ipv4">>, LINK_STATE |-> <<>>, IFACE_NAME |-> <<>>,
     DEST_ADDR |-> <<>>, CIDR |-> <<>>, GATE_WAY |-> <<>>, msgFmt |-> FALSE, version |-> FALSE]

\* The parser before the first word.
Fresh == Parser(<<>>, 0)

None == [method |-> "none", args |-> [n \in {} |-> FALSE]]

Init ==
    /\ grammar = CliGrammar /\ parser = Fresh
    /\ typed \in CommandLines /\ args = <<>>
    /\ executed = 0 /\ settings = Defaults /\ answer = None
    /\ pc = "start"

\* parse(argc, argv, cli): make_args and sanitize_args
Prepare ==
    /\ pc = "start"
    /\ args' = SanitizeArgs(typed)
    /\ pc' = "parse"
    /\ UNCHANGED <<grammar, typed, parser, executed, settings, answer>>

\* parse_args(): stops early at a parser that became invalid.
ParseWord ==
    /\ pc = "parse" /\ args # <<>>
    /\ parser' = Read(parser, Head(args))
    /\ args' = IF Valid(parser'.pos) THEN Tail(args) ELSE <<>>
    /\ UNCHANGED <<grammar, typed, executed, settings, answer, pc>>

ParseEnds ==
    /\ pc = "parse" /\ args = <<>>
    /\ pc' = "execute"
    /\ UNCHANGED <<grammar, typed, args, parser, executed, settings, answer>>

\* execute_actions(), for the next mapping; irpc has no handlers for errors.
Execute ==
    /\ pc = "execute" /\ executed < Len(parser.args)
    /\ LET a == parser.args[executed + 1]
           action == Nodes[At(a.match)].action
       IN settings' = IF ~AnyError(a) /\ action.sets \in DOMAIN settings
                      THEN [settings EXCEPT ![action.sets] = IF action.word THEN a.arg ELSE action.to]
                      ELSE settings
    /\ executed' = executed + 1
    /\ UNCHANGED <<grammar, typed, args, parser, answer, pc>>

\* The switch over selected: the method and the variables it is given.
Case(method, names) == [method |-> method, names |-> names]

Switch ==
    [ipshow |-> Case("showIpAddr", {"IP_TYPE", "msgFmt"}),
     iplink |-> Case("showIpLinks", {"IP_TYPE", "msgFmt"}),
     setlink |-> Case("setIpLink", {"IFACE_NAME", "LINK_STATE", "msgFmt"}),
     showiproute |-> Case("showIpRoute", {"IP_TYPE", "msgFmt"}),
     addiproute |-> Case("addIpRoute", {"IFACE_NAME", "DEST_ADDR", "CIDR", "GATE_WAY"}),
     removeiproute |-> Case("removeIpRoute", {"IFACE_NAME", "DEST_ADDR", "GATE_WAY"}),
     help |-> Case("make_man_page", {})]

Call(method, names) == [method |-> method, args |-> [n \in names |-> settings[n]]]

Selected == Call(Switch[settings.selected].method, Switch[settings.selected].names)

Usage == Call("usage_lines", {})

Answer ==
    /\ pc = "execute" /\ executed = Len(parser.args)
    /\ answer' = IF Failed(parser) THEN Usage ELSE Selected
    /\ pc' = "done"
    /\ UNCHANGED <<grammar, typed, args, parser, executed, settings>>

Done == pc = "done" /\ UNCHANGED vars

Next == Prepare \/ ParseWord \/ ParseEnds \/ Execute \/ Answer \/ Done

Spec == Init /\ [][Next]_vars
-----------------------------------------------------------------------------
(***************************************************************************)
(* Properties.                                                             *)
(***************************************************************************)
Promise == INSTANCE CommandLine WITH Corrected <- SanitizeArgs, version <- settings.version

\* Every line leads to the call its words ask for, with their values, or to the
\* usage (or, for a line of the README, to what the README says): parse_args(),
\* execute_actions() and the switch over selected make one command of a line,
\* whichever way the parser walked the grammar.
Implements == Promise!Spec

\* Every character typed is part of exactly one mapping, in order, whatever
\* sanitize_args() merged and the parser skipped, split or could not place.
NoTextLost ==
    pc = "execute" /\ Valid(parser.pos) =>
        FlattenSeq([i \in DOMAIN parser.args |-> parser.args[i].arg]) = FlattenSeq(typed)

\* The parser of irpc stops at no word: it keeps a position in the grammar.
ReadsToTheEnd == pc = "execute" => Valid(parser.pos)
=============================================================================

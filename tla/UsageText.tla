------------------------------ MODULE UsageText ------------------------------
(***************************************************************************)
(* clipp's usage_lines: the usage text of a grammar in the default format, *)
(* and the command lines a reader finds in it.                             *)
(*                                                                         *)
(* A text is a sequence of tokens: symbols, flags and labels of values.    *)
(* The printer walks the grammar; of a group of alternatives with a large  *)
(* member it prints one line for each, the whole text before the group     *)
(* repeated in front and what follows the group behind.                    *)
(***************************************************************************)
EXTENDS Clipp, Grammar

CONSTANT Program    \* the prefix of every line

Piece(kind, word) == <<[kind |-> kind, word |-> word]>>
Symbol(s) == IF s = "" THEN <<>> ELSE Piece("symbol", <<s>>)
FlagPiece(word) == Piece("flag", word)
LabelPiece(text) == IF text = "" THEN <<>> ELSE Piece("label", <<text>>)

Is(token, s) == token.kind = "symbol" /\ token.word = <<s>>

Around(pre, text, post) == Symbol(pre) \o text \o Symbol(post)
-----------------------------------------------------------------------------
(***************************************************************************)
(* Where the printer is: the position, the closing symbols and separators  *)
(* of the groups around it, innermost last, and the group the line is for. *)
(***************************************************************************)
NoNode == <<0>>

Cursor ==
    [pos |-> Start(<<>>), level |-> 1, separators |-> <<>>, postfixes |-> <<>>,
     outermost |-> <<>>, linestart |-> TRUE, useOutermost |-> TRUE]

IsSingleton(cur) == cur.linestart /\ IsLastInPath(cur.pos)
AmongAlternatives(cur) == Parent(cur.pos) \in Exclusive

RECURSIVE ParamCount(_)
ParamCount(n) ==
    IF IsParameter(n) THEN 1
    ELSE FoldLeft(LAMBDA sum, child : sum + ParamCount(child), 0, n.children)

ChildrenOf(g) == Range(Nodes[g].children)

AllFlagless(g) == \A n \in ChildrenOf(g) : IsParameter(n) /\ n.flags = <<>>

\* param_label(): the first of its flags, or the label of a value, in brackets
\* when it may be left out.
ParamLabelBracketed(cur) ==
    LET n == Nodes[At(cur.pos)]
    IN Around(IF AmongAlternatives(cur) THEN "" ELSE "[",
               IF n.flags = <<>> THEN LabelPiece(n.label) ELSE FlagPiece(n.flags[1]),
               IF AmongAlternatives(cur) THEN "" ELSE "]")

ParamLabel(cur) ==
    LET n == Nodes[At(cur.pos)]
        startsSequence == /\ Width[Parent(cur.pos)] > 1
                          /\ n.blocking /\ IsFirstInGroup(cur.pos)
        optional == ~AmongAlternatives(cur) /\ ~n.required /\ ~startsSequence
        text == IF n.flags = <<>> THEN LabelPiece(n.label) ELSE FlagPiece(n.flags[1])
    IN IF text = <<>> THEN <<>>
       ELSE (IF optional THEN Around("[", text, "]") ELSE text)
              \o Symbol(IF n.repeatable THEN "..." ELSE "")

\* joined_label(): the one-character flags of a joinable group as one flag.
JoinedLabel(g) ==
    LET n == Nodes[g]
        prefix == CommonFlagPrefix(g)
        suffixes == [i \in DOMAIN n.children |-> Without(n.children[i].flags[1], Len(prefix))]
        text == FlagPiece(prefix \o FlattenSeq(suffixes))
    IN IF \/ ~n.joinable \/ \E child \in ChildrenOf(g) : ~IsParameter(child) \/ child.flags = <<>>
          \/ prefix = <<>> \/ \E i \in DOMAIN suffixes : Len(suffixes[i]) # 1
       THEN <<>>
       ELSE IF AllOptional(n) THEN Around("[", text, "]") ELSE text

\* group_surrounders(): the symbols around a group.
Surrounders(g, cur) ==
    LET n == Nodes[g]
        front == n.children[1]
        Pair(pre, post) == [pre |-> Symbol(pre), post |-> Symbol(post)]
        plain ==
          IF g \in Exclusive
          THEN IF AllOptional(n) /\ AllFlagless(g)
               THEN [pre |-> Symbol("[") \o Symbol("<"), post |-> Symbol("<") \o Symbol("]")]
               ELSE IF AllOptional(n) THEN Pair("[", "]")
               ELSE IF AllFlagless(g) THEN Pair("<", ">")
               ELSE IF ~IsSingleton(cur) \/ g # cur.outermost THEN Pair("(", ")")
               ELSE Pair("", "")
          ELSE IF Width[g] > 1 /\ IsBlocking(front) /\ ~IsRequired(front) THEN Pair("[", "]")
          ELSE IF Width[g] > 1 /\ AmongAlternatives(cur) /\ g # cur.outermost THEN Pair("(", ")")
          ELSE IF n.joinable /\ ~cur.linestart THEN Pair("(", ")")
          ELSE Pair("", "")
        Or(text, s) == IF text = <<>> THEN Symbol(s) ELSE text
    IN IF n.repeatable
       THEN [pre |-> Or(plain.pre, "("), post |-> Or(plain.post, ")") \o Symbol("...")]
       ELSE plain

\* group_separator()
Separator(g) ==
    IF g \notin Exclusive THEN Symbol(" ")
    ELSE IF \A n \in ChildrenOf(g) : ParamCount(n) < 2 THEN Symbol("|") ELSE Symbol(" | ")

\* split_alternatives(), with alternatives_min_split_size() = 3
Splits(g) == g \in Exclusive /\ \E n \in ChildrenOf(g) : ParamCount(n) >= 3
-----------------------------------------------------------------------------
(***************************************************************************)
(* The printer.  Its steps return what was written so far, and the cursor. *)
(***************************************************************************)
Written(text, cur) == [text |-> text, cur |-> cur]

\* check_end_group()
RECURSIVE CheckEndGroup(_)
CheckEndGroup(w) ==
    LET cur == w.cur
    IN IF cur.level <= Len(cur.pos) THEN Written(w.text, [cur EXCEPT !.level = Len(cur.pos)])
       ELSE CheckEndGroup(Written(w.text \o Last(cur.postfixes),
                              [cur EXCEPT !.level = @ - 1, !.postfixes = Front(@),
                                          !.separators = Front(@)]))

AtLevel(w) == [w EXCEPT !.cur.level = Len(w.cur.pos)]

RECURSIVE PrintUsage(_, _)

\* The lines of the members of a group that splits, all behind the same text.
PrintMembers(g, cur, before) ==
    LET AddLine(out, i) ==
          LET here == [cur EXCEPT !.pos = out.pos,
                         !.outermost = IF IsGroup(At(out.pos)) THEN At(out.pos) ELSE NoNode]
              line == PrintUsage(here, before)
          IN [pos |-> NextSibling(out.pos),
              text |-> IF Len(line) <= Len(before) THEN out.text
                       ELSE out.text \o line \o Symbol(IF i < Width[g] THEN "newline" ELSE "")]
    IN FoldLeft(AddLine, [pos |-> cur.pos, text |-> <<>>], [i \in 1..Width[g] |-> i]).text

\* start_group(): at the group g or, if it is the outermost, at its first member.
StartGroup(w, g) ==
    LET cur == w.cur
        inside == Parent(cur.pos) = g
        entered == IF inside THEN cur ELSE [cur EXCEPT !.pos = Increment(@)]
        As(joined) ==
            AtLevel(Written(w.text \o joined,
                        [cur EXCEPT !.linestart = FALSE,
                           !.pos = IF inside THEN NextAfterSiblings(@) ELSE NextSibling(@)]))
        Within(around) ==
            AtLevel(Written(w.text \o around.pre,
                        [entered EXCEPT !.postfixes = Append(@, around.post),
                                        !.separators = Append(@, Separator(g))]))
        Members ==
            Written(PrintMembers(g, [entered EXCEPT !.linestart = TRUE, !.useOutermost = FALSE,
                                   !.postfixes = Append(@, <<>>), !.separators = Append(@, <<>>)],
                             w.text),
                [cur EXCEPT !.pos = <<>>])
        Started(joined) == IF joined # <<>> THEN As(joined)
                          ELSE IF Splits(g) THEN Members ELSE Within(Surrounders(g, cur))
    IN Started(JoinedLabel(g))

\* The loop of print_usage(); begin is the length of the text at its start.
RECURSIVE PrintRest(_, _)
PrintRest(w, begin) ==
    LET cur == [w.cur EXCEPT !.linestart = @ /\ Len(w.text) <= begin]
        separated == IF cur.linestart \/ IsFirstInGroup(cur.pos) THEN w.text
                     ELSE w.text \o Last(cur.separators)
        Continue(ended) == IF ended.cur.pos = <<>> THEN ended.text ELSE PrintRest(ended, begin)
        \* A group that was split ends the text.
        Behind(started) == IF started.cur.pos = <<>> THEN started.text
                           ELSE Continue(CheckEndGroup(started))
    IN IF IsGroup(At(cur.pos)) THEN Behind(StartGroup(Written(separated, cur), At(cur.pos)))
       ELSE Continue(CheckEndGroup(Written(separated \o ParamLabel(cur), [cur EXCEPT !.pos = Increment(@)])))

\* print_usage(os, cur, prefix)
PrintUsage(start, prefix) ==
    LET cur == [start EXCEPT !.level = Len(start.pos)]
        w == Written(IF cur.linestart THEN prefix ELSE <<>>, cur)
        Begun(v) == IF v.cur.pos = <<>> THEN v.text ELSE PrintRest(CheckEndGroup(v), Len(w.text))
    IN IF start.pos = <<>> THEN <<>>
       ELSE Begun(IF cur.useOutermost THEN StartGroup(w, Parent(cur.pos))
                  ELSE [w EXCEPT !.cur.pos = SkipSiblings(@)])

\* usage_lines(cli)
UsageLines == PrintUsage(Cursor, FlagPiece(Program) \o Symbol(" "))
-----------------------------------------------------------------------------
(***************************************************************************)
(* How a reader takes the text: what is in square brackets may be left     *)
(* out, of what stands between bars one is chosen, the other symbols only  *)
(* hold together, and a label stands for a value.                          *)
(***************************************************************************)
CONSTANT ValueWord    \* what a reader writes for any value

Opens == {"[", "(", "<"}
Closes == {"]", ")", ">"}
Symbols(S) == {<<s>> : s \in S}

\* How deep in brackets the i-th token of a text is.
Depth(text, i) ==
    LET Among(S) == {j \in 1..i : text[j].kind = "symbol" /\ text[j].word \in Symbols(S)}
    IN Cardinality(Among(Opens)) - Cardinality(Among(Closes))

Concatenations(S, T) == {s \o t : s \in S, t \in T}

RECURSIVE Readings(_)
Readings(text) ==
    LET bars == {i \in DOMAIN text : Depth(text, i) = 0 /\ (Is(text[i], "|") \/ Is(text[i], " | "))}
        closing == SelectInSeq([i \in DOMAIN text |-> Depth(text, i)], LAMBDA d : d = 0)
        first == Head(text)
        inside == SubSeq(text, 2, closing - 1)
        before(i) == SubSeq(text, 1, i - 1)
        behind(i) == SubSeq(text, i + 1, Len(text))
    IN IF text = <<>> THEN {<<>>}
       ELSE IF bars # {} THEN Readings(before(Min(bars))) \union Readings(behind(Min(bars)))
       ELSE Concatenations(
              IF first.kind = "flag" THEN {<<first.word>>}
              ELSE IF first.kind = "label" THEN {<<ValueWord>>}
              ELSE IF Is(first, "[") THEN {<<>>} \union Readings(inside)
              ELSE IF first.word \in Symbols(Opens) THEN Readings(inside)
              ELSE {<<>>},
              Readings(behind(IF first.kind = "symbol" THEN closing ELSE 1)))

\* The command lines the usage text shows, the program's name in front.
RECURSIVE ReadingsOfLines(_)
ReadingsOfLines(text) ==
    LET end == SelectInSeq(text, LAMBDA token : Is(token, "newline"))
    IN IF end = 0 THEN Readings(text)
       ELSE Readings(SubSeq(text, 1, end - 1))
              \union ReadingsOfLines(SubSeq(text, end + 1, Len(text)))

Advertised == {Tail(line) : line \in ReadingsOfLines(UsageLines)}
=============================================================================

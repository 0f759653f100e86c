---------------------------- MODULE GrammarParser ----------------------------
(***************************************************************************)
(* The parser of clipp over a grammar that the program builds when it runs *)
(* and never changes.                                                      *)
(***************************************************************************)
EXTENDS SequencesExt, FiniteSets, Integers

VARIABLE grammar    \* GrammarOf a group (module Grammar)

Nodes == grammar.nodes
Width == grammar.width
Exclusive == grammar.exclusive
Joinable == grammar.joinable
Flags == grammar.flags
Flagless == grammar.flagless
Blocking == grammar.blocking
Repeating == grammar.repeating
RequiredNodes == grammar.required
Spared == grammar.spared

INSTANCE Clipp
=============================================================================

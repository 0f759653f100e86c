--------------------------- MODULE ParsingProofs ----------------------------
(***************************************************************************)
(* Proofs about the loop of parse_args(), in every finite grammar and for  *)
(* all words.  A result without an error is unambiguous: add_match() marks *)
(* each mapping that an earlier one of its cycle excludes, and counts the  *)
(* repeats of a parameter.  And the parser, with all the positions that it *)
(* remembers to return to, stays on children of the grammar's groups.      *)
(***************************************************************************)
EXTENDS Parsing, ClippProofs

\* Two mappings that are not reported as blocked or as unknown.
Placed(args, i, j) == i < j /\ ~args[i].blocked /\ ~args[j].blocked /\ args[j].match # <<>>

\* A mapping an earlier one of its cycle excludes is marked.
Marked(args) ==
    \A i, j \in 1..Len(args) :
       Placed(args, i, j) /\ SameCycle(args, i, j) /\ Excludes(args[i], args[j]) => args[j].conflict

\* A mapping of what was mapped before has a repeat count.
Counted(args) ==
    \A i, j \in 1..Len(args) :
       /\ Placed(args, i, j) /\ args[i].match # <<>>
       /\ At(args[i].match) = At(args[j].match)
       => args[j].repeat > 0

Sound(args) == IsArgs(args) /\ Marked(args) /\ Counted(args)

\* A mapping that excludes the new one, in its cycle, is one check_conflicts()
\* finds.
LEMMA ConflictFound ==
    ASSUME NEW args, IsArgs(args), NEW s, NEW i \in 1..Len(args), ~args[i].blocked,
           \A k \in (i + 1)..Len(args) : ~args[k].startsRepeatGroup,
           \E k \in DOMAIN s : Alternatives(s[k], args[i].match)
    PROVE  Conflicting(args, s) # {}
<1> DEFINE I == {k \in 1..Len(args) : args[k].startsRepeatGroup}
           from == IF I # {} THEN Max(I) ELSE 0
<1>1. Conflicting(args, s) = {k \in DOMAIN args : /\ k >= from /\ ~args[k].blocked
                                                 /\ \E m \in DOMAIN s : Alternatives(s[m], args[k].match)}
  BY DEF Conflicting, SelectLastInSeq
<1>2. Len(args) \in Nat /\ DOMAIN args = 1..Len(args) /\ I \subseteq 0..Len(args)
  BY SeqLen DEF IsArgs
<1>3. I # {} => Max(I) \in I
  <2> HIDE DEF I
  <2> QED
    BY <1>2, MaxIs
<1>4. \A k \in I : k <= i
  BY <1>2
<1>5. i >= from
  BY <1>3, <1>4
<1> HIDE DEF from
<1>6. i \in Conflicting(args, s)
  BY <1>1, <1>2, <1>5
<1> QED
  BY <1>6

\* add_match() marks the new mapping and counts it.
LEMMA AddsSound ==
    ASSUME NEW args, Sound(args), NEW more, NEW str, Adds(args, more, str)
    PROVE  Sound(more)
<1> DEFINE n == Len(args)
           new == more[n + 1]
<1>1. n \in Nat /\ IsArgs(args) /\ IsArgs(more) /\ Len(more) = n + 1
  BY SeqLen DEF Sound, IsArgs, Adds
<1>2. \A i \in 1..n : SameMapping(args[i], more[i])
  BY DEF Adds
<1>3. new.repeat = OccurrencesOf(args, At(new.match))
  BY DEF Adds
<1>4. new.startsRepeatGroup \/ (Conflicting(args, new.match) # {} => new.conflict)
  BY DEF Adds
<1>5. \A i \in 1..(n + 1) : i \in 1..n \/ i = n + 1
  BY <1>1
<1>6. \A i, j \in 1..n : Placed(more, i, j) => Placed(args, i, j)
  BY <1>2 DEF Placed, SameMapping
<1>7. \A i, j \in 1..n : SameCycle(more, i, j) => SameCycle(args, i, j)
  <2> TAKE i, j \in 1..n
  <2>1. \A k \in (i + 1)..j : k \in 1..n
    BY <1>1
  <2>2. \A k \in (i + 1)..j : more[k].startsRepeatGroup = args[k].startsRepeatGroup
    BY <1>2, <2>1 DEF SameMapping
  <2> QED
    BY <2>2 DEF SameCycle
<1>8. Marked(more)
  <2> SUFFICES ASSUME NEW i \in 1..(n + 1), NEW j \in 1..(n + 1),
                      Placed(more, i, j), SameCycle(more, i, j), Excludes(more[i], more[j])
               PROVE  more[j].conflict
    BY <1>1 DEF Marked
  <2>0. i < j /\ i \in 1..n
    BY <1>1 DEF Placed
  <2>a. SameMapping(args[i], more[i])
    BY <1>2, <2>0
  <2>1. CASE j \in 1..n
    <3>1. SameMapping(args[j], more[j])
      BY <1>2, <2>1
    <3>2. Placed(args, i, j) /\ SameCycle(args, i, j)
      BY <1>6, <1>7, <2>0, <2>1
    <3>3. Excludes(args[i], args[j])
      BY <2>a, <3>1 DEF Excludes, SameMapping
    <3>4. args[j].conflict
      BY <2>0, <2>1, <3>2, <3>3 DEF Sound, Marked
    <3> QED
      BY <3>1, <3>4 DEF SameMapping
  <2>2. CASE j = n + 1
    <3>1. \A k \in (i + 1)..(n + 1) : ~more[k].startsRepeatGroup
      BY <2>2 DEF SameCycle
    <3>2. \A k \in (i + 1)..n : k \in (i + 1)..(n + 1) /\ k \in 1..n
      BY <1>1, <2>0
    <3>3. \A k \in (i + 1)..n : ~args[k].startsRepeatGroup
      BY <1>2, <3>1, <3>2 DEF SameMapping
    <3>4. n + 1 \in (i + 1)..(n + 1)
      BY <1>1, <2>0
    <3>5. ~new.startsRepeatGroup
      BY <3>1, <3>4
    <3>6. ~args[i].blocked /\ more[i].match = args[i].match
      BY <2>a DEF Placed, SameMapping
    <3>7. \E k \in DOMAIN new.match : Alternatives(new.match[k], args[i].match)
      BY <2>2, <3>6 DEF Excludes
    <3>8. Conflicting(args, new.match) # {}
      BY <1>1, <2>0, <3>3, <3>6, <3>7, ConflictFound
    <3> QED
      BY <1>4, <2>2, <3>5, <3>8
  <2> QED
    BY <1>5, <2>1, <2>2
<1>9. Counted(more)
  <2> SUFFICES ASSUME NEW i \in 1..(n + 1), NEW j \in 1..(n + 1),
                      Placed(more, i, j), more[i].match # <<>>, At(more[i].match) = At(more[j].match)
               PROVE  more[j].repeat > 0
    BY <1>1 DEF Counted
  <2>0. i < j /\ i \in 1..n
    BY <1>1 DEF Placed
  <2>a. more[i].match = args[i].match
    BY <1>2, <2>0 DEF SameMapping
  <2>1. CASE j \in 1..n
    <3>1. more[j].match = args[j].match /\ more[j].repeat = args[j].repeat
      BY <1>2, <2>1 DEF SameMapping
    <3>2. Placed(args, i, j)
      BY <1>6, <2>0, <2>1
    <3>3. args[j].repeat > 0
      BY <2>0, <2>1, <2>a, <3>1, <3>2 DEF Sound, Counted
    <3> QED
      BY <3>1, <3>3
  <2>2. CASE j = n + 1
    <3>1. OccurrencesOf(args, At(new.match)) > 0
      BY <1>1, <2>0, <2>2, <2>a, OccurrencesPositive
    <3> QED
      BY <1>3, <2>2, <3>1
  <2> QED
    BY <1>5, <2>1, <2>2
<1> QED
  BY <1>1, <1>8, <1>9 DEF Sound

\* Mappings that are reported as errors make nothing ambiguous.
LEMMA ErrorsSound ==
    ASSUME NEW args, Sound(args), NEW more, IsArgs(more), Len(args) <= Len(more),
           \A i \in 1..Len(args) : more[i] = args[i],
           \A i \in (Len(args) + 1)..Len(more) : more[i].blocked \/ more[i].match = <<>>
    PROVE  Sound(more)
<1>1. Len(args) \in Nat /\ Len(more) \in Nat
  BY SeqLen DEF Sound, IsArgs
<1>2. \A i, j \in 1..Len(more) : Placed(more, i, j) => i \in 1..Len(args) /\ j \in 1..Len(args)
  <2> SUFFICES ASSUME NEW i \in 1..Len(more), NEW j \in 1..Len(more), Placed(more, i, j)
               PROVE  i \in 1..Len(args) /\ j \in 1..Len(args)
    OBVIOUS
  <2>1. i < j /\ ~more[j].blocked /\ more[j].match # <<>>
    BY DEF Placed
  <2>2. j \notin (Len(args) + 1)..Len(more)
    BY <2>1
  <2> QED
    BY <1>1, <2>1, <2>2
<1>3. \A i, j \in 1..Len(args) : Placed(more, i, j) => Placed(args, i, j)
  BY DEF Placed
<1>4. \A i, j \in 1..Len(args) : SameCycle(more, i, j) => SameCycle(args, i, j)
  <2> TAKE i, j \in 1..Len(args)
  <2>1. \A k \in (i + 1)..j : k \in 1..Len(args)
    BY <1>1
  <2> QED
    BY <2>1 DEF SameCycle
<1>5. Marked(more)
  <2> SUFFICES ASSUME NEW i \in 1..Len(more), NEW j \in 1..Len(more),
                      Placed(more, i, j), SameCycle(more, i, j), Excludes(more[i], more[j])
               PROVE  more[j].conflict
    BY DEF Marked
  <2>1. i \in 1..Len(args) /\ j \in 1..Len(args)
    BY <1>2
  <2>2. more[i] = args[i] /\ more[j] = args[j] /\ Placed(args, i, j) /\ SameCycle(args, i, j)
    BY <1>3, <1>4, <2>1
  <2> QED
    BY <2>1, <2>2 DEF Sound, Marked
<1>6. Counted(more)
  <2> SUFFICES ASSUME NEW i \in 1..Len(more), NEW j \in 1..Len(more),
                      Placed(more, i, j), more[i].match # <<>>, At(more[i].match) = At(more[j].match)
               PROVE  more[j].repeat > 0
    BY DEF Counted
  <2>1. i \in 1..Len(args) /\ j \in 1..Len(args)
    BY <1>2
  <2>2. more[i] = args[i] /\ more[j] = args[j] /\ Placed(args, i, j)
    BY <1>3, <2>1
  <2> QED
    BY <2>1, <2>2 DEF Sound, Counted
<1> QED
  BY <1>5, <1>6 DEF Sound

HasSound(p) == HasArgs(p) /\ Sound(p.args)

\* add_match() for every word found.
LEMMA AddMatchesSound ==
    ASSUME NEW p, HasSound(p), NEW founds, IsSeq(founds)
    PROVE  HasSound(AddMatches(p, founds))
<1>0. Len(founds) \in Nat
  BY SeqLen
<1>1. PICK f : IsChain(f, p, founds)
  BY <1>0, AddMatchesIs
<1> DEFINE n == Len(founds)
<1>2. /\ f[0] = p /\ f[n] = AddMatches(p, founds)
      /\ \A k \in 0..(n - 1) : f[k + 1] = AddMatch(f[k], founds[k + 1])
  BY <1>1 DEF IsChain
<1> DEFINE T == {k \in Nat : HasSound(f[k])}
<1>3. 0 \in T
  BY <1>2
<1>4. ASSUME NEW k \in 0..(n - 1), k \in T
      PROVE  k + 1 \in T
  <2>1. HasSound(f[k]) /\ f[k + 1] = AddMatch(f[k], founds[k + 1])
    BY <1>2, <1>4
  <2>2. HasArgs(f[k]) /\ Sound(f[k].args)
    BY <2>1 DEF HasSound
  <2>3. HasArgs(f[k + 1]) /\ Adds(f[k].args, f[k + 1].args, founds[k + 1].str)
    BY <2>1, <2>2, AddMatchAdds
  <2>4. Sound(f[k + 1].args)
    BY <2>2, <2>3, AddsSound
  <2> QED
    BY <2>3, <2>4 DEF HasSound
<1> HIDE DEF T, n
<1>5. n \in Nat
  BY <1>0 DEF n
<1>6. \A k \in 0..n : k \in T
  BY <1>3, <1>4, <1>5, UpTo
<1> QED
  BY <1>2, <1>5, <1>6 DEF T

\* The other parsers parse_once() asks about a word.
LEMMA UnblockedSound ==
    ASSUME NEW p, HasSound(p)
    PROVE  HasSound(Unblocked(p))
<1>1. "args" \in DOMAIN Unblocked(p) /\ Unblocked(p).args = p.args
  BY DEF Unblocked, HasSound, HasArgs
<1> QED
  BY <1>1 DEF HasSound, HasArgs

LEMMA FreshSound ==
    ASSUME NEW g, NEW index
    PROVE  HasSound(Parser(g, index))
<1>1. HasArgs(Parser(g, index)) /\ Parser(g, index).args = <<>>
  BY FreshTexts DEF HasTexts
<1>2. \A i \in 1..Len(<<>>) : FALSE
  OBVIOUS
<1>3. Marked(<<>>) /\ Counted(<<>>)
  BY <1>2 DEF Marked, Counted
<1> QED
  BY <1>1, <1>3 DEF HasSound, Sound, HasArgs

\* The last mappings of a list, and those that are reported as blocked.
LEMMA WithoutArgs ==
    ASSUME NEW args, IsArgs(args), NEW n \in Nat
    PROVE  IsArgs(Without(args, n))
<1>1. PICK X : args \in Seq(X)
  BY DEF IsArgs, IsSeq
<1>2. Len(args) \in Nat /\ n + 1 \in Int /\ Len(args) \in Int
  BY <1>1
<1>3. \A i \in (n + 1)..Len(args) : args[i] \in X
  BY <1>1, <1>2, ElementOfSeq
<1>4. /\ SubSeq(args, n + 1, Len(args)) \in Seq(X)
      /\ Len(SubSeq(args, n + 1, Len(args))) = IF n + 1 <= Len(args) THEN Len(args) - (n + 1) + 1 ELSE 0
      /\ \A i \in 1..(Len(args) - (n + 1) + 1) : SubSeq(args, n + 1, Len(args))[i] = args[(n + 1) + i - 1]
  BY <1>2, <1>3, SubSeqProperties
<1> DEFINE rest == SubSeq(args, n + 1, Len(args))
<1>5. \A i \in 1..Len(rest) : i \in 1..(Len(args) - (n + 1) + 1) /\ (n + 1) + i - 1 \in 1..Len(args)
  BY <1>2, <1>4
<1>6. \A i \in 1..Len(rest) : IsArg(rest[i])
  BY <1>4, <1>5 DEF IsArgs
<1> HIDE DEF rest
<1>7. IsSeq(rest)
  BY <1>4 DEF rest, IsSeq
<1>8. Without(args, n) = rest
  BY DEF Without, rest
<1> QED
  BY <1>6, <1>7, <1>8 DEF IsArgs

LEMMA BlockedArgsBlocked ==
    ASSUME NEW p, HasSound(p), NEW S, NEW word \in Seq(S), IsFiniteSet(DOMAIN Nodes)
    PROVE  /\ IsArgs(BlockedArgs(p, word))
           /\ \A i \in 1..Len(BlockedArgs(p, word)) : BlockedArgs(p, word)[i].blocked
<1> DEFINE tries == <<Unblocked(p), Unblocked(Parser(p.root, p.index))>>
           founds == [k \in 1..2 |-> Matches(tries[k], word)]
           k == IF founds[1] # <<>> THEN 1 ELSE 2
           args == Without(AddMatches(tries[k], founds[k]).args, Len(tries[k].args))
           blocked == [i \in DOMAIN args |-> [args[i] EXCEPT !.blocked = TRUE]]
<1>1. BlockedArgs(p, word) = blocked
  BY DEF BlockedArgs, FirstSuccess, NewArgs, Blocked
<1>2. k \in 1..2
  OBVIOUS
<1>3. HasSound(tries[1]) /\ HasSound(tries[2])
  BY UnblockedSound, FreshSound
<1> HIDE DEF tries
<1>4. IsSeq(founds[1]) /\ IsSeq(founds[2])
  BY MatchesFound DEF IsFound
<1> HIDE DEF founds
<1>5. HasSound(tries[k]) /\ IsSeq(founds[k])
  BY <1>3, <1>4
<1> HIDE DEF k
<1>6. HasSound(AddMatches(tries[k], founds[k]))
  BY <1>5, AddMatchesSound
<1>7. IsArgs(AddMatches(tries[k], founds[k]).args) /\ Len(tries[k].args) \in Nat
  BY <1>5, <1>6, SeqLen DEF HasSound, Sound, IsArgs
<1>8. IsArgs(args)
  BY <1>7, WithoutArgs
<1> HIDE DEF args
<1>9. IsArgs(blocked) /\ Len(blocked) = Len(args) /\ \A i \in 1..Len(args) : blocked[i].blocked
  BY <1>8, BlockedTexts
<1> QED
  BY <1>1, <1>9

\* A word nothing matched is reported as an error.
LEMMA UnmatchedSound ==
    ASSUME NEW p, HasSound(p), NEW word, NEW blockedArgs, IsArgs(blockedArgs),
           \A i \in 1..Len(blockedArgs) : blockedArgs[i].blocked
    PROVE  HasSound(Unmatched(p, word, blockedArgs))
<1> DEFINE q == Unmatched(p, word, blockedArgs)
           n == Len(p.args)
<1>1. HasArgs(p) /\ Sound(p.args) /\ IsArgs(p.args) /\ n \in Nat
  BY SeqLen DEF HasSound, Sound, IsArgs
<1>2. CASE blockedArgs # <<>>
  <2> DEFINE more == p.args \o blockedArgs
             m == Len(blockedArgs)
  <2>1. "args" \in DOMAIN q /\ q.args = more
    BY <1>1, <1>2 DEF Unmatched, HasArgs
  <2>2. IsArgs(more)
    BY <1>1, ConcatTexts
  <2>3. IsSeq(p.args) /\ IsSeq(blockedArgs) /\ m \in Nat
    BY <1>1, SeqLen DEF IsArgs
  <2>4. /\ Len(more) = n + m /\ \A i \in 1..n : more[i] = p.args[i]
        /\ \A i \in 1..m : more[n + i] = blockedArgs[i]
    BY <2>3, SeqConcat
  <2> HIDE DEF q, more, n, m
  <2>5. \A i \in (n + 1)..(n + m) : i - n \in 1..m /\ n + (i - n) = i
    BY <1>1, <2>3
  <2>6. \A i \in (n + 1)..(n + m) : more[i].blocked
    BY <2>4, <2>5 DEF m
  <2>7. n <= Len(more)
    BY <1>1, <2>3, <2>4
  <2>8. Sound(more)
    BY <1>1, <2>2, <2>4, <2>6, <2>7, ErrorsSound DEF n
  <2>9. HasSound(q)
    BY <2>1, <2>2, <2>8 DEF HasSound, HasArgs
  <2> QED
    BY <2>9 DEF q
<1>3. CASE blockedArgs = <<>>
  <2> DEFINE e == NoMatch(p.index, word)
             more == Append(p.args, e)
  <2>1. "args" \in DOMAIN q /\ q.args = more
    BY <1>1, <1>3 DEF Unmatched, HasArgs
  <2>2. IsArg(e) /\ e.match = <<>>
    BY DEF NoMatch, IsArg
  <2> HIDE DEF q, e
  <2>3. IsArgs(more)
    BY <1>1, <2>2, AppendTexts
  <2>4. IsSeq(p.args)
    BY <1>1 DEF IsArgs
  <2>5. Len(more) = n + 1 /\ (\A i \in 1..n : more[i] = p.args[i]) /\ more[n + 1] = e
    BY <2>4, SeqAppend
  <2> HIDE DEF more, n
  <2>6. \A i \in (n + 1)..(n + 1) : more[i].match = <<>>
    BY <1>1, <2>2, <2>5
  <2>7. n <= Len(more)
    BY <1>1, <2>5
  <2>8. Sound(more)
    BY <1>1, <2>3, <2>5, <2>6, <2>7, ErrorsSound DEF n
  <2>9. HasSound(q)
    BY <2>1, <2>3, <2>8 DEF HasSound, HasArgs
  <2> QED
    BY <2>9 DEF q
<1> QED
  BY <1>2, <1>3

\* Whatever parse_once() does with a word.
LEMMA ReadSound ==
    ASSUME NEW p0, HasSound(p0), NEW S, NEW word \in Seq(S), IsFiniteSet(DOMAIN Nodes)
    PROVE  HasSound(Read(p0, word))
<1> DEFINE p == [p0 EXCEPT !.index = @ + 1]
           founds == IF p.blocked THEN <<>> ELSE Matches(p, word)
<1>1. HasSound(p)
  <2>1. "args" \in DOMAIN p /\ p.args = p0.args
    BY DEF HasSound, HasArgs
  <2> QED
    BY <2>1 DEF HasSound, HasArgs
<1>2. Read(p0, word) \in {p, AddMatches(p, founds), Unmatched(p, word, BlockedArgs(p, word))}
  BY DEF Read, Mapped
<1> HIDE DEF p
<1>3. IsSeq(founds)
  BY MatchesFound, SeqOfOne DEF IsFound
<1> HIDE DEF founds
<1>4. HasSound(AddMatches(p, founds))
  BY <1>1, <1>3, AddMatchesSound
<1>5. HasSound(Unmatched(p, word, BlockedArgs(p, word)))
  BY <1>1, BlockedArgsBlocked, UnmatchedSound
<1> QED
  BY <1>1, <1>2, <1>4, <1>5

\* The inductive invariant.
ParsingInv ==
    /\ example \in DOMAIN Grammars /\ grammar = Grammars[example]
    /\ HasSound(parser)

LEMMA ParsingStarts == Init => ParsingInv
  BY FreshSound DEF Init, ParsingInv

\* The grammar decides which mappings exclude each other.
LEMMA SoundKept ==
    ASSUME UNCHANGED grammar, NEW q, HasSound(q), parser' = q
    PROVE  HasSound(parser)'
<1>1. Exclusive' = Exclusive
  BY DEF Exclusive
<1>2. \A a, b : Excludes(a, b) => Excludes(a, b)'
  BY <1>1 DEF Excludes, Alternatives
<1>3. \A a, b : Excludes(a, b)' => Excludes(a, b)
  BY <1>1 DEF Excludes, Alternatives
<1>4. HasArgs(q) /\ IsArgs(q.args) /\ Marked(q.args) /\ Counted(q.args)
  BY DEF HasSound, Sound
<1>5. Marked(parser.args)'
  BY <1>3, <1>4 DEF Marked
<1>6. Counted(parser.args)'
  BY <1>4 DEF Counted
<1> QED
  BY <1>4, <1>5, <1>6 DEF HasSound, Sound

LEMMA ParsingSteps == ParsingInv /\ [Next]_vars => ParsingInv'
<1> SUFFICES ASSUME ParsingInv, [Next]_vars PROVE ParsingInv'
  OBVIOUS
<1>1. CASE ReadWord
  <2>1. PICK word \in Alphabet[example] : parser' = Read(parser, word)
    BY <1>1 DEF ReadWord
  <2>2. word \in Seq(STRING) /\ IsFiniteSet(DOMAIN Nodes)
    BY ParsingAssumption DEF ParsingInv, Nodes
  <2> DEFINE q == Read(parser, word)
  <2>3. HasSound(q)
    BY <2>2, ReadSound DEF ParsingInv
  <2> HIDE DEF q
  <2>4. parser' = q /\ grammar' = grammar /\ example' = example
    BY <1>1, <2>1 DEF ReadWord, q
  <2>5. HasSound(parser)'
    BY <2>3, <2>4, SoundKept
  <2> QED
    BY <2>4, <2>5 DEF ParsingInv
<1>2. CASE UNCHANGED vars
  <2>1. HasSound(parser)'
    BY <1>2, SoundKept DEF vars, ParsingInv
  <2> QED
    BY <1>2, <2>1 DEF vars, ParsingInv
<1> QED
  BY <1>1, <1>2 DEF Next

\* Marked conflicts and counted repeats are errors of the result.
LEMMA SoundIsUnambiguous ==
    ASSUME HasSound(parser)
    PROVE  AcceptedIsUnambiguous
<1> DEFINE args == parser.args
<1> SUFFICES ASSUME ~Failed(parser), NEW i \in DOMAIN args, NEW j \in DOMAIN args, i < j
             PROVE  /\ SameCycle(args, i, j) => ~Excludes(args[i], args[j])
                    /\ At(args[i].match) = At(args[j].match) => MayRepeat(args[j].match)
  BY DEF AcceptedIsUnambiguous
<1>1. ~AnyError(args[i]) /\ ~AnyError(args[j])
  BY DEF Failed
<1>2. Sound(args) /\ i \in 1..Len(args) /\ j \in 1..Len(args)
  BY SeqLen DEF HasSound, Sound, IsArgs
<1>3. Placed(args, i, j) /\ args[i].match # <<>>
  BY <1>1 DEF AnyError, Placed
<1>4. ASSUME SameCycle(args, i, j), Excludes(args[i], args[j])
      PROVE  FALSE
  <2>1. args[j].conflict
    BY <1>2, <1>3, <1>4 DEF Sound, Marked
  <2> QED
    BY <1>1, <2>1 DEF AnyError
<1>5. ASSUME At(args[i].match) = At(args[j].match)
      PROVE  MayRepeat(args[j].match)
  <2>1. args[j].repeat > 0
    BY <1>2, <1>3, <1>5 DEF Sound, Counted
  <2>2. ~BadRepeat(args[j]) /\ args[j].match # <<>>
    BY <1>1 DEF AnyError
  <2> QED
    BY <2>1, <2>2 DEF BadRepeat, MayRepeat
<1> QED
  BY <1>4, <1>5

\* Whatever the grammar and the words: a result without an error maps no two
\* alternatives within a cycle, and repeats only what may be repeated.
THEOREM AcceptedUnambiguously == Spec => []AcceptedIsUnambiguous
<1>1. ParsingInv => AcceptedIsUnambiguous
  BY SoundIsUnambiguous DEF ParsingInv
<1> QED
  BY <1>1, ParsingStarts, ParsingSteps, PTL DEF Spec
-----------------------------------------------------------------------------
(***************************************************************************)
(* Where the parser stands.  The moves of a traverser lead from stacks of  *)
(* places to stacks of places.                                             *)
(***************************************************************************)
\* What the proofs need of a grammar.
IsGrammar ==
    /\ <<>> \in Groups /\ Joinable \subseteq Groups
    /\ \A g \in Groups : Width[g] \in Nat \ {0}
    /\ IsFiniteSet(DOMAIN Nodes)

\* What a traverser may be.
Stacks == Seq(Places)

LEMMA PlaceIs ==
    ASSUME NEW c
    PROVE  c \in Places <=> /\ c \in [parent : Groups, cur : Nat \ {0}, end : Nat]
                            /\ c.cur < c.end /\ c.end <= Width[c.parent] + 1
BY DEF Places, Contexts, IsContext

\* The first child of a group; a child that is not the last has a next one; the
\* last child, and a child that becomes the last.
LEMMA EnterIsPlace ==
    ASSUME IsGrammar, NEW g \in Groups
    PROVE  Enter(g) \in Places /\ Start(g) \in Stacks
<1>1. Width[g] \in Nat \ {0}
  BY DEF IsGrammar
<1>2. Enter(g) \in [parent : Groups, cur : Nat \ {0}, end : Nat]
  BY <1>1 DEF Enter
<1>3. Enter(g).cur < Enter(g).end /\ Enter(g).end <= Width[Enter(g).parent] + 1
  BY <1>1 DEF Enter
<1>4. Enter(g) \in Places
  BY <1>2, <1>3, PlaceIs
<1> HIDE DEF Enter
<1> QED
  BY <1>4 DEF Start, Stacks

LEMMA NextPlace ==
    ASSUME IsGrammar, NEW c \in Places, ~AtLast(c)
    PROVE  [c EXCEPT !.cur = @ + 1] \in Places
<1> DEFINE d == [c EXCEPT !.cur = @ + 1]
<1>1. /\ c \in [parent : Groups, cur : Nat \ {0}, end : Nat]
      /\ c.cur < c.end /\ c.end <= Width[c.parent] + 1
  BY PlaceIs
<1>2. /\ d \in [parent : Groups, cur : Nat \ {0}, end : Nat]
      /\ d.parent = c.parent /\ d.end = c.end /\ d.cur = c.cur + 1
  BY <1>1
<1>3. c.cur + 1 # c.end
  BY DEF AtLast
<1>4. c.cur \in Nat /\ c.end \in Nat
  BY <1>1
<1>5. d.cur < d.end
  BY <1>1, <1>2, <1>3, <1>4
<1> HIDE DEF d
<1>6. d \in Places
  BY <1>1, <1>2, <1>5, PlaceIs
<1> QED
  BY <1>6 DEF d

LEMMA LastPlace ==
    ASSUME IsGrammar, NEW c \in Places
    PROVE  /\ [c EXCEPT !.cur = c.end - 1] \in Places
           /\ [c EXCEPT !.end = c.cur + 1] \in Places
<1> DEFINE d == [c EXCEPT !.cur = c.end - 1]
           e == [c EXCEPT !.end = c.cur + 1]
<1>1. /\ c \in [parent : Groups, cur : Nat \ {0}, end : Nat]
      /\ c.cur < c.end /\ c.end <= Width[c.parent] + 1
  BY PlaceIs
<1>2. c.cur \in Nat \ {0} /\ c.end \in Nat /\ c.parent \in Groups
  BY <1>1
<1>3. Width[c.parent] \in Nat
  BY <1>2 DEF IsGrammar
<1>4. /\ c.end - 1 \in Nat \ {0} /\ c.cur + 1 \in Nat /\ c.end - 1 < c.end /\ c.cur < c.cur + 1
      /\ c.cur + 1 <= Width[c.parent] + 1
  BY <1>1, <1>2, <1>3
<1>5. /\ d \in [parent : Groups, cur : Nat \ {0}, end : Nat]
      /\ d.parent = c.parent /\ d.end = c.end /\ d.cur = c.end - 1
  BY <1>1, <1>4
<1>6. /\ e \in [parent : Groups, cur : Nat \ {0}, end : Nat]
      /\ e.parent = c.parent /\ e.end = c.cur + 1 /\ e.cur = c.cur
  BY <1>1, <1>4
<1> HIDE DEF d, e
<1>7. d \in Places
  BY <1>1, <1>4, <1>5, PlaceIs
<1>8. e \in Places
  BY <1>1, <1>4, <1>6, PlaceIs
<1> QED
  BY <1>7, <1>8 DEF d, e

\* Stacks of places: their contexts, their beginnings, one more, another last.
LEMMA StackIs ==
    ASSUME NEW s \in Stacks
    PROVE  /\ Len(s) \in Nat /\ DOMAIN s = 1..Len(s)
           /\ \A i \in 1..Len(s) : s[i] \in Places
           /\ (s = <<>>) <=> (Len(s) = 0)
BY EmptySeq DEF Stacks

LEMMA SeqBegins ==
    ASSUME NEW X, NEW s \in Seq(X), NEW k \in 0..Len(s)
    PROVE  /\ SubSeq(s, 1, k) \in Seq(X) /\ Len(SubSeq(s, 1, k)) = k
           /\ \A i \in 1..k : SubSeq(s, 1, k)[i] = s[i]
<1>1. Len(s) \in Nat /\ \A i \in 1..Len(s) : s[i] \in X
  OBVIOUS
<1>2. k \in Int /\ 1 \in Int /\ \A i \in 1..k : s[i] \in X
  BY <1>1
<1>3. /\ SubSeq(s, 1, k) \in Seq(X)
      /\ Len(SubSeq(s, 1, k)) = IF 1 <= k THEN k - 1 + 1 ELSE 0
      /\ \A i \in 1..(k - 1 + 1) : SubSeq(s, 1, k)[i] = s[1 + i - 1]
  BY <1>2, SubSeqProperties
<1>4. \A i \in 1..k : i \in 1..(k - 1 + 1) /\ 1 + i - 1 = i
  BY <1>1
<1>5. Len(SubSeq(s, 1, k)) = k
  BY <1>1, <1>3
<1>6. \A i \in 1..k : SubSeq(s, 1, k)[i] = s[i]
  BY <1>3, <1>4
<1> QED
  BY <1>3, <1>5, <1>6

LEMMA StackBegins ==
    ASSUME NEW s \in Stacks, NEW k \in 0..Len(s)
    PROVE  /\ SubSeq(s, 1, k) \in Stacks /\ Len(SubSeq(s, 1, k)) = k
           /\ \A i \in 1..k : SubSeq(s, 1, k)[i] = s[i]
<1> USE DEF Stacks
<1> HIDE DEF Places
<1> QED
  BY SeqBegins

LEMMA StackAppend ==
    ASSUME NEW s \in Stacks, NEW c \in Places
    PROVE  Append(s, c) \in Stacks
BY AppendProperties DEF Stacks

LEMMA StackExcept ==
    ASSUME NEW s \in Stacks, NEW k \in 1..Len(s), NEW c \in Places
    PROVE  /\ [s EXCEPT ![k] = c] \in Stacks /\ Len([s EXCEPT ![k] = c]) = Len(s)
           /\ [s EXCEPT ![k] = c][k] = c
BY ExceptSeq DEF Stacks

LEMMA LevelsLeftAre ==
    ASSUME NEW s \in Stacks, LevelsLeft(s) # {}
    PROVE  Innermost(LevelsLeft(s)) \in 1..Len(s) /\ ~AtLast(s[Innermost(LevelsLeft(s))])
<1>1. LevelsLeft(s) \subseteq 0..Len(s) /\ Len(s) \in Nat
  BY StackIs DEF LevelsLeft
<1>2. Innermost(LevelsLeft(s)) \in LevelsLeft(s)
  BY <1>1, InnermostIs
<1> QED
  BY <1>2, StackIs DEF LevelsLeft

\* next_sibling(), ++, next_after_siblings(), next_alternative(), back_to_parent()
\* and skip_alternatives().
LEMMA NextSiblingStands ==
    ASSUME IsGrammar, NEW s \in Stacks
    PROVE  NextSibling(s) \in Stacks
<1>1. CASE LevelsLeft(s) = {}
  <2>1. NextSibling(s) = <<>>
    BY <1>1 DEF NextSibling
  <2> QED
    BY <2>1, EmptySeq DEF Stacks
<1>2. CASE LevelsLeft(s) # {}
  <2> DEFINE k == Innermost(LevelsLeft(s))
             t == SubSeq(s, 1, k)
  <2>1. k \in 1..Len(s) /\ ~AtLast(s[k])
    BY <1>2, LevelsLeftAre
  <2>2. NextSibling(s) = [t EXCEPT ![k].cur = @ + 1]
    BY <1>2 DEF NextSibling
  <2> HIDE DEF k
  <2>3. t \in Stacks /\ Len(t) = k /\ t[k] = s[k]
    BY <2>1, StackIs, StackBegins
  <2> HIDE DEF t
  <2>4. k \in 1..Len(t) /\ k \in DOMAIN t /\ t[k] \in Places
    BY <2>1, <2>3, StackIs
  <2>5. [t[k] EXCEPT !.cur = @ + 1] \in Places
    BY <2>1, <2>3, <2>4, NextPlace
  <2>6. [t EXCEPT ![k].cur = @ + 1] = [t EXCEPT ![k] = [t[k] EXCEPT !.cur = @ + 1]]
    BY <2>4
  <2>7. [t EXCEPT ![k] = [t[k] EXCEPT !.cur = @ + 1]] \in Stacks
    BY <2>3, <2>4, <2>5, StackExcept
  <2> QED
    BY <2>2, <2>6, <2>7
<1> QED
  BY <1>1, <1>2

LEMMA IncrementStands ==
    ASSUME IsGrammar, NEW s \in Stacks
    PROVE  Increment(s) \in Stacks
<1>1. IsGroup(At(s)) => Append(s, Enter(At(s))) \in Stacks
  BY EnterIsPlace, StackAppend DEF IsGroup
<1> QED
  BY <1>1, NextSiblingStands DEF Increment

LEMMA TopIsPlace ==
    ASSUME NEW s \in Stacks, s # <<>>
    PROVE  Len(s) \in 1..Len(s) /\ Top(s) \in Places /\ Parent(s) \in Groups
<1>1. Len(s) \in 1..Len(s) /\ Top(s) \in Places
  BY StackIs DEF Top
<1>2. Top(s).parent \in Groups
  BY <1>1, PlaceIs
<1> QED
  BY <1>1, <1>2 DEF Parent

LEMMA NextAfterSiblingsStands ==
    ASSUME IsGrammar, NEW s \in Stacks
    PROVE  NextAfterSiblings(s) \in Stacks
<1>1. CASE s = <<>>
  BY <1>1 DEF NextAfterSiblings
<1>2. CASE s # <<>>
  <2> DEFINE t == [s EXCEPT ![Len(s)].cur = Top(s).end - 1]
  <2>1. Len(s) \in 1..Len(s) /\ Len(s) \in DOMAIN s /\ s[Len(s)] \in Places
    BY <1>2, TopIsPlace, StackIs
  <2>2. t = [s EXCEPT ![Len(s)] = [s[Len(s)] EXCEPT !.cur = s[Len(s)].end - 1]]
    BY <2>1 DEF Top
  <2>3. [s[Len(s)] EXCEPT !.cur = s[Len(s)].end - 1] \in Places
    BY <2>1, LastPlace
  <2>4. t \in Stacks
    BY <2>1, <2>2, <2>3, StackExcept
  <2>5. NextAfterSiblings(s) = NextSibling(t)
    BY <1>2 DEF NextAfterSiblings
  <2> QED
    BY <2>4, <2>5, NextSiblingStands
<1> QED
  BY <1>1, <1>2

LEMMA NextAlternativeStands ==
    ASSUME IsGrammar, NEW s \in Stacks
    PROVE  NextAlternative(s) \in Stacks
<1> DEFINE I == {i \in DOMAIN s : s[i].parent \in Exclusive}
<1>1. NextAlternative(s) = IF I = {} THEN s ELSE NextSibling(SubSeq(s, 1, Innermost(I)))
  BY DEF NextAlternative
<1>2. I \subseteq 0..Len(s) /\ Len(s) \in Nat
  BY StackIs
<1> HIDE DEF I
<1>3. I # {} => Innermost(I) \in 0..Len(s)
  BY <1>2, InnermostIs
<1>4. I # {} => SubSeq(s, 1, Innermost(I)) \in Stacks
  BY <1>3, StackBegins
<1> QED
  BY <1>1, <1>4, NextSiblingStands

LEMMA BackToParentStands ==
    ASSUME IsGrammar, NEW s \in Stacks
    PROVE  BackToParent(s) \in Stacks
<1>1. s # <<>> => Len(s) - 1 \in 0..Len(s)
  BY StackIs
<1> QED
  BY <1>1, StackBegins DEF BackToParent

LEMMA SkipAlternativesStands ==
    ASSUME IsGrammar, NEW s \in Stacks
    PROVE  SkipAlternatives(s) \in Stacks
<1> DEFINE t == [i \in DOMAIN s |-> IF s[i].parent \in Exclusive
                                    THEN [s[i] EXCEPT !.end = s[i].cur + 1] ELSE s[i]]
<1>1. DOMAIN s = 1..Len(s) /\ Len(s) \in Nat /\ \A i \in 1..Len(s) : s[i] \in Places
  BY StackIs
<1>2. \A i \in 1..Len(s) : [s[i] EXCEPT !.end = s[i].cur + 1] \in Places
  BY <1>1, LastPlace
<1>3. \A i \in 1..Len(s) : t[i] \in Places
  BY <1>1, <1>2
<1>4. t \in [1..Len(s) -> Places]
  BY <1>1, <1>3
<1> HIDE DEF t
<1>5. t \in Seq(Places)
  BY <1>1, <1>4
<1> QED
  BY <1>5 DEF SkipAlternatives, Stacks, t

\* Mementos of a traverser that has not ended hold a place.
Mementos ==
    {m \in [level : Nat, context : Places \union {NoContext}] : m.level # 0 => m.context \in Places}

LEMMA MementoIs ==
    ASSUME NEW m \in Mementos
    PROVE  m.level \in Nat /\ (m.level # 0 => m.context \in Places)
BY DEF Mementos

LEMMA UndoPointIs ==
    ASSUME NEW s \in Stacks
    PROVE  UndoPoint(s) \in Mementos
<1>1. CASE s = <<>>
  <2>1. UndoPoint(s) = [level |-> 0, context |-> NoContext]
    BY <1>1, StackIs DEF UndoPoint
  <2> HIDE DEF NoContext
  <2> QED
    BY <2>1 DEF Mementos
<1>2. CASE s # <<>>
  <2>1. UndoPoint(s) = [level |-> Len(s), context |-> Top(s)]
    BY <1>2 DEF UndoPoint
  <2>2. Len(s) \in Nat /\ Top(s) \in Places
    BY <1>2, StackIs, TopIsPlace
  <2> QED
    BY <2>1, <2>2 DEF Mementos
<1> QED
  BY <1>1, <1>2

\* undo() puts the context of a memento on what is left of the stack, which may be
\* on another branch of the grammar by now.
LEMMA UndoStands ==
    ASSUME NEW s \in Stacks, NEW m \in Mementos
    PROVE  Undo(s, m) \in Stacks
<1>1. CASE m.level \in 1..Len(s) \/ (s = <<>> /\ m.level = 1)
  <2>1. m.level - 1 \in 0..Len(s) /\ m.context \in Places
    BY <1>1, StackIs, MementoIs
  <2>2. SubSeq(s, 1, m.level - 1) \in Stacks
    BY <2>1, StackBegins
  <2> QED
    BY <1>1, <2>1, <2>2, StackAppend DEF Undo
<1>2. CASE ~(m.level \in 1..Len(s) \/ (s = <<>> /\ m.level = 1))
  BY <1>2 DEF Undo
<1> QED
  BY <1>1, <1>2

(***************************************************************************)
(* Recursions.  A function that is defined by recursion on the numbers up  *)
(* to n exists when the steps stay in a set.                               *)
(***************************************************************************)
\* The steps of a recursion within the set D, and what they lead through from a.
StepsIn(g, D, n) == \A k \in 1..n : \A d \in D : g[k][d] \in D

Runs(f, D, a, n, g) == f \in [0..n -> D] /\ f[0] = a /\ \A k \in 1..n : f[k] = g[k][f[k - 1]]

\* Such a function exists.
LEMMA Recursion ==
    ASSUME NEW D, NEW a \in D, NEW n \in Nat, NEW g, StepsIn(g, D, n)
    PROVE  \E f : Runs(f, D, a, n, g)
<1> DEFINE T == {m \in Nat : m <= n => \E f : Runs(f, D, a, m, g)}
<1>1. 0 \in T
  <2>1. Runs([k \in 0..0 |-> a], D, a, 0, g)
    BY DEF Runs
  <2> QED
    BY <2>1
<1>2. ASSUME NEW m \in 0..(n - 1), m \in T
      PROVE  m + 1 \in T
  <2>1. PICK e : Runs(e, D, a, m, g)
    BY <1>2
  <2> DEFINE f == [k \in 0..(m + 1) |-> IF k = m + 1 THEN g[m + 1][e[m]] ELSE e[k]]
  <2>2. m + 1 \in 1..n /\ e[m] \in D /\ g[m + 1][e[m]] \in D
    BY <2>1 DEF Runs, StepsIn
  <2>3. f \in [0..(m + 1) -> D] /\ f[0] = a
    BY <2>1, <2>2 DEF Runs
  <2>a. \A k \in 1..m : f[k] = e[k] /\ f[k - 1] = e[k - 1]
    OBVIOUS
  <2>b. f[m + 1] = g[m + 1][e[m]] /\ f[m] = e[m]
    OBVIOUS
  <2> HIDE DEF f
  <2>4. \A k \in 1..(m + 1) : f[k] = g[k][f[k - 1]]
    <3> TAKE k \in 1..(m + 1)
    <3>1. CASE k \in 1..m
      BY <2>1, <2>a, <3>1 DEF Runs
    <3>2. CASE k = m + 1
      BY <2>b, <3>2
    <3> QED
      BY <3>1, <3>2
  <2>5. Runs(f, D, a, m + 1, g)
    BY <2>3, <2>4 DEF Runs
  <2> QED
    BY <2>5
<1> HIDE DEF T
<1>3. \A k \in 0..n : k \in T
  BY <1>1, <1>2, UpTo
<1> QED
  BY <1>3 DEF T

\* What each step keeps.
LEMMA KeptByRecursion ==
    ASSUME NEW D, NEW n \in Nat, NEW f, f[0] \in D, \A k \in 1..n : f[k - 1] \in D => f[k] \in D
    PROVE  \A k \in 0..n : f[k] \in D
<1> DEFINE T == {k \in Nat : f[k] \in D}
<1>1. 0 \in T
  OBVIOUS
<1>2. ASSUME NEW k \in 0..(n - 1), k \in T
      PROVE  k + 1 \in T
  <2>1. k + 1 \in 1..n /\ k + 1 - 1 = k
    OBVIOUS
  <2> QED
    BY <1>2, <2>1
<1> HIDE DEF T
<1>3. \A k \in 0..n : k \in T
  BY <1>1, <1>2, UpTo
<1> QED
  BY <1>3 DEF T

(***************************************************************************)
(* Traversers that stand in the grammar, with their scopes.                *)
(***************************************************************************)
Traversers ==
    [pos : Stacks, last : Stacks, after : Stacks, scopes : Seq(Mementos),
     matched : BOOLEAN, ignore : BOOLEAN, repeatStarts : BOOLEAN, repeatContinues : BOOLEAN]

LEMMA LastScope ==
    ASSUME NEW scopes \in Seq(Mementos), scopes # <<>>
    PROVE  Last(scopes) \in Mementos /\ Front(scopes) \in Seq(Mementos)
<1>1. Len(scopes) \in 1..Len(scopes) /\ Len(scopes) - 1 \in 0..Len(scopes)
  BY EmptySeq
<1>2. SubSeq(scopes, 1, Len(scopes) - 1) \in Seq(Mementos)
  BY <1>1, SeqBegins
<1>3. scopes[Len(scopes)] \in Mementos
  BY <1>1, ElementOfSeq
<1> QED
  BY <1>2, <1>3 DEF Last, Front

\* Leaving a scope, all scopes that are below the traverser, those below a level,
\* and all scopes.
LEMMA LeaveStands ==
    ASSUME NEW t \in Traversers, NEW condition
    PROVE  LeaveIf(t, condition) \in Traversers
<1>1. CASE t.scopes # <<>> /\ condition
  <2>1. t.scopes \in Seq(Mementos) /\ t.pos \in Stacks
    BY DEF Traversers
  <2>2. Last(t.scopes) \in Mementos /\ Front(t.scopes) \in Seq(Mementos)
    BY <1>1, <2>1, LastScope
  <2>3. Undo(t.pos, Last(t.scopes)) \in Stacks
    BY <2>1, <2>2, UndoStands
  <2> DEFINE s == Undo(t.pos, Last(t.scopes))
             scopes == Front(t.scopes)
  <2>4. LeaveIf(t, condition) = [t EXCEPT !.pos = s, !.scopes = scopes]
    BY <1>1 DEF LeaveIf, Leave
  <2>5. s \in Stacks /\ scopes \in Seq(Mementos)
    BY <2>2, <2>3
  <2> HIDE DEF s, scopes
  <2>6. [t EXCEPT !.pos = s, !.scopes = scopes] \in Traversers
    BY <2>5 DEF Traversers
  <2> QED
    BY <2>4, <2>6
<1>2. CASE ~(t.scopes # <<>> /\ condition)
  BY <1>2 DEF LeaveIf
<1> QED
  BY <1>1, <1>2

LEMMA UnwindStands ==
    ASSUME NEW t \in Traversers, NEW slack
    PROVE  Unwind(t, slack) \in Traversers
<1> DEFINE Move(u) == LeaveIf(u, Last(u.scopes).level + slack > Len(u.pos))
           n == Len(t.scopes)
           IsLeft(f) == f = [k \in 0..n |-> IF k = 0 THEN t ELSE Move(f[k - 1])]
           left == CHOOSE f : IsLeft(f)
           g == [k \in 1..n |-> [u \in Traversers |-> Move(u)]]
<1>1. Unwind(t, slack) = left[n]
  BY DEF Unwind
<1>2. \A u \in Traversers : Move(u) \in Traversers
  BY LeaveStands
<1>3. n \in Nat
  BY DEF Traversers
<1> HIDE DEF n, Move
<1>4. \A k \in 1..n : \A u \in Traversers : g[k][u] = Move(u)
  OBVIOUS
<1> HIDE DEF g
<1>4a. StepsIn(g, Traversers, n)
  BY <1>2, <1>4 DEF StepsIn
<1>5. PICK f : Runs(f, Traversers, t, n, g)
  BY <1>3, <1>4a, Recursion
<1>6. IsLeft(f)
  <2>1. \A k \in 1..n : k - 1 \in 0..n
    BY <1>3
  <2>2. \A k \in 1..n : f[k] = Move(f[k - 1])
    BY <1>4, <1>5, <2>1 DEF Runs
  <2> QED
    BY <1>3, <1>5, <2>2 DEF Runs
<1>7. IsLeft(left)
  BY <1>6
<1> HIDE DEF left
<1>8. left[0] = t /\ \A k \in 1..n : left[k] = Move(left[k - 1])
  BY <1>3, <1>7
<1>9. \A k \in 0..n : left[k] \in Traversers
  BY <1>2, <1>3, <1>8, KeptByRecursion
<1> QED
  BY <1>1, <1>3, <1>9

LEMMA ReturnToLevelStands ==
    ASSUME NEW t \in Traversers, NEW level
    PROVE  ReturnToLevel(t, level) \in Traversers
<1> DEFINE Move(u) == LeaveIf(u, Len(u.pos) > level)
           n == Len(t.scopes)
           IsLeft(f) == f = [k \in 0..n |-> IF k = 0 THEN t ELSE Move(f[k - 1])]
           left == CHOOSE f : IsLeft(f)
           g == [k \in 1..n |-> [u \in Traversers |-> Move(u)]]
<1>1. ReturnToLevel(t, level) = left[n]
  BY DEF ReturnToLevel
<1>2. \A u \in Traversers : Move(u) \in Traversers
  BY LeaveStands
<1>3. n \in Nat
  BY DEF Traversers
<1> HIDE DEF n, Move
<1>4. \A k \in 1..n : \A u \in Traversers : g[k][u] = Move(u)
  OBVIOUS
<1> HIDE DEF g
<1>5. StepsIn(g, Traversers, n)
  BY <1>2, <1>4 DEF StepsIn
<1>6. PICK f : Runs(f, Traversers, t, n, g)
  BY <1>3, <1>5, Recursion
<1>7. IsLeft(f)
  <2>1. \A k \in 1..n : k - 1 \in 0..n
    BY <1>3
  <2>2. \A k \in 1..n : f[k] = Move(f[k - 1])
    BY <1>4, <1>6, <2>1 DEF Runs
  <2> QED
    BY <1>3, <1>6, <2>2 DEF Runs
<1>8. IsLeft(left)
  BY <1>7
<1> HIDE DEF left
<1>9. left[0] = t /\ \A k \in 1..n : left[k] = Move(left[k - 1])
  BY <1>3, <1>8
<1>10. \A k \in 0..n : left[k] \in Traversers
  BY <1>2, <1>3, <1>9, KeptByRecursion
<1> QED
  BY <1>1, <1>3, <1>10

LEMMA UndoAllStands ==
    ASSUME NEW s \in Stacks, NEW scopes \in Seq(Mementos)
    PROVE  UndoAll(s, scopes) \in Stacks
<1> DEFINE n == Len(scopes)
           Move(k, u) == Undo(u, scopes[n + 1 - k])
           IsUndone(f) == f = [k \in 0..n |-> IF k = 0 THEN s ELSE Move(k, f[k - 1])]
           undone == CHOOSE f : IsUndone(f)
           g == [k \in 1..n |-> [u \in Stacks |-> Move(k, u)]]
<1>1. UndoAll(s, scopes) = undone[n]
  BY DEF UndoAll
<1>2. \A k \in 1..n : \A u \in Stacks : Move(k, u) \in Stacks
  <2> TAKE k \in 1..n
  <2>1. n + 1 - k \in 1..Len(scopes)
    OBVIOUS
  <2>2. scopes[n + 1 - k] \in Mementos
    BY <2>1, ElementOfSeq
  <2> QED
    BY <2>2, UndoStands
<1>3. n \in Nat
  OBVIOUS
<1> HIDE DEF n, Move
<1>4. \A k \in 1..n : \A u \in Stacks : g[k][u] = Move(k, u)
  OBVIOUS
<1> HIDE DEF g
<1>5. StepsIn(g, Stacks, n)
  BY <1>2, <1>4 DEF StepsIn
<1>6. PICK f : Runs(f, Stacks, s, n, g)
  BY <1>3, <1>5, Recursion
<1>7. IsUndone(f)
  <2>1. \A k \in 1..n : k - 1 \in 0..n
    BY <1>3
  <2>2. \A k \in 1..n : f[k] = Move(k, f[k - 1])
    BY <1>4, <1>6, <2>1 DEF Runs
  <2> QED
    BY <1>3, <1>6, <2>2 DEF Runs
<1>8. IsUndone(undone)
  BY <1>7
<1> HIDE DEF undone
<1>9. undone[0] = s /\ \A k \in 1..n : undone[k] = Move(k, undone[k - 1])
  BY <1>3, <1>8
<1>10. \A k \in 0..n : undone[k] \in Stacks
  BY <1>2, <1>3, <1>9, KeptByRecursion
<1> QED
  BY <1>1, <1>3, <1>10

\* A traverser that is moved, or told of a match.
LEMMA Moved ==
    ASSUME NEW t \in Traversers, NEW s \in Stacks
    PROVE  [t EXCEPT !.pos = s] \in Traversers /\ [t EXCEPT !.after = s] \in Traversers
BY DEF Traversers

LEMMA StandsIn ==
    ASSUME NEW t \in Traversers
    PROVE  t.pos \in Stacks /\ t.last \in Stacks /\ t.after \in Stacks /\ t.scopes \in Seq(Mementos)
BY DEF Traversers

LEMMA EmptyStack == <<>> \in Stacks /\ <<>> \in Seq(Mementos)
BY EmptySeq DEF Stacks

\* return_to_outermost_scope(), repeat_group_continues() and check_left_scope(), and
\* with them ++ of the parser's position.
LEMMA OutermostStands ==
    ASSUME NEW t \in Traversers
    PROVE  ReturnToOutermostScope(t) \in Traversers
<1> DEFINE s == IF t.scopes = <<>> THEN <<>> ELSE UndoAll(t.pos, t.scopes)
<1>1. s \in Stacks
  BY StandsIn, UndoAllStands, EmptyStack
<1>2. ReturnToOutermostScope(t) =
        [t EXCEPT !.after = <<>>, !.scopes = <<>>, !.repeatContinues = FALSE, !.pos = s]
  BY DEF ReturnToOutermostScope
<1> HIDE DEF s
<1>3. [t EXCEPT !.after = <<>>, !.scopes = <<>>, !.repeatContinues = FALSE, !.pos = s] \in Traversers
  BY <1>1, EmptyStack DEF Traversers
<1> QED
  BY <1>2, <1>3

LEMMA CheckRepeatStands ==
    ASSUME NEW t \in Traversers
    PROVE  CheckRepeat(t) \in Traversers
<1>1. RepeatGroupContinues(t) \in BOOLEAN
  BY DEF RepeatGroupContinues, Traversers
<1> DEFINE b == RepeatGroupContinues(t)
<1>2. CheckRepeat(t) = [t EXCEPT !.repeatContinues = b]
  BY DEF CheckRepeat
<1> HIDE DEF b
<1>3. b \in BOOLEAN
  BY <1>1 DEF b
<1>4. [t EXCEPT !.repeatContinues = b] \in Traversers
  BY <1>3 DEF Traversers
<1> QED
  BY <1>2, <1>4

LEMMA CheckLeftScopeStands ==
    ASSUME NEW t \in Traversers
    PROVE  CheckLeftScope(t) \in Traversers
<1>1. [Unwind(t, 1) EXCEPT !.after = <<>>] \in Traversers
  BY UnwindStands, Moved, EmptyStack
<1>2. \A u \in Traversers : CheckRepeat(Unwind(u, 0)) \in Traversers
  BY UnwindStands, CheckRepeatStands
<1> QED
  BY <1>1, <1>2 DEF CheckLeftScope

LEMMA StepStands ==
    ASSUME IsGrammar, NEW t \in Traversers
    PROVE  Step(t) \in Traversers
<1> DEFINE s == t.pos
           Ends(u) == IF ~Valid(u) THEN ReturnToOutermostScope(u) ELSE u
           moves == {Increment(s), NextAfterSiblings(Increment(s)),
                     NextAlternative(s), NextAfterSiblings(s)}
<1>1. s \in Stacks
  BY StandsIn
<1>2. \/ Step(t) \in {t, ReturnToOutermostScope(t)}
      \/ \E next \in moves : Step(t) = CheckLeftScope(Ends([t EXCEPT !.pos = next]))
  BY DEF Step
<1>3. \A next \in moves : next \in Stacks
  BY <1>1, IncrementStands, NextAfterSiblingsStands, NextAlternativeStands
<1>4. \A u \in Traversers : Ends(u) \in Traversers
  BY OutermostStands
<1> HIDE DEF s, Ends, moves
<1>5. \A next \in moves : CheckLeftScope(Ends([t EXCEPT !.pos = next])) \in Traversers
  BY <1>3, <1>4, Moved, CheckLeftScopeStands
<1> QED
  BY <1>2, <1>5, OutermostStands

(***************************************************************************)
(* Searches.                                                               *)
(***************************************************************************)
\* A recursion whose steps are the same.
Repeats(f, D, a, n, g) == f = [k \in 0..n |-> IF k = 0 THEN a ELSE g[f[k - 1]]] /\ f \in [0..n -> D]

LEMMA SameSteps ==
    ASSUME NEW D, NEW a \in D, NEW n \in Nat, NEW g \in [D -> D]
    PROVE  \E f : Repeats(f, D, a, n, g)
<1> DEFINE h == [k \in 1..n |-> g]
<1>1. StepsIn(h, D, n)
  BY DEF StepsIn
<1>2. PICK f : Runs(f, D, a, n, h)
  BY <1>1, Recursion
<1>3. \A k \in 1..n : h[k] = g /\ k - 1 \in 0..n
  OBVIOUS
<1> HIDE DEF h
<1>4. f \in [0..n -> D] /\ f[0] = a /\ \A k \in 1..n : f[k] = g[f[k - 1]]
  BY <1>2, <1>3 DEF Runs
<1>5. f = [k \in 0..n |-> IF k = 0 THEN a ELSE g[f[k - 1]]]
  BY <1>4
<1> QED
  BY <1>4, <1>5 DEF Repeats

\* The number of turns of a search, and of the rounds they are taken in.
LEMMA RootIs ==
    ASSUME NEW max \in Nat
    PROVE  (CHOOSE n \in 0..max : n * n >= max) \in Nat
<1>1. max \in 0..max
  OBVIOUS
<1>2. max * max >= max
  <2>1. CASE max = 0
    BY <2>1
  <2>2. CASE max >= 1
    <3>1. \A x, y \in Nat : x >= 1 => y * x >= y
      BY SMT
    <3> QED
      BY <2>2, <3>1
  <2> QED
    BY <2>1, <2>2
<1>3. (CHOOSE n \in 0..max : n * n >= max) \in 0..max
  BY <1>1, <1>2
<1> QED
  BY <1>3

\* What is walked through, and where the walk is.
Walks(X) == [at : X, was : Seq(X)]

LEMMA WalkOn ==
    ASSUME NEW X, NEW w \in Walks(X), NEW u \in X
    PROVE  [at |-> u, was |-> Append(w.was, w.at)] \in Walks(X)
<1>1. w.was \in Seq(X) /\ w.at \in X
  BY DEF Walks
<1>2. Append(w.was, w.at) \in Seq(X)
  BY <1>1, AppendProperties
<1> QED
  BY <1>2 DEF Walks

LEMMA MaxTurns ==
    ASSUME IsGrammar, NEW t \in Traversers
    PROVE  Size * (Len(t.scopes) + 1) \in Nat
<1>1. Size \in Nat
  BY FS_CardinalityType DEF Size, IsGrammar
<1>2. Len(t.scopes) + 1 \in Nat
  BY DEF Traversers
<1>3. \A x, y \in Nat : x * y \in Nat
  BY SMT
<1> QED
  BY <1>1, <1>2, <1>3

\* All that a search goes through.
LEMMA StepPastStands ==
    ASSUME IsGrammar, NEW t \in Traversers, NEW past
    PROVE  StepPast(t, past) \in Traversers
BY StandsIn, NextSiblingStands, Moved, StepStands DEF StepPast

LEMMA WalkStands ==
    ASSUME IsGrammar, NEW t \in Traversers, NEW past
    PROVE  WalkPast(t, past) \in Seq(Traversers)
<1> DEFINE D == Walks(Traversers)
           max == Size * (Len(t.scopes) + 1)
           n == CHOOSE n \in 0..max : n * n >= max
           Turn(w) == IF Valid(w.at)
                      THEN [at |-> StepPast(w.at, past), was |-> Append(w.was, w.at)] ELSE w
           Turns(w) == CHOOSE f : f = [k \in 0..n |-> IF k = 0 THEN w ELSE Turn(f[k - 1])]
           Round(w) == IF Valid(w.at) THEN Turns(w)[n] ELSE w
           start == [at |-> t, was |-> <<>>]
           rounds == CHOOSE f : f = [k \in 0..n |-> IF k = 0 THEN start ELSE Round(f[k - 1])]
<1>1. WalkPast(t, past) = rounds[n].was
  BY DEF WalkPast, Search, While
<1>2. n \in Nat
  BY MaxTurns, RootIs
<1>3. \A w \in D : Turn(w) \in D
  <2> TAKE w \in D
  <2>1. w.at \in Traversers
    BY DEF Walks
  <2> QED
    BY <2>1, StepPastStands, WalkOn
<1>4. start \in D
  <2>1. <<>> \in Seq(Traversers)
    BY EmptySeq
  <2> QED
    BY <2>1 DEF Walks
<1> HIDE DEF D, n, Turn, start
<1>5. \A w \in D : Turns(w)[n] \in D
  <2> TAKE w \in D
  <2> DEFINE g == [u \in D |-> Turn(u)]
             IsTurns(f) == f = [k \in 0..n |-> IF k = 0 THEN w ELSE Turn(f[k - 1])]
  <2>1. g \in [D -> D] /\ \A u \in D : g[u] = Turn(u)
    BY <1>3
  <2> HIDE DEF g
  <2>2. PICK f : Repeats(f, D, w, n, g)
    BY <1>2, <2>1, SameSteps
  <2>a. f \in [0..n -> D]
    BY <2>2 DEF Repeats
  <2>3. \A k \in 0..n : k # 0 => g[f[k - 1]] = Turn(f[k - 1])
    BY <1>2, <2>1, <2>a
  <2>4. IsTurns(f)
    BY <2>2, <2>3 DEF Repeats
  <2> DEFINE turns == Turns(w)
  <2>5. IsTurns(turns)
    BY <2>4
  <2> HIDE DEF turns
  <2>6. turns[0] = w /\ \A k \in 1..n : turns[k] = Turn(turns[k - 1])
    BY <1>2, <2>5
  <2>7. \A k \in 0..n : turns[k] \in D
    BY <1>2, <1>3, <2>6, KeptByRecursion
  <2> QED
    BY <1>2, <2>7 DEF turns
<1>6. \A w \in D : Round(w) \in D
  BY <1>5
<1> HIDE DEF Round
<1>7. rounds[n] \in D
  <2> DEFINE g == [u \in D |-> Round(u)]
             IsRounds(f) == f = [k \in 0..n |-> IF k = 0 THEN start ELSE Round(f[k - 1])]
  <2>1. g \in [D -> D] /\ \A u \in D : g[u] = Round(u)
    BY <1>6
  <2> HIDE DEF g
  <2>2. PICK f : Repeats(f, D, start, n, g)
    BY <1>2, <1>4, <2>1, SameSteps
  <2>a. f \in [0..n -> D]
    BY <2>2 DEF Repeats
  <2>3. \A k \in 0..n : k # 0 => g[f[k - 1]] = Round(f[k - 1])
    BY <1>2, <2>1, <2>a
  <2>4. IsRounds(f)
    BY <2>2, <2>3 DEF Repeats
  <2>5. IsRounds(rounds)
    BY <2>4
  <2> HIDE DEF rounds
  <2>6. rounds[0] = start /\ \A k \in 1..n : rounds[k] = Round(rounds[k - 1])
    BY <1>2, <2>5
  <2>7. \A k \in 0..n : rounds[k] \in D
    BY <1>2, <1>4, <1>6, <2>6, KeptByRecursion
  <2> QED
    BY <1>2, <2>7
<1> HIDE DEF rounds
<1> QED
  BY <1>1, <1>7 DEF D, Walks

(***************************************************************************)
(* next_after_match(), from what begins a repeat cycle to where the parser *)
(* goes on.                                                                *)
(***************************************************************************)
LEMMA RepeatStartStands ==
    ASSUME NEW t \in Traversers, NEW match
    PROVE  CheckRepeatGroupStart(t, match) \in Traversers
<1> DEFINE new == RepeatGroup(match.pos)
           starts == /\ new # NoGroup
                     /\ \/ RepeatGroup(t.last) # new
                        \/ ~t.repeatContinues \/ ~match.repeatContinues
                        \/ t.scopes = <<>>
                        \/ /\ Valid(t) /\ new = t.pos[1].parent
                           /\ Node(Last(t.scopes).context) = Append(t.pos[1].parent, 1)
<1>1. CheckRepeatGroupStart(t, match) = [t EXCEPT !.repeatStarts = starts, !.repeatContinues = starts]
  BY DEF CheckRepeatGroupStart
<1>2. starts \in BOOLEAN
  OBVIOUS
<1> HIDE DEF starts
<1>3. [t EXCEPT !.repeatStarts = starts, !.repeatContinues = starts] \in Traversers
  BY <1>2 DEF Traversers
<1> QED
  BY <1>1, <1>3

LEMMA MoveOnStands ==
    ASSUME NEW t \in Traversers, NEW s \in Stacks, NEW next \in Stacks, NEW again
    PROVE  MoveOn(t, s, next, again) \in Traversers
<1> DEFINE back == IF again \/ t.scopes = <<>> THEN s ELSE Undo(s, Last(t.scopes))
           scopes == Append(t.scopes, UndoPoint(t.pos))
<1>1. MoveOn(t, s, next, again) \in
        {[t EXCEPT !.pos = back], [t EXCEPT !.scopes = scopes, !.pos = next],
         ReturnToLevel(t, Len(next)), [t EXCEPT !.pos = next]}
  BY DEF MoveOn
<1>2. t.pos \in Stacks /\ t.scopes \in Seq(Mementos)
  BY StandsIn
<1>3. back \in Stacks
  BY <1>2, LastScope, UndoStands
<1>4. scopes \in Seq(Mementos)
  BY <1>2, UndoPointIs, AppendProperties
<1> HIDE DEF back, scopes
<1>5. [t EXCEPT !.scopes = scopes, !.pos = next] \in Traversers
  BY <1>4 DEF Traversers
<1>6. [t EXCEPT !.pos = back] \in Traversers /\ [t EXCEPT !.pos = next] \in Traversers
  BY <1>3, Moved
<1> QED
  BY <1>1, <1>5, <1>6, ReturnToLevelStands

LEMMA GoOnStands ==
    ASSUME IsGrammar, NEW t \in Traversers, NEW s \in Stacks
    PROVE  GoOn(t, s) \in Traversers
<1> DEFINE r == SkipAlternatives(s)
           again == At(r) \in Repeating \/ IsGroup(At(r))
           next == IF again THEN r ELSE Increment(r)
           u == [t EXCEPT !.matched = again]
<1>1. GoOn(t, s) \in {MoveOn(u, r, next, again), ReturnToLevel(t, Len(s)), t}
  BY DEF GoOn, AfterBlocking
<1>2. r \in Stacks
  BY SkipAlternativesStands
<1>3. next \in Stacks
  BY <1>2, IncrementStands
<1>4. again \in BOOLEAN
  OBVIOUS
<1> HIDE DEF r, again, next
<1>5. u \in Traversers
  BY <1>4 DEF Traversers
<1> HIDE DEF u
<1> QED
  BY <1>1, <1>2, <1>3, <1>5, MoveOnStands, ReturnToLevelStands

LEMMA NextAfterMatchStands ==
    ASSUME IsGrammar, NEW t \in Traversers, NEW match \in Traversers
    PROVE  NextAfterMatch(t, match) \in Traversers
<1> DEFINE s == IF At(match.pos) \notin Blocking /\ Parent(match.pos) \in Blocking
                THEN BackToParent(match.pos) ELSE match.pos
           passes == ~SamePlace(s, t.pos) /\ At(t.pos) \in Blocking
           u == CheckRepeatGroupStart(t, match)
           next == IF passes THEN NextSibling(u.pos) ELSE u.pos
           started == [u EXCEPT !.last = match.pos, !.pos = next]
           v == GoOn(started, s)
<1>1. NextAfterMatch(t, match) \in {t, CheckRepeat([v EXCEPT !.after = v.pos])}
  BY DEF NextAfterMatch
<1>2. match.pos \in Stacks
  BY StandsIn
<1>3. s \in Stacks
  BY <1>2, BackToParentStands
<1>4. u \in Traversers
  BY RepeatStartStands
<1> HIDE DEF u, passes, s
<1>5. next \in Stacks
  BY <1>4, StandsIn, NextSiblingStands
<1> HIDE DEF next
<1>6. started \in Traversers
  <2> DEFINE m == match.pos
  <2>1. m \in Stacks
    BY <1>2
  <2> HIDE DEF m
  <2>2. [u EXCEPT !.last = m, !.pos = next] \in Traversers
    BY <1>4, <1>5, <2>1 DEF Traversers
  <2> QED
    BY <2>2 DEF m
<1> HIDE DEF started
<1>7. v \in Traversers
  BY <1>3, <1>6, GoOnStands
<1> HIDE DEF v
<1>8. CheckRepeat([v EXCEPT !.after = v.pos]) \in Traversers
  BY <1>7, StandsIn, Moved, CheckRepeatStands
<1> QED
  BY <1>1, <1>8

(***************************************************************************)
(* The parameters that are still missing.                                  *)
(***************************************************************************)
\* Some elements of a sequence.
LEMMA KeptAre ==
    ASSUME NEW seq, Len(seq) \in Nat, NEW I, NEW X, \A k \in 1..Len(seq) : k \in I => seq[k] \in X
    PROVE  Kept(seq, I) \in Seq(X)
<1> DEFINE n == Len(seq)
           none == <<>>
           D == Seq(X)
           Move(k, u) == IF k \in I THEN Append(u, seq[k]) ELSE u
           IsKept(f) == f = [k \in 0..n |-> IF k = 0 THEN none ELSE Move(k, f[k - 1])]
           kept == CHOOSE f : IsKept(f)
           g == [k \in 1..n |-> [u \in D |-> Move(k, u)]]
<1>1. Kept(seq, I) = kept[n]
  BY DEF Kept
<1>2. \A k \in 1..n : \A u \in D : Move(k, u) \in D
  <2> TAKE k \in 1..n
  <2> TAKE u \in D
  <2>1. k \in I => seq[k] \in X
    OBVIOUS
  <2> QED
    BY <2>1, AppendProperties
<1>3. n \in Nat /\ none \in D
  BY EmptySeq
<1> HIDE DEF n, Move, D, none
<1>4. \A k \in 1..n : \A u \in D : g[k][u] = Move(k, u)
  OBVIOUS
<1> HIDE DEF g
<1>5. StepsIn(g, D, n)
  BY <1>2, <1>4 DEF StepsIn
<1>6. PICK f : Runs(f, D, none, n, g)
  BY <1>3, <1>5, Recursion
<1>7. IsKept(f)
  <2>1. \A k \in 1..n : k - 1 \in 0..n
    BY <1>3
  <2>2. \A k \in 1..n : f[k] = Move(k, f[k - 1])
    BY <1>4, <1>6, <2>1 DEF Runs
  <2> QED
    BY <1>3, <1>6, <2>2 DEF Runs
<1>8. IsKept(kept)
  BY <1>7
<1> HIDE DEF kept
<1>9. kept[0] = none /\ \A k \in 1..n : kept[k] = Move(k, kept[k - 1])
  BY <1>3, <1>8
<1>10. \A k \in 0..n : kept[k] \in D
  BY <1>2, <1>3, <1>9, KeptByRecursion
<1> QED
  BY <1>1, <1>3, <1>10 DEF D

LEMMA KeptType ==
    ASSUME NEW X, NEW seq \in Seq(X), NEW I
    PROVE  Kept(seq, I) \in Seq(X)
BY KeptAre

LEMMA NextMissStands ==
    ASSUME IsGrammar, NEW s \in Stacks
    PROVE  NextMiss(s) \in Stacks
BY NextSiblingStands, NextAfterSiblingsStands, IncrementStands DEF NextMiss

\* The walk over what may be missing behind a position.
LEMMA PotentialMissesStand ==
    ASSUME IsGrammar, NEW s \in Stacks, NEW level
    PROVE  PotentialMisses(s, level) \in Seq(Stacks)
<1> DEFINE D == Walks(Stacks)
           n == CHOOSE n \in 0..Size : n * n >= Size
           Inside(u) == u # <<>> /\ Len(u) >= level
           Turn(w) == IF Inside(w.at) THEN [at |-> NextMiss(w.at), was |-> Append(w.was, w.at)] ELSE w
           Turns(w) == CHOOSE f : f = [k \in 0..n |-> IF k = 0 THEN w ELSE Turn(f[k - 1])]
           Round(w) == IF Inside(w.at) THEN Turns(w)[n] ELSE w
           start == [at |-> s, was |-> <<>>]
           rounds == CHOOSE f : f = [k \in 0..n |-> IF k = 0 THEN start ELSE Round(f[k - 1])]
<1>1. PotentialMisses(s, level) = RequiredAmong(rounds[n].was)
  BY DEF PotentialMisses, While
<1>2. n \in Nat
  BY FS_CardinalityType, RootIs DEF Size, IsGrammar
<1>3. \A w \in D : Turn(w) \in D
  <2> TAKE w \in D
  <2>1. w.at \in Stacks
    BY DEF Walks
  <2> QED
    BY <2>1, NextMissStands, WalkOn
<1>4. start \in D
  <2>1. <<>> \in Seq(Stacks)
    BY EmptySeq
  <2> QED
    BY <2>1 DEF Walks
<1> HIDE DEF D, n, Turn, start
<1>5. \A w \in D : Turns(w)[n] \in D
  <2> TAKE w \in D
  <2> DEFINE g == [u \in D |-> Turn(u)]
             IsTurns(f) == f = [k \in 0..n |-> IF k = 0 THEN w ELSE Turn(f[k - 1])]
  <2>1. g \in [D -> D] /\ \A u \in D : g[u] = Turn(u)
    BY <1>3
  <2> HIDE DEF g
  <2>2. PICK f : Repeats(f, D, w, n, g)
    BY <1>2, <2>1, SameSteps
  <2>a. f \in [0..n -> D]
    BY <2>2 DEF Repeats
  <2>3. \A k \in 0..n : k # 0 => g[f[k - 1]] = Turn(f[k - 1])
    BY <1>2, <2>1, <2>a
  <2>4. IsTurns(f)
    BY <2>2, <2>3 DEF Repeats
  <2> DEFINE turns == Turns(w)
  <2>5. IsTurns(turns)
    BY <2>4
  <2> HIDE DEF turns
  <2>6. turns[0] = w /\ \A k \in 1..n : turns[k] = Turn(turns[k - 1])
    BY <1>2, <2>5
  <2>7. \A k \in 0..n : turns[k] \in D
    BY <1>2, <1>3, <2>6, KeptByRecursion
  <2> QED
    BY <1>2, <2>7 DEF turns
<1>6. \A w \in D : Round(w) \in D
  BY <1>5
<1> HIDE DEF Round
<1>7. rounds[n] \in D
  <2> DEFINE g == [u \in D |-> Round(u)]
             IsRounds(f) == f = [k \in 0..n |-> IF k = 0 THEN start ELSE Round(f[k - 1])]
  <2>1. g \in [D -> D] /\ \A u \in D : g[u] = Round(u)
    BY <1>6
  <2> HIDE DEF g
  <2>2. PICK f : Repeats(f, D, start, n, g)
    BY <1>2, <1>4, <2>1, SameSteps
  <2>a. f \in [0..n -> D]
    BY <2>2 DEF Repeats
  <2>3. \A k \in 0..n : k # 0 => g[f[k - 1]] = Round(f[k - 1])
    BY <1>2, <2>1, <2>a
  <2>4. IsRounds(f)
    BY <2>2, <2>3 DEF Repeats
  <2>5. IsRounds(rounds)
    BY <2>4
  <2> HIDE DEF rounds
  <2>6. rounds[0] = start /\ \A k \in 1..n : rounds[k] = Round(rounds[k - 1])
    BY <1>2, <2>5
  <2>7. \A k \in 0..n : rounds[k] \in D
    BY <1>2, <1>4, <1>6, <2>6, KeptByRecursion
  <2> QED
    BY <1>2, <2>7
<1> HIDE DEF rounds
<1>8. rounds[n].was \in Seq(Stacks)
  BY <1>7 DEF D, Walks
<1> QED
  BY <1>1, <1>8, KeptType DEF RequiredAmong
\* A missing parameter is remembered with the position it was found at.
MissCandidates == [pos : Stacks, index : Nat, startsRepeatGroup : BOOLEAN]

LEMMA CandidatesType ==
    ASSUME NEW found \in Seq(Stacks), NEW index \in Nat, NEW starts \in BOOLEAN
    PROVE  Candidates(found, index, starts) \in Seq(MissCandidates)
<1> DEFINE c == [i \in DOMAIN found |-> Candidate(found[i], index, starts)]
<1>1. DOMAIN found = 1..Len(found) /\ Len(found) \in Nat /\ \A i \in 1..Len(found) : found[i] \in Stacks
  OBVIOUS
<1>2. \A i \in 1..Len(found) : c[i] \in MissCandidates
  BY <1>1 DEF Candidate, MissCandidates
<1>3. c \in [1..Len(found) -> MissCandidates]
  BY <1>1, <1>2
<1> HIDE DEF c, MissCandidates
<1>4. c \in Seq(MissCandidates)
  BY <1>1, <1>3
<1> QED
  BY <1>4 DEF Candidates, c

LEMMA NewCandidatesType ==
    ASSUME IsGrammar, NEW p, p.index \in Nat, NEW starts, NEW s \in Stacks
    PROVE  NewCandidates(p, starts, s, p.index) \in Seq(MissCandidates)
<1> DEFINE next == Increment(SkipAlternatives(s))
           group == RepeatGroup(s)
           Wanted(q) == IF group # NoGroup THEN starts /\ RepeatGroup(q) = group
                        ELSE /\ At(s) \in Blocking /\ At(s) \notin RequiredNodes
                             /\ Len(next) >= Len(s)
                             /\ \A i \in DOMAIN p.missing : At(p.missing[i].pos) # At(q)
           found == Misses(next)
           those == Kept(found, {i \in DOMAIN found : Wanted(found[i])})
<1>1. NewCandidates(p, starts, s, p.index) = Candidates(those, p.index, group # NoGroup)
  BY DEF NewCandidates
<1>2. found \in Seq(Stacks)
  BY SkipAlternativesStands, IncrementStands, PotentialMissesStand DEF Misses
<1> HIDE DEF found, Wanted
<1>3. those \in Seq(Stacks)
  BY <1>2, KeptType
<1> HIDE DEF those
<1>4. (group # NoGroup) \in BOOLEAN
  OBVIOUS
<1> QED
  BY <1>1, <1>3, <1>4, CandidatesType

LEMMA CleanCandidatesType ==
    ASSUME NEW X, NEW missing \in Seq(X), NEW s
    PROVE  CleanCandidates(missing, s) \in Seq(X)
<1> DEFINE I == {i \in 1..Len(missing) : At(missing[i].pos) = At(s)}
           k == IF I # {} THEN Max(I) ELSE 0
<1>1. CleanCandidates(missing, s) = IF k = 0 THEN missing ELSE RemoveAt(missing, k)
  BY DEF CleanCandidates, SelectLastInSeq
<1>2. Len(missing) \in Nat /\ I \subseteq 0..Len(missing) /\ I \subseteq 1..Len(missing)
  OBVIOUS
<1> HIDE DEF I
<1>3. I # {} => Max(I) \in I
  BY <1>2, MaxIs
<1>4. k # 0 => k \in 1..Len(missing)
  BY <1>2, <1>3
<1> HIDE DEF k
<1>5. ASSUME k \in 1..Len(missing)
      PROVE  RemoveAt(missing, k) \in Seq(X)
  <2>1. k - 1 \in Int /\ k + 1 \in Int /\ Len(missing) \in Int /\ 1 \in Int
    BY <1>2, <1>5
  <2>2. /\ \A i \in 1..(k - 1) : missing[i] \in X
        /\ \A i \in (k + 1)..Len(missing) : missing[i] \in X
    BY <1>2, <1>5
  <2>3. SubSeq(missing, 1, k - 1) \in Seq(X) /\ SubSeq(missing, k + 1, Len(missing)) \in Seq(X)
    BY <2>1, <2>2, SubSeqProperties
  <2>4. SubSeq(missing, 1, k - 1) \o SubSeq(missing, k + 1, Len(missing)) \in Seq(X)
    BY <2>3, ConcatProperties
  <2> QED
    BY <2>4 DEF RemoveAt
<1> QED
  BY <1>1, <1>4, <1>5

\* What a match at s leaves missing.
LEMMA StillMissingType ==
    ASSUME NEW X, NEW missing \in Seq(X), NEW s \in Stacks
    PROVE  StillMissing(missing, s) \in Seq(X)
<1> DEFINE n == Len(s)
           D == Seq(X)
           clean == CleanCandidates(missing, s)
           Move(k, u) == DiscardAlternatives(u, s[k])
           IsStill(f) == f = [k \in 0..n |-> IF k = 0 THEN clean ELSE Move(k, f[k - 1])]
           still == CHOOSE f : IsStill(f)
           g == [k \in 1..n |-> [u \in D |-> Move(k, u)]]
<1>1. StillMissing(missing, s) = still[n]
  BY DEF StillMissing
<1>2. \A k \in 1..n : \A u \in D : Move(k, u) \in D
  BY KeptType DEF DiscardAlternatives
<1>3. n \in Nat /\ clean \in D
  BY StackIs, CleanCandidatesType
<1> HIDE DEF n, Move, D, clean
<1>4. \A k \in 1..n : \A u \in D : g[k][u] = Move(k, u)
  OBVIOUS
<1> HIDE DEF g
<1>5. StepsIn(g, D, n)
  BY <1>2, <1>4 DEF StepsIn
<1>6. PICK f : Runs(f, D, clean, n, g)
  BY <1>3, <1>5, Recursion
<1>7. IsStill(f)
  <2>1. \A k \in 1..n : k - 1 \in 0..n
    BY <1>3
  <2>2. \A k \in 1..n : f[k] = Move(k, f[k - 1])
    BY <1>4, <1>6, <2>1 DEF Runs
  <2> QED
    BY <1>3, <1>6, <2>2 DEF Runs
<1>8. IsStill(still)
  BY <1>7
<1> HIDE DEF still
<1>9. still[0] = clean /\ \A k \in 1..n : still[k] = Move(k, still[k - 1])
  BY <1>3, <1>8
<1>10. \A k \in 0..n : still[k] \in D
  BY <1>2, <1>3, <1>9, KeptByRecursion
<1> QED
  BY <1>1, <1>3, <1>10 DEF D

(***************************************************************************)
(* The parser, and what a match makes of it.                               *)
(***************************************************************************)
\* The mappings, the parser, and the places a word was found at.
MatchesStand(args) == \A i \in 1..Len(args) : args[i].match \in Stacks

ParserStands(p) ==
    /\ {"root", "pos", "index", "args", "blocked", "missing"} \subseteq DOMAIN p
    /\ p.root \in Groups /\ p.pos \in Traversers /\ p.index \in Nat
    /\ p.missing \in Seq(MissCandidates)
    /\ IsArgs(p.args) /\ MatchesStand(p.args)

FoundsStand(founds) == IsSeq(founds) /\ \A i \in 1..Len(founds) : founds[i].at \in Traversers

LEMMA RecordedMatch ==
    ASSUME NEW p, HasArgs(p), NEW found, NEW t, NEW clash
    PROVE  Record(p, found, t, clash).args[Len(p.args) + 1].match = found.at.pos
<1> DEFINE s == found.at.pos
           marked == [i \in DOMAIN p.args |-> [p.args[i] EXCEPT !.conflict = @ \/ i \in clash]]
           new == [index |-> p.index, arg |-> found.str, match |-> s,
                   repeat |-> OccurrencesOf(p.args, At(s)),
                   startsRepeatGroup |-> t.repeatStarts, blocked |-> FALSE, conflict |-> clash # {}]
           missing == p.missing \o NewCandidates(p, t.repeatStarts, s, p.index)
           rest == StillMissing(missing, s)
           q == [p EXCEPT !.pos = t, !.args = Append(marked, new), !.missing = rest]
<1>1. Record(p, found, t, clash) = q
  BY DEF Record
<1>2. IsSeq(p.args) /\ Len(p.args) \in Nat /\ DOMAIN p.args = 1..Len(p.args)
  BY SeqLen DEF HasArgs, IsArgs
<1>3. IsSeq(marked) /\ Len(marked) = Len(p.args)
  <2>1. marked \in [1..Len(p.args) -> {marked[i] : i \in 1..Len(p.args)}]
    BY <1>2
  <2> HIDE DEF marked
  <2>2. marked \in Seq({marked[i] : i \in 1..Len(p.args)}) /\ Len(marked) = Len(p.args)
    BY <1>2, <2>1
  <2> QED
    BY <2>2 DEF IsSeq
<1>4. new.match = s
  OBVIOUS
<1> HIDE DEF marked, new, missing, rest
<1>5. q.args = Append(marked, new)
  BY DEF HasArgs
<1> HIDE DEF q
<1>6. q.args[Len(p.args) + 1] = new
  BY <1>3, <1>5, SeqAppend
<1> QED
  BY <1>1, <1>4, <1>6

\* add_match(), once and for each of the flags that were joined.
LEMMA RecordStands ==
    ASSUME IsGrammar, NEW p, ParserStands(p), NEW found, found.at.pos \in Stacks,
           NEW t \in Traversers, NEW clash,
           t.repeatStarts \/ clash = Conflicting(p.args, found.at.pos)
    PROVE  ParserStands(Record(p, found, t, clash))
<1> DEFINE q == Record(p, found, t, clash)
           s == found.at.pos
           new == NewCandidates(p, t.repeatStarts, s, p.index)
           still == StillMissing(p.missing \o new, s)
<1>0. HasArgs(p)
  BY DEF ParserStands, HasArgs
<1>1. HasArgs(q) /\ Adds(p.args, q.args, found.str)
  BY <1>0, RecordAdds
<1>2. q.args[Len(p.args) + 1].match \in Stacks
  BY <1>0, RecordedMatch
<1>3. /\ {"root", "pos", "index", "args", "blocked", "missing"} \subseteq DOMAIN q
      /\ q.root = p.root /\ q.pos = t /\ q.index = p.index /\ q.missing = still
  BY DEF Record, ParserStands
<1>4. still \in Seq(MissCandidates)
  <2>1. new \in Seq(MissCandidates) /\ p.missing \in Seq(MissCandidates)
    BY NewCandidatesType DEF ParserStands
  <2>2. p.missing \o new \in Seq(MissCandidates)
    BY <2>1, ConcatProperties
  <2> QED
    BY <2>2, StillMissingType
<1> HIDE DEF q, still
<1>5. MatchesStand(q.args)
  <2>1. Len(p.args) \in Nat /\ Len(q.args) = Len(p.args) + 1
    BY <1>0, <1>1, SeqLen DEF HasArgs, IsArgs, Adds
  <2>2. \A i \in 1..Len(p.args) : q.args[i].match = p.args[i].match
    BY <1>1 DEF Adds, SameMapping
  <2>3. \A i \in 1..Len(p.args) : p.args[i].match \in Stacks
    BY DEF ParserStands, MatchesStand
  <2>4. \A i \in 1..Len(q.args) : i \in 1..Len(p.args) \/ i = Len(p.args) + 1
    BY <2>1
  <2> QED
    BY <1>2, <2>2, <2>3, <2>4 DEF MatchesStand
<1> QED
  BY <1>1, <1>3, <1>4, <1>5 DEF ParserStands, HasArgs, q

LEMMA AddMatchStands ==
    ASSUME IsGrammar, NEW p, ParserStands(p), NEW found, found.at \in Traversers
    PROVE  ParserStands(AddMatch(p, found))
<1> DEFINE t == NextAfterMatch(p.pos, found.at)
           clash == IF t.repeatStarts THEN {} ELSE Conflicting(p.args, found.at.pos)
<1>1. AddMatch(p, found) = Record(p, found, t, clash)
  BY DEF AddMatch, RecordBehind
<1>2. t.repeatStarts \/ clash = Conflicting(p.args, found.at.pos)
  OBVIOUS
<1>3. t \in Traversers /\ found.at.pos \in Stacks
  BY NextAfterMatchStands, StandsIn DEF ParserStands
<1> HIDE DEF t, clash
<1> QED
  BY <1>1, <1>2, <1>3, RecordStands

LEMMA AddMatchesStand ==
    ASSUME IsGrammar, NEW p, ParserStands(p), NEW founds, FoundsStand(founds)
    PROVE  ParserStands(AddMatches(p, founds))
<1>0. Len(founds) \in Nat
  BY SeqLen DEF FoundsStand
<1>1. PICK f : IsChain(f, p, founds)
  BY <1>0, AddMatchesIs
<1> DEFINE n == Len(founds)
           T == {k \in Nat : ParserStands(f[k])}
<1>2. /\ f[0] = p /\ f[n] = AddMatches(p, founds)
      /\ \A k \in 0..(n - 1) : f[k + 1] = AddMatch(f[k], founds[k + 1])
  BY <1>1 DEF IsChain
<1>3. 0 \in T
  BY <1>2
<1>4. ASSUME NEW k \in 0..(n - 1), k \in T
      PROVE  k + 1 \in T
  <2>1. ParserStands(f[k]) /\ f[k + 1] = AddMatch(f[k], founds[k + 1])
    BY <1>2, <1>4
  <2>2. founds[k + 1].at \in Traversers
    BY <1>0 DEF FoundsStand
  <2>3. ParserStands(f[k + 1])
    BY <2>1, <2>2, AddMatchStands
  <2> QED
    BY <2>3
<1> HIDE DEF T, n
<1>5. n \in Nat
  BY <1>0 DEF n
<1>6. \A k \in 0..n : k \in T
  BY <1>3, <1>4, <1>5, UpTo
<1> QED
  BY <1>2, <1>5, <1>6 DEF T

\* A parser at the start of a group, and one that is told to walk through
\* blocking parameters.
LEMMA ParserStarts ==
    ASSUME IsGrammar, NEW g \in Groups, NEW index \in Nat
    PROVE  ParserStands(Parser(g, index))
<1> DEFINE scoped == Scoped(g)
           missing == Candidates(PotentialMisses(Start(g), 1), index, FALSE)
<1>1. Start(g) \in Stacks
  BY EnterIsPlace
<1>2. scoped \in Traversers
  <2> DEFINE s == Start(g)
  <2> HIDE DEF s
  <2>1. s \in Stacks
    BY <1>1 DEF s
  <2>2. scoped = [pos |-> s, last |-> <<>>, after |-> <<>>, scopes |-> <<>>, matched |-> FALSE,
                  ignore |-> FALSE, repeatStarts |-> FALSE, repeatContinues |-> FALSE]
    BY DEF Scoped, s
  <2> QED
    BY <2>1, <2>2, EmptyStack DEF Traversers
<1>3. missing \in Seq(MissCandidates)
  BY <1>1, PotentialMissesStand, CandidatesType
<1>4. Parser(g, index) = [root |-> g, pos |-> scoped, index |-> index, args |-> <<>>,
                          blocked |-> FALSE, missing |-> missing]
  BY DEF Parser
<1> HIDE DEF scoped, missing
<1>5. IsArgs(<<>>) /\ MatchesStand(<<>>)
  <2>1. \A i \in 1..Len(<<>>) : FALSE
    OBVIOUS
  <2> QED
    BY <2>1, SeqOfOne DEF IsArgs, MatchesStand
<1> QED
  BY <1>2, <1>3, <1>4, <1>5 DEF ParserStands

LEMMA UnblockedStands ==
    ASSUME NEW p, ParserStands(p)
    PROVE  ParserStands(Unblocked(p))
<1> DEFINE t == [p.pos EXCEPT !.ignore = TRUE]
<1>1. t \in Traversers
  <2> DEFINE u == p.pos
  <2>1. u \in Traversers
    BY DEF ParserStands
  <2> HIDE DEF u
  <2>2. [u EXCEPT !.ignore = TRUE] \in Traversers
    BY <2>1 DEF Traversers
  <2> QED
    BY <2>2 DEF u
<1>2. Unblocked(p) = [p EXCEPT !.pos = t]
  BY DEF Unblocked, ParserStands
<1> HIDE DEF t
<1> QED
  BY <1>1, <1>2 DEF ParserStands

(***************************************************************************)
(* Where a word is found: on what a search went through.                   *)
(***************************************************************************)
LEMMA NothingStands == FoundsStand(<<>>)
<1>1. \A i \in 1..Len(<<>>) : FALSE
  OBVIOUS
<1> QED
  BY <1>1, SeqOfOne DEF FoundsStand

LEMMA FoundStands ==
    ASSUME NEW t \in Traversers, NEW str
    PROVE  FoundsStand(<<Found(t, str)>>)
<1> DEFINE f == Found(t, str)
<1>1. f.at \in Traversers
  BY DEF Found
<1> HIDE DEF f
<1> DEFINE founds == <<f>>
<1>2. Len(founds) = 1 /\ founds[1] = f /\ IsSeq(founds)
  BY SeqOfOne
<1> HIDE DEF founds
<1>3. FoundsStand(founds)
  BY <1>1, <1>2 DEF FoundsStand
<1> QED
  BY <1>3 DEF founds, f

\* full_match(), prefix_match().
LEMMA FullMatchStands ==
    ASSUME NEW walk \in Seq(Traversers), NEW word, NEW parameters
    PROVE  FoundsStand(FullMatch(walk, word, parameters))
<1> DEFINE I == {i \in 1..Len(walk) : /\ At(walk[i].pos) \in parameters
                                      /\ MatchLength(At(walk[i].pos), word) = Len(word)}
           i == IF I # {} THEN Min(I) ELSE 0
<1>1. FullMatch(walk, word, parameters) = IF i = 0 THEN <<>> ELSE <<Found(walk[i], word)>>
  BY DEF FullMatch, SelectInSeq
<1>2. I \subseteq 1..Len(walk)
  OBVIOUS
<1> HIDE DEF I
<1>3. i # 0 => i \in 1..Len(walk)
  BY <1>2, SelectedIs
<1> HIDE DEF i
<1>4. i # 0 => walk[i] \in Traversers
  BY <1>3, ElementOfSeq
<1> QED
  BY <1>1, <1>4, FoundStands, NothingStands

LEMMA PrefixMatchStands ==
    ASSUME NEW walk \in Seq(Traversers), NEW word, NEW parameters
    PROVE  FoundsStand(PrefixMatch(walk, word, parameters))
<1> DEFINE I == {i \in 1..Len(walk) : /\ At(walk[i].pos) \in parameters
                                      /\ MatchLength(At(walk[i].pos), word) > 0}
           i == IF I # {} THEN Min(I) ELSE 0
           str == SubSeq(word, 1, MatchLength(At(walk[i].pos), word))
<1>1. PrefixMatch(walk, word, parameters) = IF i = 0 THEN <<>> ELSE <<Found(walk[i], str)>>
  BY DEF PrefixMatch, SelectInSeq
<1>2. I \subseteq 1..Len(walk)
  OBVIOUS
<1> HIDE DEF I
<1>3. i # 0 => i \in 1..Len(walk)
  BY <1>2, SelectedIs
<1> HIDE DEF i, str
<1>4. i # 0 => walk[i] \in Traversers
  BY <1>3, ElementOfSeq
<1> QED
  BY <1>1, <1>4, FoundStands, NothingStands

LEMMA FoundsAppend ==
    ASSUME NEW founds, FoundsStand(founds), NEW t \in Traversers, NEW str
    PROVE  FoundsStand(Append(founds, Found(t, str)))
<1> DEFINE f == Found(t, str)
           more == Append(founds, f)
<1>1. f.at \in Traversers
  BY DEF Found
<1> HIDE DEF f
<1>2. /\ IsSeq(more) /\ Len(more) = Len(founds) + 1
      /\ \A i \in 1..Len(founds) : more[i] = founds[i]
      /\ more[Len(founds) + 1] = f
  BY SeqAppend DEF FoundsStand
<1>3. Len(founds) \in Nat
  BY SeqLen DEF FoundsStand
<1> HIDE DEF more
<1>4. \A i \in 1..Len(more) : i \in 1..Len(founds) \/ i = Len(founds) + 1
  BY <1>2, <1>3
<1>5. FoundsStand(more)
  BY <1>1, <1>2, <1>4 DEF FoundsStand
<1> QED
  BY <1>5 DEF more, f

LEMMA FoundsConcat ==
    ASSUME NEW founds, FoundsStand(founds), NEW more, FoundsStand(more)
    PROVE  FoundsStand(founds \o more)
<1> DEFINE n == Len(founds)
           m == Len(more)
           all == founds \o more
<1>1. /\ IsSeq(all) /\ Len(all) = n + m /\ n \in Nat /\ m \in Nat
      /\ \A i \in 1..n : all[i] = founds[i]
      /\ \A i \in 1..m : all[n + i] = more[i]
  BY SeqConcat, SeqLen DEF FoundsStand
<1>2. /\ \A i \in 1..n : founds[i].at \in Traversers
      /\ \A i \in 1..m : more[i].at \in Traversers
  BY DEF FoundsStand
<1> HIDE DEF n, m, all
<1>3. \A i \in 1..n : all[i].at \in Traversers
  BY <1>1, <1>2
<1>4. \A i \in 1..m : all[n + i].at \in Traversers
  BY <1>1, <1>2
<1>5. \A i \in 1..Len(all) : i \in 1..n \/ (i - n \in 1..m /\ n + (i - n) = i)
  BY <1>1
<1>6. \A i \in 1..Len(all) : all[i].at \in Traversers
  BY <1>3, <1>4, <1>5
<1> QED
  BY <1>1, <1>6 DEF FoundsStand, all

\* match_joined_sequence()
JoiningStands(j) ==
    {"at", "rest", "founds"} \subseteq DOMAIN j /\ j.at \in Traversers /\ FoundsStand(j.founds)

LEMMA JoinSiblingStands ==
    ASSUME IsGrammar, NEW j, JoiningStands(j)
    PROVE  JoiningStands(JoinSibling(j))
<1> DEFINE t == j.at
           n == MatchLength(At(t.pos), j.rest)
           on == IF At(t.pos) \in Repeating THEN t ELSE Step(t)
           founds == Append(j.founds, Found(t, SubSeq(j.rest, 1, n)))
           next == [at |-> on, rest |-> Without(j.rest, n), founds |-> founds]
           past == [j EXCEPT !.at = Step(t)]
<1>1. JoinSibling(j) \in {j, next, past}
  BY DEF JoinSibling
<1>2. t \in Traversers /\ Step(t) \in Traversers /\ FoundsStand(j.founds)
  BY StepStands DEF JoiningStands
<1>3. on \in Traversers
  BY <1>2
<1>4. FoundsStand(founds)
  BY <1>2, FoundsAppend
<1> HIDE DEF on, founds
<1>5. JoiningStands(next)
  BY <1>3, <1>4 DEF JoiningStands
<1>6. JoiningStands(past)
  BY <1>2 DEF JoiningStands
<1> QED
  BY <1>1, <1>5, <1>6

LEMMA JoinedRestStands ==
    ASSUME IsGrammar, NEW t \in Traversers, NEW S, NEW rest \in Seq(S), NEW founds, FoundsStand(founds)
    PROVE  FoundsStand(JoinedRest(t, rest, founds))
<1> DEFINE siblings == {q \in DOMAIN Nodes : q # <<>> /\ Front(q) = Parent(founds[1].at.pos)}
           max == Len(rest) + Cardinality(siblings)
           j == [at |-> t, rest |-> rest, founds |-> founds]
           joined == CHOOSE f : f = [n \in 0..max |-> IF n = 0 THEN j ELSE JoinSibling(f[n - 1])]
           last == joined[max]
<1>1. JoinedRest(t, rest, founds) = IF last.rest = <<>> THEN last.founds ELSE <<>>
  BY DEF JoinedRest, Covering
<1>2. max \in Nat
  <2>1. siblings \subseteq DOMAIN Nodes
    OBVIOUS
  <2> HIDE DEF siblings
  <2>2. Cardinality(siblings) \in Nat
    BY <2>1, FS_Subset, FS_CardinalityType DEF IsGrammar
  <2> QED
    BY <2>2
<1>3. JoiningStands(j)
  BY DEF JoiningStands
<1> HIDE DEF max, j
<1>4. \E f : IsJoining(f, j, max)
  BY <1>2, JoiningExists
<1>5. IsJoining(joined, j, max)
  BY <1>4 DEF IsJoining
<1> HIDE DEF joined
<1>6. joined[0] = j /\ \A k \in 0..(max - 1) : joined[k + 1] = JoinSibling(joined[k])
  BY <1>2, <1>5, JoiningSteps
<1> DEFINE T == {k \in Nat : JoiningStands(joined[k])}
<1>7. 0 \in T
  BY <1>3, <1>6
<1>8. ASSUME NEW k \in 0..(max - 1), k \in T
      PROVE  k + 1 \in T
  <2>1. JoiningStands(joined[k]) /\ joined[k + 1] = JoinSibling(joined[k])
    BY <1>6, <1>8
  <2> QED
    BY <2>1, JoinSiblingStands
<1> HIDE DEF T
<1>9. \A k \in 0..max : k \in T
  BY <1>2, <1>7, <1>8, UpTo
<1>10. JoiningStands(last)
  BY <1>2, <1>9 DEF T
<1> HIDE DEF last
<1> QED
  BY <1>1, <1>10, NothingStands DEF JoiningStands

LEMMA JoinedSequenceStands ==
    ASSUME IsGrammar, NEW walk \in Seq(Traversers), NEW S, NEW word \in Seq(S), NEW parameters
    PROVE  FoundsStand(JoinedSequence(walk, word, parameters))
<1> DEFINE first == PrefixMatch(walk, word, parameters)
<1>1. FoundsStand(first)
  BY PrefixMatchStands
<1>2. CASE first = <<>>
  BY <1>2, NothingStands DEF JoinedSequence, JoinedBehind
<1>3. CASE first # <<>>
  <2>1. PICK t : /\ MatchLength(At(t.pos), word) > 0
                 /\ first = <<Found(t, SubSeq(word, 1, MatchLength(At(t.pos), word)))>>
    BY <1>3, PrefixMatchIs
  <2> DEFINE n == MatchLength(At(t.pos), word)
             str == SubSeq(word, 1, n)
             u == [t EXCEPT !.ignore = TRUE]
             from == IF At(u.pos) \in Repeating THEN u ELSE Step(u)
  <2>2. n \in 0..Len(word)
    BY MatchLengthBound
  <2>3. Len(first) = 1 /\ first[1].str = str /\ first[1].at = t
    BY <2>1 DEF Found
  <2> HIDE DEF n, first
  <2>4. str \in Seq(S) /\ Without(word, n) \in Seq(S) /\ Len(str) = n
    BY <2>2, Splits
  <2> HIDE DEF str
  <2>5. t \in Traversers
    BY <1>1, <2>3 DEF FoundsStand
  <2>6. u \in Traversers
    BY <2>5 DEF Traversers
  <2> HIDE DEF u
  <2>7. from \in Traversers
    BY <2>6, StepStands
  <2> HIDE DEF from
  <2>8. FoundsStand(JoinedRest(from, Without(word, n), first))
    BY <1>1, <2>4, <2>7, JoinedRestStands
  <2>9. JoinedSequence(walk, word, parameters) \in
          {first, <<>>, JoinedRest(from, Without(word, n), first)}
    BY <1>3, <2>3, <2>4 DEF JoinedSequence, JoinedBehind, first, from, u
  <2> QED
    BY <1>1, <2>8, <2>9, NothingStands
<1> QED
  BY <1>2, <1>3

\* match_joined_params()
JoinStands(j) ==
    {"parser", "rest", "founds"} \subseteq DOMAIN j /\ ParserStands(j.parser) /\ FoundsStand(j.founds)

LEMMA JoinFlagStands ==
    ASSUME IsGrammar, NEW j, JoinStands(j), NEW flagsOnly, NEW prefix
    PROVE  JoinStands(JoinFlag(j, flagsOnly, prefix))
<1> DEFINE walk == Walk(j.parser.pos)
           found == PrefixMatch(walk, j.rest, IF flagsOnly THEN Flags ELSE Parameters)
           str == found[1].str
           behind == Without(j.rest, Len(str))
           rest == IF behind # <<>> /\ ~IsPrefix(prefix, behind) /\ prefix # str
                   THEN prefix \o behind ELSE behind
           p == AddMatches(j.parser, found)
           founds == j.founds \o found
           next == [parser |-> p, founds |-> founds, rest |-> rest]
<1>1. JoinFlag(j, flagsOnly, prefix) \in {j, next}
  BY DEF JoinFlag, JoinFirst, JoinFound
<1>2. ParserStands(j.parser) /\ FoundsStand(j.founds) /\ j.parser.pos \in Traversers
  BY DEF JoinStands, ParserStands
<1>3. walk \in Seq(Traversers)
  BY <1>2, WalkStands DEF Walk
<1> HIDE DEF walk, rest
<1>4. FoundsStand(found)
  BY <1>3, PrefixMatchStands
<1> HIDE DEF found
<1>5. ParserStands(p)
  BY <1>2, <1>4, AddMatchesStand
<1>6. FoundsStand(founds)
  BY <1>2, <1>4, FoundsConcat
<1> HIDE DEF p, founds
<1>7. JoinStands(next)
  BY <1>5, <1>6 DEF JoinStands
<1> QED
  BY <1>1, <1>7

LEMMA JoinedStands ==
    ASSUME IsGrammar, NEW p, ParserStands(p), NEW S, NEW word \in Seq(S), NEW flagsOnly, NEW prefix
    PROVE  FoundsStand(Joined(p, word, flagsOnly, prefix))
<1> DEFINE max == Len(word)
           j == [parser |-> p, rest |-> word, founds |-> <<>>]
           joined == CHOOSE f : f = [n \in 0..max |->
                        IF n = 0 THEN j ELSE JoinFlag(f[n - 1], flagsOnly, prefix)]
           last == joined[max]
<1>1. Joined(p, word, flagsOnly, prefix) \in {last.founds, <<>>}
  BY DEF Joined, JoinedFounds
<1>2. max \in Nat
  OBVIOUS
<1>3. JoinStands(j)
  BY NothingStands DEF JoinStands
<1> HIDE DEF max, j
<1>4. \E f : IsFlagJoining(f, j, max, flagsOnly, prefix)
  BY <1>2, FlagJoiningExists
<1>5. IsFlagJoining(joined, j, max, flagsOnly, prefix)
  BY <1>4 DEF IsFlagJoining
<1> HIDE DEF joined, last
<1>6. joined[0] = j /\ \A k \in 0..(max - 1) : joined[k + 1] = JoinFlag(joined[k], flagsOnly, prefix)
  BY <1>2, <1>5 DEF IsFlagJoining
<1> DEFINE T == {k \in Nat : JoinStands(joined[k])}
<1>7. 0 \in T
  BY <1>3, <1>6
<1>8. ASSUME NEW k \in 0..(max - 1), k \in T
      PROVE  k + 1 \in T
  <2>1. JoinStands(joined[k]) /\ joined[k + 1] = JoinFlag(joined[k], flagsOnly, prefix)
    BY <1>6, <1>8
  <2> QED
    BY <2>1, JoinFlagStands
<1> HIDE DEF T
<1>9. \A k \in 0..max : k \in T
  BY <1>2, <1>7, <1>8, UpTo
<1>10. JoinStands(last)
  BY <1>2, <1>9 DEF T, last
<1> QED
  BY <1>1, <1>10, NothingStands DEF JoinStands

AreJoinable(groups) == \A i \in 1..Len(groups) : groups[i] \in Joinable

LEMMA JoinGroupsAre ==
    ASSUME IsGrammar, NEW t \in Traversers
    PROVE  AreJoinable(JoinGroups(t))
<1> DEFINE walk == WalkPast(t, Joinable)
           X == {u \in Traversers : At(u.pos) \in Joinable}
           I == {i \in DOMAIN walk : At(walk[i].pos) \in Joinable}
           tried == Kept(walk, I)
           groups == [i \in DOMAIN tried |-> At(tried[i].pos)]
<1>1. JoinGroups(t) = groups
  BY DEF JoinGroups
<1>2. walk \in Seq(Traversers)
  BY WalkStands
<1> HIDE DEF walk
<1>3. Len(walk) \in Nat /\ \A k \in 1..Len(walk) : k \in I => walk[k] \in X
  BY <1>2
<1> HIDE DEF I, X
<1>4. tried \in Seq(X)
  BY <1>3, KeptAre
<1> HIDE DEF tried
<1>5. Len(tried) \in Nat /\ DOMAIN tried = 1..Len(tried) /\ \A i \in 1..Len(tried) : tried[i] \in X
  BY <1>4
<1>6. \A i \in 1..Len(tried) : groups[i] \in Joinable
  BY <1>5 DEF X
<1>7. Len(groups) = Len(tried)
  <2>1. groups \in [1..Len(tried) -> Joinable]
    BY <1>5, <1>6
  <2> HIDE DEF groups
  <2> QED
    BY <1>5, <2>1
<1> QED
  BY <1>1, <1>6, <1>7 DEF AreJoinable

LEMMA JoinedFlagsStand ==
    ASSUME IsGrammar, NEW t \in Traversers, NEW S, NEW word \in Seq(S), NEW flagsOnly
    PROVE  FoundsStand(JoinedFlags(t, word, flagsOnly))
<1>1. ASSUME NEW g \in Joinable
      PROVE  FoundsStand(JoinedIn(g, word, flagsOnly))
  <2>1. ParserStands(Parser(g, 0))
    BY ParserStarts DEF IsGrammar
  <2> QED
    BY <2>1, JoinedStands DEF JoinedIn
<1>2. ASSUME NEW groups, AreJoinable(groups)
      PROVE  FoundsStand(JoinedInOneOf(groups, word, flagsOnly))
  <2> DEFINE I == {i \in 1..Len(groups) : JoinedIn(groups[i], word, flagsOnly) # <<>>}
             i == IF I # {} THEN Min(I) ELSE 0
  <2>1. JoinedInOneOf(groups, word, flagsOnly) =
          IF i = 0 THEN <<>> ELSE JoinedIn(groups[i], word, flagsOnly)
    BY DEF JoinedInOneOf, SelectInSeq
  <2>2. I \subseteq 1..Len(groups)
    OBVIOUS
  <2> HIDE DEF I
  <2>3. i # 0 => i \in 1..Len(groups)
    BY <2>2, SelectedIs
  <2> HIDE DEF i
  <2>4. i # 0 => groups[i] \in Joinable
    BY <1>2, <2>3 DEF AreJoinable
  <2> QED
    BY <1>1, <2>1, <2>4, NothingStands
<1>3. ASSUME Parent(t.pos) \in Joinable
      PROVE  AreJoinable(<<Parent(t.pos)>>)
  <2> DEFINE g == Parent(t.pos)
  <2> HIDE DEF g
  <2>1. Len(<<g>>) = 1 /\ <<g>>[1] = g
    OBVIOUS
  <2>2. g \in Joinable
    BY <1>3 DEF g
  <2>3. AreJoinable(<<g>>)
    BY <2>1, <2>2 DEF AreJoinable
  <2> QED
    BY <2>3 DEF g
<1>4. AreJoinable(JoinGroups(t))
  BY JoinGroupsAre
<1> DEFINE groups == IF Parent(t.pos) \in Joinable THEN <<Parent(t.pos)>> ELSE JoinGroups(t)
<1>5. AreJoinable(groups)
  BY <1>3, <1>4
<1>6. JoinedFlags(t, word, flagsOnly) \in {<<>>, JoinedInOneOf(groups, word, flagsOnly)}
  BY DEF JoinedFlags
<1> HIDE DEF groups
<1> QED
  BY <1>2, <1>5, <1>6, NothingStands

LEMMA MatchesStandIn ==
    ASSUME IsGrammar, NEW p, ParserStands(p), NEW S, NEW word \in Seq(S)
    PROVE  FoundsStand(Matches(p, word))
<1> DEFINE t == p.pos
           walk == Walk(p.pos)
           attempts == Attempts(t, word, walk)
<1>1. Matches(p, word) = <<Found(p.pos, word)>> \/ Matches(p, word) = FirstOf(attempts)
  BY DEF Matches
<1>2. t \in Traversers
  BY DEF ParserStands
<1>3. walk \in Seq(Traversers)
  BY <1>2, WalkStands DEF Walk
<1>4. \A i \in 1..6 : FoundsStand(attempts[i])
  <2> HIDE DEF walk, t
  <2>1. \A parameters : FoundsStand(FullMatch(walk, word, parameters))
    BY <1>3, FullMatchStands
  <2>2. \A parameters : FoundsStand(JoinedSequence(walk, word, parameters))
    BY <1>3, JoinedSequenceStands
  <2>3. \A flagsOnly : FoundsStand(JoinedFlags(t, word, flagsOnly))
    BY <1>2, JoinedFlagsStand
  <2>4. /\ FoundsStand(attempts[1]) /\ FoundsStand(attempts[2]) /\ FoundsStand(attempts[3])
        /\ FoundsStand(attempts[4]) /\ FoundsStand(attempts[5]) /\ FoundsStand(attempts[6])
    BY <2>1, <2>2, <2>3 DEF Attempts
  <2> QED
    BY <2>4
<1>5. Len(attempts) = 6
  BY DEF Attempts
<1>6. FoundsStand(<<Found(p.pos, word)>>)
  BY <1>2, FoundStands
<1> HIDE DEF attempts
<1>7. FoundsStand(FirstOf(attempts))
  BY <1>4, <1>5, FirstOfIs, NothingStands
<1> QED
  BY <1>1, <1>6, <1>7

\* The mappings of a word that is reported as blocked are those behind the ones
\* there were.
LEMMA RestStands ==
    ASSUME NEW args, IsArgs(args), MatchesStand(args), NEW n \in Nat
    PROVE  MatchesStand(Without(args, n))
<1>1. PICK X : args \in Seq(X)
  BY DEF IsArgs, IsSeq
<1>2. Len(args) \in Nat /\ n + 1 \in Int /\ Len(args) \in Int
  BY <1>1
<1>3. \A i \in (n + 1)..Len(args) : args[i] \in X
  BY <1>1, <1>2, ElementOfSeq
<1> DEFINE rest == SubSeq(args, n + 1, Len(args))
<1>4. /\ Len(rest) = IF n + 1 <= Len(args) THEN Len(args) - (n + 1) + 1 ELSE 0
      /\ \A i \in 1..(Len(args) - (n + 1) + 1) : rest[i] = args[(n + 1) + i - 1]
  BY <1>2, <1>3, SubSeqProperties
<1> HIDE DEF rest
<1>5. \A i \in 1..Len(rest) : i \in 1..(Len(args) - (n + 1) + 1) /\ (n + 1) + i - 1 \in 1..Len(args)
  BY <1>2, <1>4
<1>6. \A i \in 1..Len(rest) : rest[i].match \in Stacks
  BY <1>4, <1>5 DEF MatchesStand
<1> QED
  BY <1>6 DEF MatchesStand, Without, rest

LEMMA BlockedStand ==
    ASSUME NEW args, IsArgs(args), MatchesStand(args)
    PROVE  IsArgs(Blocked(args)) /\ MatchesStand(Blocked(args))
<1> DEFINE blocked == [i \in DOMAIN args |-> [args[i] EXCEPT !.blocked = TRUE]]
<1>1. IsArgs(blocked) /\ Len(blocked) = Len(args)
  BY BlockedTexts
<1>2. DOMAIN args = 1..Len(args)
  BY SeqLen DEF IsArgs
<1>3. \A i \in 1..Len(args) : "match" \in DOMAIN args[i]
  BY DEF IsArgs, IsArg
<1>4. \A i \in 1..Len(args) : blocked[i].match = args[i].match
  BY <1>2, <1>3
<1> HIDE DEF blocked
<1>5. MatchesStand(blocked)
  BY <1>1, <1>4 DEF MatchesStand
<1> QED
  BY <1>1, <1>5 DEF Blocked, blocked

LEMMA BlockedArgsStand ==
    ASSUME IsGrammar, NEW p, ParserStands(p), NEW S, NEW word \in Seq(S)
    PROVE  IsArgs(BlockedArgs(p, word)) /\ MatchesStand(BlockedArgs(p, word))
<1> DEFINE tries == <<Unblocked(p), Unblocked(Parser(p.root, p.index))>>
           founds == [k \in 1..2 |-> Matches(tries[k], word)]
           k == IF founds[1] # <<>> THEN 1 ELSE 2
           args == Without(AddMatches(tries[k], founds[k]).args, Len(tries[k].args))
<1>1. BlockedArgs(p, word) = Blocked(args)
  BY DEF BlockedArgs, FirstSuccess, NewArgs
<1>2. k \in 1..2
  OBVIOUS
<1>3. ParserStands(tries[1]) /\ ParserStands(tries[2])
  <2>1. ParserStands(Parser(p.root, p.index))
    BY ParserStarts DEF ParserStands
  <2> QED
    BY <2>1, UnblockedStands
<1> HIDE DEF tries
<1>4. FoundsStand(founds[1]) /\ FoundsStand(founds[2])
  BY <1>3, MatchesStandIn
<1> HIDE DEF founds
<1>5. ParserStands(tries[k]) /\ FoundsStand(founds[k])
  BY <1>2, <1>3, <1>4
<1> HIDE DEF k
<1>6. ParserStands(AddMatches(tries[k], founds[k]))
  BY <1>5, AddMatchesStand
<1>7. /\ IsArgs(AddMatches(tries[k], founds[k]).args)
      /\ MatchesStand(AddMatches(tries[k], founds[k]).args)
      /\ Len(tries[k].args) \in Nat
  BY <1>5, <1>6, SeqLen DEF ParserStands, IsArgs
<1>8. IsArgs(args) /\ MatchesStand(args)
  BY <1>7, WithoutArgs, RestStands
<1> HIDE DEF args
<1> QED
  BY <1>1, <1>8, BlockedStand

\* More mappings.
LEMMA MoreMatchesStand ==
    ASSUME NEW a, IsArgs(a), MatchesStand(a), NEW b, IsArgs(b), MatchesStand(b)
    PROVE  IsArgs(a \o b) /\ MatchesStand(a \o b)
<1> DEFINE n == Len(a)
           m == Len(b)
           c == a \o b
<1>1. /\ Len(c) = n + m /\ n \in Nat /\ m \in Nat
      /\ \A i \in 1..n : c[i] = a[i]
      /\ \A i \in 1..m : c[n + i] = b[i]
  BY SeqConcat, SeqLen DEF IsArgs
<1>2. IsArgs(c)
  BY ConcatTexts
<1>3. /\ \A i \in 1..n : a[i].match \in Stacks
      /\ \A i \in 1..m : b[i].match \in Stacks
  BY DEF MatchesStand
<1> HIDE DEF n, m, c
<1>4. \A i \in 1..n : c[i].match \in Stacks
  BY <1>1, <1>3
<1>5. \A i \in 1..m : c[n + i].match \in Stacks
  BY <1>1, <1>3
<1>6. \A i \in 1..Len(c) : i \in 1..n \/ (i - n \in 1..m /\ n + (i - n) = i)
  BY <1>1
<1>7. \A i \in 1..Len(c) : c[i].match \in Stacks
  BY <1>4, <1>5, <1>6
<1> QED
  BY <1>2, <1>7 DEF MatchesStand, c

\* add_nomatch(), and the word as a whole.
LEMMA UnmatchedStands ==
    ASSUME NEW p, ParserStands(p), NEW word,
           NEW blockedArgs, IsArgs(blockedArgs), MatchesStand(blockedArgs)
    PROVE  ParserStands(Unmatched(p, word, blockedArgs))
<1> DEFINE e == NoMatch(p.index, word)
           skips == /\ ~p.pos.matched
                    /\ At(p.pos.pos) \in RequiredNodes /\ At(p.pos.pos) \in Blocking
           b == p.blocked \/ skips
           more == IF blockedArgs # <<>> THEN p.args \o blockedArgs ELSE Append(p.args, e)
<1>1. Unmatched(p, word, blockedArgs) \in
        {[p EXCEPT !.args = more], [p EXCEPT !.blocked = b, !.args = more]}
  BY DEF Unmatched, ParserStands
<1>2. IsArgs(p.args) /\ MatchesStand(p.args)
  BY DEF ParserStands
<1>3. IsArg(e) /\ e.match = <<>>
  BY DEF NoMatch, IsArg
<1> HIDE DEF e, b
<1>4. IsArgs(Append(p.args, e)) /\ MatchesStand(Append(p.args, e))
  <2>1. IsSeq(p.args) /\ Len(p.args) \in Nat
    BY <1>2, SeqLen DEF IsArgs
  <2> DEFINE a == Append(p.args, e)
  <2>2. /\ Len(a) = Len(p.args) + 1 /\ a[Len(p.args) + 1] = e
        /\ \A i \in 1..Len(p.args) : a[i] = p.args[i]
    BY <2>1, SeqAppend
  <2>3. IsArgs(a)
    BY <1>2, <1>3, AppendTexts
  <2> HIDE DEF a
  <2>4. \A i \in 1..Len(a) : i \in 1..Len(p.args) \/ i = Len(p.args) + 1
    BY <2>1, <2>2
  <2>5. MatchesStand(a)
    BY <1>2, <1>3, <2>2, <2>4, EmptyStack DEF MatchesStand
  <2> QED
    BY <2>3, <2>5 DEF a
<1>5. IsArgs(more) /\ MatchesStand(more)
  BY <1>2, <1>4, MoreMatchesStand
<1> HIDE DEF more
<1>6. ParserStands([p EXCEPT !.args = more])
  BY <1>5 DEF ParserStands
<1>7. ParserStands([p EXCEPT !.blocked = b, !.args = more])
  BY <1>5 DEF ParserStands
<1> QED
  BY <1>1, <1>6, <1>7

LEMMA ReadStands ==
    ASSUME IsGrammar, NEW p0, ParserStands(p0), NEW S, NEW word \in Seq(S)
    PROVE  ParserStands(Read(p0, word))
<1> DEFINE p == [p0 EXCEPT !.index = @ + 1]
           founds == IF p.blocked THEN <<>> ELSE Matches(p, word)
<1>1. ParserStands(p)
  BY DEF ParserStands
<1>2. Read(p0, word) \in {p, AddMatches(p, founds), Unmatched(p, word, BlockedArgs(p, word))}
  BY DEF Read, Mapped
<1> HIDE DEF p
<1>3. FoundsStand(founds)
  BY <1>1, MatchesStandIn, NothingStands
<1> HIDE DEF founds
<1>4. ParserStands(AddMatches(p, founds))
  BY <1>1, <1>3, AddMatchesStand
<1>5. ParserStands(Unmatched(p, word, BlockedArgs(p, word)))
  BY <1>1, BlockedArgsStand, UnmatchedStands
<1> QED
  BY <1>1, <1>2, <1>4, <1>5
(***************************************************************************)
(* The inductive invariant.  A match counts and marks the mappings there   *)
(* are, and the next undo() works on whatever stack the last one left: the *)
(* mappings must be mappings, the traverser one that stands, and the       *)
(* missing parameters among those that walks from such stacks came by.     *)
(***************************************************************************)
PlacesInv ==
    /\ example \in DOMAIN Grammars /\ grammar = Grammars[example]
    /\ ParserStands(parser)

\* What is assumed of each grammar: its groups have children, its root and its
\* joinable groups are groups.
LEMMA ExamplesAreGrammars ==
    ASSUME NEW e \in DOMAIN Grammars, grammar = Grammars[e]
    PROVE  IsGrammar
BY ParsingAssumption DEF IsGrammar, Groups, Joinable, Width, Nodes

LEMMA PlacesStart == Init => PlacesInv
<1> SUFFICES ASSUME Init PROVE PlacesInv
  OBVIOUS
<1>1. IsGrammar
  BY ExamplesAreGrammars DEF Init
<1>2. <<>> \in Groups
  BY <1>1 DEF IsGrammar
<1>3. ParserStands(Parser(<<>>, 0))
  BY <1>1, <1>2, ParserStarts
<1> QED
  BY <1>3 DEF Init, PlacesInv

\* The grammar does not change, and with it where a traverser may stand.
LEMMA PlacesKept ==
    ASSUME UNCHANGED grammar, NEW q, ParserStands(q), parser' = q
    PROVE  ParserStands(parser)'
<1>1. Groups' = Groups /\ Width' = Width
  BY DEF Groups, Width
<1>2. Places' = Places
  BY <1>1 DEF Places, Contexts, IsContext
<1>3. Stacks' = Stacks
  BY <1>2 DEF Stacks
<1>4. Mementos' = Mementos
  BY <1>2 DEF Mementos
<1>5. Traversers' = Traversers /\ MissCandidates' = MissCandidates
  BY <1>3, <1>4 DEF Traversers, MissCandidates
<1>6. /\ {"root", "pos", "index", "args", "blocked", "missing"} \subseteq DOMAIN q
      /\ q.root \in Groups /\ q.pos \in Traversers /\ q.index \in Nat
      /\ q.missing \in Seq(MissCandidates) /\ IsArgs(q.args) /\ MatchesStand(q.args)
  BY DEF ParserStands
<1>7. MatchesStand(parser.args)'
  BY <1>3, <1>6 DEF MatchesStand
<1>8. Groups' = Groups
  BY <1>1
<1> QED
  BY <1>5, <1>6, <1>7, <1>8 DEF ParserStands

LEMMA PlacesSteps == PlacesInv /\ [Next]_vars => PlacesInv'
<1> SUFFICES ASSUME PlacesInv, [Next]_vars PROVE PlacesInv'
  OBVIOUS
<1>0. IsGrammar
  BY ExamplesAreGrammars DEF PlacesInv
<1>1. CASE ReadWord
  <2>1. PICK word \in Alphabet[example] : parser' = Read(parser, word)
    BY <1>1 DEF ReadWord
  <2>2. word \in Seq(STRING)
    BY ParsingAssumption DEF PlacesInv
  <2> DEFINE q == Read(parser, word)
  <2>3. ParserStands(q)
    BY <1>0, <2>2, ReadStands DEF PlacesInv
  <2> HIDE DEF q
  <2>4. parser' = q /\ grammar' = grammar /\ example' = example
    BY <1>1, <2>1 DEF ReadWord, q
  <2>5. ParserStands(parser)'
    BY <2>3, <2>4, PlacesKept
  <2> QED
    BY <2>4, <2>5 DEF PlacesInv
<1>2. CASE UNCHANGED vars
  <2>1. ParserStands(parser)'
    BY <1>2, PlacesKept DEF vars, PlacesInv
  <2> QED
    BY <1>2, <2>1 DEF vars, PlacesInv
<1> QED
  BY <1>1, <1>2 DEF Next

LEMMA StandingIsInGrammar ==
    ASSUME ParserStands(parser)
    PROVE  PositionsInGrammar
<1>1. parser.pos \in Traversers /\ parser.missing \in Seq(MissCandidates)
      /\ IsArgs(parser.args) /\ MatchesStand(parser.args)
  BY DEF ParserStands
<1>2. /\ parser.pos.pos \in Stacks /\ parser.pos.last \in Stacks /\ parser.pos.after \in Stacks
      /\ parser.pos.scopes \in Seq(Mementos)
  BY <1>1, StandsIn
<1>3. \A i \in DOMAIN parser.pos.scopes : parser.pos.scopes[i] \in Mementos
  BY <1>2
<1>4. \A i \in DOMAIN parser.missing : parser.missing[i].pos \in Stacks
  <2>1. \A i \in DOMAIN parser.missing : parser.missing[i] \in MissCandidates
    BY <1>1
  <2> QED
    BY <2>1 DEF MissCandidates
<1>5. \A i \in DOMAIN parser.args : parser.args[i].match \in Stacks
  BY <1>1, SeqLen DEF MatchesStand, IsArgs
<1> QED
  BY <1>2, <1>3, <1>4, <1>5, MementoIs DEF PositionsInGrammar, Stands, Stacks

\* In every grammar and for all words, the positions of clipp's parser, those it
\* remembers and those its undo() may put back are on children of groups: what the
\* traverser finds there is a node of the grammar, never the end of a group.
THEOREM PositionsStayInGrammar == Spec => []PositionsInGrammar
<1>1. PlacesInv => PositionsInGrammar
  BY StandingIsInGrammar DEF PlacesInv
<1> QED
  BY <1>1, PlacesStart, PlacesSteps, PTL DEF Spec
=============================================================================

-------------------------------- MODULE Clipp --------------------------------
(***************************************************************************)
(* The command line parser of clipp: detail::scoped_dfs_traverser and      *)
(* class parser, over one grammar (GrammarOf, with the names in capitals). *)
(*                                                                         *)
(* A parser reads one word after the other.  It walks the grammar from its *)
(* position for the first parameter the word matches, moves there, and     *)
(* keeps what it did in three lists: the words with the parameters they    *)
(* were mapped to, the required parameters still missing, and the scopes   *)
(* it can return to.                                                       *)
(***************************************************************************)
EXTENDS SequencesExt, FiniteSets, Naturals, Traverser

CONSTANTS   \* the grammar: its nodes by their paths, and among them
    Nodes,
    Flags, Flagless,    \* parameters with flags, and values
    Blocking, Repeating, RequiredNodes,
    Joinable,
    Spared              \* groups whose parameters need not be missed

\* repeat_group(): the innermost repeatable group; <<0>> is no path.
NoGroup == <<0>>
RepeatGroup(s) ==
    LET I == {i \in DOMAIN s : s[i].parent \in Repeating}
    IN IF I = {} THEN NoGroup ELSE s[Innermost(I)].parent

\* while(Holds(at)) at = Move(at), for at most max turns: what at was during
\* them, and is behind them.  The turns are taken in rounds so that their
\* evaluation nests less deeply.
While(Holds(_), Move(_), start, max) ==
    LET root == CHOOSE n \in 0..max : n * n >= max
        Turn(w) == IF Holds(w.at) THEN [at |-> Move(w.at), was |-> Append(w.was, w.at)] ELSE w
        Round(w) ==
            LET turns[n \in 0..root] == IF n = 0 THEN w ELSE Turn(turns[n - 1])
            IN IF Holds(w.at) THEN turns[root] ELSE w
        rounds[n \in 0..root] ==
            IF n = 0 THEN [at |-> start, was |-> <<>>] ELSE Round(rounds[n - 1])
    IN rounds[root]

Size == Cardinality(DOMAIN Nodes)

\* The elements of a sequence at the positions in I.
Kept(seq, I) ==
    LET kept[n \in 0..Len(seq)] ==
          IF n = 0 THEN <<>>
          ELSE IF n \in I THEN Append(kept[n - 1], seq[n]) ELSE kept[n - 1]
    IN kept[Len(seq)]
-----------------------------------------------------------------------------
(***************************************************************************)
(* parameter::match: the length of the prefix of the word that the         *)
(* parameter takes, 0 if none.                                             *)
(***************************************************************************)
MatchLength(p, word) ==
    LET flags == Range(Nodes[p].flags)
        lengths == {n \in 1..Len(word) : SubSeq(word, 1, n) \in flags}
    IN IF flags = {} THEN Len(word) ELSE IF lengths = {} THEN 0 ELSE Innermost(lengths)

Parameters == Flags \union Flagless

\* gather_prefixes(), common_flag_prefix(): what the flags in the group g share.
CommonFlagPrefix(g) ==
    LET prefixes == {LongestCommonPrefix(Range(Nodes[p].flags)) : p \in {q \in Flags : IsPrefix(g, q)}}
    IN IF prefixes \subseteq {<<>>} THEN <<>> ELSE LongestCommonPrefix(prefixes \ {<<>>})
-----------------------------------------------------------------------------
(***************************************************************************)
(* scoped_dfs_traverser.  pos is its cursor; last the last match and after *)
(* the cursor behind it; scopes the mementos of the scopes it may return   *)
(* to, outermost first; matched tells whether the parameter at pos already *)
(* matched; ignore, whether blocking parameters are walked through.        *)
(***************************************************************************)
Scoped(g) ==
    [pos |-> Start(g), last |-> <<>>, after |-> <<>>, scopes |-> <<>>,
     matched |-> FALSE, ignore |-> FALSE, repeatStarts |-> FALSE, repeatContinues |-> FALSE]

Valid(t) == t.pos # <<>>

RepeatGroupContinues(t) ==
    /\ t.repeatContinues
    /\ RepeatGroup(t.pos) # NoGroup
    /\ RepeatGroup(t.pos) = RepeatGroup(t.last)
    /\ t.after # <<>>

\* The cursor is set to the scope without undoing what is below it.
LeaveAbove(t) ==
    [t EXCEPT !.pos = IF @ = <<>> THEN Undo(@, Last(t.scopes))
                      ELSE Append(Front(@), Last(t.scopes).context), !.scopes = Front(@)]

Leave(t) == [t EXCEPT !.pos = Undo(@, Last(t.scopes)), !.scopes = Front(@)]

LeaveIf(t, condition) == IF t.scopes # <<>> /\ condition THEN Leave(t) ELSE t

\* Leaves scopes while the innermost one is not above the cursor (slack 1), or
\* is below it (slack 0).
Unwind(t, slack) ==
    LET Next(u) == LeaveIf(u, Last(u.scopes).level + slack > Len(u.pos))
        left[n \in 0..Len(t.scopes)] == IF n = 0 THEN t ELSE Next(left[n - 1])
    IN left[Len(t.scopes)]

ReturnToLevel(t, level) ==
    LET Next(u) == LeaveIf(u, Len(u.pos) > level)
        left[n \in 0..Len(t.scopes)] == IF n = 0 THEN t ELSE Next(left[n - 1])
    IN left[Len(t.scopes)]

\* All scopes are undone, the innermost first.
UndoAll(s, scopes) ==
    LET undone[n \in 0..Len(scopes)] ==
          IF n = 0 THEN s ELSE Undo(undone[n - 1], scopes[Len(scopes) + 1 - n])
    IN undone[Len(scopes)]

\* The scopes are kept, to be returned to once more.
ReturnToOutermostScopeAgain(t) ==
    [t EXCEPT !.after = <<>>, !.repeatContinues = FALSE,
              !.pos = IF t.scopes = <<>> THEN <<>> ELSE UndoAll(@, t.scopes)]

ReturnToOutermostScope(t) ==
    [t EXCEPT !.after = <<>>, !.scopes = <<>>, !.repeatContinues = FALSE,
              !.pos = IF t.scopes = <<>> THEN <<>> ELSE UndoAll(@, t.scopes)]

CheckRepeat(t) == [t EXCEPT !.repeatContinues = RepeatGroupContinues(t)]

CheckLeftScope(t) ==
    LET left == t.after # <<>> /\ Len(t.pos) < Len(t.after)
    IN CheckRepeat(Unwind(IF left THEN [Unwind(t, 1) EXCEPT !.after = <<>>] ELSE t, 0))

\* operator ++: a blocking parameter, or the last parameter of a blocking
\* group without a match, hides what follows it.
Step(t) ==
    LET s == t.pos
        groupBlocks == /\ IsLastInGroup(s) /\ Parent(s) \in Blocking
                       /\ t.after = <<>> \/ Parent(t.after) # Parent(s)
        parameterBlocks == At(s) \in Blocking /\ ~IsGroup(At(s))
        next == IF t.ignore \/ t.matched THEN Increment(s)
                ELSE IF groupBlocks THEN NextAfterSiblings(Increment(s))
                ELSE IF ~parameterBlocks THEN Increment(s)
                ELSE IF Parent(s) \in Exclusive THEN NextAlternative(s)
                ELSE NextAfterSiblings(s)
        EndsScope(u) == IF ~Valid(u) THEN ReturnToOutermostScope(u) ELSE u
    IN IF s = <<>> THEN t
       ELSE IF IsLastInPath(s) THEN ReturnToOutermostScope(t)
       ELSE CheckLeftScope(EndsScope([t EXCEPT !.pos = next]))

\* Each scope the traverser leaves lets it go over the nodes once more.
Search(Move(_), t) == While(Valid, Move, t, Size * (Len(t.scopes) + 1))

\* The traversers that while(t) { ...; ++t; } goes through, and that go on behind
\* the nodes in past without a look below them.
StepPast(t, past) ==
    IF At(t.pos) \in past THEN [t EXCEPT !.pos = NextSibling(@)] ELSE Step(t)

WalkPast(t, past) == LET Move(u) == StepPast(u, past) IN Search(Move, t).was

Walk(t) == WalkPast(t, {})
-----------------------------------------------------------------------------
(***************************************************************************)
(* next_after_match(match): where the parser goes on after the traverser   *)
(* match found a parameter.                                                *)
(***************************************************************************)
CheckRepeatGroupStart(t, match) ==
    LET new == RepeatGroup(match.pos)
        starts == /\ new # NoGroup
                  /\ \/ RepeatGroup(t.last) # new
                     \/ ~t.repeatContinues \/ ~match.repeatContinues
                     \/ t.scopes = <<>>
                     \/ /\ Valid(t) /\ new = t.pos[1].parent
                        /\ Node(Last(t.scopes).context) = Append(t.pos[1].parent, 1)
    IN [t EXCEPT !.repeatStarts = starts, !.repeatContinues = starts]

IsLastInCurrentScope(t, s) ==
    IF t.scopes = <<>> THEN IsLastInPath(s)
    ELSE Len(Increment(s)) < Last(t.scopes).level

\* A blocking parameter or group was matched at s, and next follows it.
MoveOn(t, s, next, again) ==
    IF IsLastInCurrentScope(t, s)
    THEN [t EXCEPT !.pos = IF again \/ t.scopes = <<>> THEN s ELSE Undo(s, Last(t.scopes))]
    ELSE IF Len(next) > Len(t.pos)
    THEN [t EXCEPT !.scopes = Append(@, UndoPoint(t.pos)), !.pos = next]
    ELSE IF Len(next) < Len(t.pos) THEN ReturnToLevel(t, Len(next))
    ELSE [t EXCEPT !.pos = next]

AfterBlocking(t, s) ==
    LET again == At(s) \in Repeating \/ IsGroup(At(s))
    IN MoveOn([t EXCEPT !.matched = again], s, IF again THEN s ELSE Increment(s), again)

\* The cursor moves behind an option as it does behind a command.
GoOnBehind(t, s) ==
    IF At(s) \in Blocking THEN AfterBlocking(t, SkipAlternatives(s)) ELSE [t EXCEPT !.pos = Increment(s)]

GoOn(t, s) ==
    IF At(s) \in Blocking THEN AfterBlocking(t, SkipAlternatives(s))
    ELSE IF Len(s) < Len(t.pos) THEN ReturnToLevel(t, Len(s)) ELSE t

NextAfterMatch(t, match) ==
    LET s == IF At(match.pos) \notin Blocking /\ Parent(match.pos) \in Blocking
             THEN BackToParent(match.pos) ELSE match.pos
        passes == ~SamePlace(s, t.pos) /\ At(t.pos) \in Blocking
        started == [CheckRepeatGroupStart(t, match) EXCEPT
                       !.last = match.pos, !.pos = IF passes THEN NextSibling(@) ELSE @]
        Remembered(u) == CheckRepeat([u EXCEPT !.after = u.pos])
    IN IF ~Valid(match) \/ t.ignore THEN t ELSE Remembered(GoOn(started, s))
-----------------------------------------------------------------------------
(***************************************************************************)
(* class parser.  args maps words to parameters: match is the stack of the *)
(* traverser that found the parameter, <<>> if none did.  missing holds    *)
(* the required parameters without a word (miss candidates).               *)
(***************************************************************************)
NextMiss(s) ==
    IF At(s) \in Spared THEN NextSibling(s)
    ELSE IF ~IsGroup(At(s)) /\ At(s) \in Blocking \ RequiredNodes THEN NextAfterSiblings(s)
    ELSE Increment(s)

RequiredAmong(walk) ==
    Kept(walk, {i \in DOMAIN walk : ~IsGroup(At(walk[i])) /\ At(walk[i]) \in RequiredNodes})

PotentialMisses(s, level) ==
    LET Inside(u) == u # <<>> /\ Len(u) >= level
    IN RequiredAmong(While(Inside, NextMiss, s, Size).was)

Candidate(s, index, starts) == [pos |-> s, index |-> index, startsRepeatGroup |-> starts]

Candidates(found, index, starts) == [i \in DOMAIN found |-> Candidate(found[i], index, starts)]

Parser(g, index) ==
    [root |-> g, pos |-> Scoped(g), index |-> index, args |-> <<>>, blocked |-> FALSE,
     missing |-> Candidates(PotentialMisses(Start(g), 1), index, FALSE)]

\* A word may come back whenever its group is in some cycle of its own.
BadRepeatNever(a) == a.match # <<>> /\ a.repeat > 0 /\ RepeatGroup(a.match) # NoGroup

BadRepeat(a) ==
    /\ a.match # <<>> /\ a.repeat > 0
    /\ At(a.match) \notin Repeating /\ RepeatGroup(a.match) = NoGroup

AnyError(a) == a.match = <<>> \/ a.blocked \/ a.conflict \/ BadRepeat(a)

OccurrencesOf(args, p) ==
    LET i == SelectLastInSeq(args, LAMBDA a : a.match # <<>> /\ At(a.match) = p)
    IN IF i = 0 THEN 0 ELSE args[i].repeat + 1

\* Two positions below different children of one exclusive group.
Alternatives(c, s) ==
    /\ c.parent \in Exclusive
    /\ \E i \in DOMAIN s : s[i].parent = c.parent /\ s[i].cur # c.cur

\* check_conflicts(): the mapped words, of the current repeat cycle, that are
\* in another alternative than the match at s.
Conflicting(args, s) ==
    LET from == SelectLastInSeq(args, LAMBDA a : a.startsRepeatGroup)
    IN {i \in DOMAIN args : /\ i >= from /\ ~args[i].blocked
                            /\ \E k \in DOMAIN s : Alternatives(s[k], args[i].match)}

\* What an optional parameter makes required is forgotten.
NewCandidatesNever(p, starts, s, index) == <<>>

\* add_miss_candidates_after()
Misses(next) == PotentialMisses(next, Len(next))

NewCandidates(p, starts, s, index) ==
    LET next == Increment(SkipAlternatives(s))
        group == RepeatGroup(s)
        Wanted(q) == IF group # NoGroup THEN starts /\ RepeatGroup(q) = group
                     ELSE /\ At(s) \in Blocking /\ At(s) \notin RequiredNodes
                          /\ Len(next) >= Len(s)
                          /\ \A i \in DOMAIN p.missing : At(p.missing[i].pos) # At(q)
        Those(found) == Kept(found, {i \in DOMAIN found : Wanted(found[i])})
    IN Candidates(Those(Misses(next)), index, group # NoGroup)

\* clean_miss_candidates_for()
CleanCandidates(missing, s) ==
    LET i == SelectLastInSeq(missing, LAMBDA m : At(m.pos) = At(s))
    IN IF i = 0 THEN missing ELSE RemoveAt(missing, i)

\* discard_alternative_miss_candidates(), for one context of the match: from
\* the end of the list to the start of the repeat cycle.
DiscardAlternatives(missing, c) ==
    LET other(i) == Alternatives(c, missing[i].pos)
        stop(i) == IF other(i) THEN i > 1 /\ missing[i - 1].startsRepeatGroup
                               ELSE missing[i].startsRepeatGroup
        drop == {i \in DOMAIN missing : other(i) /\ \A j \in DOMAIN missing : j > i => ~stop(j)}
    IN Kept(missing, DOMAIN missing \ drop)

StillMissing(missing, s) ==
    LET still[n \in 0..Len(s)] == IF n = 0 THEN CleanCandidates(missing, s)
                                  ELSE DiscardAlternatives(still[n - 1], s[n])
    IN still[Len(s)]

\* add_match(): t is the cursor behind the match, clash what conflicts with it.
Record(p, found, t, clash) ==
    LET s == found.at.pos
        marked == [i \in DOMAIN p.args |->
                      [p.args[i] EXCEPT !.conflict = @ \/ i \in clash]]
        new == [index |-> p.index, arg |-> found.str, match |-> s,
                repeat |-> OccurrencesOf(p.args, At(s)),
                startsRepeatGroup |-> t.repeatStarts, blocked |-> FALSE, conflict |-> clash # {}]
    IN [p EXCEPT !.pos = t, !.args = Append(marked, new),
                 !.missing = StillMissing(@ \o NewCandidates(p, t.repeatStarts, s, p.index), s)]

RecordBehind(p, found, t) ==
    Record(p, found, t, IF t.repeatStarts THEN {} ELSE Conflicting(p.args, found.at.pos))

AddMatch(p, found) == RecordBehind(p, found, NextAfterMatch(p.pos, found.at))

AddMatches(p, founds) ==
    LET added[n \in 0..Len(founds)] == IF n = 0 THEN p ELSE AddMatch(added[n - 1], founds[n])
    IN added[Len(founds)]
-----------------------------------------------------------------------------
(***************************************************************************)
(* Matching a word.  Each attempt returns the matches it found, <<>> if it *)
(* failed.                                                                 *)
(***************************************************************************)
Found(t, str) == [at |-> t, str |-> str]

\* full_match() of one of the parameters along the traversers walk
FullMatch(walk, word, parameters) ==
    LET i == SelectInSeq(walk, LAMBDA t : /\ At(t.pos) \in parameters
                                          /\ MatchLength(At(t.pos), word) = Len(word))
    IN IF i = 0 THEN <<>> ELSE <<Found(walk[i], word)>>

\* prefix_match()
PrefixMatch(walk, word, parameters) ==
    LET i == SelectInSeq(walk, LAMBDA t : /\ At(t.pos) \in parameters
                                          /\ MatchLength(At(t.pos), word) > 0)
    IN IF i = 0 THEN <<>>
       ELSE <<Found(walk[i], SubSeq(word, 1, MatchLength(At(walk[i].pos), word)))>>

Without(word, n) == SubSeq(word, n + 1, Len(word))

\* try_match_joined_sequence(): the rest of the word must be covered by the
\* blocking siblings that follow.
JoinSibling(j) ==
    LET t == j.at
        n == MatchLength(At(t.pos), j.rest)
        repeats == At(t.pos) \in Repeating
    IN IF \/ j.rest = <<>> \/ ~Valid(t)
          \/ At(t.pos) \notin Blocking \/ IsGroup(At(t.pos))
          \/ Parent(t.pos) # Parent(j.founds[1].at.pos)
       THEN j
       ELSE IF n > 0
       THEN [at |-> IF repeats THEN t ELSE Step(t), rest |-> Without(j.rest, n),
             founds |-> Append(j.founds, Found(t, SubSeq(j.rest, 1, n)))]
       ELSE IF repeats THEN [j EXCEPT !.at = Step(t)] ELSE j

Covering(j) == IF j.rest = <<>> THEN j.founds ELSE <<>>

JoinedRest(t, rest, founds) ==
    LET siblings == {q \in DOMAIN Nodes : q # <<>> /\ Front(q) = Parent(founds[1].at.pos)}
        max == Len(rest) + Cardinality(siblings)
        joined[n \in 0..max] == IF n = 0 THEN [at |-> t, rest |-> rest, founds |-> founds]
                                ELSE JoinSibling(joined[n - 1])
    IN Covering(joined[max])

JoinedBehind(first, word) ==
    LET t == [first[1].at EXCEPT !.ignore = TRUE]
    IN IF first = <<>> \/ first[1].str = word THEN first
       ELSE IF At(t.pos) \notin Blocking THEN <<>>
       ELSE JoinedRest(IF At(t.pos) \in Repeating THEN t ELSE Step(t),
                       Without(word, Len(first[1].str)), first)

JoinedSequence(walk, word, parameters) == JoinedBehind(PrefixMatch(walk, word, parameters), word)

\* try_match_joined(): the word is read by a parser for the group g alone.
\* "-ab": the prefix of the flags is written once.
JoinFound(j, found, behind, prefix) ==
    [parser |-> AddMatches(j.parser, found), founds |-> j.founds \o found,
     rest |-> IF behind # <<>> /\ ~IsPrefix(prefix, behind) /\ prefix # found[1].str
              THEN prefix \o behind ELSE behind]

JoinFirst(j, found, prefix) ==
    IF j.rest = <<>> \/ found = <<>> THEN j
    ELSE JoinFound(j, found, Without(j.rest, Len(found[1].str)), prefix)

JoinFlag(j, flagsOnly, prefix) ==
    JoinFirst(j, PrefixMatch(Walk(j.parser.pos), j.rest, IF flagsOnly THEN Flags ELSE Parameters),
              prefix)

JoinedFounds(j) ==
    IF /\ j.rest = <<>> /\ j.parser.missing = <<>>
       /\ \A i \in DOMAIN j.parser.args : ~AnyError(j.parser.args[i])
    THEN j.founds ELSE <<>>

Joined(p, word, flagsOnly, prefix) ==
    LET joined[n \in 0..Len(word)] == IF n = 0 THEN [parser |-> p, rest |-> word, founds |-> <<>>]
                                      ELSE JoinFlag(joined[n - 1], flagsOnly, prefix)
    IN JoinedFounds(joined[Len(word)])

\* The prefix of the joined flags is not put back.
JoinedInVerbatim(g, word, flagsOnly) == Joined(Parser(g, 0), word, flagsOnly, <<>>)

JoinedIn(g, word, flagsOnly) ==
    Joined(Parser(g, 0), word, flagsOnly, IF flagsOnly THEN CommonFlagPrefix(g) ELSE <<>>)

\* find_join_group(): the groups it tries, one after the other.
JoinGroups(t) ==
    LET Tried(walk) == Kept(walk, {i \in DOMAIN walk : At(walk[i].pos) \in Joinable})
        GroupsOf(tried) == [i \in DOMAIN tried |-> At(tried[i].pos)]
    IN GroupsOf(Tried(WalkPast(t, Joinable)))

FirstOf(attempts) ==
    LET i == SelectInSeq(attempts, LAMBDA founds : founds # <<>>)
    IN IF i = 0 THEN <<>> ELSE attempts[i]

JoinedInOneOf(groups, word, flagsOnly) ==
    LET i == SelectInSeq(groups, LAMBDA g : JoinedIn(g, word, flagsOnly) # <<>>)
    IN IF i = 0 THEN <<>> ELSE JoinedIn(groups[i], word, flagsOnly)

JoinedFlags(t, word, flagsOnly) ==
    IF Joinable = {} THEN <<>>
    ELSE JoinedInOneOf(IF Parent(t.pos) \in Joinable THEN <<Parent(t.pos)>> ELSE JoinGroups(t),
                       word, flagsOnly)

\* try_match(): the first attempt that succeeds.
Attempts(t, word, walk) ==
    << FullMatch(walk, word, Flags),
       JoinedFlags(t, word, TRUE),
       JoinedSequence(walk, word, Flags),
       FullMatch(walk, word, Flagless),
       JoinedSequence(walk, word, Parameters),
       JoinedFlags(t, word, FALSE) >>

Matches(p, word) ==
    LET here == At(p.pos.pos)
    IN IF /\ ~IsGroup(here) /\ here \in Blocking /\ Nodes[here].greedy
          /\ MatchLength(here, word) = Len(word)
       THEN <<Found(p.pos, word)>>
       ELSE FirstOf(Attempts(p.pos, word, Walk(p.pos)))
-----------------------------------------------------------------------------
(***************************************************************************)
(* operator(): one word of the command line.  A word no reachable          *)
(* parameter takes is tried once more with blocking switched off, ahead of *)
(* the position and then from the start, and is reported as blocked.       *)
(***************************************************************************)
Unblocked(p) == [p EXCEPT !.pos.ignore = TRUE]

Blocked(args) == [i \in DOMAIN args |-> [args[i] EXCEPT !.blocked = TRUE]]

NewArgs(p, founds) == Without(AddMatches(p, founds).args, Len(p.args))

FirstSuccess(tries, founds) ==
    LET k == IF founds[1] # <<>> THEN 1 ELSE 2 IN Blocked(NewArgs(tries[k], founds[k]))

BlockedArgs(p, word) ==
    LET tries == <<Unblocked(p), Unblocked(Parser(p.root, p.index))>>
    IN FirstSuccess(tries, [k \in 1..2 |-> Matches(tries[k], word)])

NoMatch(index, word) ==
    [index |-> index, arg |-> word, match |-> <<>>, repeat |-> 0,
     startsRepeatGroup |-> FALSE, blocked |-> FALSE, conflict |-> FALSE]

Unmatched(p, word, blockedArgs) ==
    LET skips == /\ ~p.pos.matched
                 /\ At(p.pos.pos) \in RequiredNodes /\ At(p.pos.pos) \in Blocking
    IN IF blockedArgs # <<>> THEN [p EXCEPT !.args = @ \o blockedArgs]
       ELSE [p EXCEPT !.blocked = @ \/ skips, !.args = Append(@, NoMatch(p.index, word))]

Mapped(p, word, founds) ==
    IF founds # <<>> THEN AddMatches(p, founds) ELSE Unmatched(p, word, BlockedArgs(p, word))

Read(parser, word) ==
    LET p == [parser EXCEPT !.index = @ + 1]
    IN IF ~Valid(p.pos) \/ word = <<>> THEN p
       ELSE Mapped(p, word, IF p.blocked THEN <<>> ELSE Matches(p, word))

(***************************************************************************)
(* parsing_result                                                          *)
(***************************************************************************)
\* Missing parameters are not looked at.
FailedOnErrors(p) == \E i \in DOMAIN p.args : AnyError(p.args[i])

Failed(p) == p.missing # <<>> \/ \E i \in DOMAIN p.args : AnyError(p.args[i])
=============================================================================

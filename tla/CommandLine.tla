----------------------------- MODULE CommandLine -----------------------------
(***************************************************************************)
(* What irpc promises of its command line, without a parser: which lines   *)
(* are commands, which method a command calls and with which values, and   *)
(* that every line is answered.  Where its README promises more than its   *)
(* options, this leaves the answer open.                                   *)
(***************************************************************************)
EXTENDS SequencesExt, Naturals

CONSTANT Corrected(_)   \* the words a line is read as, without loss of text

VARIABLES
    typed,     \* the words given
    version,   \* the version was printed
    answer     \* the method called, or what is printed instead

promised == <<typed, version, answer>>

\* The variable an option gives a value to, or switches on.
ValueOf ==
    [f \in {"-f", "--family"} |-> "IP_TYPE"] @@ [f \in {"-s", "--state"} |-> "LINK_STATE"]
    @@ ("--iface" :> "IFACE_NAME") @@ ("--dest" :> "DEST_ADDR") @@ ("--cidr" :> "CIDR")
    @@ ("--gw" :> "GATE_WAY")
SwitchOf == [f \in {"-v", "--version"} |-> "version"] @@ ("--msgformat" :> "msgFmt")

Needed == [ipshow |-> {}, iplink |-> {}, setlink |-> {"IFACE_NAME", "LINK_STATE"},
           showiproute |-> {}, addiproute |-> {"IFACE_NAME", "DEST_ADDR", "CIDR"},
           removeiproute |-> {"IFACE_NAME", "DEST_ADDR"}, help |-> {}]

Accepted == [c \in DOMAIN Needed |-> Needed[c] \union
                CASE c \in {"ipshow", "showiproute"} -> {"IP_TYPE"}
                  [] c \in {"addiproute", "removeiproute"} -> {"GATE_WAY"}
                  [] OTHER -> {}]

Keywords == DOMAIN ValueOf \union DOMAIN SwitchOf \union DOMAIN Needed
-----------------------------------------------------------------------------
(***************************************************************************)
(* Reading a line: an option takes the next word, or the rest of its own,  *)
(* as its value.  Empty words count for nothing.                           *)
(***************************************************************************)
Item(is, value) == [is |-> is, value |-> value]

Awaits(item) == item.is \in Range(ValueOf) /\ item.value = <<>>

AddWord(items, word) ==
    IF items # <<>> /\ Awaits(Last(items))
    THEN Append(Front(items), Item(Last(items).is, word))
    ELSE Append(items,
           IF word[1] \in DOMAIN ValueOf THEN Item(ValueOf[word[1]], Tail(word))
           ELSE IF Len(word) = 1 /\ word[1] \in DOMAIN SwitchOf THEN Item(SwitchOf[word[1]], <<>>)
           ELSE IF Len(word) = 1 /\ word[1] \in DOMAIN Needed THEN Item(word[1], <<>>)
           ELSE Item("no meaning", word))

Items(line) == FoldLeft(AddWord, <<>>, SelectSeq(line, LAMBDA word : word # <<>>))

\* The command stands at k: before it switches only, right after it its own
\* options in any order, then switches; nothing twice, nothing needed missing.
IsCommand(items, k) ==
    LET command == items[k].is
        Own(i) == items[i].is \in Accepted[command]
    IN /\ command \in DOMAIN Needed
       /\ \A i, j \in DOMAIN items : items[i].is = items[j].is => i = j
       /\ \A i \in DOMAIN items \ {k} :
            \/ items[i].is \in Range(SwitchOf)
            \/ /\ i > k /\ \A j \in (k + 1)..i : Own(j)
               /\ ~Awaits(items[i])
       /\ \A name \in Needed[command] : \E i \in DOMAIN items : items[i].is = name

\* A value that starts like an option or a command may be taken for one.
IsAmbiguous(items) ==
    \E i \in DOMAIN items : /\ items[i].is \in Range(ValueOf)
                            /\ items[i].value # <<>> /\ items[i].value[1] \in Keywords
-----------------------------------------------------------------------------
(***************************************************************************)
(* The answer to a line.                                                   *)
(***************************************************************************)
Call(method, arguments) == [method |-> method, args |-> arguments]

NoValues == [n \in {} |-> FALSE]
None == Call("none", NoValues)
Usage == Call("usage_lines", NoValues)

Given(items, name) == \E i \in DOMAIN items : items[i].is = name

ValueGiven(items, name) ==
    IF Given(items, name) THEN items[CHOOSE i \in DOMAIN items : items[i].is = name].value
    ELSE IF name = "IP_TYPE" THEN <<"ipv4">> ELSE <<>>

\* What a command asks for.  The two route commands take no format, which the
\* README promises "with any command": a call with it is as good here as one without.
Meanings(items, command) ==
    LET With(names) == [n \in names |-> ValueGiven(items, n)]
        format == "msgFmt" :> Given(items, "msgFmt")
    IN CASE command = "ipshow" -> {Call("showIpAddr", With({"IP_TYPE"}) @@ format)}
         [] command = "iplink" -> {Call("showIpLinks", With({"IP_TYPE"}) @@ format)}
         [] command = "setlink" -> {Call("setIpLink", With(Accepted.setlink) @@ format)}
         [] command = "showiproute" -> {Call("showIpRoute", With({"IP_TYPE"}) @@ format)}
         [] command = "addiproute" ->
              {Call("addIpRoute", With(Accepted.addiproute) @@ f) : f \in {NoValues, format}}
         [] command = "removeiproute" ->
              {Call("removeIpRoute", With(Accepted.removeiproute) @@ f) : f \in {NoValues, format}}
         [] command = "help" -> {Call("make_man_page", NoValues)}

\* The README's examples, by themselves or with the format at their end, and what
\* it says they do: "ipshow [-f] <ipv4|ipv6>", "iplink [-f] <ipv4|ipv6>" and
\* "setlink -n <name of device> -s <ip/down>" (where ip is a slip for up).
Readme(line) ==
    LET formatted == line # <<>> /\ Last(line) = <<"--msgformat">>
        words == IF formatted THEN Front(line) ELSE line
        Show(method, command) ==
            {Call(method, ("IP_TYPE" :> <<f>>) @@ ("msgFmt" :> formatted))
               : f \in {t \in {"ipv4", "ipv6"} : words \in {<<<<command>>, <<t>>>>,
                                                        <<<<command>>, <<"-f">>, <<t>>>>}}}
    IN Show("showIpAddr", "ipshow") \union Show("showIpLinks", "iplink")
         \union {Call("setIpLink", ("IFACE_NAME" :> words[3]) @@ ("LINK_STATE" :> <<t>>)
                                    @@ ("msgFmt" :> formatted))
                    : t \in {u \in {"up", "down"} :
                               /\ Len(words) = 5 /\ words[1] = <<"setlink">> /\ words[2] = <<"-n">>
                               /\ words[4] = <<"-s">> /\ words[5] = <<u>>}}

\* Of the README's lines both are allowed, what it says and what the options of
\* the commands make of them: nothing is promised where these disagree.
Answers(line, items) ==
    LET commands == {k \in DOMAIN items : IsCommand(items, k)}
    IN UNION {Meanings(items, items[k].is) : k \in commands}
         \union (IF commands = {} \/ IsAmbiguous(items) THEN {Usage} ELSE {})
         \union Readme(line)

\* Any words may be given.
Init ==
    /\ version = FALSE
    /\ answer = None

PrintVersion ==
    /\ answer = None /\ ~version
    /\ \E i \in DOMAIN typed : typed[i] \in {<<"-v">>, <<"--version">>}
    /\ version' = TRUE
    /\ UNCHANGED <<typed, answer>>

Answer ==
    /\ answer = None
    /\ answer' \in Answers(typed, Items(Corrected(typed)))
    /\ answer' # Usage => version = Given(Items(Corrected(typed)), "version")
    /\ UNCHANGED <<typed, version>>

Next == PrintVersion \/ Answer

Spec == Init /\ [][Next]_promised
=============================================================================

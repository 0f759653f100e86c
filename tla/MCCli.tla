-------------------------------- MODULE MCCli --------------------------------
(***************************************************************************)
(* Command lines for Cli, those of its own usage text among them.          *)
(***************************************************************************)
EXTENDS Cli, IrpcGrammar

W(text) == <<text>>

\* Every line of up to three words.
Words == {W(t) : t \in {"ipshow", "iplink", "setlink", "help", "-f", "--family", "-s", "--iface",
                        "--dest", "-v", "--msgformat", "eth0"}}
         \union {<<"-f", "ipv6">>, <<"-v", "up">>, <<>>}

LinesUpTo(n) == UNION {[1..k -> Words] : k \in 0..n}

\* A command with its options and switches in every order.
Units == [iface |-> <<W("--iface"), W("eth0")>>, state |-> <<<<"-s", "up">>>>,
          dest |-> <<W("--dest"), W("10.1.0.0")>>, cidr |-> <<W("--cidr"), W("16")>>,
          gw |-> <<W("--gw"), W("10.0.0.1")>>, family |-> <<W("--family"), W("ipv6")>>,
          version |-> <<W("--version")>>, msgFmt |-> <<W("--msgformat")>>]

Orders(command, units, extra) ==
    LET words == ("command" :> <<W(command)>>) @@ Units
        names == {{"command"} \union units \union U : U \in extra}
    IN {FlattenSeq([i \in DOMAIN order |-> words[order[i]]])
          : order \in UNION {SetToSeqs(S) : S \in names}}

UpTo(n, S) == UNION {kSubset(k, S) : k \in 0..n}

Sentences ==
    Orders("addiproute", {"iface", "dest", "cidr"}, UpTo(1, {"gw", "version"}))
      \union Orders("removeiproute", {"iface", "dest"}, UpTo(2, {"gw", "version", "msgFmt"}))
      \union Orders("setlink", {"iface", "state"}, UpTo(2, {"version", "msgFmt", "family"}))
      \union Orders("showiproute", {}, UpTo(3, {"version", "msgFmt", "family"}))

\* ... and with one word forgotten.
Truncated == UNION {{RemoveAt(line, i) : i \in DOMAIN line}
                      : line \in Orders("removeiproute", {"iface", "dest"}, {{"gw"}})}

\* Numbers in values, some of them in two words.
NumberWords == {<<"0">>, <<".", "5">>, <<"-", "1">>, <<"-s", "2">>, W("-s"), W("up")}
Numbers == {<<W("setlink"), W("--iface")>> \o s : s \in UNION {[1..k -> NumberWords] : k \in 1..3}}

\* The examples of the README.
Documented ==
    {<<W("help")>>,
     <<W("ipshow"), W("-f"), W("ipv6")>>, <<W("ipshow"), W("ipv6")>>,
     <<W("iplink"), W("-f"), W("ipv6")>>, <<W("iplink"), W("ipv6")>>,
     <<W("setlink"), W("-n"), W("eth0"), W("-s"), W("up")>>,
     <<W("showiproute"), W("--msgformat")>>}
      \union {<<W("iplink"), W("-f"), W("ipv6"), W("--msgformat")>>}

Text(g) == INSTANCE UsageText WITH
             Nodes <- g.nodes, Width <- g.width, Exclusive <- g.exclusive,
             Joinable <- g.joinable, Flags <- g.flags, Flagless <- g.flagless,
             Blocking <- g.blocking, Repeating <- g.repeating,
             RequiredNodes <- g.required, Spared <- g.spared,
             Program <- W("irpc"), ValueWord <- W("eth0")
Shown == Text(MainGrammar)!Advertised

Lines == LinesUpTo(3) \union Sentences \union Truncated \union Numbers \union Documented \union Shown
-----------------------------------------------------------------------------
\* Every line the usage text shows calls the method of the command it starts
\* with: usage_lines() and the parser read the same grammar the same way.
AdvertisedAccepted ==
    pc = "done" /\ typed \in Shown =>
        answer # Usage /\ answer.method = Switch[typed[1][1]].method
=============================================================================

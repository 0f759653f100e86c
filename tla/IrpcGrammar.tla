----------------------------- MODULE IrpcGrammar -----------------------------
(***************************************************************************)
(* The grammar of irpc, built by main() with the factories and operators   *)
(* of clipp.                                                               *)
(***************************************************************************)
EXTENDS Grammar

Mode(w) == Set(Command(<<w>>), "selected", w)

Family == Doc(InSequence(Option(<<<<"-f">>, <<"--family">>>>), Value("ipv4|ipv6", "IP_TYPE")),
              "family")
Iface == InSequence(Required(<<<<"--iface">>>>), Value("Interface Name", "IFACE_NAME"))
State == InSequence(Required(<<<<"-s">>, <<"--state">>>>), Value("up|down", "LINK_STATE"))
Dest == InSequence(Required(<<<<"--dest">>>>),
                   Doc(Value("Dest. Address", "DEST_ADDR"), "Destination Address"))
Cidr == InSequence(Required(<<<<"--cidr">>>>), Doc(Value("CIDR", "CIDR"), "CIDR"))
Gw == InSequence(Option(<<<<"--gw">>>>), Doc(Value("gateway address", "GATE_WAY"), "Gateway"))

ipShowMode == Comma(Mode("ipshow"), Family)
ipLinkMode == Mode("iplink")
setLinkMode == Comma(Comma(Mode("setlink"), Doc(Iface, "Name of Interface")), Doc(State, "up/down"))
showIpRouteMode == Comma(Mode("showiproute"), Family)
addIpRouteMode == Comma(Comma(Comma(Comma(Mode("addiproute"), Iface), Dest), Cidr), Gw)
removeIpRouteMode == Comma(Comma(Comma(Mode("removeiproute"), Iface), Dest), Gw)
helpMode == Mode("help")

modes == FoldLeft(OneOf, ipShowMode, <<ipLinkMode, setLinkMode, showIpRouteMode,
                                       addIpRouteMode, removeIpRouteMode, helpMode>>)
cli == Comma(Comma(modes,
                   Doc(Set(Option(<<<<"--msgformat">>>>), "msgFmt", TRUE), "format")),
             Doc(Set(Option(<<<<"-v">>, <<"--version">>>>), "version", TRUE), "version"))

MainGrammar == GrammarOf(cli)
=============================================================================

---------------------------- MODULE MCConfigure ----------------------------
EXTENDS Configure

CONSTANT p1

MCIface == {1, 2}
MCName  == {"eth0", "eth1"}

\* Two IPv4 networks, the host bits of one set, an IPv4 gateway; an IPv6
\* address, its network, and an IPv6 gateway.
MCAddr == {"10.0.0.0", "10.0.0.7", "172.16.0.0", "10.0.0.1",
           "2001:db8::7", "2001:db8::", "fe80::1"}
MCAddrFamily == [a \in MCAddr |->
    IF a \in {"2001:db8::7", "2001:db8::", "fe80::1"} THEN AF_INET6 ELSE AF_INET]
MCMasked == [a \in MCAddr |-> [n \in 0..128 |->
    CASE a \in {"10.0.0.7", "10.0.0.1"} /\ n = 24 -> "10.0.0.0"
      [] a = "2001:db8::7" /\ n = 64 -> "2001:db8::"
      [] OTHER -> a]]
MCText == MCAddr \union {"", "nowhere"}

Number(k) == [kind |-> "number", n |-> k]
Word == [kind |-> "word", n |-> 0]
Blank == [kind |-> "blank", n |-> 0]

SetLink(i, s) == [op |-> "setlink", iface |-> i, state |-> s,
                  dest |-> "", cidr |-> Word, gw |-> ""]
Add(d, c, g) == [op |-> "addiproute", iface |-> "eth0", state |-> "other",
                 dest |-> d, cidr |-> c, gw |-> g]
Remove(d, g) == [op |-> "removeiproute", iface |-> "eth0", state |-> "other",
                 dest |-> d, cidr |-> Word, gw |-> g]

MCSetLink == {SetLink("eth0", "up"), SetLink("eth0", "down"), SetLink("eth0", "other")}
MCAdd == {Add("10.0.0.0", Number(24), "10.0.0.1"),
          Add("10.0.0.0", Number(24), ""),
          Add("2001:db8::7", Number(64), "fe80::1")}
\* Command lines addIpRoute gives up on, and those the kernel must refuse.
MCOddAdd == {Add("nowhere", Number(24), ""),
             Add("10.0.0.0", Word, ""),
             Add("10.0.0.0", Blank, "10.0.0.1"),
             Add("10.0.0.0", Number(24), "fe80::1"),
             Add("10.0.0.7", Number(24), ""),
             Add("10.0.0.0", Number(33), ""),
             Add("10.0.0.0", Number(280), "")}
MCRemove == {Remove("10.0.0.0", "10.0.0.1"), Remove("10.0.0.0", "")}

MCCommand == MCSetLink \union MCAdd \union MCRemove
MCAllCommand == MCCommand \union MCOddAdd
MCRouteCommand == MCAdd \union MCOddAdd \union MCRemove

Static(d, n, i, g) == [dst |-> d, plen |-> n, dev |-> i, gw |-> g,
                       scope |-> "RT_SCOPE_UNIVERSE", proto |-> "RTPROT_STATIC"]
MCOtherRoute == {Static("172.16.0.0", 24, 1, "10.0.0.1"),
                 [Static("10.0.0.0", 24, 1, "") EXCEPT !.scope = "RT_SCOPE_LINK",
                                                       !.proto = "other"]}

\* A prefix that fits, one that does not and one that only fits modulo 256; an
\* address with routes and one without; index 0 matches any interface.
MCPrefixGarbage == {24, 33, 280}
MCAddrGarbage == {"172.16.0.0", "10.0.0.0"}
MCIfaceGarbage == {0, 1, 77}
=============================================================================

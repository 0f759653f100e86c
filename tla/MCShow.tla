------------------------------- MODULE MCShow -------------------------------
EXTENDS Show

CONSTANT p1

\* Interface 1 has an address of each family, interface 2 an IPv4 address;
\* each carries a route.
MCRow == {"link1", "link2", "inet1", "inet6_1", "inet2", "route1", "route2"}
MCIface == {1, 2}
MCRowKind == [r \in MCRow |->
    CASE r \in {"link1", "link2"} -> "link"
      [] r \in {"inet1", "inet6_1", "inet2"} -> "addr"
      [] r \in {"route1", "route2"} -> "route"]
MCRowFamily == [r \in MCRow |-> IF r = "inet6_1" THEN "AF_INET6" ELSE "AF_INET"]
MCRowIface == [r \in MCRow |-> IF r \in {"link2", "inet2", "route2"} THEN 2 ELSE 1]

MCCommand == {[cb |-> "SHOW_IP_ADDR",  ipType |-> "ipv4"],
              [cb |-> "SHOW_IP_ADDR",  ipType |-> "other"],
              [cb |-> "SHOW_IP_LINK",  ipType |-> "ipv4"],
              [cb |-> "SHOW_IP_ROUTE", ipType |-> "ipv4"]}

\* One interface, its IPv4 address and a route.
MCSmallRow == {"link1", "inet1", "route1"}
MCSmallIface == {1}
MCSmallRowKind == [r \in MCSmallRow |-> MCRowKind[r]]
MCSmallRowFamily == [r \in MCSmallRow |-> MCRowFamily[r]]
MCSmallRowIface == [r \in MCSmallRow |-> MCRowIface[r]]

\* The route dump alone.
MCShowIpRoute == {[cb |-> "SHOW_IP_ROUTE", ipType |-> "ipv4"]}

\* The address dump alone: the command whose callback names the interface.
MCIpShow == {[cb |-> "SHOW_IP_ADDR", ipType |-> "ipv4"]}
=============================================================================

---------------------------- MODULE MCAttrParse ----------------------------
EXTENDS AttrParse

Plain(t, n) == [type |-> t, len |-> n]
A(t, n) == [type |-> t, len |-> n, cstr |-> n, nested |-> <<>>]
SeqsTo(S, n) == UNION {[1..k -> S] : k \in 0..n}

\* An MTU, the name of a congestion control algorithm and the highest metric
\* the headers know.
MCMetric == {Plain(2, 4), Plain(16, 6), Plain(17, 4)}
MCMetrics == {[type |-> 8, len |-> IF n = <<>> THEN 0 ELSE 8, cstr |-> 1, nested |-> n] :
                n \in SeqsTo(MCMetric, 2)}

\* A destination and a gateway as IPv4 and as IPv6 have them, an output
\* interface and a malformed one, an attribute that is not displayed and one
\* the headers do not know.
MCRouteAttr == {A(1, 4), A(1, 16), A(5, 4), A(5, 16), A(4, 4), A(4, 2), A(9, 16), A(40, 4)}
                 \union MCMetrics
\* A name that ends in its payload, an empty one and one that does not end.
MCLinkAttr == {A(1, 6), A(1, 0), A(3, 5), A(3, 0), A(4, 4), A(4, 2), A(99, 4)}
                 \union {[A(3, 5) EXCEPT !.cstr = 9]}
MCAddrAttr == {A(1, 4), A(1, 16), A(2, 4), A(9, 4)}

\* rtm_family decides which callback a route is parsed with.
Route(family, attrsOf) ==
    [cb : {IF family = "AF_INET" THEN "ipv4_attr_cb" ELSE "ipv6_attr_cb"},
     family : {family}, attrs : attrsOf]

MCMessage ==
    UNION {Route(f, SeqsTo(MCRouteAttr, 2)) : f \in Family}
    \union [cb : {"link_attr_cb"}, family : {"AF_INET"}, attrs : SeqsTo(MCLinkAttr, 4)]
    \union [cb : {"addr_attr_cb"}, family : Family, attrs : SeqsTo(MCAddrAttr, 4)]
    \union Route("AF_INET", SeqsTo({A(1, 4), A(4, 4), A(4, 2)} \union
                                   {m \in MCMetrics : Len(m.nested) = 1}, 4))

\* Routes with one or two well-formed metrics.
MCMetricMessage ==
    {[cb |-> "ipv4_attr_cb", family |-> "AF_INET", attrs |-> <<a, m>>] :
        a \in {A(1, 4), A(4, 4), A(5, 4), A(15, 4)},
        m \in {x \in MCMetrics : x.nested # <<>> /\ \A i \in DOMAIN x.nested : x.nested[i].len = 4}}
=============================================================================

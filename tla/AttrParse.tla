----------------------------- MODULE AttrParse -----------------------------
(***************************************************************************)
(* How a callback of mnl_cb_run() shows one message of a dump: the         *)
(* functions data_cb_showIpAddr and data_cb_showIpLinks of src/network.cpp *)
(* and data_cb_showIproutes of src/iproute.cpp.                            *)
(*                                                                         *)
(* mnl_attr_parse() (external) hands the attributes of the message to an   *)
(* attribute callback one by one.  The callback stores those it accepts in *)
(* the table tb, and then the attributes in the table are displayed.  A    *)
(* route's metrics are attributes nested in one of its attributes, and are *)
(* parsed and displayed the same way, with a callback of their own.        *)
(***************************************************************************)
EXTENDS Integers, Sequences

CONSTANTS
    Message,                \* the messages the kernel may send
    IFA_MAX, IFLA_MAX,      \* the highest attribute types of the headers the
    RTA_MAX, RTAX_MAX       \* program is compiled with

IFA_ADDRESS == 1
IFLA_ADDRESS == 1
IFLA_IFNAME == 3
IFLA_MTU == 4
RTA_DST == 1
RTA_SRC == 2
RTA_OIF == 4
RTA_GATEWAY == 5
RTA_PRIORITY == 6
RTA_PREFSRC == 7
RTA_METRICS == 8
RTA_FLOW == 11
RTA_TABLE == 15

\* The attribute callbacks; metrics_attr_cb is data_attr_cb_showIpRoute, which
\* sees the nested attributes of RTA_METRICS.
Callback == {"addr_attr_cb", "link_attr_cb", "ipv4_attr_cb", "ipv6_attr_cb",
             "metrics_attr_cb"}

Family == {"AF_INET", "AF_INET6"}

\* An attribute: its type, the length of its payload, the bytes up to and with
\* the first NUL from the payload's start on (those of mnl_attr_get_str()), and
\* the attributes the payload holds if it is nested.
PlainAttr == [type : Nat, len : Nat]
Attr == [type : Nat, len : Nat, cstr : Nat, nested : Seq(PlainAttr)]

ASSUME AttrParseAssumption ==
    /\ IFA_MAX \in Nat /\ IFLA_MAX \in Nat /\ RTA_MAX \in Nat /\ RTAX_MAX \in Nat
    /\ IFA_MAX >= 1 /\ IFLA_MAX >= 4 /\ RTA_MAX >= 15 /\ RTAX_MAX >= 1
    /\ Message \subseteq [cb : Callback \ {"metrics_attr_cb"}, family : Family, attrs : Seq(Attr)]

VARIABLES
    msg,    \* the message
    cb,     \* the attribute callback of the parse under way
    attrs,  \* the attributes it walks
    pos,    \* the attribute it is at
    tb,     \* tb[t]: the attribute stored for type t, as an index, or 0
    pc,
    shown   \* shown[c]: what the display after callback c showed: <<type, index>>

vars == <<msg, cb, attrs, pos, tb, pc, shown>>

-----------------------------------------------------------------------------
(* The attribute callbacks. *)

AttrMax(c) ==
    CASE c = "addr_attr_cb" -> IFA_MAX
      [] c = "link_attr_cb" -> IFLA_MAX
      [] c \in {"ipv4_attr_cb", "ipv6_attr_cb"} -> RTA_MAX
      [] c = "metrics_attr_cb" -> RTAX_MAX

\* What data_ipv4_attr_cb, data_ipv6_attr_cb and the others require of an
\* attribute of type t.
RouteU32 == {RTA_TABLE, RTA_OIF, RTA_FLOW, RTA_PRIORITY}
RouteAddress == {RTA_DST, RTA_SRC, RTA_PREFSRC, RTA_GATEWAY}

RequiredType(c, t) ==
    CASE c = "addr_attr_cb" -> "BINARY"
      [] c = "link_attr_cb" -> CASE t = IFLA_MTU -> "U32"
                                 [] t = IFLA_IFNAME -> "STRING"
                                 [] OTHER -> "BINARY"
      [] c = "metrics_attr_cb" -> "U32"
      [] c \in {"ipv4_attr_cb", "ipv6_attr_cb"} ->
           CASE t \in RouteU32 -> "U32"
             [] t \in RouteAddress -> IF c = "ipv4_attr_cb" THEN "U32" ELSE "IN6"
             [] t = RTA_METRICS -> "NESTED"
             [] OTHER -> "BINARY"

\* mnl_attr_validate() and mnl_attr_validate2() (external): MNL_TYPE_BINARY asks
\* nothing; a nested attribute is empty or holds one header.
Valid(type, len) ==
    CASE type = "U32"    -> len = 4
      [] type = "IN6"    -> len = 16
      [] type = "STRING" -> len > 0
      [] type = "NESTED" -> len = 0 \/ len >= 4
      [] type = "BINARY" -> TRUE

\* mnl_attr_type_valid(): a type the headers do not know is skipped.
Skips(c, a) == a.type > AttrMax(c)

\* The callback returns MNL_CB_ERROR, and with that the walk ends.  (Here and
\* below, the variants above a definition are slips the properties must catch.)
RefusesNever(c, a) == FALSE
Refuses(c, a) == ~Skips(c, a) /\ ~Valid(RequiredType(c, a.type), a.len)

\* tb[type] = attr
StoredFirst(c, table, a, i) ==
    IF Skips(c, a) \/ table[a.type] # 0 THEN table ELSE [table EXCEPT ![a.type] = i]
Stored(c, table, a, i) ==
    IF Skips(c, a) THEN table ELSE [table EXCEPT ![a.type] = i]

-----------------------------------------------------------------------------
(* The display. *)

\* data_cb_showIpAddr, data_cb_showIpLinks and display_attr_ipv4 and _ipv6 test
\* these types in tb; the loop over the metrics runs while i < RTAX_MAX.
RouteFields == RouteU32 \union RouteAddress

Fields(c) ==
    CASE c = "addr_attr_cb" -> {IFA_ADDRESS}
      [] c = "link_attr_cb" -> {IFLA_MTU, IFLA_IFNAME, IFLA_ADDRESS}
      [] c \in {"ipv4_attr_cb", "ipv6_attr_cb"} -> RouteFields
      [] c = "metrics_attr_cb" -> 0..(RTAX_MAX - 1)

HasMetrics(c, table) == c \in {"ipv4_attr_cb", "ipv6_attr_cb"} /\ table[RTA_METRICS] # 0

EmptyTable(c) == [t \in 0..AttrMax(c) |-> 0]

-----------------------------------------------------------------------------

Init ==
    /\ msg \in Message
    /\ cb = msg.cb
    /\ attrs = msg.attrs
    /\ pos = 1
    /\ tb = EmptyTable(cb)
    /\ pc = "parse"
    /\ shown = [c \in Callback |-> {}]

\* mnl_attr_parse() hands the attribute at pos to the callback.
ParseAttr ==
    /\ pc = "parse"
    /\ pos <= Len(attrs)
    /\ ~Refuses(cb, attrs[pos])
    /\ tb' = Stored(cb, tb, attrs[pos], pos)
    /\ pos' = pos + 1
    /\ UNCHANGED <<msg, cb, attrs, pc, shown>>

\* It stops at one the callback refuses.  The callers ignore what it returns.
ParseRefused ==
    /\ pc = "parse"
    /\ pos <= Len(attrs)
    /\ Refuses(cb, attrs[pos])
    /\ pc' = "display"
    /\ UNCHANGED <<msg, cb, attrs, pos, tb, shown>>

ParseEnds ==
    /\ pc = "parse"
    /\ pos > Len(attrs)
    /\ pc' = "display"
    /\ UNCHANGED <<msg, cb, attrs, pos, tb, shown>>

\* Displays what the table holds; of a route with metrics, these are parsed next.
Display ==
    /\ pc = "display"
    /\ shown' = [shown EXCEPT ![cb] = {<<t, tb[t]>> : t \in {f \in Fields(cb) : tb[f] # 0}}]
    /\ \/ /\ HasMetrics(cb, tb)
          /\ cb' = "metrics_attr_cb"
          /\ attrs' = attrs[tb[RTA_METRICS]].nested
          /\ pos' = 1
          /\ tb' = EmptyTable(cb')
          /\ pc' = "parse"
       \/ /\ ~HasMetrics(cb, tb)
          /\ pc' = "done"
          /\ UNCHANGED <<cb, attrs, pos, tb>>
    /\ UNCHANGED msg

Finished == pc = "done" /\ UNCHANGED vars

Next == ParseAttr \/ ParseRefused \/ ParseEnds \/ Display \/ Finished

Spec == Init /\ [][Next]_vars

-----------------------------------------------------------------------------
(* What a display should show. *)

\* The attributes a parse gets to see: those with none refused up to them.
Seen(c, s) == {i \in DOMAIN s : \A j \in 1..i : ~Refuses(c, s[j])}

\* Of each displayed type, the last attribute seen.
Reference(c, s) ==
    {<<s[i].type, i>> : i \in {k \in Seen(c, s) :
        /\ s[k].type \in Fields(c)
        /\ \A j \in Seen(c, s) : s[j].type = s[k].type => j <= k}}

\* The metrics a message's display goes on to: those of the last RTA_METRICS
\* seen, none if there is none.
MetricsOf(m) ==
    {m.attrs[i].nested : i \in {k \in Seen(m.cb, m.attrs) :
        /\ m.cb \in {"ipv4_attr_cb", "ipv6_attr_cb"}
        /\ m.attrs[k].type = RTA_METRICS
        /\ \A j \in Seen(m.cb, m.attrs) : m.attrs[j].type = RTA_METRICS => j <= k}}

\* The bytes the display reads of an attribute, in a message of a family:
\* inet_ntop() an address of ifa_family, mnl_attr_get_str() a C string, the MAC
\* address loop the payload, and the others a number or a struct of fixed size.
ReadLen(c, family, a) ==
    CASE c = "addr_attr_cb" -> IF family = "AF_INET" THEN 4 ELSE 16
      [] c = "link_attr_cb" -> IF a.type = IFLA_MTU THEN 4
                             ELSE IF a.type = IFLA_IFNAME THEN a.cstr ELSE a.len
      [] c \in {"ipv4_attr_cb", "metrics_attr_cb"} -> 4
      [] c = "ipv6_attr_cb" -> IF a.type \in RouteAddress THEN 16 ELSE 4

\* Of an interface's address the callback asks no length, and of a link's name
\* only that it is not empty: what the display reads of these two is up to the
\* kernel, which sends addresses of the family's size and names that end.
LeftToTheKernel(c, t) ==
    \/ c = "addr_attr_cb" /\ t = IFA_ADDRESS
    \/ c = "link_attr_cb" /\ t = IFLA_IFNAME

-----------------------------------------------------------------------------
(* Properties. *)

TypeOK ==
    /\ msg \in Message
    /\ cb \in Callback
    /\ attrs \in Seq(Attr) \union Seq(PlainAttr)
    /\ pos \in 1..(Len(attrs) + 1)
    /\ tb \in [0..AttrMax(cb) -> Nat]
    /\ pc \in {"parse", "display", "done"}
    /\ shown \in [Callback -> SUBSET (Nat \X Nat)]

\* What is shown in the end is the reference display: the last value of each
\* displayed attribute that comes before one that is refused, of the message
\* and of its metrics, and nothing from another callback.
ShownIsReference ==
    pc = "done" =>
        /\ shown[msg.cb] = Reference(msg.cb, msg.attrs)
        /\ shown["metrics_attr_cb"] =
             UNION {Reference("metrics_attr_cb", n) : n \in MetricsOf(msg)}
        /\ \A c \in Callback \ {msg.cb, "metrics_attr_cb"} : shown[c] = {}

\* Of an MTU, a MAC address, and every attribute and metric of a route the
\* display reads no more than the payload holds, although validating and reading
\* are apart, one attribute may follow another of its type and the callers ignore
\* that a walk was broken off.  (Not so of the two LeftToTheKernel.)
ValidatedReadsFit ==
    /\ \A x \in shown[msg.cb] :
          ~LeftToTheKernel(msg.cb, x[1]) =>
              ReadLen(msg.cb, msg.family, msg.attrs[x[2]]) <= msg.attrs[x[2]].len
    /\ cb = "metrics_attr_cb" =>
          \A x \in shown[cb] : ReadLen(cb, msg.family, attrs[x[2]]) <= attrs[x[2]].len

\* Every metric of a route that the headers know is displayed.
EveryMetricShown ==
    pc = "done" /\ cb = "metrics_attr_cb" =>
        \A i \in DOMAIN attrs : attrs[i].type <= RTAX_MAX =>
            \E x \in shown[cb] : x[1] = attrs[i].type

-----------------------------------------------------------------------------
(* The inductive invariant behind the safety properties. *)

\* tb[t] is the last attribute of type t that was walked, 0 if there is none.
TableIsLast ==
    \A t \in 0..AttrMax(cb) :
        /\ tb[t] < pos
        /\ tb[t] > 0 => attrs[tb[t]].type = t
        /\ \A j \in 1..(pos - 1) : attrs[j].type = t => j <= tb[t]

\* Everything walked was accepted, and the walk is over at the end or at an
\* attribute that is refused.
Walk ==
    /\ \A j \in 1..(pos - 1) : ~Refuses(cb, attrs[j])
    /\ pc # "parse" => pos > Len(attrs) \/ Refuses(cb, attrs[pos])

\* The message's own attributes are shown first, then its metrics.
Stages ==
    \/ /\ cb = msg.cb /\ attrs = msg.attrs /\ pc # "done"
       /\ \A c \in Callback : shown[c] = {}
    \/ /\ cb = "metrics_attr_cb" /\ attrs \in Seq(PlainAttr) /\ pc # "done"
       /\ MetricsOf(msg) = {attrs}
       /\ shown[msg.cb] = Reference(msg.cb, msg.attrs)
       /\ \A c \in Callback \ {msg.cb} : shown[c] = {}
    \/ /\ pc = "done" /\ ShownIsReference
       /\ cb = "metrics_attr_cb" => MetricsOf(msg) = {attrs}

IInv == TypeOK /\ TableIsLast /\ Walk /\ Stages

=============================================================================

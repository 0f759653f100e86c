-------------------------- MODULE AttrParseProofs --------------------------
(***************************************************************************)
(* Proofs about AttrParse for messages of any length, attributes of any    *)
(* type and length, and whatever the headers' highest types are.           *)
(***************************************************************************)
EXTENDS AttrParse, TLAPS

LEMMA CallbackFacts ==
    ASSUME NEW c \in Callback
    PROVE  /\ AttrMax(c) \in Nat
           /\ Fields(c) \subseteq 0..AttrMax(c)
           /\ c \in {"ipv4_attr_cb", "ipv6_attr_cb"} => RTA_METRICS \in 0..AttrMax(c)
BY AttrParseAssumption
   DEF Callback, AttrMax, Fields, RouteFields, RouteU32, RouteAddress,
       RTA_DST, RTA_SRC, RTA_OIF, RTA_GATEWAY, RTA_PRIORITY, RTA_PREFSRC,
       RTA_METRICS, RTA_FLOW, RTA_TABLE, IFA_ADDRESS, IFLA_ADDRESS, IFLA_IFNAME, IFLA_MTU

\* An attribute of the walk has a type.
LEMMA AttrFacts ==
    ASSUME NEW s \in Seq(Attr) \union Seq(PlainAttr), NEW i \in 1..Len(s)
    PROVE  s[i].type \in Nat /\ s[i].len \in Nat
<1>1. CASE s \in Seq(Attr)
  <2>1. s[i] \in Attr
    BY <1>1
  <2> QED
    BY <2>1 DEF Attr
<1>2. CASE s \in Seq(PlainAttr)
  <2>1. s[i] \in PlainAttr
    BY <1>2
  <2> QED
    BY <2>1 DEF PlainAttr
<1> QED
  BY <1>1, <1>2

LEMMA EmptyTableType ==
    ASSUME NEW c \in Callback
    PROVE  /\ EmptyTable(c) \in [0..AttrMax(c) -> Nat]
           /\ \A t \in 0..AttrMax(c) : EmptyTable(c)[t] = 0
BY DEF EmptyTable

LEMMA InitIInv == Init => IInv
<1> SUFFICES ASSUME Init PROVE IInv
  OBVIOUS
<1>1. msg.cb \in Callback /\ msg.attrs \in Seq(Attr)
  BY AttrParseAssumption DEF Init
<1>2. TypeOK
  BY <1>1, EmptyTableType DEF Init, TypeOK
<1>3. TableIsLast
  BY <1>1, EmptyTableType, CallbackFacts DEF Init, TableIsLast
<1>4. Walk /\ Stages
  BY DEF Init, Walk, Stages
<1> QED
  BY <1>2, <1>3, <1>4 DEF IInv

\* Walking one attribute further.
LEMMA ParseAttrStep == IInv /\ ParseAttr => IInv'
<1> SUFFICES ASSUME IInv, ParseAttr PROVE IInv'
  OBVIOUS
<1>1. TypeOK /\ TableIsLast /\ Walk /\ Stages
  BY DEF IInv
<1>2. /\ pc = "parse" /\ pos \in 1..Len(attrs) /\ ~Refuses(cb, attrs[pos])
      /\ tb' = Stored(cb, tb, attrs[pos], pos) /\ pos' = pos + 1
      /\ msg' = msg /\ cb' = cb /\ attrs' = attrs /\ pc' = pc /\ shown' = shown
  BY <1>1 DEF ParseAttr, TypeOK
<1>3. attrs[pos].type \in Nat /\ AttrMax(cb) \in Nat
  BY <1>1, <1>2, AttrFacts, CallbackFacts DEF TypeOK
<1>4. CASE Skips(cb, attrs[pos])
  <2>1. tb' = tb /\ attrs[pos].type > AttrMax(cb)
    BY <1>2, <1>4 DEF Stored, Skips
  <2>2. TypeOK'
    BY <1>1, <1>2, <2>1 DEF TypeOK
  <2>3. TableIsLast'
    BY <1>1, <1>2, <1>3, <2>1 DEF TableIsLast, TypeOK
  <2> QED
    BY <1>1, <1>2, <2>2, <2>3 DEF IInv, Walk, Stages
<1>5. CASE ~Skips(cb, attrs[pos])
  <2>1. tb' = [tb EXCEPT ![attrs[pos].type] = pos] /\ attrs[pos].type \in 0..AttrMax(cb)
    BY <1>2, <1>3, <1>5 DEF Stored, Skips
  <2>2. TypeOK'
    BY <1>1, <1>2, <2>1 DEF TypeOK
  <2>3. TableIsLast'
    BY <1>1, <1>2, <2>1 DEF TableIsLast, TypeOK
  <2> QED
    BY <1>1, <1>2, <2>2, <2>3 DEF IInv, Walk, Stages
<1> QED
  BY <1>4, <1>5

\* The end of the walk.
LEMMA ParseEndsStep == IInv /\ (ParseRefused \/ ParseEnds) => IInv'
<1> SUFFICES ASSUME IInv, ParseRefused \/ ParseEnds PROVE IInv'
  OBVIOUS
<1>1. TypeOK /\ TableIsLast /\ Walk /\ Stages
  BY DEF IInv
<1>2. /\ pc = "parse" /\ pc' = "display"
      /\ pos > Len(attrs) \/ Refuses(cb, attrs[pos])
      /\ UNCHANGED <<msg, cb, attrs, pos, tb, shown>>
  BY DEF ParseRefused, ParseEnds
<1>3. TypeOK'
  BY <1>1, <1>2 DEF TypeOK
<1>4. TableIsLast'
  BY <1>1, <1>2 DEF TableIsLast
<1>5. Walk' /\ Stages'
  BY <1>1, <1>2 DEF Walk, Stages
<1> QED
  BY <1>3, <1>4, <1>5 DEF IInv

\* When the walk is over, the attributes walked are those a parse gets to see.
LEMMA SeenIsWalked ==
    ASSUME TypeOK, Walk, pc = "display"
    PROVE  Seen(cb, attrs) = 1..(pos - 1)
<1>1. DOMAIN attrs = 1..Len(attrs) /\ Len(attrs) \in Nat /\ pos \in 1..(Len(attrs) + 1)
  BY DEF TypeOK
<1>2. ASSUME NEW i \in Seen(cb, attrs) PROVE i \in 1..(pos - 1)
  <2>1. i \in 1..Len(attrs) /\ \A j \in 1..i : ~Refuses(cb, attrs[j])
    BY <1>1 DEF Seen
  <2>2. CASE pos > Len(attrs)
    BY <1>1, <2>1, <2>2
  <2>3. CASE pos <= Len(attrs)
    <3>1. Refuses(cb, attrs[pos])
      BY <1>1, <2>3 DEF Walk
    <3>2. pos \notin 1..i
      BY <2>1, <3>1
    <3> QED
      BY <1>1, <2>1, <3>2
  <2> QED
    BY <1>1, <2>2, <2>3
<1>3. ASSUME NEW i \in 1..(pos - 1) PROVE i \in Seen(cb, attrs)
  BY <1>1 DEF Walk, Seen
<1> QED
  BY <1>2, <1>3

\* What the table holds then is the reference display.
LEMMA TableIsReference ==
    ASSUME TypeOK, TableIsLast, Walk, pc = "display"
    PROVE  {<<t, tb[t]>> : t \in {f \in Fields(cb) : tb[f] # 0}} = Reference(cb, attrs)
<1>1. Seen(cb, attrs) = 1..(pos - 1)
  BY SeenIsWalked
<1>2. Fields(cb) \subseteq 0..AttrMax(cb) /\ tb \in [0..AttrMax(cb) -> Nat] /\ pos \in Nat
  BY CallbackFacts DEF TypeOK
<1>3. ASSUME NEW t \in Fields(cb), tb[t] # 0 PROVE <<t, tb[t]>> \in Reference(cb, attrs)
  <2>1. tb[t] \in 1..(pos - 1) /\ attrs[tb[t]].type = t
    BY <1>2, <1>3 DEF TableIsLast
  <2>2. \A j \in 1..(pos - 1) : attrs[j].type = attrs[tb[t]].type => j <= tb[t]
    BY <1>2, <2>1 DEF TableIsLast
  <2> QED
    BY <1>1, <2>1, <2>2 DEF Reference
<1>4. ASSUME NEW i \in 1..(pos - 1), attrs[i].type \in Fields(cb),
             \A j \in 1..(pos - 1) : attrs[j].type = attrs[i].type => j <= i
      PROVE  tb[attrs[i].type] = i
  <2> DEFINE t == attrs[i].type
  <2>1. i <= tb[t] /\ tb[t] < pos /\ tb[t] \in Nat
    BY <1>2, <1>4 DEF TableIsLast
  <2>2. attrs[tb[t]].type = t
    BY <1>2, <1>4, <2>1 DEF TableIsLast
  <2>3. tb[t] \in 1..(pos - 1)
    BY <1>2, <2>1
  <2> QED
    BY <1>4, <2>1, <2>2, <2>3
<1>5. ASSUME NEW x \in Reference(cb, attrs)
      PROVE  \E t \in {f \in Fields(cb) : tb[f] # 0} : x = <<t, tb[t]>>
  <2>1. PICK i \in 1..(pos - 1) :
          /\ attrs[i].type \in Fields(cb)
          /\ \A j \in 1..(pos - 1) : attrs[j].type = attrs[i].type => j <= i
          /\ x = <<attrs[i].type, i>>
    BY <1>1 DEF Reference
  <2> QED
    BY <1>4, <2>1
<1> QED
  BY <1>3, <1>5

\* The nested attributes the display goes on to are those of the last metrics.
LEMMA MetricsFound ==
    ASSUME TypeOK, TableIsLast, Walk, pc = "display", cb = msg.cb, attrs = msg.attrs
    PROVE  MetricsOf(msg) = IF HasMetrics(cb, tb) THEN {attrs[tb[RTA_METRICS]].nested} ELSE {}
<1>1. Seen(cb, attrs) = 1..(pos - 1)
  BY SeenIsWalked
<1>2. CASE cb \notin {"ipv4_attr_cb", "ipv6_attr_cb"}
  BY <1>2 DEF MetricsOf, HasMetrics
<1>3. CASE cb \in {"ipv4_attr_cb", "ipv6_attr_cb"}
  <2> DEFINE last == tb[RTA_METRICS]
  <2>1. RTA_METRICS \in 0..AttrMax(cb) /\ last \in Nat /\ pos \in Nat
    BY <1>3, CallbackFacts DEF TypeOK
  <2>2. last < pos /\ (last > 0 => attrs[last].type = RTA_METRICS)
    BY <2>1 DEF TableIsLast
  <2>3. \A j \in 1..(pos - 1) : attrs[j].type = RTA_METRICS => j <= last
    BY <2>1 DEF TableIsLast
  <2> HIDE DEF last
  <2>4. {k \in 1..(pos - 1) : /\ attrs[k].type = RTA_METRICS
                              /\ \A j \in 1..(pos - 1) : attrs[j].type = RTA_METRICS => j <= k}
          = IF last # 0 THEN {last} ELSE {}
    BY <2>1, <2>2, <2>3
  <2> QED
    BY <1>1, <1>3, <2>4 DEF MetricsOf, HasMetrics, last
<1> QED
  BY <1>2, <1>3

LEMMA DisplayStep == IInv /\ Display => IInv'
<1> SUFFICES ASSUME IInv, Display PROVE IInv'
  OBVIOUS
<1> DEFINE text == {<<t, tb[t]>> : t \in {f \in Fields(cb) : tb[f] # 0}}
<1>1. TypeOK /\ TableIsLast /\ Walk /\ Stages /\ pc = "display" /\ msg' = msg
  BY DEF IInv, Display
<1>2. text = Reference(cb, attrs) /\ shown' = [shown EXCEPT ![cb] = text]
  BY <1>1, TableIsReference DEF Display
<1>3. text \in SUBSET (Nat \X Nat)
  BY <1>1, CallbackFacts DEF TypeOK
<1> HIDE DEF text
<1>4. shown' \in [Callback -> SUBSET (Nat \X Nat)]
  BY <1>1, <1>2, <1>3 DEF TypeOK
<1>5. CASE HasMetrics(cb, tb)
  <2> DEFINE metrics == attrs[tb[RTA_METRICS]].nested
  <2>1. cb' = "metrics_attr_cb" /\ attrs' = metrics /\ pos' = 1 /\ pc' = "parse"
        /\ tb' = EmptyTable("metrics_attr_cb")
    BY <1>5 DEF Display
  <2>2. cb = msg.cb /\ attrs = msg.attrs /\ \A c \in Callback : shown[c] = {}
    BY <1>1, <1>5 DEF Stages, HasMetrics
  <2>3. MetricsOf(msg) = {metrics}
    BY <1>1, <1>5, <2>2, MetricsFound
  <2>4. metrics \in Seq(PlainAttr)
    <3>1. msg.attrs \in Seq(Attr)
      BY <1>1, AttrParseAssumption DEF TypeOK
    <3>2. RTA_METRICS \in 0..AttrMax(cb)
      BY <1>1, <1>5, CallbackFacts DEF HasMetrics, TypeOK
    <3>3. tb[RTA_METRICS] \in 1..Len(attrs)
      BY <1>1, <1>5, <3>2 DEF TableIsLast, TypeOK, HasMetrics
    <3>4. attrs[tb[RTA_METRICS]] \in Attr
      BY <2>2, <3>1, <3>3
    <3> QED
      BY <3>4 DEF Attr
  <2> HIDE DEF metrics
  <2>5. "metrics_attr_cb" \in Callback
    BY DEF Callback
  <2>6. TypeOK'
    BY <1>1, <1>4, <2>1, <2>4, <2>5, EmptyTableType DEF TypeOK
  <2>7. TableIsLast' /\ Walk'
    BY <2>1, <2>5, EmptyTableType, CallbackFacts DEF TableIsLast, Walk
  <2>8. Stages'
    BY <1>1, <1>2, <2>1, <2>2, <2>3, <2>4 DEF Stages, TypeOK
  <2> QED
    BY <2>6, <2>7, <2>8 DEF IInv
<1>6. CASE ~HasMetrics(cb, tb)
  <2>1. pc' = "done" /\ UNCHANGED <<cb, attrs, pos, tb>>
    BY <1>6 DEF Display
  <2>2. TypeOK' /\ TableIsLast' /\ Walk'
    BY <1>1, <1>4, <2>1 DEF TypeOK, TableIsLast, Walk
  <2>3. msg.cb \in Callback /\ msg.cb # "metrics_attr_cb" /\ "metrics_attr_cb" \in Callback
    BY <1>1, AttrParseAssumption DEF TypeOK, Callback
  <2>4. CASE cb = msg.cb /\ attrs = msg.attrs /\ \A c \in Callback : shown[c] = {}
    <3>1. MetricsOf(msg) = {}
      BY <1>1, <1>6, <2>4, MetricsFound
    <3>2. ShownIsReference'
      BY <1>1, <1>2, <2>3, <2>4, <3>1 DEF ShownIsReference, TypeOK
    <3> QED
      BY <1>1, <2>1, <2>2, <2>3, <2>4, <3>2 DEF IInv, Stages
  <2>5. CASE /\ cb = "metrics_attr_cb" /\ MetricsOf(msg) = {attrs}
             /\ shown[msg.cb] = Reference(msg.cb, msg.attrs)
             /\ \A c \in Callback \ {msg.cb} : shown[c] = {}
    <3>1. ShownIsReference'
      BY <1>1, <1>2, <2>3, <2>5 DEF ShownIsReference, TypeOK
    <3> QED
      BY <1>1, <2>1, <2>2, <2>5, <3>1 DEF IInv, Stages
  <2> QED
    BY <1>1, <2>4, <2>5 DEF Stages
<1> QED
  BY <1>5, <1>6

LEMMA NextIInv == IInv /\ [Next]_vars => IInv'
<1>1. IInv /\ UNCHANGED vars => IInv'
  BY DEF vars, IInv, TypeOK, TableIsLast, Walk, Stages, ShownIsReference
<1> QED
  BY <1>1, ParseAttrStep, ParseEndsStep, DisplayStep DEF Next, Finished

\* IInv holds in every reachable state.
THEOREM Invariant == Spec => []IInv
BY InitIInv, NextIInv, PTL DEF Spec

\* The callbacks show the reference display of every message.
THEOREM ShowsReference == Spec => []ShownIsReference
<1>1. IInv => ShownIsReference
  BY DEF IInv, Stages, ShownIsReference
<1> QED
  BY <1>1, Invariant, PTL

\* The types of a route's attributes fall into separate groups.
LEMMA RouteTypes ==
    /\ RouteU32 \intersect RouteAddress = {}
    /\ RTA_METRICS \notin RouteU32 \union RouteAddress
BY DEF RouteU32, RouteAddress, RTA_DST, RTA_SRC, RTA_OIF, RTA_GATEWAY,
       RTA_PRIORITY, RTA_PREFSRC, RTA_METRICS, RTA_FLOW, RTA_TABLE

\* What a parse gets to see of a displayed type is as long as the display reads,
\* where its length was validated.
LEMMA SeenIsLongEnough ==
    ASSUME NEW c \in Callback, NEW s \in Seq(Attr) \union Seq(PlainAttr), NEW family,
           NEW x \in Reference(c, s), ~LeftToTheKernel(c, x[1])
    PROVE  ReadLen(c, family, s[x[2]]) <= s[x[2]].len
<1>0. DOMAIN s = 1..Len(s) /\ Len(s) \in Nat
  OBVIOUS
<1>1. PICK i \in Seen(c, s) : s[i].type \in Fields(c) /\ x = <<s[i].type, i>>
  BY DEF Reference
<1>2. i \in 1..Len(s) /\ ~Refuses(c, s[i])
  <2>1. i \in 1..Len(s) /\ \A j \in 1..i : ~Refuses(c, s[j])
    BY <1>0 DEF Seen
  <2>2. i \in 1..i
    BY <1>0, <2>1
  <2> QED
    BY <2>1, <2>2
<1>3. ~Skips(c, s[i])
  <2>1. AttrMax(c) \in Nat /\ s[i].type \in 0..AttrMax(c)
    BY <1>1, CallbackFacts
  <2>2. ~(s[i].type > AttrMax(c))
    BY <2>1
  <2> QED
    BY <2>2 DEF Skips
<1>4. Valid(RequiredType(c, s[i].type), s[i].len)
  BY <1>2, <1>3 DEF Refuses
<1>5. s[i].len \in Nat
  BY <1>2, AttrFacts
<1> DEFINE t == s[i].type
<1>6. ~LeftToTheKernel(c, t)
  BY <1>1
<1>7. ReadLen(c, family, s[i]) <= s[i].len
  <2>1. CASE c = "addr_attr_cb"
    BY <1>1, <1>6, <2>1 DEF LeftToTheKernel, Fields
  <2>2. CASE c = "link_attr_cb"
    <3>1. t \in {IFLA_MTU, IFLA_ADDRESS}
      BY <1>1, <1>6, <2>2 DEF LeftToTheKernel, Fields
    <3>2. CASE t = IFLA_MTU
      <4>1. RequiredType(c, t) = "U32"
        BY <2>2, <3>2 DEF RequiredType, IFLA_MTU, IFLA_IFNAME
      <4>2. ReadLen(c, family, s[i]) = 4
        BY <2>2, <3>2 DEF ReadLen
      <4>3. s[i].len = 4
        BY <1>4, <4>1 DEF Valid
      <4> QED
        BY <4>2, <4>3
    <3>3. CASE t = IFLA_ADDRESS
      BY <1>5, <2>2, <3>3 DEF ReadLen, IFLA_MTU, IFLA_IFNAME, IFLA_ADDRESS
    <3> QED
      BY <3>1, <3>2, <3>3
  <2>3. CASE c = "metrics_attr_cb"
    <3>1. RequiredType(c, t) = "U32"
      BY <2>3 DEF RequiredType
    <3>2. ReadLen(c, family, s[i]) = 4
      BY <2>3 DEF ReadLen
    <3>3. s[i].len = 4
      BY <1>4, <3>1 DEF Valid
    <3> QED
      BY <3>2, <3>3
  <2>4. CASE c = "ipv4_attr_cb"
    <3>1. RequiredType(c, t) = "U32"
      BY <1>1, <2>4, RouteTypes DEF Fields, RouteFields, RequiredType
    <3>2. ReadLen(c, family, s[i]) = 4
      BY <2>4 DEF ReadLen
    <3>3. s[i].len = 4
      BY <1>4, <3>1 DEF Valid
    <3> QED
      BY <3>2, <3>3
  <2>5. CASE c = "ipv6_attr_cb"
    <3>1. t \in RouteU32 \union RouteAddress
      BY <1>1, <2>5 DEF Fields, RouteFields
    <3>2. CASE t \in RouteU32
      <4>1. RequiredType(c, t) = "U32" /\ t \notin RouteAddress
        BY <2>5, <3>2, RouteTypes DEF RequiredType
      <4>2. ReadLen(c, family, s[i]) = 4
        BY <2>5, <4>1 DEF ReadLen
      <4>3. s[i].len = 4
        BY <1>4, <4>1 DEF Valid
      <4> QED
        BY <4>2, <4>3
    <3>3. CASE t \in RouteAddress
      <4>1. RequiredType(c, t) = "IN6"
        BY <2>5, <3>3, RouteTypes DEF RequiredType
      <4>2. ReadLen(c, family, s[i]) = 16
        BY <2>5, <3>3 DEF ReadLen
      <4>3. s[i].len = 16
        BY <1>4, <4>1 DEF Valid
      <4> QED
        BY <4>2, <4>3
    <3> QED
      BY <3>1, <3>2, <3>3
  <2> QED
    BY <2>1, <2>2, <2>3, <2>4, <2>5 DEF Callback
<1> QED
  BY <1>1, <1>7

LEMMA ReadsFollow == IInv => ValidatedReadsFit
<1> SUFFICES ASSUME IInv PROVE ValidatedReadsFit
  OBVIOUS
<1>1. TypeOK /\ Stages
  BY DEF IInv
<1>2. /\ msg.cb \in Callback /\ msg.cb # "metrics_attr_cb" /\ msg.attrs \in Seq(Attr)
      /\ "metrics_attr_cb" \in Callback
  BY <1>1, AttrParseAssumption DEF TypeOK, Callback
<1>3. ASSUME NEW x \in shown[msg.cb], ~LeftToTheKernel(msg.cb, x[1])
      PROVE  ReadLen(msg.cb, msg.family, msg.attrs[x[2]]) <= msg.attrs[x[2]].len
  <2>1. x \in Reference(msg.cb, msg.attrs)
    BY <1>1, <1>2, <1>3 DEF Stages, ShownIsReference
  <2> QED
    BY <1>2, <1>3, <2>1, SeenIsLongEnough
<1>4. ASSUME cb = "metrics_attr_cb", NEW x \in shown[cb]
      PROVE  ReadLen(cb, msg.family, attrs[x[2]]) <= attrs[x[2]].len
  <2>1. MetricsOf(msg) = {attrs} /\ pc = "done" /\ ShownIsReference
    BY <1>1, <1>2, <1>4 DEF Stages
  <2>2. x \in Reference(cb, attrs)
    BY <1>4, <2>1 DEF ShownIsReference
  <2>3. ~LeftToTheKernel(cb, x[1])
    BY <1>4 DEF LeftToTheKernel
  <2> QED
    BY <1>1, <1>2, <1>4, <2>2, <2>3, SeenIsLongEnough DEF TypeOK
<1> QED
  BY <1>3, <1>4 DEF ValidatedReadsFit

\* Whatever the kernel sends, no display reads past an attribute whose length
\* was validated.
THEOREM ReadsInBounds == Spec => []ValidatedReadsFit
BY Invariant, ReadsFollow, PTL

=============================================================================

-------------------------- MODULE ConfigureProofs --------------------------
(***************************************************************************)
(* Proofs about Configure for any processes, interfaces, addresses, routes *)
(* and command lines, and whatever an uninitialised variable may hold.     *)
(***************************************************************************)
EXTENDS Configure, TLAPS

\* Everything Stages(p) speaks of but named[p].
Local(p) == <<rx[p], cmd[p], pc[p], req[p], applied[p], moved[p]>>

LEMMA InitTypeOK == Init => TypeOK
<1> SUFFICES ASSUME Init PROVE TypeOK
  OBVIOUS
<1>1. route \subseteq Route
  BY ConfigureAssumption DEF Init, Lasting
<1>2. named \in [Proc -> SUBSET Iface]
  BY DEF Init, Bearers
<1>3. changes \in 0..MaxChanges
  BY ConfigureAssumption DEF Init
<1> QED
  BY <1>1, <1>2, <1>3 DEF Init, TypeOK, Answer

\* Every message a command line leads to is a request, and is built as Built
\* says from an interface that bears the name now.
LEMMA MessagesType ==
    ASSUME TypeOK, NEW p \in Proc, NEW r \in Messages(cmd[p])
    PROVE  r \in LinkRequest \union RouteRequest
<1> DEFINE c == cmd[p]
<1>1. c \in CommandLine
  BY ConfigureAssumption DEF TypeOK
<1>2. CASE c.op = "setlink"
  <2>1. r = LinkMessage(c)
    BY <1>2 DEF Messages
  <2>2. c.iface \in Name
    BY <1>1 DEF CommandLine
  <2>3. LinkMessage(c) \in LinkRequest
    BY <2>2 DEF LinkMessage, LinkFlags, LinkRequest, IfiChange, IffFlag, NlmFlag
  <2> QED
    BY <2>1, <2>3
<1>3. CASE c.op = "addiproute"
  <2>1. PICK i \in Iface, prefix \in ParsedPrefix(c) :
          /\ r = AddMessage(c, i, prefix)
          /\ c.dest \in Addr
          /\ c.gw # NoAddr => InetPton(AddrFamily[c.dest], c.gw)
    BY <1>3 DEF Messages
  <2>2. c.gw \in Addr \union {NoAddr}
    BY <2>1 DEF InetPton
  <2>3. prefix \in Nat
    BY <1>1, <2>1, ConfigureAssumption DEF ParsedPrefix, CommandLine, CidrText
  <2>4. RtmDstLen(prefix) \in 0..255
    BY <2>3 DEF RtmDstLen
  <2>5. i \in Nat
    BY ConfigureAssumption
  <2> QED
    BY <2>1, <2>2, <2>4, <2>5 DEF AddMessage, AddFlags, Gateway, RouteRequest, NlmFlag
<1>4. CASE c.op = "removeiproute"
  <2>1. r \in RemoveMessages(c)
    BY <1>4 DEF Messages
  <2>2. PICK d \in AddrGarbage, prefix \in PrefixGarbage, i \in IfaceGarbage,
             g \in IF c.gw = NoAddr THEN {NoAddr} ELSE AddrGarbage \union {NoAddr} :
          r = [type |-> "RTM_DELROUTE", nlmsg_flags |-> {"NLM_F_REQUEST", "NLM_F_ACK"},
               dst |-> d, dst_len |-> RtmDstLen(prefix), oif |-> i, gw |-> g,
               scope |-> "RT_SCOPE_UNIVERSE"]
    BY <2>1 DEF RemoveMessages
  <2>3. d \in Addr /\ i \in Nat /\ g \in Addr \union {NoAddr} /\ prefix \in Nat
    BY ConfigureAssumption
  <2>4. RtmDstLen(prefix) \in 0..255
    BY <2>3 DEF RtmDstLen
  <2> QED
    BY <2>2, <2>3, <2>4 DEF RouteRequest, NlmFlag
<1> QED
  BY <1>1, <1>2, <1>3, <1>4 DEF CommandLine

\* The route an accepted request asks for is a route.
LEMMA RequestedType ==
    ASSUME NEW r \in RouteRequest, Accepted(r), r.oif \in Iface
    PROVE  RequestedRoute(r) \in Route
<1>1. r.dst_len \in 0..128
  BY DEF Accepted, MaxLen, RouteRequest
<1>2. r.dst \in Addr
  BY DEF RouteRequest
<1>3. Masked \in [Addr -> [0..128 -> Addr]]
  BY ConfigureAssumption
<1>4. Destination(r) \in Addr
  BY <1>1, <1>2, <1>3 DEF Destination
<1> QED
  BY <1>1, <1>4 DEF RequestedRoute, Route, RouteRequest

LEMMA ReplyType ==
    ASSUME TypeOK, NEW p \in Proc, NEW ok, Reply(p, ok)
    PROVE  rx' \in [Proc -> Answer]
BY DEF TypeOK, Reply, Answer

LEMMA SendType ==
    ASSUME TypeOK, NEW p \in Proc, Send(p)
    PROVE  TypeOK'
<1>1. rx' \in [Proc -> Answer]
  BY ReplyType DEF Send, ChangeLink, InsertRoute, DeleteRoute, Decline, Carried
<1>2. applied' \in [Proc -> BOOLEAN]
  BY DEF TypeOK, Send, ChangeLink, InsertRoute, DeleteRoute, Decline, Carried
<1>3. pc' \in [Proc -> {"start", "open", "send", "recv", "success", "failure", "silent"}]
  BY DEF TypeOK, Send
<1>4. /\ flags' \in [Iface -> SUBSET IffFlag] /\ route' \subseteq Route
      /\ moved' \in [Proc -> SUBSET Route]
  <2>1. CASE ChangeLink(p)
    <3>1. PICK i \in Iface : flags' = [flags EXCEPT ![i] = MergedFlags(req[p], @)]
      BY <2>1 DEF ChangeLink
    <3>2. req[p] \in LinkRequest
      BY <2>1 DEF ChangeLink, TypeOK, RouteRequest, NoRequest
    <3>3. MergedFlags(req[p], flags[i]) \in SUBSET IffFlag
      BY <3>2 DEF TypeOK, MergedFlags, LinkRequest
    <3>4. route' \subseteq Route
      BY <2>1 DEF ChangeLink, Lasting, TypeOK
    <3> QED
      BY <2>1, <3>1, <3>3, <3>4 DEF ChangeLink, Carried, TypeOK
  <2>2. CASE InsertRoute(p)
    <3>1. req[p] \in RouteRequest
      BY <2>2 DEF InsertRoute, TypeOK, LinkRequest, NoRequest
    <3>2. RequestedRoute(req[p]) \in Route
      BY <2>2, <3>1, RequestedType DEF InsertRoute
    <3> QED
      BY <2>2, <3>2 DEF InsertRoute, Carried, TypeOK
  <2>3. CASE DeleteRoute(p)
    BY <2>3 DEF DeleteRoute, Matching, Carried, TypeOK
  <2>4. CASE Decline(p)
    BY <2>4 DEF Decline, TypeOK
  <2> QED
    BY <2>1, <2>2, <2>3, <2>4 DEF Send
<1> QED
  BY <1>1, <1>2, <1>3, <1>4 DEF TypeOK, Send

LEMMA ChangeType ==
    ASSUME TypeOK, NEW nm \in [Iface -> Name \union {NoName}],
           NEW fl \in [Iface -> SUBSET IffFlag], NEW rts \in SUBSET Route,
           ChangeKernel(nm, fl, rts)
    PROVE  TypeOK'
<1>1. changes' \in 0..MaxChanges
  BY ConfigureAssumption DEF TypeOK, ChangeKernel
<1>2. route' \subseteq Route
  BY DEF ChangeKernel, Lasting
<1>3. named' \in [Proc -> SUBSET Iface]
  BY DEF TypeOK, ChangeKernel, Bearers
<1> QED
  BY <1>1, <1>2, <1>3 DEF TypeOK, ChangeKernel

\* What other programs do is a change to well-formed tables.
LEMMA OtherProgramsChange ==
    ASSUME TypeOK, OtherPrograms
    PROVE  \E nm \in [Iface -> Name \union {NoName}], fl \in [Iface -> SUBSET IffFlag],
              rts \in SUBSET Route : ChangeKernel(nm, fl, rts)
<1>1. ASSUME NEW i \in Iface, NEW n \in Name, NameIface(i, n)
      PROVE  \E nm \in [Iface -> Name \union {NoName}] : ChangeKernel(nm, flags, route)
  BY <1>1 DEF NameIface, TypeOK
<1>2. ASSUME NEW i \in Iface, DelIface(i)
      PROVE  \E nm \in [Iface -> Name \union {NoName}], fl \in [Iface -> SUBSET IffFlag] :
                ChangeKernel(nm, fl, route)
  BY <1>2 DEF DelIface, TypeOK
<1>3. ASSUME NEW i \in Iface, NEW f \in SUBSET IffFlag, SetFlags(i, f)
      PROVE  \E fl \in [Iface -> SUBSET IffFlag] : ChangeKernel(name, fl, route)
  BY <1>3 DEF SetFlags, TypeOK
<1>4. ASSUME NEW r \in OtherRoute, AddRoute(r)
      PROVE  \E rts \in SUBSET Route : ChangeKernel(name, flags, rts)
  BY <1>4, ConfigureAssumption DEF AddRoute, TypeOK
<1>5. ASSUME NEW r \in route, DelRoute(r)
      PROVE  \E rts \in SUBSET Route : ChangeKernel(name, flags, rts)
  BY <1>5 DEF DelRoute, TypeOK
<1> QED
  BY <1>1, <1>2, <1>3, <1>4, <1>5 DEF OtherPrograms, TypeOK

LEMMA NextTypeOK == TypeOK /\ [Next]_vars => TypeOK'
<1> SUFFICES ASSUME TypeOK, [Next]_vars PROVE TypeOK'
  OBVIOUS
<1>1. ASSUME NEW p \in Proc, Prepare(p) PROVE TypeOK'
  <2>1. req' \in [Proc -> LinkRequest \union RouteRequest \union {NoRequest}]
    BY <1>1, MessagesType DEF Prepare, TypeOK
  <2> QED
    BY <1>1, <2>1 DEF Prepare, TypeOK, kernel, history
<1>2. ASSUME NEW p \in Proc, PrepareFails(p) \/ SendFails(p) \/ RecvFails(p) PROVE TypeOK'
  BY <1>2 DEF PrepareFails, SendFails, RecvFails, TypeOK, kernel, history
<1>3. ASSUME NEW p \in Proc, Open(p) PROVE TypeOK'
  BY <1>3 DEF Open, TypeOK, kernel, history
<1>4. ASSUME NEW p \in Proc, Send(p) PROVE TypeOK'
  BY <1>4, SendType
<1>5. ASSUME NEW p \in Proc, Recv(p) PROVE TypeOK'
  <2>1. Outcome(cmd[p].op, CbReturn(rx[p])) \in {"success", "failure", "silent"}
    BY DEF Outcome
  <2> QED
    BY <1>5, <2>1 DEF Recv, TypeOK, kernel, history
<1>6. ASSUME OtherPrograms PROVE TypeOK'
  BY <1>6, OtherProgramsChange, ChangeType
<1>7. CASE UNCHANGED vars
  BY <1>7 DEF TypeOK, vars, kernel, history
<1> QED
  BY <1>1, <1>2, <1>3, <1>4, <1>5, <1>6, <1>7 DEF Next, Process, Finished

\* Every variable of Configure keeps its type.
THEOREM TypeCorrect == Spec => []TypeOK
BY InitTypeOK, NextTypeOK, PTL DEF Spec

-----------------------------------------------------------------------------
(* IInv is inductive. *)

LEMMA InitIInv == Init => IInv
<1> SUFFICES ASSUME Init PROVE IInv
  OBVIOUS
<1>1. route = Lasting(route, name, flags)
  BY DEF Init, Lasting
<1>2. ASSUME NEW p \in Proc PROVE Stages(p) /\ Remembered(p)
  BY DEF Init, Stages, Remembered
<1> QED
  BY <1>1, <1>2, InitTypeOK DEF IInv

\* Stages(p) speaks of p alone, and only gains when more interfaces are named.
LEMMA StagesFrame ==
    ASSUME TypeOK, NEW p \in Proc, Stages(p), UNCHANGED Local(p),
           named[p] \subseteq named'[p]
    PROVE  Stages(p)'
<1>1. Built(p) => Built(p)'
  <2>1. cmd'[p] = cmd[p] /\ req'[p] = req[p]
    BY DEF Local
  <2>2. cmd[p].op \in {"setlink", "addiproute", "removeiproute"}
    BY ConfigureAssumption DEF TypeOK, CommandLine
  <2>3. CASE cmd[p].op = "setlink"
    BY <2>1, <2>3 DEF Built
  <2>4. CASE cmd[p].op = "addiproute"
    BY <2>1, <2>4 DEF Built
  <2>5. CASE cmd[p].op = "removeiproute"
    BY <2>1, <2>5 DEF Built
  <2> QED
    BY <2>2, <2>3, <2>4, <2>5
<1> QED
  BY <1>1 DEF Local, Stages

\* Building a request from the command line.
LEMMA PrepareStep ==
    ASSUME IInv, NEW p \in Proc, Prepare(p)
    PROVE  Stages(p)'
<1>1. TypeOK /\ Stages(p) /\ Remembered(p)
  BY DEF IInv
<1>2. PICK r \in Messages(cmd[p]) : req' = [req EXCEPT ![p] = r]
  BY DEF Prepare
<1>3. /\ pc[p] = "start" /\ pc'[p] = "open" /\ req'[p] = r /\ rx' = rx /\ cmd' = cmd
      /\ applied' = applied /\ moved' = moved /\ named' = named
  BY <1>1, <1>2 DEF Prepare, TypeOK, history
<1>4. Built(p)'
  <2> DEFINE c == cmd[p]
  <2>1. c \in CommandLine
    BY <1>1, ConfigureAssumption DEF TypeOK
  <2>2. CASE c.op = "setlink"
    BY <1>2, <1>3, <2>2 DEF Messages, Built
  <2>3. CASE c.op = "addiproute"
    <3>1. PICK i \in Iface, prefix \in ParsedPrefix(c) :
            /\ name[i] = c.iface
            /\ r = AddMessage(c, i, prefix)
            /\ c.dest \in Addr
            /\ c.gw # NoAddr => InetPton(AddrFamily[c.dest], c.gw)
      BY <1>2, <2>3 DEF Messages
    <3>2. i \in named[p]
      BY <1>1, <3>1 DEF Remembered, Bearers
    <3> QED
      BY <1>3, <2>3, <3>1, <3>2 DEF Built
  <2>4. CASE c.op = "removeiproute"
    BY <1>2, <1>3, <2>4 DEF Messages, Built
  <2> QED
    BY <2>1, <2>2, <2>3, <2>4 DEF CommandLine
<1> QED
  BY <1>1, <1>3, <1>4 DEF Stages

\* Sending it: the kernel carries it out or does not, and answers.
LEMMA SendStep ==
    ASSUME IInv, NEW p \in Proc, Send(p)
    PROVE  Stages(p)'
<1>1. TypeOK /\ Stages(p)
  BY DEF IInv
<1>2. /\ pc[p] = "send" /\ pc'[p] = "recv" /\ cmd' = cmd /\ req' = req /\ named' = named
      /\ rx[p] = "none" /\ ~applied[p] /\ Built(p)
  BY <1>1 DEF Send, TypeOK, Stages
<1>3. Built(p)'
  BY <1>2 DEF Built
<1>4. /\ {"NLM_F_REQUEST", "NLM_F_ACK"} \subseteq req[p].nlmsg_flags
      /\ cmd[p].op = "addiproute" => req[p].type = "RTM_NEWROUTE"
  <2>1. cmd[p] \in CommandLine
    BY <1>1, ConfigureAssumption DEF TypeOK
  <2>2. CASE cmd[p].op = "setlink"
    BY <1>2, <2>2 DEF Built, LinkMessage, LinkFlags
  <2>3. CASE cmd[p].op = "addiproute"
    <3>1. PICK i, n : req[p] = AddMessage(cmd[p], i, n)
      BY <1>2, <2>3 DEF Built
    <3> QED
      BY <3>1 DEF AddMessage, AddFlags
  <2>4. CASE cmd[p].op = "removeiproute"
    <3>1. req[p] \in RemoveMessages(cmd[p])
      BY <1>2, <2>4 DEF Built
    <3>2. ASSUME NEW r \in RemoveMessages(cmd[p])
          PROVE  r.nlmsg_flags = {"NLM_F_REQUEST", "NLM_F_ACK"}
      BY <3>2 DEF RemoveMessages
    <3> QED
      BY <2>4, <3>1, <3>2
  <2> QED
    BY <2>1, <2>2, <2>3, <2>4 DEF CommandLine
<1>5. CASE Decline(p)
  <2>1. rx'[p] \in {"error", "lost"}
    BY <1>1, <1>4, <1>5 DEF Decline, Reply, TypeOK
  <2> QED
    BY <1>2, <1>3, <1>5, <2>1 DEF Decline, Stages
<1>6. ASSUME NEW m, Carried(p, m) PROVE applied'[p] /\ moved'[p] = m /\ rx'[p] \in {"ack", "lost"}
  BY <1>1, <1>4, <1>6 DEF Carried, Reply, TypeOK
<1>7. CASE ChangeLink(p) \/ DeleteRoute(p)
  <2>1. PICK m : Carried(p, m)
    BY <1>7 DEF ChangeLink, DeleteRoute
  <2>2. cmd[p].op # "addiproute"
    BY <1>4, <1>7 DEF ChangeLink, DeleteRoute
  <2> QED
    BY <1>2, <1>3, <1>6, <2>1, <2>2 DEF Stages
<1>8. CASE InsertRoute(p)
  <2>1. Carried(p, {RequestedRoute(req[p])}) /\ Accepted(req[p])
    BY <1>8 DEF InsertRoute
  <2> QED
    BY <1>2, <1>3, <1>6, <2>1 DEF Stages
<1> QED
  BY <1>5, <1>7, <1>8 DEF Send

\* Receiving the answer and reporting it.
LEMMA RecvStep ==
    ASSUME IInv, NEW p \in Proc, Recv(p)
    PROVE  Stages(p)'
<1>1. TypeOK /\ Stages(p)
  BY DEF IInv
<1>2. /\ pc[p] = "recv" /\ rx[p] \in {"ack", "error"}
      /\ pc'[p] = Outcome(cmd[p].op, CbReturn(rx[p]))
      /\ rx' = rx /\ cmd' = cmd /\ req' = req /\ applied' = applied
      /\ moved' = moved /\ named' = named
  BY <1>1 DEF Recv, TypeOK, history
<1>3. Built(p)'
  BY <1>1, <1>2 DEF Stages, Built
<1>4. pc'[p] = IF rx[p] = "ack" THEN "success" ELSE "failure"
  BY <1>2 DEF Outcome, Fails, CbReturn, MNL_CB_STOP, MNL_CB_ERROR
<1> QED
  BY <1>1, <1>2, <1>3, <1>4 DEF Stages

\* Opening, and every way of giving up.
LEMMA OtherSteps ==
    ASSUME IInv, NEW p \in Proc,
           PrepareFails(p) \/ Open(p) \/ SendFails(p) \/ RecvFails(p)
    PROVE  Stages(p)'
<1>1. TypeOK /\ Stages(p)
  BY DEF IInv
<1>2. /\ rx' = rx /\ cmd' = cmd /\ req' = req /\ applied' = applied
      /\ moved' = moved /\ named' = named
      /\ \/ pc'[p] = "failure" /\ rx[p] # "ack"
         \/ pc[p] = "open" /\ pc'[p] = "send"
  BY <1>1 DEF PrepareFails, Open, SendFails, RecvFails, TypeOK, Stages, history
<1>3. Built(p) => Built(p)'
  BY <1>2 DEF Built
<1> QED
  BY <1>1, <1>2, <1>3 DEF Stages

\* The other processes' part: a step of p leaves theirs alone, and the names.
LEMMA ProcessFrame ==
    ASSUME TypeOK, NEW p \in Proc, Process(p)
    PROVE  /\ name' = name /\ named' = named /\ cmd' = cmd
           /\ \A q \in Proc \ {p} : UNCHANGED Local(q)
<1> USE DEF Local, TypeOK, kernel, history
<1>1. CASE Send(p)
  <2>1. /\ name' = name /\ named' = named /\ cmd' = cmd /\ req' = req
        /\ \A q \in Proc \ {p} : pc'[q] = pc[q]
    BY <1>1 DEF Send
  <2>2. /\ \A q \in Proc \ {p} : rx'[q] = rx[q]
        /\ \A q \in Proc \ {p} : applied'[q] = applied[q]
        /\ \A q \in Proc \ {p} : moved'[q] = moved[q]
    BY <1>1 DEF Send, ChangeLink, InsertRoute, DeleteRoute, Decline, Carried, Reply
  <2> QED
    BY <2>1, <2>2
<1>2. CASE Prepare(p) \/ PrepareFails(p) \/ Open(p) \/ SendFails(p) \/ Recv(p) \/ RecvFails(p)
  BY <1>2 DEF Prepare, PrepareFails, Open, SendFails, Recv, RecvFails
<1> QED
  BY <1>1, <1>2 DEF Process

\* Routes stay on interfaces that exist and are up.
LEMMA LastingStep ==
    ASSUME IInv, [Next]_vars
    PROVE  (route = Lasting(route, name, flags))'
<1>1. TypeOK /\ route = Lasting(route, name, flags)
  BY DEF IInv
<1>2. ASSUME NEW p \in Proc, Send(p) PROVE (route = Lasting(route, name, flags))'
  <2>1. name' = name
    BY <1>2 DEF Send
  <2>2. CASE ChangeLink(p)
    BY <2>1, <2>2 DEF ChangeLink, Lasting
  <2>3. CASE InsertRoute(p)
    <3>1. /\ route' = route \union {RequestedRoute(req[p])} /\ flags' = flags
          /\ RequestedRoute(req[p]).dev = req[p].oif
          /\ name[req[p].oif] # NoName /\ IFF_UP \in flags[req[p].oif]
      BY <2>3 DEF InsertRoute, RequestedRoute
    <3> QED
      BY <1>1, <2>1, <3>1 DEF Lasting
  <2>4. CASE DeleteRoute(p) \/ Decline(p)
    BY <1>1, <2>1, <2>4 DEF DeleteRoute, Decline, Lasting
  <2> QED
    BY <1>2, <2>2, <2>3, <2>4 DEF Send
<1>3. ASSUME NEW p \in Proc, Process(p), ~Send(p) PROVE UNCHANGED <<name, flags, route>>
  BY <1>3 DEF Process, Prepare, PrepareFails, Open, SendFails, Recv, RecvFails, kernel
<1>4. ASSUME OtherPrograms PROVE (route = Lasting(route, name, flags))'
  <2>1. PICK nm, fl, rts : ChangeKernel(nm, fl, rts)
    BY <1>1, <1>4, OtherProgramsChange
  <2> QED
    BY <2>1 DEF ChangeKernel, Lasting
<1>5. ASSUME UNCHANGED <<name, flags, route>> PROVE (route = Lasting(route, name, flags))'
  BY <1>1, <1>5
<1> QED
  BY <1>2, <1>3, <1>4, <1>5 DEF Next, Finished, vars, kernel

LEMMA NextIInv == IInv /\ [Next]_vars => IInv'
<1> SUFFICES ASSUME IInv, [Next]_vars, NEW q \in Proc PROVE Stages(q)' /\ Remembered(q)'
  BY NextTypeOK, LastingStep DEF IInv
<1>1. TypeOK /\ Stages(q) /\ Remembered(q)
  BY DEF IInv
<1>2. ASSUME NEW p \in Proc, Process(p) PROVE Stages(q)' /\ Remembered(q)'
  <2>1. Remembered(q)'
    BY <1>1, <1>2, ProcessFrame DEF Remembered, Bearers
  <2>2. CASE p = q
    BY <1>2, <2>1, <2>2, PrepareStep, SendStep, RecvStep, OtherSteps DEF Process
  <2>3. CASE p # q
    <3>1. UNCHANGED Local(q) /\ named' = named
      BY <1>1, <1>2, <2>3, ProcessFrame
    <3> QED
      BY <1>1, <2>1, <3>1, StagesFrame
  <2> QED
    BY <2>2, <2>3
<1>3. ASSUME OtherPrograms PROVE Stages(q)' /\ Remembered(q)'
  <2>1. PICK nm, fl, rts : ChangeKernel(nm, fl, rts)
    BY <1>1, <1>3, OtherProgramsChange
  <2>2. UNCHANGED Local(q)
    BY <2>1 DEF ChangeKernel, Local
  <2>3. named'[q] = named[q] \union Bearers(name', q) /\ cmd' = cmd
    BY <2>1 DEF ChangeKernel, Bearers
  <2> QED
    BY <1>1, <2>2, <2>3, StagesFrame DEF Remembered, Bearers
<1>4. CASE UNCHANGED vars
  BY <1>1, <1>4, StagesFrame DEF vars, kernel, history, Local, Remembered, Bearers
<1> QED
  BY <1>2, <1>3, <1>4 DEF Next, Finished

\* IInv holds in every reachable state.
THEOREM Invariant == Spec => []IInv
BY InitIInv, NextIInv, PTL DEF Spec

-----------------------------------------------------------------------------
(* What follows from IInv. *)

LEMMA ReportsOutcome == IInv => ExitReportsOutcome /\ NeverStuckInRecv
<1> SUFFICES ASSUME IInv, NEW p \in Proc
    PROVE  /\ pc[p] = "success" => applied[p]
           /\ pc[p] = "failure" /\ applied[p] => rx[p] = "lost"
           /\ pc[p] # "silent"
           /\ pc[p] = "recv" => rx[p] # "none"
  BY DEF ExitReportsOutcome, NeverStuckInRecv
<1> QED
  BY DEF IInv, Stages

LEMMA AddsAsked == IInv => AddsTheRouteAsked
<1> SUFFICES ASSUME IInv, NEW p \in Proc,
                    pc[p] = "success", cmd[p].op = "addiproute",
                    cmd[p].cidr.kind = "number", cmd[p].cidr.n <= 255
    PROVE  \E r \in moved[p] :
              /\ moved[p] = {r}
              /\ r.plen = cmd[p].cidr.n /\ r.dst = Masked[cmd[p].dest][cmd[p].cidr.n]
              /\ r.gw = cmd[p].gw /\ r.dev \in named[p]
  BY DEF AddsTheRouteAsked
<1> DEFINE c == cmd[p]
<1>1. TypeOK /\ Stages(p)
  BY DEF IInv
<1>2. applied[p] /\ Built(p) /\ moved[p] = {RequestedRoute(req[p])}
  BY <1>1 DEF Stages
<1>3. PICK i \in named[p], n \in ParsedPrefix(c) : req[p] = AddMessage(c, i, n)
  BY <1>2 DEF Built
<1>4. n = c.cidr.n
  BY <1>3 DEF ParsedPrefix
<1>5. c.cidr.n \in Nat
  BY <1>1, ConfigureAssumption DEF TypeOK, CommandLine, CidrText
<1>6. RtmDstLen(n) = c.cidr.n
  BY <1>4, <1>5 DEF RtmDstLen
<1>7. /\ req[p].dst_len = c.cidr.n /\ req[p].dst = c.dest
      /\ req[p].gw = c.gw /\ req[p].oif = i
  BY <1>3, <1>6 DEF AddMessage, Gateway
<1>8. LET r == RequestedRoute(req[p])
      IN  /\ r.plen = c.cidr.n /\ r.dst = Masked[c.dest][c.cidr.n]
          /\ r.gw = c.gw /\ r.dev = i
  BY <1>7 DEF RequestedRoute, Destination
<1> QED
  BY <1>2, <1>3, <1>8

\* SUCCESS is printed only for what the kernel carried out, and a failure
\* hides a change only when the answer was lost.
THEOREM OutcomeReported == Spec => []ExitReportsOutcome
BY Invariant, ReportsOutcome, PTL

\* No command waits in recvfrom for an answer that will not come.
THEOREM NoLostAnswer == Spec => []NeverStuckInRecv
BY Invariant, ReportsOutcome, PTL

\* A successful addiproute added the route of its command line, and no other.
THEOREM AddedAsAsked == Spec => []AddsTheRouteAsked
BY Invariant, AddsAsked, PTL

\* setlink's message: the flags of one interface change in IFF_UP alone.
LEMMA LinkChange ==
    ASSUME IInv, NEW p \in Proc, Built(p), ChangeLink(p), name' = name, cmd' = cmd
    PROVE  Atomic!SetLink(p)
<1> DEFINE c == cmd[p]
<1>1. TypeOK /\ route = Lasting(route, name, flags)
  BY DEF IInv
<1>2. req[p].type = "RTM_NEWLINK"
  BY DEF ChangeLink
<1>3. c \in CommandLine
  BY <1>1, ConfigureAssumption DEF TypeOK
<1>4. c.op = "setlink" /\ c.state \in {"up", "down"} /\ req[p] = LinkMessage(c)
  <2>1. ASSUME c.op = "addiproute" PROVE FALSE
    <3>1. PICK i, n : req[p] = AddMessage(c, i, n)
      BY <2>1 DEF Built
    <3> QED
      BY <1>2, <3>1 DEF AddMessage
  <2>2. ASSUME c.op = "removeiproute" PROVE FALSE
    <3>1. req[p] \in RemoveMessages(c)
      BY <2>2 DEF Built
    <3>2. ASSUME NEW r \in RemoveMessages(c) PROVE r.type = "RTM_DELROUTE"
      BY <3>2 DEF RemoveMessages
    <3> QED
      BY <1>2, <3>1, <3>2
  <2>3. c.op = "setlink"
    BY <1>3, <2>1, <2>2 DEF CommandLine
  <2> QED
    BY <2>3 DEF Built
<1>5. PICK i \in Iface :
        name[i] = c.iface /\ flags' = [flags EXCEPT ![i] = MergedFlags(req[p], @)]
  <2>1. req[p].ifname = c.iface
    BY <1>4 DEF LinkMessage
  <2> QED
    BY <2>1 DEF ChangeLink
<1>6. MergedFlags(req[p], flags[i]) =
        IF c.state = "up" THEN flags[i] \union {IFF_UP} ELSE flags[i] \ {IFF_UP}
  BY <1>4 DEF MergedFlags, LinkMessage, IfiChange
<1>7. route' = Lasting(route, name, flags')
  BY DEF ChangeLink
<1>8. \A r \in route : r.dev \in Iface /\ name[r.dev] # NoName /\ IFF_UP \in flags[r.dev]
  BY <1>1 DEF TypeOK, Route, Lasting
<1>9. route' = IF c.state = "up" THEN route ELSE {r \in route : r.dev # i}
  <2>1. flags' \in [Iface -> SUBSET (IffFlag \union {IFF_UP})] /\ flags'[i] = MergedFlags(req[p], flags[i])
        /\ \A j \in Iface : j # i => flags'[j] = flags[j]
    BY <1>1, <1>5, <1>6 DEF TypeOK
  <2> QED
    BY <1>4, <1>6, <1>7, <1>8, <2>1 DEF Lasting
<1> QED
  BY <1>4, <1>5, <1>6, <1>9 DEF Atomic!SetLink, Atomic!Bearing, IFF_UP

\* The route an accepted request of addIpRoute asks for is one that is meant.
LEMMA MeansRequested ==
    ASSUME TypeOK, NEW p \in Proc, NEW i \in named[p], NEW n \in ParsedPrefix(cmd[p]),
           cmd[p] \in CommandLine, cmd[p].dest \in Addr,
           req[p] = AddMessage(cmd[p], i, n), req[p] \in RouteRequest, InsertRoute(p)
    PROVE  RequestedRoute(req[p]) \in Atomic!RoutesMeant(p)
<1> DEFINE c == cmd[p]
           r == RequestedRoute(req[p])
<1>1. /\ req[p].dst = c.dest /\ req[p].dst_len = RtmDstLen(n) /\ req[p].oif = i /\ req[p].gw = c.gw
      /\ req[p].scope = IF c.gw = NoAddr THEN "RT_SCOPE_LINK" ELSE "RT_SCOPE_UNIVERSE"
  BY DEF AddMessage, Gateway
<1>2. /\ r.dst = Masked[c.dest][r.plen] /\ r.plen = RtmDstLen(n) /\ r.dev = i /\ r.gw = c.gw
      /\ r.proto = "RTPROT_STATIC"
      /\ r.scope = IF AddrFamily[c.dest] = AF_INET THEN req[p].scope ELSE "RT_SCOPE_UNIVERSE"
  BY <1>1 DEF RequestedRoute, Destination
<1>3. r \in Route
  BY RequestedType DEF InsertRoute
<1>4. r.plen \in Atomic!Prefixes(c.dest)
  <2>1. r.plen <= MaxLen(c.dest) /\ r.plen \in 0..128
    BY <1>1, <1>2, <1>3 DEF InsertRoute, Accepted, Route
  <2> QED
    BY <2>1 DEF MaxLen, Atomic!Prefixes, AF_INET
<1>5. c.cidr.kind = "number" /\ c.cidr.n <= 255 => r.plen = c.cidr.n
  <2> SUFFICES ASSUME c.cidr.kind = "number", c.cidr.n <= 255 PROVE r.plen = c.cidr.n
    OBVIOUS
  <2>1. n = c.cidr.n /\ c.cidr.n \in Nat
    BY DEF ParsedPrefix, CommandLine, CidrText
  <2> QED
    BY <1>2, <2>1 DEF RtmDstLen
<1>6. r \in [dst : Addr, plen : 0..128, dev : named[p], gw : {c.gw},
            scope : {"RT_SCOPE_LINK", "RT_SCOPE_UNIVERSE"}, proto : {"RTPROT_STATIC"}]
  BY <1>1, <1>2, <1>3 DEF RequestedRoute, Route
<1> QED
  BY <1>1, <1>2, <1>4, <1>5, <1>6 DEF Atomic!RoutesMeant, AF_INET

LEMMA RouteChange ==
    ASSUME IInv, NEW p \in Proc, Built(p), InsertRoute(p) \/ DeleteRoute(p), cmd' = cmd
    PROVE  Atomic!AddRoute(p) \/ Atomic!RemoveRoute(p)
<1> DEFINE c == cmd[p]
<1>1. TypeOK
  BY DEF IInv
<1>2. c \in CommandLine
  BY <1>1, ConfigureAssumption DEF TypeOK
<1>3. flags' = flags /\ req[p].type \in {"RTM_NEWROUTE", "RTM_DELROUTE"}
  BY DEF InsertRoute, DeleteRoute
<1>4. CASE c.op = "setlink"
  BY <1>3, <1>4 DEF Built, LinkMessage
<1>5. CASE c.op = "addiproute"
  <2>1. PICK i \in named[p], n \in ParsedPrefix(c) : req[p] = AddMessage(c, i, n)
    BY <1>5 DEF Built
  <2>2. InsertRoute(p) /\ c.dest \in Addr /\ (c.gw # NoAddr => InetPton(AddrFamily[c.dest], c.gw))
    BY <1>5, <2>1 DEF AddMessage, DeleteRoute, Built
  <2>3. req[p] \in RouteRequest
    BY <1>1, <1>3 DEF TypeOK, LinkRequest, NoRequest
  <2>4. RequestedRoute(req[p]) \in Atomic!RoutesMeant(p)
    BY <1>1, <1>2, <2>1, <2>2, <2>3, MeansRequested
  <2>5. c.cidr.kind # "word"
    BY <2>1 DEF ParsedPrefix
  <2>6. c.gw # NoAddr => c.gw \in Addr /\ AddrFamily[c.gw] = AddrFamily[c.dest]
    BY <2>2 DEF InetPton
  <2>7. \E r \in Atomic!RoutesMeant(p) : r \notin route /\ route' = route \union {r}
    BY <2>2, <2>4 DEF InsertRoute
  <2> QED
    BY <1>3, <1>5, <2>2, <2>5, <2>6, <2>7 DEF Atomic!AddRoute
<1>6. CASE c.op = "removeiproute"
  <2>1. req[p] \in RemoveMessages(c)
    BY <1>6 DEF Built
  <2>2. ASSUME NEW r \in RemoveMessages(c)
        PROVE  /\ r.type = "RTM_DELROUTE" /\ r.scope = "RT_SCOPE_UNIVERSE"
               /\ r.dst \in AddrGarbage
    BY <2>2 DEF RemoveMessages
  <2>3. DeleteRoute(p)
    BY <2>1, <2>2 DEF InsertRoute
  <2>4. PICK x \in Matching(req[p]) : route' = route \ {x}
    BY <2>3 DEF DeleteRoute
  <2>5. x \in route /\ x.proto = "RTPROT_STATIC" /\ x.scope = "RT_SCOPE_UNIVERSE"
        /\ x.dst \in AddrGarbage
    BY <2>1, <2>2, <2>4 DEF Matching
  <2>6. AddrFamily[x.dst] = AF_INET
    BY <2>5, ConfigureAssumption
  <2> QED
    BY <1>3, <1>6, <2>4, <2>5, <2>6 DEF Atomic!RemoveRoute, AF_INET
<1> QED
  BY <1>2, <1>4, <1>5, <1>6 DEF CommandLine

LEMMA CarriedAsAsked ==
    ASSUME IInv, NEW p \in Proc, Send(p), ~Decline(p)
    PROVE  Atomic!Asked(p)
<1>1. Built(p) /\ cmd' = cmd /\ name' = name
  BY DEF IInv, Send, Stages
<1> QED
  BY <1>1, LinkChange, RouteChange DEF Send, Atomic!Asked

\* A command changes the kernel in one step, and by what it was asked for alone.
THEOREM ChangedAsAsked == Spec => OnlyTheAskedChange
<1>1. ASSUME IInv, [Next]_vars, NEW p \in Proc, ~applied[p], applied'[p]
      PROVE  Atomic!Asked(p)
  <2>1. TypeOK /\ applied' # applied
    BY <1>1 DEF IInv
  <2>2. ~OtherPrograms
    <3>1. ASSUME NEW nm, NEW fl, NEW rts, ChangeKernel(nm, fl, rts) PROVE applied' = applied
      BY <3>1 DEF ChangeKernel
    <3> QED
      BY <2>1, <3>1, OtherProgramsChange
  <2>3. PICK q \in Proc : Process(q)
    BY <1>1, <2>1, <2>2 DEF Next, Finished, vars, history
  <2>4. q = p
    BY <1>1, <2>1, <2>3, ProcessFrame DEF Local
  <2>5. Send(p)
    BY <2>1, <2>3, <2>4 DEF Process, Prepare, PrepareFails, Open, SendFails, Recv, RecvFails, history
  <2>6. ~Decline(p)
    BY <2>1 DEF Decline
  <2> QED
    BY <1>1, <2>5, <2>6, CarriedAsAsked
<1>2. IInv /\ [Next]_vars =>
        [\A p \in Proc : ~applied[p] /\ applied'[p] => Atomic!Asked(p)]_vars
  BY <1>1
<1> QED
  BY <1>2, Invariant, PTL DEF Spec, OnlyTheAskedChange

-----------------------------------------------------------------------------
(* The commands are atomic changes. *)

\* What a process is to the promise hangs on its own part of the state.
LEMMA PhaseFrame ==
    ASSUME NEW p, UNCHANGED <<pc[p], applied[p], rx[p]>>
    PROVE  Phase(p)' = Phase(p)
BY DEF Phase, Exited

\* The phase of p moves, and the others' stay.
LEMMA PhaseMoves ==
    ASSUME TypeOK, NEW p \in Proc, Process(p)
    PROVE  [q \in Proc |-> Phase(q)]' = [[q \in Proc |-> Phase(q)] EXCEPT ![p] = Phase(p)']
<1>1. \A q \in Proc \ {p} : Phase(q)' = Phase(q)
  BY ProcessFrame, PhaseFrame DEF Local
<1> QED
  BY <1>1

LEMMA InitRefines == Init => Atomic!Init
<1> SUFFICES ASSUME Init PROVE Atomic!Init
  OBVIOUS
<1>1. \A p \in Proc : Phase(p) = "asked"
  BY DEF Init, Phase, Exited
<1>2. \A p \in Proc : Bearers(name, p) = Atomic!Bearing(p)
  BY DEF Bearers, Atomic!Bearing
<1> QED
  BY <1>1, <1>2 DEF Init, Atomic!Init

\* A step that leaves the kernel alone keeps the phase of its process or
\* reports what was made.
LEMMA StaysOrReports ==
    ASSUME TypeOK, NEW p \in Proc, Process(p), Stages(p), Stages(p)', applied' = applied
    PROVE  \/ Phase(p)' = Phase(p)
           \/ Phase(p) = "made" /\ Phase(p)' = "success"
           \/ Phase(p) \in {"asked", "unheard"} /\ Phase(p)' = "failure"
<1>1. CASE Prepare(p) \/ Open(p) \/ PrepareFails(p) \/ SendFails(p)
  <2>1. /\ pc[p] \in {"start", "open", "send"} /\ pc'[p] \in {"open", "send", "failure"}
        /\ rx' = rx
    BY <1>1 DEF Prepare, Open, PrepareFails, SendFails, TypeOK, kernel
  <2> QED
    BY <2>1 DEF Phase, Exited, Stages
<1>2. CASE Send(p)
  <2>1. pc[p] = "send" /\ pc'[p] = "recv" /\ ~applied[p]
    BY <1>2 DEF Send, TypeOK, Stages
  <2> QED
    BY <2>1 DEF Phase, Exited
<1>3. CASE Recv(p) \/ RecvFails(p)
  <2>1. /\ pc[p] = "recv" /\ rx'[p] = rx[p]
        /\ pc'[p] = IF rx[p] = "ack" THEN "success" ELSE "failure"
    BY <1>3 DEF Recv, RecvFails, TypeOK, Outcome, Fails, CbReturn, MNL_CB_STOP, MNL_CB_ERROR
  <2>2. rx[p] \in {"ack", "error", "lost"}
    BY <1>3 DEF Recv, RecvFails
  <2> QED
    BY <2>1, <2>2 DEF Phase, Exited, Stages
<1> QED
  BY <1>1, <1>2, <1>3 DEF Process

\* What the steps of a process come to.
LEMMA ProcessRefines ==
    ASSUME IInv, NEW p \in Proc, Process(p)
    PROVE  [Atomic!Next]_Atomic!atomic
<1> DEFINE phase == [q \in Proc |-> Phase(q)]
<1>1. TypeOK /\ Stages(p) /\ Stages(p)'
  BY PrepareStep, SendStep, RecvStep, OtherSteps DEF IInv, Process
<1>2. name' = name /\ changes' = changes /\ cmd' = cmd /\ named' = named
  <2>1. changes' = changes
    BY DEF Process, Prepare, PrepareFails, Open, Send, SendFails, Recv, RecvFails, kernel
  <2> QED
    BY <1>1, <2>1, ProcessFrame
<1>3. phase' = [phase EXCEPT ![p] = Phase(p)'] /\ phase[p] = Phase(p)
  BY <1>1, PhaseMoves
<1>4. CASE Send(p) /\ ~Decline(p)
  <2>1. Phase(p) = "asked" /\ Phase(p)' \in {"made", "unheard"}
    <3>1. pc[p] = "send" /\ pc'[p] = "recv" /\ applied'[p]
      BY <1>1, <1>4 DEF Send, ChangeLink, InsertRoute, DeleteRoute, Carried, TypeOK
    <3> QED
      BY <1>1, <3>1 DEF Phase, Exited, Stages
  <2>2. Atomic!Asked(p)
    BY <1>4, CarriedAsAsked
  <2>3. Atomic!Make(p)
    BY <1>2, <1>3, <2>1, <2>2 DEF Atomic!Make
  <2> QED
    BY <2>3 DEF Atomic!Next
<1>5. CASE ~Send(p) \/ Decline(p)
  <2>1. flags' = flags /\ route' = route /\ applied' = applied
    BY <1>5 DEF Process, Prepare, PrepareFails, Open, Send, Decline, SendFails, Recv, RecvFails,
                kernel, history
  <2>2. CASE Phase(p)' = Phase(p)
    <3>1. phase' = phase
      BY <1>3, <2>2
    <3> QED
      BY <1>2, <2>1, <3>1 DEF Atomic!atomic, Atomic!tables
  <2>3. CASE Phase(p) = "made" /\ Phase(p)' = "success"
    <3>1. Atomic!Succeed(p)
      BY <1>2, <1>3, <2>1, <2>3 DEF Atomic!Succeed, Atomic!tables
    <3> QED
      BY <3>1 DEF Atomic!Next
  <2>4. CASE Phase(p) \in {"asked", "unheard"} /\ Phase(p)' = "failure"
    <3>1. Atomic!Fail(p)
      BY <1>2, <1>3, <2>1, <2>4 DEF Atomic!Fail, Atomic!tables
    <3> QED
      BY <3>1 DEF Atomic!Next
  <2>5. \/ Phase(p)' = Phase(p)
        \/ Phase(p) = "made" /\ Phase(p)' = "success"
        \/ Phase(p) \in {"asked", "unheard"} /\ Phase(p)' = "failure"
    BY <1>1, <2>1, StaysOrReports
  <2> QED
    BY <2>2, <2>3, <2>4, <2>5
<1> QED
  BY <1>4, <1>5

LEMMA NextRefines == IInv /\ [Next]_vars => [Atomic!Next]_Atomic!atomic
<1> SUFFICES ASSUME IInv, [Next]_vars PROVE [Atomic!Next]_Atomic!atomic
  OBVIOUS
<1>1. ASSUME NEW p \in Proc, Process(p) PROVE [Atomic!Next]_Atomic!atomic
  BY <1>1, ProcessRefines
<1>2. ASSUME OtherPrograms PROVE [Atomic!Next]_Atomic!atomic
  <2>1. PICK nm, fl, rts : ChangeKernel(nm, fl, rts)
    BY <1>2, OtherProgramsChange DEF IInv
  <2>2. \A p \in Proc : Phase(p)' = Phase(p)
    BY <2>1, PhaseFrame DEF ChangeKernel
  <2>3. named' = [p \in Proc |-> named[p] \union {i \in Iface : name'[i] = cmd[p].iface}]
    BY <2>1 DEF ChangeKernel, Bearers
  <2>4. Atomic!OthersChange
    BY <2>1, <2>2, <2>3 DEF ChangeKernel, Atomic!OthersChange
  <2> QED
    BY <2>4 DEF Atomic!Next
<1>3. CASE UNCHANGED vars
  <2>1. \A p \in Proc : Phase(p)' = Phase(p)
    BY <1>3, PhaseFrame DEF vars, history
  <2> QED
    BY <1>3, <2>1 DEF vars, kernel, history, Atomic!atomic, Atomic!tables
<1> QED
  BY <1>1, <1>2, <1>3 DEF Next, Finished

\* Requests, answers and their loss, and what other programs do between them,
\* hide nothing from who types a command: it is one atomic change and a true
\* report of it.
THEOREM Refinement == Spec => Implements
<1>1. Spec => Atomic!Spec
  BY InitRefines, NextRefines, Invariant, PTL DEF Spec, Atomic!Spec
<1> QED
  BY <1>1 DEF Implements

=============================================================================

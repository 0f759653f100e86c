----------------------------- MODULE Configure -----------------------------
(***************************************************************************)
(* The commands `irpc setlink`, `irpc addiproute` and `irpc removeiproute`.*)
(*                                                                         *)
(* Network::socket(nlMsgType, reqFlags, devName, ..) of src/network.cpp,   *)
(* IProute::addIpRoute and IProute::removeIpRoute of src/iproute.cpp build *)
(* one request from the command line, send it over netlink, receive one    *)
(* answer and report what mnl_cb_run() makes of it.  Each process of Proc  *)
(* is one run of irpc.                                                     *)
(*                                                                         *)
(* The kernel, which applies or refuses a request within sendto(), is      *)
(* external, and so are the other programs that change links and routes    *)
(* between any two steps of a process.                                     *)
(***************************************************************************)
EXTENDS Integers, FiniteSets

CONSTANTS
    Proc,           \* the runs of irpc
    Iface,          \* interface indices; 0 is never one
    Name,           \* interface names
    NoName,         \* the name of an index that no interface has
    Addr,           \* addresses, which are their own text
    NoAddr,         \* the empty text: --gw was not given
    AddrFamily,     \* [Addr -> {AF_INET, AF_INET6}]
    Masked,         \* Masked[a][n]: the first n bits of a, the others cleared
    Text,           \* the words a command line may hold
    Command,        \* the command lines a process may be started with
    OtherRoute,     \* the routes other programs may add
    PrefixGarbage,  \* what an uninitialised prefix may hold
    AddrGarbage,    \* what an uninitialised in_addr_t may hold
    IfaceGarbage,   \* what an uninitialised iface may hold
    MaxChanges      \* bound: how often other programs change the kernel

AF_INET  == "AF_INET"
AF_INET6 == "AF_INET6"
IFF_UP   == "IFF_UP"

\* Of an interface's flags, IFF_UP and one that stands for all the others.
IffFlag == {IFF_UP, "IFF_NOARP"}
NlmFlag == {"NLM_F_REQUEST", "NLM_F_ACK", "NLM_F_CREATE"}

\* --cidr: a number, text that is not one, or only blanks.  n is what
\* sscanf("%u") stores.
CidrText == [kind : {"number", "word", "blank"}, n : Nat]

\* A command line.  A command leaves alone the fields it does not take; dest
\* and gw may be text that is no address.
CommandLine == [op : {"setlink", "addiproute", "removeiproute"},
                iface : Name, state : {"up", "down", "other"},
                dest : Text, cidr : CidrText, gw : Text]

Route == [dst : Addr, plen : 0..128, dev : Iface, gw : Addr \union {NoAddr},
          scope : {"RT_SCOPE_LINK", "RT_SCOPE_UNIVERSE"},
          proto : {"RTPROT_STATIC", "other"}]

ASSUME ConfigureAssumption ==
    /\ Iface \subseteq Nat \ {0}
    /\ NoName \notin Name
    /\ Addr \union {NoAddr} \subseteq Text /\ NoAddr \notin Addr
    /\ AddrFamily \in [Addr -> {AF_INET, AF_INET6}]
    /\ Masked \in [Addr -> [0..128 -> Addr]]
    /\ \A a \in Addr, n \in 0..128 : AddrFamily[Masked[a][n]] = AddrFamily[a]
    /\ Command \subseteq CommandLine
    /\ OtherRoute \subseteq Route
    /\ PrefixGarbage \subseteq Nat /\ PrefixGarbage # {}
    /\ AddrGarbage \subseteq {a \in Addr : AddrFamily[a] = AF_INET} /\ AddrGarbage # {}
    /\ IfaceGarbage \subseteq Nat /\ IfaceGarbage # {}
    /\ MaxChanges \in Nat

VARIABLES
    \* the kernel
    name,       \* name[i]: the name of interface i, NoName if there is none
    flags,      \* flags[i]: the flags set on it
    route,      \* the routing tables
    changes,    \* how many changes other programs made
    rx,         \* rx[p]: the answer in p's socket
    \* the process
    cmd,        \* cmd[p]: its command line
    pc,         \* where the command stands
    req,        \* req[p]: the request it built
    \* history
    applied,    \* applied[p]: the kernel carried p's request out
    moved,      \* moved[p]: the route it added or deleted for p
    named       \* named[p]: interfaces that bore p's --iface since p started

kernel  == <<name, flags, route, changes>>
history == <<applied, moved, named>>
vars    == <<kernel, rx, cmd, pc, req, history>>
-----------------------------------------------------------------------------
(* Requests and what mnl_cb_run() (external) says of an answer. *)

LinkRequest == [type : {"RTM_NEWLINK"}, nlmsg_flags : SUBSET NlmFlag,
                ifname : Name, ifi_flags : SUBSET IffFlag, ifi_change : SUBSET IffFlag]

RouteRequest == [type : {"RTM_NEWROUTE", "RTM_DELROUTE"}, nlmsg_flags : SUBSET NlmFlag,
                 dst : Addr, dst_len : 0..255, oif : Nat, gw : Addr \union {NoAddr},
                 scope : {"RT_SCOPE_LINK", "RT_SCOPE_UNIVERSE"}]

NoRequest == [type |-> "none"]

Answer == {"none", "ack", "error", "lost"}

MNL_CB_ERROR == -1
MNL_CB_STOP  == 0

\* An NLMSG_ERROR ends the walk at once: with MNL_CB_STOP when it carries error
\* 0 (the acknowledgement), with MNL_CB_ERROR otherwise.
CbReturn(a) == IF a = "ack" THEN MNL_CB_STOP ELSE MNL_CB_ERROR

-----------------------------------------------------------------------------
(* The kernel (external). *)

\* A route lasts while its interface exists and is up.
Lasting(rts, nm, fl) == {r \in rts : nm[r.dev] # NoName /\ IFF_UP \in fl[r.dev]}

Bearers(nm, p) == {i \in Iface : nm[i] = cmd[p].iface}

\* rtnl_dev_get_flags(): an ifi_change of 0 replaces every flag.
MergedFlags(r, old) ==
    IF r.ifi_change = {} THEN r.ifi_flags
    ELSE (r.ifi_flags \intersect r.ifi_change) \union (old \ r.ifi_change)

MaxLen(a) == IF AddrFamily[a] = AF_INET THEN 32 ELSE 128

\* The destination a request names.  IPv4 refuses one with host bits set, IPv6
\* clears them.
Destination(r) == Masked[r.dst][r.dst_len]

Accepted(r) ==
    /\ r.dst_len <= MaxLen(r.dst)
    /\ AddrFamily[r.dst] = AF_INET => Destination(r) = r.dst

\* The route an accepted RTM_NEWROUTE asks for.  IPv6 routes have no scope.
RequestedRoute(r) ==
    [dst |-> Destination(r), plen |-> r.dst_len, dev |-> r.oif, gw |-> r.gw,
     scope |-> IF AddrFamily[r.dst] = AF_INET THEN r.scope ELSE "RT_SCOPE_UNIVERSE",
     proto |-> "RTPROT_STATIC"]

\* The IPv4 routes an RTM_DELROUTE matches: dst, length, scope and protocol,
\* and the interface and the gateway where they are not 0.
Matching(r) ==
    {x \in route : /\ x.dst = r.dst /\ x.plen = r.dst_len
                   /\ x.scope = r.scope /\ x.proto = "RTPROT_STATIC"
                   /\ r.oif \in {0, x.dev}
                   /\ r.gw \in {NoAddr, x.gw}}

\* The answer to p's request: an error always, an acknowledgement if asked for.
\* The message may be lost for want of memory; recvfrom() then says ENOBUFS.
Reply(p, ok) ==
    \E a \in IF ~ok THEN {"error", "lost"}
             ELSE IF "NLM_F_ACK" \in req[p].nlmsg_flags THEN {"ack", "lost"}
             ELSE {"none"} :
       rx' = [rx EXCEPT ![p] = a]

Carried(p, m) ==
    /\ "NLM_F_REQUEST" \in req[p].nlmsg_flags
    /\ Reply(p, TRUE)
    /\ applied' = [applied EXCEPT ![p] = TRUE]
    /\ moved' = [moved EXCEPT ![p] = m]

\* RTM_NEWLINK finds the interface by IFLA_IFNAME and changes its flags.
ChangeLink(p) ==
    /\ req[p].type = "RTM_NEWLINK"
    /\ \E i \in Iface :
         /\ name[i] = req[p].ifname
         /\ flags' = [flags EXCEPT ![i] = MergedFlags(req[p], @)]
    /\ route' = Lasting(route, name, flags')
    /\ Carried(p, {})

\* RTM_NEWROUTE; one equal to a route that exists is EEXIST.
InsertRoute(p) ==
    /\ req[p].type = "RTM_NEWROUTE"
    /\ Accepted(req[p])
    /\ AddrFamily[req[p].dst] = AF_INET => "NLM_F_CREATE" \in req[p].nlmsg_flags
    /\ req[p].oif \in Iface
    /\ name[req[p].oif] # NoName /\ IFF_UP \in flags[req[p].oif]
    /\ LET new == RequestedRoute(req[p])
       IN  /\ new \notin route
           /\ route' = route \union {new}
           /\ Carried(p, {new})
    /\ UNCHANGED flags

DeleteRoute(p) ==
    /\ req[p].type = "RTM_DELROUTE"
    /\ Accepted(req[p])
    /\ \E x \in Matching(req[p]) :
         /\ route' = route \ {x}
         /\ Carried(p, {x})
    /\ UNCHANGED flags

\* The kernel may refuse for reasons of its own (no privilege, no memory, an
\* unreachable gateway).  A message that is no request is acknowledged unread.
Decline(p) ==
    /\ Reply(p, "NLM_F_REQUEST" \notin req[p].nlmsg_flags)
    /\ UNCHANGED <<flags, route, applied, moved>>

\* Another program changes links or routes.
ChangeKernel(nm, fl, rts) ==
    /\ changes < MaxChanges
    /\ changes' = changes + 1
    /\ name' = nm
    /\ flags' = fl
    /\ route' = Lasting(rts, nm, fl)
    /\ named' = [p \in Proc |-> named[p] \union Bearers(nm, p)]
    /\ UNCHANGED <<rx, cmd, pc, req, applied, moved>>

\* Creates interface i or renames it.
NameIface(i, n) ==
    /\ \A j \in Iface : name[j] # n
    /\ ChangeKernel([name EXCEPT ![i] = n], flags, route)

DelIface(i) ==
    /\ name[i] # NoName
    /\ ChangeKernel([name EXCEPT ![i] = NoName], [flags EXCEPT ![i] = {}], route)

SetFlags(i, f) ==
    /\ name[i] # NoName
    /\ ChangeKernel(name, [flags EXCEPT ![i] = f], route)

AddRoute(r) == r \notin route /\ ChangeKernel(name, flags, route \union {r})

DelRoute(r) == ChangeKernel(name, flags, route \ {r})

OtherPrograms ==
    \/ \E i \in Iface : \/ \E n \in Name : NameIface(i, n)
                        \/ DelIface(i)
                        \/ \E f \in SUBSET IffFlag : SetFlags(i, f)
    \/ \E r \in OtherRoute : AddRoute(r)
    \/ \E r \in route : DelRoute(r)

-----------------------------------------------------------------------------
(* Building the request. *)

\* (Here and below, the variants above a definition are slips the properties
\* must catch.)
IfiChangeUnset == {}
IfiChange == {IFF_UP}

LinkFlagsNoRequest == {"NLM_F_ACK"}
LinkFlagsNoAck == {"NLM_F_REQUEST"}
LinkFlags == {"NLM_F_REQUEST", "NLM_F_ACK"}

\* Network::setIpLink and Network::socket.
LinkMessage(c) ==
    [type |-> "RTM_NEWLINK", nlmsg_flags |-> LinkFlags,
     ifname |-> c.iface,
     ifi_flags |-> IF c.state = "up" THEN {IFF_UP} ELSE {},
     ifi_change |-> IfiChange]

InetPtonAnyFamily(family, text) == text \in Addr

\* inet_pton(family, text, ..) accepts text.
InetPton(family, text) == text \in Addr /\ AddrFamily[text] = family

\* sscanf(cidr, "%u", &prefix) == 0 refuses a word; only blanks are EOF, which
\* passes and leaves prefix uninitialised.
ParsedPrefix(c) == CASE c.cidr.kind = "number" -> {c.cidr.n}
                     [] c.cidr.kind = "blank"  -> PrefixGarbage
                     [] c.cidr.kind = "word"   -> {}

\* rtm_dst_len is one byte wide.
RtmDstLenWide(prefix) == prefix
RtmDstLen(prefix) == prefix % 256

AddFlagsNoAck == {"NLM_F_REQUEST", "NLM_F_CREATE"}
AddFlags == {"NLM_F_REQUEST", "NLM_F_CREATE", "NLM_F_ACK"}

\* RTA_GATEWAY goes into the message if --gw was given.
GatewayNever(c) == NoAddr
Gateway(c) == c.gw

\* addIpRoute, given the index if_nametoindex() found and the prefix it read.
AddMessage(c, iface, prefix) ==
    [type |-> "RTM_NEWROUTE", nlmsg_flags |-> AddFlags,
     dst |-> c.dest, dst_len |-> RtmDstLen(prefix), oif |-> iface, gw |-> Gateway(c),
     scope |-> IF c.gw = NoAddr THEN "RT_SCOPE_LINK" ELSE "RT_SCOPE_UNIVERSE"]

\* removeIpRoute looks at its arguments only to see whether there is a gateway:
\* prefix, dst.ip, iface and gw.ip are uninitialised.
RemoveMessages(c) ==
    {[type |-> "RTM_DELROUTE", nlmsg_flags |-> {"NLM_F_REQUEST", "NLM_F_ACK"},
      dst |-> d, dst_len |-> RtmDstLen(prefix), oif |-> i, gw |-> g,
      scope |-> "RT_SCOPE_UNIVERSE"] :
        d \in AddrGarbage, prefix \in PrefixGarbage, i \in IfaceGarbage,
        g \in IF c.gw = NoAddr THEN {NoAddr} ELSE AddrGarbage \union {NoAddr}}

\* The requests a command line leads to now, none if the command gives up.
Messages(c) ==
    CASE c.op = "setlink" ->
           IF c.state \in {"up", "down"} THEN {LinkMessage(c)} ELSE {}
      [] c.op = "addiproute" ->
           {AddMessage(c, i, prefix) :
              i \in {j \in Iface : /\ name[j] = c.iface
                                   /\ c.dest \in Addr
                                   /\ c.gw # NoAddr =>
                                        InetPton(AddrFamily[c.dest], c.gw)},
              prefix \in ParsedPrefix(c)}
      [] c.op = "removeiproute" -> RemoveMessages(c)
-----------------------------------------------------------------------------
(* The process. *)

Init ==
    /\ name \in [Iface -> Name \union {NoName}]
    /\ \A i, j \in Iface : i # j /\ name[i] = name[j] => name[i] = NoName
    /\ flags \in [Iface -> SUBSET IffFlag]
    /\ \A i \in Iface : name[i] = NoName => flags[i] = {}
    /\ \E rts \in SUBSET OtherRoute : route = Lasting(rts, name, flags)
    /\ changes = 0
    /\ rx = [p \in Proc |-> "none"]
    /\ cmd \in [Proc -> Command]
    /\ pc = [p \in Proc |-> "start"]
    /\ req = [p \in Proc |-> NoRequest]
    /\ applied = [p \in Proc |-> FALSE]
    /\ moved = [p \in Proc |-> {}]
    /\ named = [p \in Proc |-> Bearers(name, p)]

Prepare(p) ==
    /\ pc[p] = "start"
    /\ \E r \in Messages(cmd[p]) : req' = [req EXCEPT ![p] = r]
    /\ pc' = [pc EXCEPT ![p] = "open"]
    /\ UNCHANGED <<kernel, rx, cmd, history>>

PrepareFails(p) ==
    /\ pc[p] = "start"
    /\ Messages(cmd[p]) = {}
    /\ pc' = [pc EXCEPT ![p] = "failure"]
    /\ UNCHANGED <<kernel, rx, cmd, req, history>>

\* mnl_socket_open() and mnl_socket_bind(): either may fail.
Open(p) ==
    /\ pc[p] = "open"
    /\ \E next \in {"send", "failure"} : pc' = [pc EXCEPT ![p] = next]
    /\ UNCHANGED <<kernel, rx, cmd, req, history>>

\* mnl_socket_sendto(): the kernel deals with the request within the call.
Send(p) ==
    /\ pc[p] = "send"
    /\ pc' = [pc EXCEPT ![p] = "recv"]
    /\ ChangeLink(p) \/ InsertRoute(p) \/ DeleteRoute(p) \/ Decline(p)
    /\ UNCHANGED <<name, changes, cmd, req, named>>

SendFails(p) ==
    /\ pc[p] = "send"
    /\ pc' = [pc EXCEPT ![p] = "failure"]
    /\ UNCHANGED <<kernel, rx, cmd, req, history>>

\* The exit after mnl_cb_run(): setlink compares ret with -1, the others with 0.
FailsOnPositive(op, ret) == ret > 0
Fails(op, ret) == IF op = "setlink" THEN ret = -1 ELSE ret < 0

\* "success" prints SUCCESS; "silent" exits 0 and prints neither.
Outcome(op, ret) ==
    CASE Fails(op, ret)              -> "failure"
      [] ~Fails(op, ret) /\ ret = 0  -> "success"
      [] ~Fails(op, ret) /\ ret # 0  -> "silent"

\* mnl_socket_recvfrom() blocks until there is an answer.
Recv(p) ==
    /\ pc[p] = "recv"
    /\ rx[p] \in {"ack", "error"}
    /\ pc' = [pc EXCEPT ![p] = Outcome(cmd[p].op, CbReturn(rx[p]))]
    /\ UNCHANGED <<kernel, rx, cmd, req, history>>

RecvFails(p) ==
    /\ pc[p] = "recv"
    /\ rx[p] = "lost"
    /\ pc' = [pc EXCEPT ![p] = "failure"]
    /\ UNCHANGED <<kernel, rx, cmd, req, history>>

Process(p) ==
    \/ Prepare(p) \/ PrepareFails(p)
    \/ Open(p)
    \/ Send(p) \/ SendFails(p)
    \/ Recv(p) \/ RecvFails(p)

Exited(p) == pc[p] \in {"success", "failure", "silent"}

\* Every process has exited; a process blocked in recvfrom is a deadlock.
Finished == (\A p \in Proc : Exited(p)) /\ UNCHANGED vars

Next == (\E p \in Proc : Process(p)) \/ OtherPrograms \/ Finished

Spec == Init /\ [][Next]_vars

\* The scheduler runs every process that can run.
FairSpec == Spec /\ \A p \in Proc : WF_vars(Process(p))

-----------------------------------------------------------------------------
(* Properties. *)

TypeOK ==
    /\ name \in [Iface -> Name \union {NoName}]
    /\ flags \in [Iface -> SUBSET IffFlag]
    /\ route \subseteq Route
    /\ changes \in 0..MaxChanges
    /\ rx \in [Proc -> Answer]
    /\ cmd \in [Proc -> Command]
    /\ pc \in [Proc -> {"start", "open", "send", "recv", "success", "failure", "silent"}]
    /\ req \in [Proc -> LinkRequest \union RouteRequest \union {NoRequest}]
    /\ applied \in [Proc -> BOOLEAN]
    /\ moved \in [Proc -> SUBSET Route]
    /\ named \in [Proc -> SUBSET Iface]

\* The SUCCESS line is printed only when the kernel carried the request out.  A
\* command that reports failure changed nothing, unless the answer was lost:
\* then, and only then, a change may stand that was reported as failed.
ExitReportsOutcome ==
    \A p \in Proc :
        /\ pc[p] = "success" => applied[p]
        /\ pc[p] = "failure" /\ applied[p] => rx[p] = "lost"
        /\ pc[p] # "silent"

\* A command in recvfrom has an answer to receive.
NeverStuckInRecv == \A p \in Proc : pc[p] = "recv" => rx[p] # "none"

\* Success of addiproute with a prefix length that fits rtm_dst_len: the route
\* that entered the table is the one of the command line, on an interface that
\* bore the name given at some time since the command started.
AddsTheRouteAsked ==
    \A p \in Proc :
        LET c == cmd[p] IN
        /\ pc[p] = "success" /\ c.op = "addiproute"
        /\ c.cidr.kind = "number" /\ c.cidr.n <= 255
        => \E r \in moved[p] :
              /\ moved[p] = {r}
              /\ r.plen = c.cidr.n /\ r.dst = Masked[c.dest][c.cidr.n]
              /\ r.gw = c.gw /\ r.dev \in named[p]

(* The promise, without the request and its answer: see AtomicChange.  What is
   left of the stages of a process is whether its change was made, whether
   the answer to it was lost, and what it reported. *)
Phase(p) ==
    IF Exited(p) THEN pc[p]
    ELSE IF ~applied[p] THEN "asked"
    ELSE IF rx[p] = "lost" THEN "unheard" ELSE "made"

Atomic == INSTANCE AtomicChange WITH phase <- [p \in Proc |-> Phase(p)]

\* A command's part in the kernel's tables is one step, and in it exactly what
\* its command line asks for: setlink the IFF_UP flag of the interface that
\* bears the name at that moment (and, going down, its routes), addiproute one
\* new route, removeiproute one static IPv4 route of universe scope.
OnlyTheAskedChange ==
    [][\A p \in Proc : ~applied[p] /\ applied'[p] => Atomic!Asked(p)]_vars

\* Building, sending, waiting and reporting, with other programs at work
\* between any two of them, comes to the same as one atomic change and a true
\* report of it.
Implements == Atomic!Spec

\* The prefix length of the route added is the one that was given.
CidrHonoured ==
    \A p \in Proc :
        pc[p] = "success" /\ cmd[p].op = "addiproute" /\ cmd[p].cidr.kind = "number"
        => \A r \in moved[p] : r.plen = cmd[p].cidr.n

\* Success of removeiproute means the route to --dest is the one deleted.
RemovesTheRouteNamed ==
    \A p \in Proc :
        pc[p] = "success" /\ cmd[p].op = "removeiproute"
        => \A r \in moved[p] : r.dst = cmd[p].dest

\* Every run of irpc comes to an end.
Terminates == \A p \in Proc : <>Exited(p)

-----------------------------------------------------------------------------
(* The inductive invariant behind the safety properties. *)

\* The request is one its command line leads to.
Built(p) ==
    LET c == cmd[p] IN
    CASE c.op = "setlink" -> c.state \in {"up", "down"} /\ req[p] = LinkMessage(c)
      [] c.op = "addiproute" ->
           /\ c.dest \in Addr
           /\ c.gw # NoAddr => InetPton(AddrFamily[c.dest], c.gw)
           /\ \E i \in named[p], n \in ParsedPrefix(c) : req[p] = AddMessage(c, i, n)
      [] c.op = "removeiproute" -> req[p] \in RemoveMessages(c)

\* How far the command is, what the kernel has done for it and what it heard.
Stages(p) ==
    /\ pc[p] \in {"start", "open", "send"} => rx[p] = "none" /\ ~applied[p]
    /\ pc[p] \in {"open", "send", "recv", "success"} => Built(p)
    /\ pc[p] = "recv" => rx[p] # "none"
    /\ rx[p] = "ack" => applied[p]
    /\ applied[p] => rx[p] \in {"ack", "lost"}
    /\ pc[p] = "success" => rx[p] = "ack"
    /\ pc[p] = "failure" => rx[p] # "ack"
    /\ pc[p] # "silent"
    /\ applied[p] /\ cmd[p].op = "addiproute" /\ pc[p] # "failure" =>
         moved[p] = {RequestedRoute(req[p])} /\ Accepted(req[p])

\* Every interface that bears p's --iface now is among those that did.
Remembered(p) == Bearers(name, p) \subseteq named[p]

IInv ==
    /\ TypeOK
    /\ route = Lasting(route, name, flags)
    /\ \A p \in Proc : Stages(p) /\ Remembered(p)

=============================================================================

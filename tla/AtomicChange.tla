---------------------------- MODULE AtomicChange ----------------------------
(***************************************************************************)
(* What `irpc setlink`, `irpc addiproute` and `irpc removeiproute` promise,*)
(* without a socket, a request or an answer: a command makes the change its*)
(* words ask for, once, in one moment and complete, or it makes none.  One *)
(* that made it reports success, unless word of it was lost; one that made *)
(* none reports failure.  Other programs change the kernel at any time, and*)
(* nothing else does.                                                      *)
(***************************************************************************)
EXTENDS Integers

CONSTANTS
    Proc,       \* the commands
    Iface,      \* interface indices
    Addr,       \* addresses
    NoAddr,     \* --gw was not given
    AddrFamily, \* AddrFamily[a]: AF_INET or AF_INET6
    Masked,     \* Masked[a][n]: the network of a of prefix length n
    Command     \* the command lines

VARIABLES
    name,       \* name[i]: the name of interface i
    flags,      \* flags[i]: the flags set on it
    route,      \* the routing tables
    changes,    \* how often other programs changed them
    cmd,        \* cmd[p]: the command line of p
    phase,      \* phase[p]: what p made and reported
    named       \* named[p]: interfaces that bore p's --iface since p started

tables == <<name, flags, route>>
atomic == <<tables, changes, cmd, phase, named>>

Bearing(p) == {i \in Iface : name[i] = cmd[p].iface}

\* IPv4 prefixes are at most 32 long.
Prefixes(a) == 0..IF AddrFamily[a] = "AF_INET" THEN 32 ELSE 128

\* The routes to --dest through --gw a command line may mean.  One byte holds
\* a prefix length: one that it does not hold, or blanks, may be any.
RoutesMeant(p) ==
    LET c == cmd[p] IN
    {r \in [dst : Addr, plen : 0..128, dev : named[p], gw : {c.gw},
            scope : {"RT_SCOPE_LINK", "RT_SCOPE_UNIVERSE"}, proto : {"RTPROT_STATIC"}] :
       /\ r.plen \in Prefixes(c.dest)
       /\ c.cidr.kind = "number" /\ c.cidr.n <= 255 => r.plen = c.cidr.n
       /\ r.dst = Masked[c.dest][r.plen]
       /\ r.scope = IF AddrFamily[c.dest] = "AF_INET" /\ c.gw = NoAddr
                    THEN "RT_SCOPE_LINK" ELSE "RT_SCOPE_UNIVERSE"}

\* IFF_UP of the interface that bears the name now, and, going down, its routes.
SetLink(p) ==
    /\ cmd[p].op = "setlink" /\ cmd[p].state \in {"up", "down"}
    /\ \E i \in Bearing(p) :
         IF cmd[p].state = "up"
         THEN flags' = [flags EXCEPT ![i] = @ \union {"IFF_UP"}] /\ route' = route
         ELSE /\ flags' = [flags EXCEPT ![i] = @ \ {"IFF_UP"}]
              /\ route' = {r \in route : r.dev # i}

\* One route, on an interface that bore the name at some time.
AddRoute(p) ==
    /\ cmd[p].op = "addiproute" /\ cmd[p].cidr.kind # "word"
    /\ cmd[p].dest \in Addr
    /\ cmd[p].gw # NoAddr =>
         cmd[p].gw \in Addr /\ AddrFamily[cmd[p].gw] = AddrFamily[cmd[p].dest]
    /\ flags' = flags
    /\ \E r \in RoutesMeant(p) : r \notin route /\ route' = route \union {r}

\* One static IPv4 route of universe scope, so none that was added without
\* --gw.  The command line has no say in which.
RemoveRoute(p) ==
    /\ cmd[p].op = "removeiproute"
    /\ flags' = flags
    /\ \E r \in route : /\ route' = route \ {r}
                        /\ r.proto = "RTPROT_STATIC"
                        /\ r.scope = "RT_SCOPE_UNIVERSE"
                        /\ AddrFamily[r.dst] = "AF_INET"

Asked(p) == SetLink(p) \/ AddRoute(p) \/ RemoveRoute(p)
-----------------------------------------------------------------------------
Init ==
    /\ changes = 0
    /\ cmd \in [Proc -> Command]
    /\ phase = [p \in Proc |-> "asked"]
    /\ named = [p \in Proc |-> Bearing(p)]

\* The word of success of an "unheard" command is lost.
Make(p) ==
    /\ phase[p] = "asked"
    /\ \E to \in {"made", "unheard"} : phase' = [phase EXCEPT ![p] = to]
    /\ Asked(p)
    /\ UNCHANGED <<name, changes, cmd, named>>

Succeed(p) ==
    /\ phase[p] = "made"
    /\ phase' = [phase EXCEPT ![p] = "success"]
    /\ UNCHANGED <<tables, changes, cmd, named>>

Fail(p) ==
    /\ phase[p] \in {"asked", "unheard"}
    /\ phase' = [phase EXCEPT ![p] = "failure"]
    /\ UNCHANGED <<tables, changes, cmd, named>>

OthersChange ==
    /\ changes' = changes + 1
    /\ named' = [p \in Proc |-> named[p] \union {i \in Iface : name'[i] = cmd[p].iface}]
    /\ UNCHANGED <<cmd, phase>>

Next == (\E p \in Proc : Make(p) \/ Succeed(p) \/ Fail(p)) \/ OthersChange

Spec == Init /\ [][Next]_atomic
=============================================================================

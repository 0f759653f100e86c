-------------------------------- MODULE Show --------------------------------
(***************************************************************************)
(* The commands `irpc ipshow`, `irpc iplink` and `irpc showiproute`.       *)
(*                                                                         *)
(* All three run Network::socket(ipType, nlMsgType, flags, cbFuncIden, ..) *)
(* of src/network.cpp: open a netlink socket, send one dump request, then  *)
(* read datagrams and hand each to mnl_cb_run() until a message ends the   *)
(* dump.  Each process of Proc is one run of irpc.                         *)
(*                                                                         *)
(* Around the code stand two things that are not in src/ (external): the   *)
(* kernel, whose tables other programs change between any two steps and    *)
(* which fills a dump one datagram at a time, and libmnl's mnl_cb_run().   *)
(***************************************************************************)
EXTENDS Integers, FiniteSets

CONSTANTS
    Proc,           \* the runs of irpc
    Row,            \* every address, link and route the tables may hold
    Iface,          \* interface indices
    RowKind,        \* [Row -> Kind]
    RowFamily,      \* [Row -> {AF_INET, AF_INET6}]
    RowIface,       \* [Row -> Iface]: the interface the row is about
    Command,        \* the commands a process may be started with
    MaxChanges      \* bound: how often other programs change the tables

SHOW_IP_ADDR  == "SHOW_IP_ADDR"
SHOW_IP_LINK  == "SHOW_IP_LINK"
SHOW_IP_ROUTE == "SHOW_IP_ROUTE"
cb_identifier == {SHOW_IP_ADDR, SHOW_IP_LINK, SHOW_IP_ROUTE}

\* "other" stands for every --family text that is neither ipv4 nor ipv6:
\* the command line accepts any word.
IpType == {"ipv4", "ipv6", "other"}

AF_UNSPEC == "AF_UNSPEC"
AF_INET   == "AF_INET"
AF_INET6  == "AF_INET6"

Kind == {"addr", "link", "route"}

ASSUME ShowAssumption ==
    /\ RowKind \in [Row -> Kind]
    /\ RowFamily \in [Row -> {AF_INET, AF_INET6}]
    /\ RowIface \in [Row -> Iface]
    /\ Command \subseteq [cb : cb_identifier, ipType : IpType]
    /\ MaxChanges \in Nat

VARIABLES
    \* the kernel
    table,      \* the rows the tables hold
    ifaces,     \* the interfaces that exist: if_indextoname() knows them
    changes,    \* how many changes were made (bounded by MaxChanges)
    active,     \* active[p]: the kernel has more of p's dump to produce
    visited,    \* visited[p]: rows the dump cursor has passed
    dirty,      \* dirty[p]: dumped tables changed since p's dump began
    rx,         \* rx[p]: the datagram waiting in p's socket
    \* the process
    cmd,        \* cmd[p]: its command line
    pc,         \* where Network::socket stands
    buf,        \* buf[p]: what mnl_cb_run() has still to walk
    shown,      \* shown[p][r]: how often the callback displayed r
    lost,       \* lost[p]: displayed rows whose text std::cout dropped
    \* history
    kept,       \* kept[p]: rows that stayed in the table throughout the dump
    seen        \* seen[p]: rows that were in the table at some time of it

kernel  == <<table, ifaces, changes>>
dump    == <<active, visited, dirty, rx>>
output  == <<shown, lost>>
history == <<kept, seen>>
vars    == <<kernel, dump, cmd, pc, buf, output, history>>

-----------------------------------------------------------------------------
(* The kernel (external). *)

Datagram == [rows : SUBSET Row,
             last : {"none", "more", "done", "failed", "error"},
             intr : BOOLEAN]

NoDatagram == [rows |-> {}, last |-> "none", intr |-> FALSE]

\* A dump request the kernel refuses is answered by one NLMSG_ERROR.
Refusal == [rows |-> {}, last |-> "error", intr |-> FALSE]

\* The table nlMsgType asks for: RTM_GETADDR, RTM_GETLINK or RTM_GETROUTE.
Dumps(c) ==
    CASE c.cb = SHOW_IP_ADDR  -> "addr"
      [] c.cb = SHOW_IP_LINK  -> "link"
      [] c.cb = SHOW_IP_ROUTE -> "route"

\* mnl_nlmsg_put_extra_header() zeroed rtgen_family, so neither branch taken
\* leaves AF_UNSPEC.
RtgenFamily(c) ==
    CASE c.ipType = "ipv4"  -> AF_INET
      [] c.ipType = "ipv6"  -> AF_INET6
      [] c.ipType = "other" -> AF_UNSPEC

Covers(c, r) ==
    /\ RowKind[r] = Dumps(c)
    /\ \/ Dumps(c) = "link"
       \/ RtgenFamily(c) \in {AF_UNSPEC, RowFamily[r]}

Covered(p, rows) == {r \in rows : Covers(cmd[p], r)}

\* Address and link dumps compare table generations between datagrams; route
\* dumps do not, and an AF_UNSPEC dump starts afresh with every family.
GenerationChecked(c) ==
    \/ c.cb = SHOW_IP_LINK
    \/ c.cb = SHOW_IP_ADDR /\ RtgenFamily(c) # AF_UNSPEC

\* netlink_dump(): the next datagram of p's dump when the cursor has passed
\* old.  It takes any of the rows left, in any order; NLMSG_DONE comes once
\* none is left, with the last rows or in a datagram of its own.  A dump may
\* also fail half way: it then ends in an NLMSG_DONE that carries an error.
Fill(p, old, isDirty) ==
    LET left == Covered(p, table) \ old
    IN  \E S \in SUBSET left, last \in {"more", "done", "failed"} :
          /\ last = "more" => S # {}
          /\ last = "done" => S = left
          /\ rx' = [rx EXCEPT ![p] =
                      [rows |-> S, last |-> last,
                       intr |-> GenerationChecked(cmd[p]) /\ isDirty]]
          /\ visited' = [visited EXCEPT ![p] = old \union S]
          /\ active' = [active EXCEPT ![p] = (last = "more")]

\* Another program changes the tables: every running dump that covers a
\* changed row is dirty from here on.
ChangeTables(newTable, newIfaces) ==
    LET changed == (table \ newTable) \union (newTable \ table)
    IN  /\ changes < MaxChanges
        /\ changes' = changes + 1
        /\ table' = newTable
        /\ ifaces' = newIfaces
        /\ dirty' = [p \in Proc |->
                       dirty[p] \/ (active[p] /\ Covered(p, changed) # {})]
        /\ kept' = [p \in Proc |-> IF active[p] THEN kept[p] \intersect newTable
                                                ELSE kept[p]]
        /\ seen' = [p \in Proc |-> IF active[p] THEN seen[p] \union Covered(p, newTable)
                                                ELSE seen[p]]
        /\ UNCHANGED <<active, visited, rx, cmd, pc, buf, output>>

AddRow(r) ==
    /\ r \notin table
    /\ RowKind[r] # "link"
    /\ RowIface[r] \in ifaces
    /\ ChangeTables(table \union {r}, ifaces)

DelRow(r) ==
    /\ r \in table
    /\ RowKind[r] # "link"
    /\ ChangeTables(table \ {r}, ifaces)

AddIface(i) ==
    /\ i \notin ifaces
    /\ ChangeTables(table \union {r \in Row : RowKind[r] = "link" /\ RowIface[r] = i},
                    ifaces \union {i})

\* Its addresses and routes go with an interface.
DelIface(i) ==
    /\ i \in ifaces
    /\ ChangeTables({r \in table : RowIface[r] # i}, ifaces \ {i})

OtherPrograms ==
    \/ \E r \in Row : AddRow(r) \/ DelRow(r)
    \/ \E i \in Iface : AddIface(i) \/ DelIface(i)

-----------------------------------------------------------------------------
(* libmnl's mnl_cb_run() (external) and what Network::socket does with it. *)

MNL_CB_ERROR == -1
MNL_CB_STOP  == 0
MNL_CB_OK    == 1

\* The callbacks return MNL_CB_OK whatever they meet, so the walk ends at a
\* flagged message (EINTR), at an NLMSG_ERROR, at NLMSG_DONE or at the end of
\* the datagram.  It does not look at what an NLMSG_DONE carries.
CbReturn(d) ==
    CASE d.intr                                  -> MNL_CB_ERROR
      [] ~d.intr /\ d.last = "error"             -> MNL_CB_ERROR
      [] ~d.intr /\ d.last \in {"done", "failed"} -> MNL_CB_STOP
      [] ~d.intr /\ d.last \in {"more", "none"}   -> MNL_CB_OK

\* Network::socket's loop receives again unless ret <= MNL_CB_STOP.  (Here and
\* below, the variants above a definition are slips the properties must catch.)
AgainAfterStop(ret) == ret >= MNL_CB_STOP
AgainNever(ret) == ret > MNL_CB_OK
Again(ret) == ret > MNL_CB_STOP

\* After the loop, ret == -1 is the only value reported as an error.
ExitsWithFailureNever(ret) == ret < -1
ExitsWithFailure(ret) == ret = -1

\* data_cb_showIpAddr streams if_indextoname(), which is NULL for an interface
\* that has gone; std::cout takes badbit from a null string, and drops that
\* line and everything after it.
SetsBadbit(p, r) == cmd[p].cb = SHOW_IP_ADDR /\ RowIface[r] \notin ifaces

\* The callbacks data_cb_showIpAddr, data_cb_showIpLinks, data_cb_showIproutes.
Display(p, r) ==
    /\ shown' = [shown EXCEPT ![p][r] = @ + 1]
    /\ lost' = [lost EXCEPT ![p] = IF lost[p] # {} \/ SetsBadbit(p, r)
                                     THEN @ \union {r} ELSE @]

-----------------------------------------------------------------------------
(* The process: Network::socket. *)

Init ==
    /\ ifaces \in SUBSET Iface
    /\ table \in SUBSET Row
    /\ \A r \in table : RowIface[r] \in ifaces
    /\ \A r \in Row : RowKind[r] = "link" /\ RowIface[r] \in ifaces => r \in table
    /\ changes = 0
    /\ active = [p \in Proc |-> FALSE]
    /\ visited = [p \in Proc |-> {}]
    /\ dirty = [p \in Proc |-> FALSE]
    /\ rx = [p \in Proc |-> NoDatagram]
    /\ cmd \in [Proc -> Command]
    /\ pc = [p \in Proc |-> "open"]
    /\ buf = [p \in Proc |-> NoDatagram]
    /\ shown = [p \in Proc |-> [r \in Row |-> 0]]
    /\ lost = [p \in Proc |-> {}]
    /\ kept = [p \in Proc |-> {}]
    /\ seen = [p \in Proc |-> {}]

\* mnl_socket_open() and mnl_socket_bind(): either may fail.
Open(p) ==
    /\ pc[p] = "open"
    /\ pc' = [pc EXCEPT ![p] = "send"]
    /\ UNCHANGED <<kernel, dump, cmd, buf, output, history>>

OpenFails(p) ==
    /\ pc[p] = "open"
    /\ pc' = [pc EXCEPT ![p] = "failure"]
    /\ UNCHANGED <<kernel, dump, cmd, buf, output, history>>

\* mnl_socket_sendto(): the kernel starts the dump within the call.
Send(p) ==
    /\ pc[p] = "send"
    /\ pc' = [pc EXCEPT ![p] = "recv"]
    /\ Fill(p, {}, FALSE)
    /\ dirty' = [dirty EXCEPT ![p] = FALSE]
    /\ kept' = [kept EXCEPT ![p] = Covered(p, table)]
    /\ seen' = [seen EXCEPT ![p] = Covered(p, table)]
    /\ UNCHANGED <<kernel, cmd, buf, output>>

SendRefused(p) ==
    /\ pc[p] = "send"
    /\ pc' = [pc EXCEPT ![p] = "recv"]
    /\ rx' = [rx EXCEPT ![p] = Refusal]
    /\ UNCHANGED <<kernel, active, visited, dirty, cmd, buf, output, history>>

SendFails(p) ==
    /\ pc[p] = "send"
    /\ pc' = [pc EXCEPT ![p] = "failure"]
    /\ UNCHANGED <<kernel, dump, cmd, buf, output, history>>

\* mnl_socket_recvfrom() blocks until there is a datagram; the kernel fills the
\* next one of the dump as it hands one over.
Recv(p) ==
    /\ pc[p] = "recv"
    /\ rx[p] # NoDatagram
    /\ buf' = [buf EXCEPT ![p] = rx[p]]
    /\ pc' = [pc EXCEPT ![p] = "run"]
    /\ \/ active[p] /\ Fill(p, visited[p], dirty[p])
       \/ /\ ~active[p]
          /\ rx' = [rx EXCEPT ![p] = NoDatagram]
          /\ UNCHANGED <<visited, active>>
    /\ UNCHANGED <<kernel, dirty, cmd, output, history>>

\* The process exits; closing its socket ends its dump.
Exit(p, ret) ==
    /\ pc' = [pc EXCEPT ![p] = IF ExitsWithFailure(ret) THEN "failure" ELSE "success"]
    /\ active' = [active EXCEPT ![p] = FALSE]
    /\ rx' = [rx EXCEPT ![p] = NoDatagram]

\* recvfrom returns -1 (ENOBUFS, a truncated datagram), which ends the loop.
RecvFails(p) ==
    /\ pc[p] = "recv"
    /\ rx[p] # NoDatagram
    /\ Exit(p, -1)
    /\ UNCHANGED <<kernel, visited, dirty, cmd, buf, output, history>>

\* mnl_cb_run() hands one message to the callback.
Callback(p) ==
    /\ pc[p] = "run"
    /\ ~buf[p].intr
    /\ \E r \in buf[p].rows :
         /\ buf' = [buf EXCEPT ![p].rows = @ \ {r}]
         /\ Display(p, r)
    /\ UNCHANGED <<kernel, dump, cmd, pc, history>>

\* mnl_cb_run() returns: receive again, or leave the loop, close and exit.
Return(p) ==
    /\ pc[p] = "run"
    /\ buf[p].intr \/ buf[p].rows = {}
    /\ LET ret == CbReturn(buf[p])
       IN  \/ /\ Again(ret)
              /\ pc' = [pc EXCEPT ![p] = "recv"]
              /\ UNCHANGED <<active, rx>>
           \/ ~Again(ret) /\ Exit(p, ret)
    /\ UNCHANGED <<kernel, visited, dirty, cmd, buf, output, history>>

Process(p) ==
    \/ Open(p) \/ OpenFails(p)
    \/ Send(p) \/ SendRefused(p) \/ SendFails(p)
    \/ Recv(p) \/ RecvFails(p)
    \/ Callback(p) \/ Return(p)

Exited(p) == pc[p] \in {"success", "failure"}

\* Every process has exited; without this a process blocked in recvfrom would
\* not show as a deadlock.
Finished == (\A p \in Proc : Exited(p)) /\ UNCHANGED vars

Next == (\E p \in Proc : Process(p)) \/ OtherPrograms \/ Finished

Spec == Init /\ [][Next]_vars

\* The scheduler runs every process that can run.
FairSpec == Spec /\ \A p \in Proc : WF_vars(Process(p))

-----------------------------------------------------------------------------
(* Properties. *)

TypeOK ==
    /\ table \subseteq Row
    /\ ifaces \subseteq Iface
    /\ changes \in 0..MaxChanges
    /\ active \in [Proc -> BOOLEAN]
    /\ visited \in [Proc -> SUBSET Row]
    /\ dirty \in [Proc -> BOOLEAN]
    /\ rx \in [Proc -> Datagram]
    /\ cmd \in [Proc -> Command]
    /\ pc \in [Proc -> {"open", "send", "recv", "run", "success", "failure"}]
    /\ buf \in [Proc -> Datagram]
    /\ shown \in [Proc -> [Row -> Nat]]
    /\ lost \in [Proc -> SUBSET Row]
    /\ kept \in [Proc -> SUBSET Row]
    /\ seen \in [Proc -> SUBSET Row]

Shown(p) == {r \in Row : shown[p][r] > 0}

\* The kernel told the process that its dump had failed.
ToldOfFailure(p) == buf[p].last = "failed"

\* A process that exits 0 displayed every row that stayed in the table for the
\* whole dump, unless the dump failed, and no row that was not in it at some time
\* of the dump, each once: nothing is skipped, invented or repeated between two
\* datagrams.
SuccessIsComplete ==
    \A p \in Proc : pc[p] = "success" =>
        /\ ToldOfFailure(p) \/ kept[p] \subseteq Shown(p)
        /\ Shown(p) \subseteq seen[p]
        /\ \A r \in Row : shown[p][r] <= 1

\* Where the kernel checks table generations, exit 0 means more: what was
\* displayed is the table as it stood at one moment, unless the dump failed.  An
\* interrupted dump must therefore end in exit 1, whatever was displayed before.
SuccessIsSnapshot ==
    \A p \in Proc : pc[p] = "success" /\ GenerationChecked(cmd[p]) /\ ~ToldOfFailure(p) =>
        Shown(p) = kept[p] /\ kept[p] = seen[p]

\* A process in recvfrom has a datagram to receive or one it will be sent: it
\* never waits on a dump that has ended.
NeverStuckInRecv == \A p \in Proc : pc[p] = "recv" => rx[p] # NoDatagram

\* A process that exits 0 printed every row it was handed.
NoTextLost == \A p \in Proc : pc[p] = "success" => lost[p] = {}

\* A process whose dump failed does not exit 0.
FailureIsReported == \A p \in Proc : pc[p] = "success" => ~ToldOfFailure(p)

\* The promise, without the datagrams: see Listing.  The stage of the dump is
\* told by its datagram that was filled last.
Phase(p) ==
    LET newest == IF rx[p].last = "none" THEN buf[p].last ELSE rx[p].last
    IN CASE pc[p] \in {"open", "send"}       -> "asked"
         [] pc[p] \in {"success", "failure"} -> pc[p]
         [] pc[p] \in {"recv", "run"}        ->
              CASE newest = "more"   -> "reading"
                [] newest = "done"   -> "read"
                [] newest = "failed" -> "cut"
                [] newest \notin {"more", "done", "failed"} -> "refused"

Promise ==
    INSTANCE Listing WITH
        phase <- [p \in Proc |-> Phase(p)], listed <- shown, steady <- kept, ever <- seen,
        Wanted <- [c \in Command |-> {r \in Row : Covers(c, r)}],
        AtOnce <- {c \in Command : GenerationChecked(c)}

\* Datagrams filled ahead of the process, walked and handed over one by one,
\* come to the same as reading the table over a stretch of time and listing
\* what was read: also a command that fails lists nothing twice, and no row
\* that was not there.
Implements == Promise!Spec

\* Every run of irpc comes to an end.
Terminates == \A p \in Proc : <>Exited(p)

-----------------------------------------------------------------------------
(* The inductive invariant behind the safety properties. *)

\* What the cursor passed has been displayed, is in the datagram being walked
\* or in the one that waits, and in one of the three only.
NothingDropped(p) ==
    /\ pc[p] \in {"open", "send"} =>
         /\ rx[p] = NoDatagram /\ buf[p] = NoDatagram
         /\ visited[p] = {} /\ Shown(p) = {}
    /\ pc[p] \in {"recv", "run", "success"} =>
         visited[p] = Shown(p) \union rx[p].rows \union buf[p].rows
    /\ Shown(p) \intersect (rx[p].rows \union buf[p].rows) = {}
    /\ rx[p].rows \intersect buf[p].rows = {}
    /\ \A r \in Row : shown[p][r] <= 1

\* Whose turn it is: the kernel has more exactly while the waiting datagram is
\* not the last, and the process goes back to recvfrom only if one waits.  A
\* refusal has no rows, and comes first or not at all.
Turns(p) ==
    /\ active[p] <=> rx[p].last = "more"
    /\ rx[p].last \in {"none", "error"} => rx[p].rows = {}
    /\ buf[p].last = "error" => buf[p].rows = {}
    /\ pc[p] = "recv" => rx[p].last # "none" /\ buf[p].rows = {}
    /\ pc[p] = "run" => /\ buf[p].last # "none" /\ rx[p].last # "error"
                        /\ buf[p].last = "more" <=> rx[p].last # "none"
    /\ Exited(p) => rx[p] = NoDatagram
    /\ pc[p] = "success" => /\ buf[p].rows = {} /\ ~buf[p].intr
                            /\ buf[p].last \in {"done", "failed"}

\* The dump is over: its last datagram is filled.
DumpOver(p) ==
    \/ rx[p].last = "done"
    \/ pc[p] \in {"run", "success"} /\ buf[p].last = "done"

\* The last datagram of a dump whose tables changed says so.
Unflagged(p) ==
    \/ rx[p].last = "done" /\ ~rx[p].intr
    \/ pc[p] \in {"run", "success"} /\ buf[p].last = "done" /\ ~buf[p].intr

Accounted(p) ==
    /\ active[p] => kept[p] \subseteq Covered(p, table) /\ Covered(p, table) \subseteq seen[p]
    /\ active[p] /\ GenerationChecked(cmd[p]) /\ ~dirty[p] => kept[p] = seen[p]
    /\ pc[p] \in {"recv", "run", "success"} => visited[p] \subseteq seen[p]
    /\ DumpOver(p) => kept[p] \subseteq visited[p]
    /\ Unflagged(p) /\ GenerationChecked(cmd[p]) => kept[p] = seen[p]

IInv ==
    /\ TypeOK
    /\ \A p \in Proc : NothingDropped(p) /\ Turns(p) /\ Accounted(p)

=============================================================================

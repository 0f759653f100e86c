------------------------------- MODULE Listing -------------------------------
(***************************************************************************)
(* What `irpc ipshow`, `irpc iplink` and `irpc showiproute` promise,       *)
(* without a socket, a datagram or a cursor in the kernel: a command reads *)
(* the table it was asked for over a stretch of time in which others may   *)
(* change it, lists what it read, and reports.  Success means that nothing *)
(* is missing; a row is listed once, and only if it was there, also by a   *)
(* command that fails.                                                     *)
(***************************************************************************)
EXTENDS Naturals

CONSTANTS
    Proc,       \* the commands
    Row,        \* what the tables may hold
    Command,    \* the command lines
    Wanted,     \* Wanted[c]: the rows the command line c asks for
    AtOnce      \* the command lines whose list is of one moment

VARIABLES
    table,      \* the tables
    cmd,        \* cmd[p]: the command line of p
    phase,      \* phase[p]: how far p came
    listed,     \* listed[p][r]: how often p listed r
    steady,     \* steady[p]: rows that were there all the time p read
    ever        \* ever[p]: rows that were there at some of it

listing == <<table, cmd, phase, listed, steady, ever>>

Present(p, rows) == Wanted[cmd[p]] \intersect rows

Listed(p) == {r \in Row : listed[p][r] > 0}
-----------------------------------------------------------------------------
Init ==
    /\ table \in SUBSET Row
    /\ cmd \in [Proc -> Command]
    /\ phase = [p \in Proc |-> "asked"]
    /\ listed = [p \in Proc |-> [r \in Row |-> 0]]
    /\ steady = [p \in Proc |-> {}]
    /\ ever = [p \in Proc |-> {}]

\* Reading may be over as soon as it began, or be cut short.
Begin(p) ==
    /\ phase[p] = "asked"
    /\ \E to \in {"reading", "read", "cut"} : phase' = [phase EXCEPT ![p] = to]
    /\ steady' = [steady EXCEPT ![p] = Present(p, table)]
    /\ ever' = [ever EXCEPT ![p] = Present(p, table)]
    /\ UNCHANGED <<table, cmd, listed>>

Refuse(p) ==
    /\ phase[p] = "asked"
    /\ phase' = [phase EXCEPT ![p] = "refused"]
    /\ UNCHANGED <<table, cmd, listed, steady, ever>>

End(p) ==
    /\ phase[p] = "reading"
    /\ \E to \in {"read", "cut"} : phase' = [phase EXCEPT ![p] = to]
    /\ UNCHANGED <<table, cmd, listed, steady, ever>>

List(p) ==
    /\ phase[p] \in {"reading", "read", "cut"}
    /\ \E r \in ever[p] : /\ listed[p][r] = 0
                          /\ listed' = [listed EXCEPT ![p][r] = 1]
    /\ UNCHANGED <<table, cmd, phase, steady, ever>>

\* Of a reading that was cut short success says nothing.
Succeed(p) ==
    /\ phase[p] \in {"read", "cut"}
    /\ phase[p] = "read" => steady[p] \subseteq Listed(p)
    /\ phase[p] = "read" /\ cmd[p] \in AtOnce => steady[p] = ever[p]
    /\ phase' = [phase EXCEPT ![p] = "success"]
    /\ UNCHANGED <<table, cmd, listed, steady, ever>>

Fail(p) ==
    /\ phase[p] \notin {"success", "failure"}
    /\ phase' = [phase EXCEPT ![p] = "failure"]
    /\ UNCHANGED <<table, cmd, listed, steady, ever>>

OthersChange ==
    /\ table' \in SUBSET Row
    /\ steady' = [p \in Proc |-> IF phase[p] = "reading" THEN steady[p] \intersect table'
                                                         ELSE steady[p]]
    /\ ever' = [p \in Proc |-> IF phase[p] = "reading" THEN ever[p] \union Present(p, table')
                                                       ELSE ever[p]]
    /\ UNCHANGED <<cmd, phase, listed>>

Next ==
    \/ \E p \in Proc : Begin(p) \/ Refuse(p) \/ End(p) \/ List(p) \/ Succeed(p) \/ Fail(p)
    \/ OthersChange

Spec == Init /\ [][Next]_listing
=============================================================================

---------------------------- MODULE CoapExchange ----------------------------
(***************************************************************************)
(* What an exchange between coapClient and a server promises, without a    *)
(* network: a client that shows something shows what the server says to    *)
(* its own request, shows it once, and ends without showing anything only  *)
(* after the server read the request.                                      *)
(***************************************************************************)
CONSTANTS
    Clients,
    Said(_),    \* what the answer to a client's request says, or Nothing
    Nothing,
    EarlyAck    \* the server may acknowledge a request before answering it

VARIABLES
    phase,      \* phase[c] of the exchange of client c
    shown       \* shown[c], what client c printed

exchange == <<phase, shown>>

Init ==
    /\ phase = [c \in Clients |-> "new"]
    /\ shown = [c \in Clients |-> Nothing]

Move(c, from, to) == phase[c] = from /\ phase' = [phase EXCEPT ![c] = to]

Ask(c) == Move(c, "new", "asked") /\ UNCHANGED shown

Serve(c) == Move(c, "asked", "served") /\ UNCHANGED shown

End(c) ==
    /\ Move(c, "served", "ended")
    /\ \/ shown' = [shown EXCEPT ![c] = Said(c)]
       \/ EarlyAck /\ UNCHANGED shown

Fail(c) ==
    /\ phase[c] \in {"new", "asked", "served"}
    /\ phase' = [phase EXCEPT ![c] = "failed"]
    /\ UNCHANGED shown

Next == \E c \in Clients : Ask(c) \/ Serve(c) \/ End(c) \/ Fail(c)

Spec == Init /\ [][Next]_exchange
=============================================================================

-------------------------------- MODULE Coap --------------------------------
(***************************************************************************)
(* coapClient and coapServer over UDP.                                     *)
(*                                                                         *)
(* A client (sendCOAPRequest) sends one request, waits in select() without *)
(* a timeout, reads one datagram and returns.  The server reads datagrams  *)
(* for ever, one per select(), and libcoap answers each: a GET of /hello   *)
(* through hello_handler, the rest with an error.  Neither runs libcoap's  *)
(* retransmission.  The network loses, duplicates and reorders datagrams.  *)
(***************************************************************************)
CONSTANTS
    Clients,    \* processes that run sendCOAPRequest, each with a port of its own
    Path,       \* Path[c]: the api client c asks for
    Code,       \* Code[c]: the method it asks with (hdr.code)
    Nothing,    \* what a client shows that shows nothing
    Lossy,      \* the network loses datagrams
    EarlyAck    \* the server acknowledges some requests before answering
                \* them, as coapServer never does but other servers do

ASSUME CoapAssumption ==
    /\ Nothing \notin {"Hello World!", "Not Found", "Method Not Allowed"}
    /\ Lossy \in BOOLEAN /\ EarlyAck \in BOOLEAN

VARIABLES
    client,     \* client[c]: where client c is
    shown,      \* shown[c]: what its message_handler printed
    server,     \* where the server is
    network,    \* the datagrams under way
    served,     \* the clients whose request the server read
    acked,      \* the clients whose request it acknowledged early
    lost        \* the clients that lost a datagram from or to them

vars == <<client, shown, server, network, served, acked, lost>>
-----------------------------------------------------------------------------
(***************************************************************************)
(* Messages.  An error response carries its reason as data, like any other.*)
(***************************************************************************)
Class(c) == IF Path[c] = "/hello" /\ Code[c] = "GET" THEN 2 ELSE 4

\* coap_read() in the server: the hello resource has a handler for GET only.
Data(c) == IF Path[c] # "/hello" THEN "Not Found"
           ELSE IF Code[c] # "GET" THEN "Method Not Allowed" ELSE "Hello World!"

Request(c) == [kind |-> "request", of |-> c, class |-> 0, data |-> Nothing]
Ack(c) == [kind |-> "ack", of |-> c, class |-> 0, data |-> Nothing]
Response(c) == [kind |-> "response", of |-> c, class |-> Class(c), data |-> Data(c)]

\* What message_handler prints of a datagram.
ShownOfAnyResponse(m) == IF m.kind = "response" THEN m.data ELSE Nothing
ShownOfErrors(m) == IF m.kind = "response" /\ m.class = 4 THEN m.data ELSE Nothing
ShownOf(m) == IF m.kind = "response" /\ m.class = 2 THEN m.data ELSE Nothing

Init ==
    /\ client = [c \in Clients |-> "start"]
    /\ shown = [c \in Clients |-> Nothing]
    /\ server = "start"
    /\ network = {} /\ served = {} /\ acked = {} /\ lost = {}
-----------------------------------------------------------------------------
(***************************************************************************)
(* The client.                                                             *)
(***************************************************************************)
Send(c) ==
    /\ client[c] = "start"
    /\ client' = [client EXCEPT ![c] = "waiting"]
    /\ network' = network \union {Request(c)}
    /\ UNCHANGED <<shown, server, served, acked, lost>>

\* select() reports the socket readable; the process ends after one datagram.
\* The network may keep a copy of it.
Taken(m) == network' \in {network, network \ {m}}

ClientRead(c) ==
    /\ client[c] = "waiting"
    /\ \E m \in network :
          /\ m.of = c /\ m.kind # "request"
          /\ shown' = [shown EXCEPT ![c] = ShownOf(m)]
          /\ Taken(m)
    /\ client' = [client EXCEPT ![c] = "ended"]
    /\ UNCHANGED <<server, served, acked, lost>>

\* coap_new_context() returns NULL, which the client uses, or select() < 0.
ClientFails(c) ==
    /\ client[c] \in {"start", "waiting"}
    /\ client' = [client EXCEPT ![c] = "failed"]
    /\ UNCHANGED <<shown, server, network, served, acked, lost>>
-----------------------------------------------------------------------------
(***************************************************************************)
(* The server.                                                             *)
(***************************************************************************)
ServerStart ==
    /\ server = "start"
    /\ server' \in {"listening", "stopped"}
    /\ UNCHANGED <<client, shown, network, served, acked, lost>>

\* coap_read() of a request: an answer or, from other servers, first an empty
\* acknowledgement.
Reads(c) ==
    /\ server = "listening" /\ Request(c) \in network
    /\ served' = served \union {c}

Replies(c, m) == network' \in {network \union {m}, (network \ {Request(c)}) \union {m}}

\* A server that serves one request, and one that leaves errors unanswered.
ServerAnswersOnce(c) ==
    /\ Reads(c) /\ served = {} /\ Replies(c, Response(c))
    /\ UNCHANGED <<client, shown, server, acked, lost>>

ServerAnswersHello(c) ==
    /\ Reads(c)
    /\ IF Class(c) = 2 THEN Replies(c, Response(c)) ELSE network' = network \ {Request(c)}
    /\ UNCHANGED <<client, shown, server, acked, lost>>

ServerAnswers(c) ==
    /\ Reads(c) /\ Replies(c, Response(c))
    /\ UNCHANGED <<client, shown, server, acked, lost>>

ServerAcknowledges(c) ==
    /\ EarlyAck /\ Reads(c) /\ Replies(c, Ack(c))
    /\ acked' = acked \union {c}
    /\ UNCHANGED <<client, shown, server, lost>>

ServerAnswersLater(c) ==
    /\ server = "listening" /\ c \in acked /\ Response(c) \notin network
    /\ network' = network \union {Response(c)}
    /\ UNCHANGED <<client, shown, server, served, acked, lost>>

\* select() < 0
ServerFails ==
    /\ server = "listening"
    /\ server' = "stopped"
    /\ UNCHANGED <<client, shown, network, served, acked, lost>>
-----------------------------------------------------------------------------
(***************************************************************************)
(* The network.                                                            *)
(***************************************************************************)
Loses(m) ==
    /\ network' = network \ {m}
    /\ lost' = lost \union {m.of}
    /\ UNCHANGED <<client, shown, server, served, acked>>

\* A datagram to a port nobody listens on.
Undeliverable(m) ==
    IF m.kind = "request" THEN server # "listening" ELSE client[m.of] # "waiting"

Drop(c) == \E m \in network : m.of = c /\ Undeliverable(m) /\ Loses(m)

Lose(c) == Lossy /\ \E m \in network : m.of = c /\ Loses(m)
-----------------------------------------------------------------------------
ClientStep(c) == Send(c) \/ ClientRead(c) \/ ClientFails(c)
ServerStep(c) == ServerAnswers(c) \/ ServerAcknowledges(c) \/ ServerAnswersLater(c)
NetworkStep(c) == Drop(c) \/ Lose(c)

Next ==
    \/ \E c \in Clients : ClientStep(c) \/ ServerStep(c) \/ NetworkStep(c)
    \/ ServerStart
    \/ ServerFails

Spec == Init /\ [][Next]_vars

\* The processes run, select() reports a readable socket, and a datagram that
\* cannot be delivered does not stay under way; nobody has to lose one, to
\* acknowledge early or to fail.
Fairness ==
    /\ WF_vars(ServerStart)
    /\ \A c \in Clients : /\ WF_vars(Send(c)) /\ WF_vars(ClientRead(c))
                          /\ WF_vars(ServerAnswers(c)) /\ WF_vars(ServerAnswersLater(c))
                          /\ WF_vars(Drop(c))

FairSpec == Spec /\ Fairness
-----------------------------------------------------------------------------
(***************************************************************************)
(* Properties.                                                             *)
(***************************************************************************)
Message == {Request(c) : c \in Clients} \union {Ack(c) : c \in Clients}
             \union {Response(c) : c \in Clients}

TypeOK ==
    /\ client \in [Clients -> {"start", "waiting", "ended", "failed"}]
    /\ shown \in [Clients -> {Nothing, "Hello World!", "Not Found", "Method Not Allowed"}]
    /\ server \in {"start", "listening", "stopped"}
    /\ network \subseteq Message
    /\ served \subseteq Clients /\ acked \subseteq Clients /\ lost \subseteq Clients

\* A client that waits (coapClient.cpp 69) has a datagram to wait for, from it
\* or to it, or a server that owes one: only a lost datagram leaves it waiting
\* for nothing, as no process of its own would send the request again.
WaitsInVain(c) == ~\E m \in network : m.of = c
StuckOnlyByLoss ==
    \A c \in Clients : client[c] = "waiting" /\ WaitsInVain(c) => c \in lost

\* A client that ended (coapClient.cpp 76) without showing what the server says
\* to its request was answered with an error, or read an early acknowledgement.
Said(c) == IF Class(c) = 2 THEN Data(c) ELSE Nothing
SilentOnlyByEarlyAck ==
    \A c \in Clients : client[c] = "ended" /\ shown[c] # Said(c) => c \in acked

\* What holds of every datagram under way and of every client: the invariant
\* the steps preserve.
Datagrams ==
    \A m \in network : /\ client[m.of] # "start"
                       /\ m.kind # "request" => m.of \in served
                       /\ m.kind = "ack" => m.of \in acked

Progress ==
    /\ acked \subseteq served
    /\ acked # {} => EarlyAck
    /\ \A c \in served : client[c] # "start"
    /\ \A c \in Clients : client[c] # "ended" => shown[c] = Nothing

IInv == TypeOK /\ Datagrams /\ Progress /\ StuckOnlyByLoss /\ SilentOnlyByEarlyAck

\* The client and the server make the exchange: the phase of a client is its
\* own, and what the server has read of it.
Phase(c) ==
    CASE client[c] = "start" -> "new"
      [] client[c] = "waiting" -> IF c \in served THEN "served" ELSE "asked"
      [] OTHER -> client[c]

Exchange == INSTANCE CoapExchange WITH phase <- [c \in Clients |-> Phase(c)]
Implements == Exchange!Spec

\* Every client ends, shows its answer or fails, unless it lost a datagram.
EndsUnlessLost ==
    \A c \in Clients : <>(client[c] \in {"ended", "failed"} \/ c \in lost)
=============================================================================

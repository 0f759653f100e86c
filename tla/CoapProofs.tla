----------------------------- MODULE CoapProofs -----------------------------
(***************************************************************************)
(* Proofs about Coap, for any number of clients and whatever they ask for. *)
(***************************************************************************)
EXTENDS Coap, TLAPS

LEMMA MessageFacts ==
    /\ \A m \in Message :
          /\ m.of \in Clients
          /\ m.kind \in {"request", "ack", "response"}
          /\ m.kind = "ack" => m = Ack(m.of)
          /\ m.kind = "response" => m = Response(m.of)
    /\ \A c \in Clients :
          /\ {Request(c), Ack(c), Response(c)} \subseteq Message
          /\ Request(c).of = c /\ Ack(c).of = c /\ Response(c).of = c
          /\ Request(c).kind = "request" /\ Ack(c).kind = "ack" /\ Response(c).kind = "response"
<1>1. ASSUME NEW c \in Clients
      PROVE  /\ {Request(c), Ack(c), Response(c)} \subseteq Message
             /\ Request(c).of = c /\ Ack(c).of = c /\ Response(c).of = c
             /\ Request(c).kind = "request" /\ Ack(c).kind = "ack" /\ Response(c).kind = "response"
  <2>1. {Request(c), Ack(c), Response(c)} \subseteq Message
    BY DEF Message
  <2>2. Request(c).of = c /\ Request(c).kind = "request"
    BY DEF Request
  <2>3. Ack(c).of = c /\ Ack(c).kind = "ack"
    BY DEF Ack
  <2>4. Response(c).of = c /\ Response(c).kind = "response"
    BY DEF Response
  <2> QED
    BY <2>1, <2>2, <2>3, <2>4
<1>2. ASSUME NEW m \in Message
      PROVE  \E c \in Clients : m \in {Request(c), Ack(c), Response(c)}
  BY DEF Message
<1>3. ASSUME NEW m \in Message
      PROVE  /\ m.of \in Clients
             /\ m.kind \in {"request", "ack", "response"}
             /\ m.kind = "ack" => m = Ack(m.of)
             /\ m.kind = "response" => m = Response(m.of)
  <2>1. PICK c \in Clients : m \in {Request(c), Ack(c), Response(c)}
    BY <1>2
  <2>2. CASE m = Request(c)
    BY <1>1, <2>2
  <2>3. CASE m = Ack(c)
    BY <1>1, <2>3
  <2>4. CASE m = Response(c)
    BY <1>1, <2>4
  <2> QED
    BY <2>1, <2>2, <2>3, <2>4
<1> QED
  BY <1>1, <1>3

\* What a client shows of a datagram: the answer, or nothing of an early
\* acknowledgement.
LEMMA ShownFacts ==
    ASSUME NEW c \in Clients
    PROVE  /\ ShownOf(Ack(c)) = Nothing
           /\ ShownOf(Response(c)) = Said(c)
           /\ Said(c) \in {Nothing, "Hello World!", "Not Found", "Method Not Allowed"}
<1>1. Ack(c).kind = "ack"
  BY DEF Ack
<1>2. Response(c).kind = "response" /\ Response(c).class = Class(c) /\ Response(c).data = Data(c)
  BY DEF Response
<1>3. Data(c) \in {"Hello World!", "Not Found", "Method Not Allowed"}
  BY DEF Data
<1> QED
  BY <1>1, <1>2, <1>3 DEF ShownOf, Said

LEMMA InitIInv == Init => IInv
BY DEF Init, IInv, TypeOK, Datagrams, Progress, StuckOnlyByLoss, SilentOnlyByEarlyAck

LEMMA SendStep ==
    ASSUME IInv, NEW c \in Clients, Send(c)
    PROVE  IInv'
<1>1. /\ Request(c) \in Message /\ Request(c).of = c /\ Request(c).kind = "request"
  BY MessageFacts
<1>2. TypeOK /\ Datagrams /\ Progress /\ StuckOnlyByLoss /\ SilentOnlyByEarlyAck
  BY DEF IInv
<1>3. /\ client[c] = "start" /\ client' = [client EXCEPT ![c] = "waiting"]
      /\ network' = network \union {Request(c)}
      /\ shown' = shown /\ server' = server /\ served' = served /\ acked' = acked /\ lost' = lost
  BY DEF Send
<1>4. TypeOK'
  BY <1>1, <1>2, <1>3 DEF TypeOK
<1>5. Datagrams'
  <2> SUFFICES ASSUME NEW m \in network' PROVE /\ client'[m.of] # "start"
                                               /\ m.kind # "request" => m.of \in served'
                                               /\ m.kind = "ack" => m.of \in acked'
    BY DEF Datagrams
  <2>1. m.of \in Clients
    BY <1>1, <1>2, <1>3, MessageFacts DEF TypeOK
  <2>2. client'[m.of] # "start"
    BY <1>1, <1>2, <1>3, <2>1 DEF Datagrams, TypeOK
  <2> QED
    BY <1>1, <1>2, <1>3, <2>2 DEF Datagrams
<1>6. Progress'
  BY <1>2, <1>3 DEF Progress, TypeOK
<1>7. StuckOnlyByLoss'
  BY <1>1, <1>2, <1>3 DEF StuckOnlyByLoss, WaitsInVain, TypeOK
<1>8. SilentOnlyByEarlyAck'
  BY <1>2, <1>3 DEF SilentOnlyByEarlyAck, TypeOK, Said, Class, Data
<1> QED
  BY <1>4, <1>5, <1>6, <1>7, <1>8 DEF IInv

\* A client reads its answer, or an early acknowledgement.
LEMMA ReadFacts ==
    ASSUME IInv, NEW c \in Clients, ClientRead(c)
    PROVE  /\ client[c] = "waiting" /\ c \in served /\ shown[c] = Nothing
           /\ client' = [client EXCEPT ![c] = "ended"]
           /\ network' \subseteq network
           /\ \A m \in network : m.of # c => m \in network'
           /\ \/ shown' = [shown EXCEPT ![c] = Said(c)]
              \/ shown' = [shown EXCEPT ![c] = Nothing] /\ c \in acked /\ EarlyAck
           /\ UNCHANGED <<server, served, acked, lost>>
<1>1. TypeOK /\ Datagrams /\ Progress
  BY DEF IInv
<1>2. /\ client[c] = "waiting" /\ client' = [client EXCEPT ![c] = "ended"]
      /\ UNCHANGED <<server, served, acked, lost>>
  BY DEF ClientRead
<1>3. PICK m \in network : /\ m.of = c /\ m.kind # "request"
                           /\ shown' = [shown EXCEPT ![c] = ShownOf(m)]
                           /\ Taken(m)
  BY DEF ClientRead
<1>4. m \in Message
  BY <1>1, <1>3 DEF TypeOK
<1>5. c \in served /\ shown[c] = Nothing
  BY <1>1, <1>2, <1>3 DEF Datagrams, Progress
<1>6. network' \subseteq network /\ \A d \in network : d.of # c => d \in network'
  BY <1>3 DEF Taken
<1>7. CASE m.kind = "response"
  <2>1. m = Response(c)
    BY <1>3, <1>4, <1>7, MessageFacts
  <2>2. shown' = [shown EXCEPT ![c] = Said(c)]
    BY <1>3, <2>1, ShownFacts
  <2> QED
    BY <1>2, <1>5, <1>6, <2>2
<1>8. CASE m.kind = "ack"
  <2>1. m = Ack(c) /\ c \in acked /\ EarlyAck
    BY <1>1, <1>3, <1>4, <1>8, MessageFacts DEF Datagrams, Progress
  <2>2. shown' = [shown EXCEPT ![c] = Nothing]
    BY <1>3, <2>1, ShownFacts
  <2> QED
    BY <1>2, <1>5, <1>6, <2>1, <2>2
<1> QED
  BY <1>3, <1>4, <1>7, <1>8, MessageFacts

LEMMA ClientReadStep ==
    ASSUME IInv, NEW c \in Clients, ClientRead(c)
    PROVE  IInv'
<1>1. TypeOK /\ Datagrams /\ Progress /\ StuckOnlyByLoss /\ SilentOnlyByEarlyAck
  BY DEF IInv
<1>2. /\ client[c] = "waiting" /\ c \in served /\ shown[c] = Nothing
      /\ client' = [client EXCEPT ![c] = "ended"]
      /\ network' \subseteq network
      /\ \A m \in network : m.of # c => m \in network'
      /\ server' = server /\ served' = served /\ acked' = acked /\ lost' = lost
  BY ReadFacts
<1>3. \E said \in {Nothing, Said(c)} :
         shown' = [shown EXCEPT ![c] = said] /\ (said = Said(c) \/ c \in acked)
  BY ReadFacts
<1>4. TypeOK'
  <2>1. PICK said \in {Nothing, Said(c)} : shown' = [shown EXCEPT ![c] = said]
    BY <1>3
  <2>2. shown' \in [Clients -> {Nothing, "Hello World!", "Not Found", "Method Not Allowed"}]
    BY <1>1, <2>1, ShownFacts DEF TypeOK
  <2>3. client' \in [Clients -> {"start", "waiting", "ended", "failed"}]
    BY <1>1, <1>2 DEF TypeOK
  <2> QED
    BY <1>1, <1>2, <2>2, <2>3 DEF TypeOK
<1>5. Datagrams'
  <2>1. \A m \in network' : m \in network /\ m.of \in Clients
    BY <1>1, <1>2, MessageFacts DEF TypeOK
  <2>2. \A d \in Clients : client[d] # "start" => client'[d] # "start"
    BY <1>1, <1>2 DEF TypeOK
  <2> QED
    BY <1>1, <1>2, <2>1, <2>2 DEF Datagrams
<1>6. Progress'
  BY <1>1, <1>2, <1>3 DEF Progress, TypeOK
<1>7. StuckOnlyByLoss'
  BY <1>1, <1>2 DEF StuckOnlyByLoss, WaitsInVain, TypeOK
<1>8. SilentOnlyByEarlyAck'
  BY <1>1, <1>2, <1>3 DEF SilentOnlyByEarlyAck, TypeOK, Said, Class, Data
<1> QED
  BY <1>4, <1>5, <1>6, <1>7, <1>8 DEF IInv

LEMMA ClientFailsStep ==
    ASSUME IInv, NEW c \in Clients, ClientFails(c)
    PROVE  IInv'
<1>1. TypeOK /\ Datagrams /\ Progress /\ StuckOnlyByLoss /\ SilentOnlyByEarlyAck
  BY DEF IInv
<1>2. /\ client[c] \in {"start", "waiting"} /\ client' = [client EXCEPT ![c] = "failed"]
      /\ network' = network /\ shown' = shown
      /\ server' = server /\ served' = served /\ acked' = acked /\ lost' = lost
  BY DEF ClientFails
<1>3. TypeOK'
  BY <1>1, <1>2 DEF TypeOK
<1>4. Datagrams'
  <2>1. \A m \in network' : m \in network /\ m.of \in Clients
    BY <1>1, <1>2, MessageFacts DEF TypeOK
  <2>2. \A d \in Clients : client[d] # "start" => client'[d] # "start"
    BY <1>1, <1>2 DEF TypeOK
  <2> QED
    BY <1>1, <1>2, <2>1, <2>2 DEF Datagrams
<1>5. Progress'
  BY <1>1, <1>2 DEF Progress, TypeOK
<1>6. StuckOnlyByLoss'
  BY <1>1, <1>2 DEF StuckOnlyByLoss, WaitsInVain, TypeOK
<1>7. SilentOnlyByEarlyAck'
  BY <1>1, <1>2 DEF SilentOnlyByEarlyAck, TypeOK, Said, Class, Data
<1> QED
  BY <1>3, <1>4, <1>5, <1>6, <1>7 DEF IInv

\* The server reads a request of c and sends m.
LEMMA ServerReadStep ==
    ASSUME IInv, NEW c \in Clients, NEW m \in {Ack(c), Response(c)},
           Reads(c), Replies(c, m),
           UNCHANGED <<client, shown, server, lost>>,
           acked' \in {acked, acked \union {c}}, m = Ack(c) => acked' = acked \union {c},
           acked' # {} => EarlyAck
    PROVE  IInv'
<1>1. TypeOK /\ Datagrams /\ Progress /\ StuckOnlyByLoss /\ SilentOnlyByEarlyAck
  BY DEF IInv
<1>2. m \in Message /\ m.of = c /\ m.kind # "request" /\ (m.kind = "ack" => m = Ack(c))
  BY MessageFacts
<1>3. /\ Request(c) \in network /\ Request(c).of = c
      /\ served' = served \union {c}
      /\ client' = client /\ shown' = shown /\ server' = server /\ lost' = lost
  BY MessageFacts DEF Reads
<1>4. /\ m \in network' /\ network' \subseteq network \union {m}
      /\ \A d \in network : d.of # c => d \in network'
  BY <1>3 DEF Replies
<1>5. client[c] # "start"
  BY <1>1, <1>3 DEF Datagrams
<1>6. TypeOK'
  BY <1>1, <1>2, <1>3, <1>4 DEF TypeOK
<1>7. Datagrams'
  BY <1>1, <1>2, <1>3, <1>4, <1>5 DEF Datagrams
<1>8. Progress'
  BY <1>1, <1>3, <1>5 DEF Progress
<1>9. StuckOnlyByLoss'
  BY <1>1, <1>2, <1>3, <1>4 DEF StuckOnlyByLoss, WaitsInVain
<1>10. SilentOnlyByEarlyAck'
  BY <1>1, <1>3 DEF SilentOnlyByEarlyAck, Said, Class, Data
<1> QED
  BY <1>6, <1>7, <1>8, <1>9, <1>10 DEF IInv

LEMMA ServerStepIInv ==
    ASSUME IInv, NEW c \in Clients, ServerStep(c)
    PROVE  IInv'
<1>1. TypeOK /\ Datagrams /\ Progress /\ StuckOnlyByLoss /\ SilentOnlyByEarlyAck
  BY DEF IInv
<1>2. CASE ServerAnswers(c)
  <2>1. Reads(c) /\ Replies(c, Response(c)) /\ acked' = acked
        /\ UNCHANGED <<client, shown, server, lost>>
    BY <1>2 DEF ServerAnswers
  <2>2. Response(c) # Ack(c)
    BY MessageFacts
  <2> QED
    BY <1>1, <2>1, <2>2, ServerReadStep DEF Progress
<1>3. CASE ServerAcknowledges(c)
  <2>1. Reads(c) /\ Replies(c, Ack(c)) /\ acked' = acked \union {c} /\ EarlyAck
        /\ UNCHANGED <<client, shown, server, lost>>
    BY <1>3 DEF ServerAcknowledges
  <2> QED
    BY <2>1, ServerReadStep
<1>4. CASE ServerAnswersLater(c)
  <2>1. /\ network' = network \union {Response(c)} /\ c \in acked
        /\ client' = client /\ shown' = shown /\ server' = server
        /\ served' = served /\ acked' = acked /\ lost' = lost
    BY <1>4 DEF ServerAnswersLater
  <2>2. Response(c) \in Message /\ Response(c).of = c /\ Response(c).kind = "response"
    BY MessageFacts
  <2>3. c \in served /\ client[c] # "start"
    BY <1>1, <2>1 DEF Progress
  <2>4. TypeOK'
    BY <1>1, <2>1, <2>2 DEF TypeOK
  <2>5. Datagrams'
    BY <1>1, <2>1, <2>2, <2>3 DEF Datagrams
  <2>6. Progress' /\ SilentOnlyByEarlyAck'
    BY <1>1, <2>1 DEF Progress, SilentOnlyByEarlyAck, Said, Class, Data
  <2>7. StuckOnlyByLoss'
    BY <1>1, <2>1 DEF StuckOnlyByLoss, WaitsInVain
  <2> QED
    BY <2>4, <2>5, <2>6, <2>7 DEF IInv
<1> QED
  BY <1>2, <1>3, <1>4 DEF ServerStep

LEMMA NetworkStepIInv ==
    ASSUME IInv, NEW c \in Clients, NetworkStep(c)
    PROVE  IInv'
<1>1. TypeOK /\ Datagrams /\ Progress /\ StuckOnlyByLoss /\ SilentOnlyByEarlyAck
  BY DEF IInv
<1>2. PICK m \in network : m.of = c /\ Loses(m)
  BY DEF NetworkStep, Drop, Lose
<1>3. /\ network' = network \ {m} /\ lost' = lost \union {c}
      /\ client' = client /\ shown' = shown /\ server' = server
      /\ served' = served /\ acked' = acked
  BY <1>2 DEF Loses
<1>4. TypeOK'
  BY <1>1, <1>3 DEF TypeOK
<1>5. Datagrams' /\ Progress' /\ SilentOnlyByEarlyAck'
  BY <1>1, <1>3 DEF Datagrams, Progress, SilentOnlyByEarlyAck, Said, Class, Data
<1>6. StuckOnlyByLoss'
  BY <1>1, <1>2, <1>3 DEF StuckOnlyByLoss, WaitsInVain
<1> QED
  BY <1>4, <1>5, <1>6 DEF IInv

\* Steps that change where the server is, and stuttering steps.
LEMMA QuietStep ==
    ASSUME IInv, UNCHANGED <<client, shown, network, served, acked, lost>>,
           server' \in {"start", "listening", "stopped"}
    PROVE  IInv'
BY DEF IInv, TypeOK, Datagrams, Progress, StuckOnlyByLoss, WaitsInVain,
       SilentOnlyByEarlyAck, Said, Class, Data

LEMMA NextIInv == IInv /\ [Next]_vars => IInv'
<1> SUFFICES ASSUME IInv, [Next]_vars PROVE IInv'
  OBVIOUS
<1>1. ASSUME NEW c \in Clients, ClientStep(c) PROVE IInv'
  BY <1>1, SendStep, ClientReadStep, ClientFailsStep DEF ClientStep
<1>2. ASSUME NEW c \in Clients, ServerStep(c) PROVE IInv'
  BY <1>2, ServerStepIInv
<1>3. ASSUME NEW c \in Clients, NetworkStep(c) PROVE IInv'
  BY <1>3, NetworkStepIInv
<1>4. CASE ServerStart \/ ServerFails
  BY <1>4, QuietStep DEF ServerStart, ServerFails
<1>5. CASE UNCHANGED vars
  BY <1>5, QuietStep DEF vars, IInv, TypeOK
<1> QED
  BY <1>1, <1>2, <1>3, <1>4, <1>5 DEF Next

\* The conjunction IInv holds in every state, for every set of clients.
THEOREM InvariantHolds == Spec => []IInv
BY InitIInv, NextIInv, PTL DEF Spec

\* Every variable keeps its type: the datagrams under way are requests of
\* clients and what the server sends in answer to them.
THEOREM TypeCorrect == Spec => []TypeOK
<1>1. IInv => TypeOK
  BY DEF IInv
<1> QED
  BY <1>1, InvariantHolds, PTL

\* Only a lost datagram leaves a client in select() with nothing to wait for.
THEOREM NobodyStuckWithoutLoss == Spec => []StuckOnlyByLoss
<1>1. IInv => StuckOnlyByLoss
  BY DEF IInv
<1> QED
  BY <1>1, InvariantHolds, PTL

\* A client that ended and did not show the server's answer had been sent an
\* acknowledgement of its own.
THEOREM AnswersAreShown == Spec => []SilentOnlyByEarlyAck
<1>1. IInv => SilentOnlyByEarlyAck
  BY DEF IInv
<1> QED
  BY <1>1, InvariantHolds, PTL
-----------------------------------------------------------------------------
(***************************************************************************)
(* The refinement of CoapExchange.                                         *)
(***************************************************************************)
LEMMA InitRefines == Init => Exchange!Init
BY DEF Init, Exchange!Init, Phase

\* A step that moves one client from one phase to another.
LEMMA PhaseMoves ==
    ASSUME NEW c \in Clients, NEW from, NEW to,
           Phase(c) = from, Phase(c)' = to,
           \A d \in Clients \ {c} : Phase(d)' = Phase(d)
    PROVE  Exchange!Move(c, from, to)
<1> DEFINE phase == [d \in Clients |-> Phase(d)]
<1>1. phase' = [phase EXCEPT ![c] = to]
  OBVIOUS
<1> QED
  BY <1>1 DEF Exchange!Move

LEMMA PhasesStay ==
    ASSUME \A d \in Clients : Phase(d)' = Phase(d), shown' = shown
    PROVE  UNCHANGED Exchange!exchange
BY DEF Exchange!exchange

\* A server that reads the request of c serves it, when it is the first time
\* and c still waits.
LEMMA ReadsRefines ==
    ASSUME IInv, NEW c \in Clients, served' = served \union {c},
           client' = client, shown' = shown, client[c] # "start"
    PROVE  [Exchange!Next]_Exchange!exchange
<1>1. \A d \in Clients \ {c} : Phase(d)' = Phase(d)
  BY DEF Phase
<1>2. CASE client[c] = "waiting" /\ c \notin served
  <2>1. Phase(c) = "asked" /\ Phase(c)' = "served"
    BY <1>2 DEF Phase
  <2>2. Exchange!Serve(c)
    BY <1>1, <2>1, PhaseMoves DEF Exchange!Serve
  <2> QED
    BY <2>2 DEF Exchange!Next
<1>3. CASE client[c] # "waiting" \/ c \in served
  <2>1. Phase(c)' = Phase(c)
    BY <1>3 DEF Phase
  <2> QED
    BY <1>1, <2>1, PhasesStay
<1> QED
  BY <1>2, <1>3

LEMMA NextRefines == IInv /\ [Next]_vars => [Exchange!Next]_Exchange!exchange
<1> SUFFICES ASSUME IInv, [Next]_vars PROVE [Exchange!Next]_Exchange!exchange
  OBVIOUS
<1>1. TypeOK /\ Datagrams /\ Progress
  BY DEF IInv
<1>2. ASSUME NEW c \in Clients, Send(c) PROVE [Exchange!Next]_Exchange!exchange
  <2>1. client[c] = "start" /\ client' = [client EXCEPT ![c] = "waiting"]
        /\ shown' = shown /\ served' = served /\ c \notin served
    BY <1>1, <1>2 DEF Send, Progress
  <2>2. Phase(c) = "new" /\ Phase(c)' = "asked" /\ \A d \in Clients \ {c} : Phase(d)' = Phase(d)
    BY <1>1, <2>1 DEF Phase, TypeOK
  <2>3. Exchange!Ask(c)
    BY <2>1, <2>2, PhaseMoves DEF Exchange!Ask
  <2> QED
    BY <2>3 DEF Exchange!Next
<1>3. ASSUME NEW c \in Clients, ClientRead(c) PROVE [Exchange!Next]_Exchange!exchange
  <2>1. client[c] = "waiting" /\ client' = [client EXCEPT ![c] = "ended"]
        /\ served' = served /\ c \in served /\ shown[c] = Nothing
    BY <1>3, ReadFacts
  <2>2. Phase(c) = "served" /\ Phase(c)' = "ended" /\ \A d \in Clients \ {c} : Phase(d)' = Phase(d)
    BY <1>1, <2>1 DEF Phase, TypeOK
  <2>3. \/ shown' = [shown EXCEPT ![c] = Said(c)]
        \/ EarlyAck /\ shown' = [shown EXCEPT ![c] = Nothing]
    BY <1>3, ReadFacts
  <2>4. shown' = [shown EXCEPT ![c] = Nothing] => shown' = shown
    BY <1>1, <2>1 DEF TypeOK
  <2>5. Exchange!End(c)
    BY <2>2, <2>3, <2>4, PhaseMoves DEF Exchange!End
  <2> QED
    BY <2>5 DEF Exchange!Next
<1>4. ASSUME NEW c \in Clients, ClientFails(c) PROVE [Exchange!Next]_Exchange!exchange
  <2>1. client[c] \in {"start", "waiting"} /\ client' = [client EXCEPT ![c] = "failed"]
        /\ shown' = shown /\ served' = served
    BY <1>4 DEF ClientFails
  <2>2. Phase(c) \in {"new", "asked", "served"} /\ Phase(c)' = "failed"
        /\ \A d \in Clients \ {c} : Phase(d)' = Phase(d)
    BY <1>1, <2>1 DEF Phase, TypeOK
  <2>3. Exchange!Move(c, Phase(c), "failed")
    BY <2>2, PhaseMoves
  <2>4. Exchange!Fail(c)
    BY <2>1, <2>2, <2>3 DEF Exchange!Fail, Exchange!Move
  <2> QED
    BY <2>4 DEF Exchange!Next
<1>5. ASSUME NEW c \in Clients, ServerStep(c) PROVE [Exchange!Next]_Exchange!exchange
  <2>1. CASE ServerAnswers(c) \/ ServerAcknowledges(c)
    <3>1. Reads(c) /\ client' = client /\ shown' = shown
      BY <2>1 DEF ServerAnswers, ServerAcknowledges
    <3>2. served' = served \union {c} /\ client[c] # "start"
      BY <1>1, <3>1, MessageFacts DEF Reads, Datagrams
    <3> QED
      BY <3>1, <3>2, ReadsRefines
  <2>2. CASE ServerAnswersLater(c)
    BY <2>2, PhasesStay DEF ServerAnswersLater, Phase
  <2> QED
    BY <1>5, <2>1, <2>2 DEF ServerStep
<1>6. ASSUME NEW c \in Clients, NetworkStep(c) PROVE [Exchange!Next]_Exchange!exchange
  BY <1>6, PhasesStay DEF NetworkStep, Drop, Lose, Loses, Phase
<1>7. CASE ServerStart \/ ServerFails \/ UNCHANGED vars
  BY <1>7, PhasesStay DEF ServerStart, ServerFails, vars, Phase
<1> QED
  BY <1>2, <1>3, <1>4, <1>5, <1>6, <1>7 DEF Next, ClientStep

\* The client and the server implement the exchange: whatever the network does,
\* a client shows what the server says to its own request, once, after the
\* server read it.
THEOREM Refinement == Spec => Implements
<1>1. Spec => Exchange!Spec
  BY InitRefines, NextRefines, InvariantHolds, PTL DEF Spec, Exchange!Spec
<1> QED
  BY <1>1 DEF Implements
=============================================================================

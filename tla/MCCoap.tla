------------------------------- MODULE MCCoap -------------------------------
(***************************************************************************)
(* Requests for Coap: one for the resource, one for another that the       *)
(* server does not have.                                                   *)
(***************************************************************************)
EXTENDS Coap

Two == {"reader", "stray"}

PathOf == [c \in Clients |-> IF c = "stray" THEN "/helloMessage" ELSE "/hello"]
CodeOf == [c \in Clients |-> "GET"]
=============================================================================

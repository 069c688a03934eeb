-------------------------- MODULE MCTransportBreaker --------------------------
(* A small instance of TransportBreaker: three streams sharing one breaker. *)
EXTENDS TransportBreaker
=============================================================================

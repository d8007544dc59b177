-------------------------- MODULE MCCircuitBreaker --------------------------
(***************************************************************************)
(* Bounds for TLC.  Two or three callers are enough for a probe, a request *)
(* refused behind it and a response from before the outage; windows and    *)
(* cooldown of one or two ticks put the age of an entry before, at and     *)
(* after each limit.                                                       *)
(***************************************************************************)
EXTENDS CircuitBreaker, TLC

Callers == Permutations(Requests)
=============================================================================

-------------------------- MODULE BreakerContract --------------------------
(***************************************************************************)
(* What a circuit breaker promises to the requests behind it, and nothing  *)
(* of how it decides to trip:                                              *)
(*                                                                         *)
(*   - once it opens, no request passes until Cooldown time units later;   *)
(*   - a half-open episode lets one request through, not two;              *)
(*   - a half-open episode ends with a report or a new outage, never by    *)
(*     the passage of time.                                                *)
(*                                                                         *)
(* This is the second half of the docstring of circuit_breaker.py ("While  *)
(* open, every request returns a terminal block ... After cooldown_seconds,*)
(* the breaker moves to half_open and allows a single probe request        *)
(* through; success closes the breaker, failure re-opens it").             *)
(* CircuitBreaker implements it under the mapping stated there.            *)
(***************************************************************************)
EXTENDS Naturals

CONSTANTS
    Requests,   \* the callers' requests
    Cooldown    \* time units an outage lasts at least, a natural number

VARIABLES
    gate,       \* "CLOSED", "OPEN" or "HALF_OPEN"
    outage,     \* time since the breaker last opened, up to Cooldown
    probed,     \* has this half-open episode let its request through?
    inside      \* the requests let through and not yet finished

vars == <<gate, outage, probed, inside>>

Init ==
    /\ gate = "CLOSED"
    /\ outage = Cooldown
    /\ probed = FALSE
    /\ inside = {}

\* A request passes: always while closed; otherwise as the one request of a
\* half-open episode, which may start with it once the outage has lasted.
Admit(r) ==
    /\ r \notin inside
    /\ inside' = inside \cup {r}
    /\ \/ /\ gate = "CLOSED"
          /\ UNCHANGED <<gate, probed>>
       \/ /\ \/ gate = "HALF_OPEN" /\ ~probed
             \/ gate = "OPEN" /\ outage = Cooldown
          /\ gate' = "HALF_OPEN"
          /\ probed' = TRUE
    /\ UNCHANGED outage

\* The breaker opens, or an outage starts again: on the report of a request
\* that ends with it, or on a signal that comes from no request.
Open ==
    /\ gate' = "OPEN"
    /\ outage' = 0
    /\ \/ UNCHANGED inside
       \/ \E r \in inside : inside' = inside \ {r}
    /\ probed' = FALSE

\* A report ends a half-open episode well.
Close(r) ==
    /\ gate = "HALF_OPEN"
    /\ gate' = "CLOSED"
    /\ probed' = FALSE
    /\ inside' = inside \ {r}
    /\ UNCHANGED outage

\* A request ends and the breaker stays as it is.
Leave(r) ==
    /\ inside' = inside \ {r}
    /\ UNCHANGED <<gate, outage, probed>>

Elapse ==
    /\ outage < Cooldown
    /\ outage' = outage + 1
    /\ UNCHANGED <<gate, probed, inside>>

Next ==
    \/ \E r \in Requests : Admit(r) \/ Close(r) \/ Leave(r)
    \/ Open
    \/ Elapse

Spec == Init /\ [][Next]_vars
=============================================================================

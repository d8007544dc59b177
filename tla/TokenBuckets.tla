---------------------------- MODULE TokenBuckets ----------------------------
(***************************************************************************)
(* What a rate limiter promises, and nothing of how it keeps count: every  *)
(* key has a bucket of its own that starts full and refills by itself, all *)
(* the time, up to its capacity.  A call is let through by taking its cost *)
(* from what is there, and nothing else takes anything, save a wall clock  *)
(* that is set back: that costs a bucket at most the refill of the time    *)
(* the clock lost, and never gives it anything.                            *)
(*                                                                         *)
(* No bucket here is created, no refill is late, and a refusal is no step  *)
(* at all.  RateLimiter refills a bucket only when somebody asks, from the *)
(* time it was asked before; it implements this under the mapping there.   *)
(***************************************************************************)
EXTENDS Integers

CONSTANTS
    Keys,       \* who has a bucket
    Capacity,   \* tokens of a full bucket, a natural number
    Refill      \* tokens per unit of time, a natural number

VARIABLES
    time,       \* real time
    lost,       \* what the wall clock has lost of it
    credit      \* the tokens in each bucket

vars == <<time, lost, credit>>

Init ==
    /\ time = 0
    /\ lost = 0
    /\ credit = [k \in Keys |-> Capacity]

\* A call is let through, of a cost that its bucket covers.
Spend(k) ==
    /\ \E cost \in 1 .. credit[k] : credit' = [credit EXCEPT ![k] = @ - cost]
    /\ UNCHANGED <<time, lost>>

Refilled(tokens) == IF tokens + Refill <= Capacity THEN tokens + Refill ELSE Capacity

Elapse ==
    /\ time' = time + 1
    /\ credit' = [k \in Keys |-> Refilled(credit[k])]
    /\ UNCHANGED lost

SetBack ==
    /\ lost' = lost + 1
    /\ \E less \in [Keys -> 0 .. Refill] : credit' = [k \in Keys |-> credit[k] - less[k]]
    /\ UNCHANGED time

Next == (\E k \in Keys : Spend(k)) \/ Elapse \/ SetBack

Spec == Init /\ [][Next]_vars
=============================================================================

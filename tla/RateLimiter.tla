---------------------------- MODULE RateLimiter ----------------------------
(***************************************************************************)
(* interventions/rate_limiter.py: RateLimiterIntervention, one token bucket*)
(* per key, evaluated under decide_tool_call, and the clients that are told*)
(* retry_after (decisions.py: "The caller should sleep retry_after seconds *)
(* and retry").                                                            *)
(*                                                                         *)
(* evaluate is one action: one call at a time, as one thread or one event  *)
(* loop makes them (RateLimiterThreads interleaves them).  Tokens and      *)
(* seconds are whole numbers of one small unit, so that refill_per_second  *)
(* is a number of tokens per tick and no rounding is lost.  The wall clock *)
(* that time.time() reads may step back; the ticks count real time.        *)
(* Throttling and blocking differ only in the decision they return, never  *)
(* in the bucket, and the disabled limiter touches nothing.                *)
(***************************************************************************)
EXTENDS Integers

CONSTANTS
    Clients,        \* callers of decide_tool_call
    Calls,          \* the calls they make: [tenant, thread, tool, size]
    Absent,         \* tenant or thread not given
    KeyFields,      \* which of key_by_tenant, key_by_thread, key_by_tool are set
    Capacity,       \* config.capacity
    Refill,         \* config.refill_per_second
    SizeDivisor,    \* config.size_divisor
    NoBucket, NoPromise, NoWatch,
    MaxTime,        \* bound: ticks of real time
    MaxSkew         \* bound: ticks the wall clock may lose

ASSUME LimiterAssumption ==
    /\ {Capacity, SizeDivisor, MaxTime, MaxSkew} \subseteq Nat
    /\ Refill \in Nat \ {0}
    /\ KeyFields \subseteq {"tenant", "thread", "tool"}
    /\ \A call \in Calls : call.size \in Nat

\* _make_key: the configured components that are given; none is "global".
Key(call) ==
    [field \in {f \in KeyFields : f = "tool" \/ call[f] # Absent} |-> call[field]]

Keys == {Key(call) : call \in Calls}

\* _cost: one token, and one more per SizeDivisor characters of arguments.
Cost(call) == 1 + call.size \div (IF SizeDivisor > 1 THEN SizeDivisor ELSE 1)

VARIABLES
    ticks,      \* real time
    skew,       \* how far the wall clock has stepped back
    buckets,    \* _buckets: per key [tokens, last_refill], or NoBucket
    promise,    \* per client, the retry_after it was last told
    watch       \* history: what one key let through since some moment

vars == <<ticks, skew, buckets, promise, watch>>

now == ticks - skew     \* time.time()

Bucket == [tokens : Int, last_refill : Int]
Promise == [call : Calls, due : Int, sole : BOOLEAN, broken : BOOLEAN]
Watch == [key : Keys, start : Nat, spent : Nat]

ASSUME NoneAssumption ==
    NoBucket \notin Bucket /\ NoPromise \notin Promise /\ NoWatch \notin Watch

TypeOK ==
    /\ ticks \in Nat
    /\ skew \in Nat
    /\ buckets \in [Keys -> Bucket \cup {NoBucket}]
    /\ promise \in [Clients -> Promise \cup {NoPromise}]
    /\ watch \in Watch \cup {NoWatch}
    /\ \A k \in Keys : buckets[k] # NoBucket => buckets[k].tokens <= Capacity

Lesser(a, b) == IF a <= b THEN a ELSE b

-----------------------------------------------------------------------------
Init ==
    /\ ticks = 0
    /\ skew = 0
    /\ buckets = [k \in Keys |-> NoBucket]
    /\ promise = [c \in Clients |-> NoPromise]
    /\ watch = NoWatch

\* Regression: no cap on the refill.
Available_Uncapped(k) ==
    IF buckets[k] = NoBucket
    THEN Capacity
    ELSE buckets[k].tokens + (now - buckets[k].last_refill) * Refill

\* The tokens evaluate finds in the bucket: a new one is full, an old one is
\* refilled for the time since last_refill and capped.
Available(k) ==
    IF buckets[k] = NoBucket
    THEN Capacity
    ELSE Lesser(Capacity, buckets[k].tokens + (now - buckets[k].last_refill) * Refill)

\* The client retries the call it was told to retry, after the time it was told.
Retries(c, call) ==
    /\ promise[c] # NoPromise
    /\ promise[c].call = call
    /\ ticks * Refill >= promise[c].due

\* What a refused client is told: retry_after = shortfall / Refill (due counts
\* it in tokens, not in ticks).
Told(c, call) ==
    [call   |-> call,
     due    |-> ticks * Refill + Cost(call) - Available(Key(call)),
     sole   |-> TRUE,
     broken |-> Retries(c, call) /\ promise[c].sole]

\* evaluate finds tokens enough.  A call let through spoils the promise made to
\* any other client of the same bucket.
Admit(c, call) ==
    LET k == Key(call) IN
    /\ Available(k) >= Cost(call)
    /\ buckets' = [buckets EXCEPT
            ![k] = [tokens |-> Available(k) - Cost(call), last_refill |-> now]]
    /\ promise' = [d \in Clients |->
            IF d = c THEN NoPromise
            ELSE IF promise[d] # NoPromise /\ Key(promise[d].call) = k
            THEN [promise[d] EXCEPT !.sole = FALSE]
            ELSE promise[d]]
    /\ watch' = IF watch # NoWatch /\ watch.key = k
                THEN [watch EXCEPT !.spent = @ + Cost(call)]
                ELSE watch
    /\ UNCHANGED <<ticks, skew>>

\* Regressions: last_refill stays behind when a call is refused, so that the
\* next one is refilled for the same time again; or last_refill moves and the
\* refilled tokens are not stored.
Refuse_RefillsTwice(c, call) ==
    LET k == Key(call) IN
    /\ Available(k) < Cost(call)
    /\ buckets' = [buckets EXCEPT ![k] =
            [tokens |-> Available(k), last_refill |-> IF @ = NoBucket THEN now ELSE @.last_refill]]
    /\ promise' = [promise EXCEPT ![c] = Told(c, call)]
    /\ UNCHANGED <<ticks, skew, watch>>

Refuse_LosesRefill(c, call) ==
    LET k == Key(call) IN
    /\ Available(k) < Cost(call)
    /\ buckets' = [buckets EXCEPT ![k] =
            [tokens |-> IF @ = NoBucket THEN Capacity ELSE @.tokens, last_refill |-> now]]
    /\ promise' = [promise EXCEPT ![c] = Told(c, call)]
    /\ UNCHANGED <<ticks, skew, watch>>

\* evaluate finds too few: the refill is stored, and the client is told
\* when to come back.
Refuse(c, call) ==
    LET k == Key(call) IN
    /\ Available(k) < Cost(call)
    /\ buckets' = [buckets EXCEPT ![k] = [tokens |-> Available(k), last_refill |-> now]]
    /\ promise' = [promise EXCEPT ![c] = Told(c, call)]
    /\ UNCHANGED <<ticks, skew, watch>>

Evaluate(c, call) == Admit(c, call) \/ Refuse(c, call)

Tick ==
    /\ ticks < MaxTime
    /\ ticks' = ticks + 1
    /\ UNCHANGED <<skew, buckets, promise, watch>>

\* The wall clock is set back.  Every promise was made on the old clock.
StepBack ==
    /\ skew < MaxSkew
    /\ skew' = skew + 1
    /\ promise' = [c \in Clients |->
            IF promise[c] = NoPromise THEN NoPromise
            ELSE [promise[c] EXCEPT !.sole = FALSE]]
    /\ UNCHANGED <<ticks, buckets, watch>>

\* From some moment on, somebody counts what a key lets through.
Observe(k) ==
    /\ watch' = [key |-> k, start |-> ticks, spent |-> 0]
    /\ UNCHANGED <<ticks, skew, buckets, promise>>

Next ==
    \/ \E c \in Clients, call \in Calls : Evaluate(c, call)
    \/ \E k \in Keys : Observe(k)
    \/ Tick
    \/ StepBack

Spec == Init /\ [][Next]_vars

-----------------------------------------------------------------------------
(* Properties.                                                             *)

\* In any period, whenever it starts, the calls a key lets through cost at most
\* one full bucket and the refill of the time that has really passed.  Setting
\* the wall clock back never lets more through.
RateBound ==
    watch # NoWatch => watch.spent <= Capacity + (ticks - watch.start) * Refill

\* A client that sleeps retry_after and repeats its call is let through, when
\* the call fits the bucket, no other call was let through meanwhile and the
\* wall clock was not set back.
RetryAdmitted ==
    \A c \in Clients :
        promise[c] # NoPromise /\ Cost(promise[c].call) <= Capacity => ~promise[c].broken

\* Refilling a bucket late, when a call asks for it, is as good as refilling it all
\* the time: what a call would find is what TokenBuckets has there, a refusal takes
\* nothing, and no key touches the bucket of another.
Buckets == INSTANCE TokenBuckets WITH
    time <- ticks,
    lost <- skew,
    credit <- [k \in Keys |-> Available(k)]

KeepsBuckets == Buckets!Spec
=============================================================================

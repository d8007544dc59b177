------------------------- MODULE RateLimiterThreads -------------------------
(***************************************************************************)
(* rate_limiter.py evaluate, run by several threads on one key: the        *)
(* synchronous callback handler is called from LangGraph's worker threads. *)
(*                                                                         *)
(* The interpreter may switch threads after a call it makes (time.time,    *)
(* dict.get, the _Bucket constructor, float and min), and no statement of  *)
(* evaluate holds a lock.  An action is the code from one such call to the *)
(* next.  A bucket is an object of the heap, named by the thread that made *)
(* it; _buckets holds at most one of them.  One token per call.            *)
(***************************************************************************)
EXTENDS Integers

CONSTANTS Threads, NoThread, Capacity, Refill, MaxTime, MaxCalls

VARIABLES
    ticks,      \* time.time()
    published,  \* whose object _buckets[key] is, or NoThread
    object,     \* the _Bucket objects: [tokens, last_refill]
    pc,         \* where each thread stands in evaluate
    local,      \* its now, bucket, elapsed, and the value min() returned
    spent,      \* history: the tokens of the calls let through
    made        \* calls made, up to MaxCalls

vars == <<ticks, published, object, pc, local, spent, made>>

Fresh == [now |-> 0, bucket |-> NoThread, elapsed |-> 0, refilled |-> 0]

Init ==
    /\ ticks = 0
    /\ published = NoThread
    /\ object = [t \in Threads |-> [tokens |-> 0, last_refill |-> 0]]
    /\ pc = [t \in Threads |-> "idle"]
    /\ local = [t \in Threads |-> Fresh]
    /\ spent = 0
    /\ made = 0

Goto(t, place) == pc' = [pc EXCEPT ![t] = place]

\* now = time.time()
ReadClock(t) ==
    /\ pc[t] = "idle" /\ made < MaxCalls
    /\ made' = made + 1
    /\ local' = [local EXCEPT ![t] = [Fresh EXCEPT !.now = ticks]]
    /\ Goto(t, "lookup")
    /\ UNCHANGED <<ticks, published, object, spent>>

\* bucket = self._buckets.get(key)
Lookup(t) ==
    /\ pc[t] = "lookup"
    /\ local' = [local EXCEPT ![t].bucket = published]
    /\ Goto(t, IF published = NoThread THEN "create" ELSE "elapsed")
    /\ UNCHANGED <<ticks, published, object, spent, made>>

\* _Bucket(tokens=float(capacity), last_refill=now)
Create(t) ==
    /\ pc[t] = "create"
    /\ object' = [object EXCEPT ![t] = [tokens |-> Capacity, last_refill |-> local[t].now]]
    /\ local' = [local EXCEPT ![t].bucket = t]
    /\ Goto(t, "publish")
    /\ UNCHANGED <<ticks, published, spent, made>>

\* if bucket.tokens >= cost: bucket.tokens -= cost, from what the thread has
\* stored in its bucket.
Consume(t, stored) ==
    /\ object' = [object EXCEPT ![local[t].bucket] =
            [stored EXCEPT !.tokens = IF @ >= 1 THEN @ - 1 ELSE @]]
    /\ spent' = IF stored.tokens >= 1 THEN spent + 1 ELSE spent
    /\ Goto(t, "idle")

\* self._buckets[key] = bucket, and then the check.
Publish(t) ==
    /\ pc[t] = "publish"
    /\ published' = t
    /\ Consume(t, object[t])
    /\ UNCHANGED <<ticks, local, made>>

\* elapsed = now - bucket.last_refill, and float(capacity)
Elapsed(t) ==
    /\ pc[t] = "elapsed"
    /\ local' = [local EXCEPT
            ![t].elapsed = local[t].now - object[local[t].bucket].last_refill]
    /\ Goto(t, "min")
    /\ UNCHANGED <<ticks, published, object, spent, made>>

\* min(capacity, bucket.tokens + elapsed * refill_per_second)
Min(t) ==
    LET sum == object[local[t].bucket].tokens + local[t].elapsed * Refill IN
    /\ pc[t] = "min"
    /\ local' = [local EXCEPT ![t].refilled = IF sum < Capacity THEN sum ELSE Capacity]
    /\ Goto(t, "store")
    /\ UNCHANGED <<ticks, published, object, spent, made>>

\* bucket.tokens = ...; bucket.last_refill = now; and then the check.
Store(t) ==
    /\ pc[t] = "store"
    /\ Consume(t, [tokens |-> local[t].refilled, last_refill |-> local[t].now])
    /\ UNCHANGED <<ticks, published, local, made>>

Tick ==
    /\ ticks < MaxTime
    /\ ticks' = ticks + 1
    /\ UNCHANGED <<published, object, pc, local, spent, made>>

Next ==
    \/ \E t \in Threads :
        \/ ReadClock(t) \/ Lookup(t) \/ Create(t) \/ Publish(t)
        \/ Elapsed(t) \/ Min(t) \/ Store(t)
    \/ Tick

Spec == Init /\ [][Next]_vars

\* What RateLimiter guarantees to a key when its calls come one at a time: at
\* most one full bucket, and the refill of the time that has passed.
RateBoundOfKey == spent <= Capacity + ticks * Refill

\* One thread at a time is inside evaluate: what a lock around it would give, and
\* what an event loop gives.
Serial == \A t, u \in Threads : pc[t] # "idle" /\ pc[u] # "idle" => t = u
=============================================================================

------------------------- MODULE RateLimiterProofs -------------------------
(***************************************************************************)
(* Theorems about RateLimiter, for any clients, calls, capacity and refill:*)
(* its type, the bound on what a key lets through in any period, that      *)
(* sleeping retry_after is enough, and that a bucket refilled late is as   *)
(* good as one that refills all the time (TokenBuckets).  And about        *)
(* RateLimiterThreads: that one thread at a time is enough for the bound.  *)
(***************************************************************************)
EXTENDS RateLimiter, TLAPS

(***************************************************************************)
(* The strengthening.  What a watched key has let through and the tokens a *)
(* call would find now are covered together by one full bucket and the     *)
(* refill since the watch began: a refill that is stored late, or stored   *)
(* by a refusal, moves tokens from the second term of no sum to another.   *)
(***************************************************************************)
Credit ==
    watch # NoWatch =>
        watch.spent + Available(watch.key) <= Capacity + (ticks - watch.start) * Refill

\* A promise nobody spoilt: the tokens are there, or will be when it is due.
Funded(c) ==
    LET k == Key(promise[c].call)
        cost == Cost(promise[c].call)
    IN  \/ Available(k) >= cost
        \/ Available(k) + promise[c].due - ticks * Refill >= cost

Promises ==
    \A c \in Clients :
        promise[c] # NoPromise /\ promise[c].sole /\ Cost(promise[c].call) <= Capacity
            => Funded(c)

IInv == TypeOK /\ Credit /\ RateBound /\ Promises /\ RetryAdmitted

-----------------------------------------------------------------------------
(* Facts of the operators.                                                 *)

\* A call costs at least one token.
LEMMA CostType ==
    ASSUME NEW call \in Calls
    PROVE  Cost(call) \in Nat /\ Cost(call) >= 1 /\ Key(call) \in Keys
<1>1. call.size \in Nat
    BY LimiterAssumption
<1>2. (IF SizeDivisor > 1 THEN SizeDivisor ELSE 1) \in Nat \ {0}
    BY LimiterAssumption
<1>3. \A n \in Nat, d \in Nat \ {0} : n \div d \in Nat
    OBVIOUS
<1>4. call.size \div (IF SizeDivisor > 1 THEN SizeDivisor ELSE 1) \in Nat
    BY <1>1, <1>2, <1>3
<1>5. QED
    BY <1>4 DEF Cost, Keys

\* A tick of elapsed time is one refill more.
LEMMA OneMoreRefill ==
    ASSUME NEW a \in Int, NEW b \in Int
    PROVE  /\ a * Refill \in Int
           /\ (a + 1) * Refill = a * Refill + Refill
           /\ (a - 1) * Refill = a * Refill - Refill
           /\ (a - b) * Refill = a * Refill - b * Refill
    BY LimiterAssumption

\* A bucket never shows more than its capacity.
LEMMA AvailableType ==
    ASSUME TypeOK, NEW k \in Keys
    PROVE  Available(k) \in Int /\ Available(k) <= Capacity
<1>1. CASE buckets[k] = NoBucket
    BY <1>1, LimiterAssumption DEF Available
<1>2. CASE buckets[k] # NoBucket
  <2>1. buckets[k] \in Bucket
    BY <1>2 DEF TypeOK
  <2>2. now \in Int /\ buckets[k].tokens \in Int /\ buckets[k].last_refill \in Int
    BY <2>1 DEF TypeOK, now, Bucket
  <2>3. (now - buckets[k].last_refill) * Refill \in Int
    <3>1. now - buckets[k].last_refill \in Int
      BY <2>2
    <3>2. QED
      BY <3>1, OneMoreRefill
  <2>4. QED
    BY <1>2, <2>2, <2>3, LimiterAssumption DEF Available, Lesser
<1>3. QED
    BY <1>1, <1>2

\* What a call finds in the bucket that evaluate has just stored.
LEMMA AfterStore ==
    ASSUME TypeOK, NEW k \in Keys, NEW t \in Int, t <= Capacity,
           buckets' = [buckets EXCEPT ![k] = [tokens |-> t, last_refill |-> now]],
           UNCHANGED <<ticks, skew>>
    PROVE  /\ Available(k)' = t
           /\ \A j \in Keys \ {k} : Available(j)' = Available(j)
           /\ buckets' \in [Keys -> Bucket \cup {NoBucket}]
           /\ \A j \in Keys : buckets'[j] # NoBucket => buckets'[j].tokens <= Capacity
<1>1. now \in Int /\ now' = now
    BY DEF TypeOK, now
<1>2. [tokens |-> t, last_refill |-> now] \in Bucket
    BY <1>1 DEF Bucket
<1>3. buckets' \in [Keys -> Bucket \cup {NoBucket}]
    BY <1>2 DEF TypeOK
<1>4. buckets'[k] = [tokens |-> t, last_refill |-> now] /\ buckets'[k] # NoBucket
    BY <1>2, NoneAssumption DEF TypeOK
<1>5. \A j \in Keys \ {k} : buckets'[j] = buckets[j]
    BY DEF TypeOK
<1>6. (now - now) * Refill = 0
    BY <1>1, LimiterAssumption
<1>7. Available(k)' = t
    BY <1>1, <1>4, <1>6, LimiterAssumption DEF Available, Lesser
<1>8. \A j \in Keys \ {k} : Available(j)' = Available(j)
    BY <1>1, <1>5 DEF Available
<1>9. \A j \in Keys : buckets'[j] # NoBucket => buckets'[j].tokens <= Capacity
    BY <1>4, <1>5 DEF TypeOK
<1>10. QED
    BY <1>3, <1>7, <1>8, <1>9

\* One tick refills every bucket at most by Refill, and exactly so below the cap.
LEMMA AfterTick ==
    ASSUME TypeOK, Tick, NEW k \in Keys
    PROVE  /\ Available(k)' \in Int
           /\ Available(k)' <= Available(k) + Refill
           /\ Available(k)' >= Available(k)
           /\ Available(k)' = Capacity \/ Available(k)' = Available(k) + Refill
<1>1. now \in Int /\ now' = now + 1 /\ buckets' = buckets
    BY DEF TypeOK, now, Tick
<1>2. CASE buckets[k] = NoBucket
    BY <1>1, <1>2, LimiterAssumption DEF Available
<1>3. CASE buckets[k] # NoBucket
  <2>1. buckets[k] \in Bucket
    BY <1>3 DEF TypeOK
  <2>2. buckets[k].tokens \in Int /\ buckets[k].last_refill \in Int
    BY <2>1 DEF Bucket
  <2>3. PICK e \in Int : e = now - buckets[k].last_refill
    BY <1>1, <2>2
  <2>4. now' - buckets'[k].last_refill = e + 1
    BY <1>1, <2>2, <2>3
  <2>5. e * Refill \in Int /\ (e + 1) * Refill = e * Refill + Refill
    BY OneMoreRefill
  <2>6. Available(k) = Lesser(Capacity, buckets[k].tokens + e * Refill)
    BY <1>3, <2>3 DEF Available
  <2>7. Available(k)' = Lesser(Capacity, buckets[k].tokens + (e + 1) * Refill)
    BY <1>1, <1>3, <2>4 DEF Available
  <2>8. QED
    BY <2>2, <2>5, <2>6, <2>7, LimiterAssumption DEF Lesser
<1>4. QED
    BY <1>2, <1>3

\* A clock set back takes at most one refill away, and never gives any.
LEMMA AfterStepBack ==
    ASSUME TypeOK, StepBack, NEW k \in Keys
    PROVE  /\ Available(k)' \in Int
           /\ Available(k)' <= Available(k)
           /\ Available(k)' >= Available(k) - Refill
<1>1. now \in Int /\ now' = now - 1 /\ buckets' = buckets
    BY DEF TypeOK, now, StepBack
<1>2. CASE buckets[k] = NoBucket
    BY <1>1, <1>2, LimiterAssumption DEF Available
<1>3. CASE buckets[k] # NoBucket
  <2>1. buckets[k] \in Bucket
    BY <1>3 DEF TypeOK
  <2>2. buckets[k].tokens \in Int /\ buckets[k].last_refill \in Int
    BY <2>1 DEF Bucket
  <2>3. PICK e \in Int : e = now - buckets[k].last_refill
    BY <1>1, <2>2
  <2>4. now' - buckets'[k].last_refill = e - 1
    BY <1>1, <2>2, <2>3
  <2>5. e * Refill \in Int /\ (e - 1) * Refill = e * Refill - Refill
    BY OneMoreRefill
  <2>6. Available(k) = Lesser(Capacity, buckets[k].tokens + e * Refill)
    BY <1>3, <2>3 DEF Available
  <2>7. Available(k)' = Lesser(Capacity, buckets[k].tokens + (e - 1) * Refill)
    BY <1>1, <1>3, <2>4 DEF Available
  <2>8. QED
    BY <2>2, <2>5, <2>6, <2>7, LimiterAssumption DEF Lesser
<1>4. QED
    BY <1>2, <1>3

-----------------------------------------------------------------------------
(* Type correctness.                                                       *)

LEMMA TypeStep ==
    ASSUME TypeOK, [Next]_vars
    PROVE  TypeOK'
<1> USE LimiterAssumption
<1>1. ASSUME NEW c \in Clients, NEW call \in Calls, Admit(c, call)
      PROVE  TypeOK'
  <2> DEFINE k == Key(call)
             t == Available(k) - Cost(call)
  <2>1. k \in Keys /\ Cost(call) \in Nat /\ Cost(call) >= 1
    BY CostType
  <2>2. Available(k) \in Int /\ Available(k) <= Capacity
    BY <2>1, AvailableType
  <2>3. t \in Int /\ t <= Capacity
    BY <2>1, <2>2
  <2>4. /\ buckets' = [buckets EXCEPT ![k] = [tokens |-> t, last_refill |-> now]]
        /\ UNCHANGED <<ticks, skew>>
    BY <1>1 DEF Admit
  <2> HIDE DEF k, t
  <2>5. /\ buckets' \in [Keys -> Bucket \cup {NoBucket}]
        /\ \A j \in Keys : buckets'[j] # NoBucket => buckets'[j].tokens <= Capacity
    BY <2>1, <2>3, <2>4, AfterStore
  <2>6. promise' \in [Clients -> Promise \cup {NoPromise}]
    <3>1. ASSUME NEW d \in Clients, promise[d] # NoPromise
          PROVE  [promise[d] EXCEPT !.sole = FALSE] \in Promise
      BY <3>1 DEF TypeOK, Promise
    <3>2. QED
      BY <1>1, <3>1 DEF Admit, TypeOK
  <2>7. watch' \in Watch \cup {NoWatch}
    <3>1. ASSUME watch # NoWatch
          PROVE  [watch EXCEPT !.spent = @ + Cost(call)] \in Watch
      BY <2>1, <3>1 DEF TypeOK, Watch
    <3>2. QED
      BY <1>1, <3>1 DEF Admit, TypeOK
  <2>8. QED
    BY <2>4, <2>5, <2>6, <2>7 DEF TypeOK
<1>2. ASSUME NEW c \in Clients, NEW call \in Calls, Refuse(c, call)
      PROVE  TypeOK'
  <2> DEFINE k == Key(call)
             t == Available(k)
  <2>1. k \in Keys /\ Cost(call) \in Nat
    BY CostType
  <2>2. t \in Int /\ t <= Capacity
    BY <2>1, AvailableType
  <2>3. /\ buckets' = [buckets EXCEPT ![k] = [tokens |-> t, last_refill |-> now]]
        /\ promise' = [promise EXCEPT ![c] = Told(c, call)]
        /\ UNCHANGED <<ticks, skew, watch>>
    BY <1>2 DEF Refuse
  <2>4. Told(c, call) \in Promise
    <3>1. ticks * Refill \in Int
      BY OneMoreRefill DEF TypeOK
    <3>2. ticks * Refill + Cost(call) - t \in Int
      BY <2>1, <2>2, <3>1
    <3>3. (Retries(c, call) /\ promise[c].sole) \in BOOLEAN
      BY Zenon DEF Retries, TypeOK, Promise
    <3>4. QED
      BY <3>2, <3>3, Zenon DEF Told, Promise
  <2> HIDE DEF k, t
  <2>5. /\ buckets' \in [Keys -> Bucket \cup {NoBucket}]
        /\ \A j \in Keys : buckets'[j] # NoBucket => buckets'[j].tokens <= Capacity
    BY <2>1, <2>2, <2>3, AfterStore
  <2>6. promise' \in [Clients -> Promise \cup {NoPromise}]
    BY <2>3, <2>4 DEF TypeOK
  <2>7. QED
    BY <2>3, <2>5, <2>6 DEF TypeOK
<1>3. ASSUME NEW k \in Keys, Observe(k)
      PROVE  TypeOK'
    BY <1>3 DEF Observe, TypeOK, Watch
<1>4. CASE Tick
    BY <1>4 DEF Tick, TypeOK
<1>5. CASE StepBack
  <2>1. ASSUME NEW d \in Clients, promise[d] # NoPromise
        PROVE  [promise[d] EXCEPT !.sole = FALSE] \in Promise
    BY <2>1 DEF TypeOK, Promise
  <2>2. QED
    BY <1>5, <2>1 DEF StepBack, TypeOK
<1>6. CASE UNCHANGED vars
    BY <1>6 DEF vars, TypeOK
<1>7. QED
    BY <1>1, <1>2, <1>3, <1>4, <1>5, <1>6 DEF Next, Evaluate

-----------------------------------------------------------------------------
(* The bound on what a key lets through.                                   *)

LEMMA CreditStep ==
    ASSUME TypeOK, Credit, RateBound, [Next]_vars
    PROVE  Credit' /\ RateBound'
<1> USE LimiterAssumption
<1>0. TypeOK'
    BY TypeStep
<1>1. ASSUME NEW c \in Clients, NEW call \in Calls, Admit(c, call), watch' # NoWatch
      PROVE  Credit' /\ RateBound'
  <2> DEFINE k == Key(call)
             t == Available(k) - Cost(call)
  <2>1. k \in Keys /\ Cost(call) \in Nat /\ Cost(call) >= 1
    BY CostType
  <2>2. Available(k) \in Int /\ Available(k) <= Capacity /\ Available(k) >= Cost(call)
    BY <1>1, <2>1, AvailableType DEF Admit
  <2>3. t \in Int /\ t <= Capacity /\ t >= 0
    BY <2>1, <2>2
  <2>4. /\ buckets' = [buckets EXCEPT ![k] = [tokens |-> t, last_refill |-> now]]
        /\ UNCHANGED <<ticks, skew>>
        /\ watch' = IF watch # NoWatch /\ watch.key = k
                    THEN [watch EXCEPT !.spent = @ + Cost(call)] ELSE watch
    BY <1>1 DEF Admit
  <2>5. watch # NoWatch /\ watch \in Watch
    BY <1>1, <2>4 DEF TypeOK
  <2>6. (ticks - watch.start) * Refill \in Int
    <3>1. ticks - watch.start \in Int
      BY <2>5 DEF TypeOK, Watch
    <3>2. QED
      BY <3>1, OneMoreRefill
  <2>7. Available(k)' = t /\ \A j \in Keys \ {k} : Available(j)' = Available(j)
    <3> HIDE DEF k, t
    <3>1. QED
      BY <2>1, <2>3, <2>4, AfterStore
  <2>8. CASE watch.key = k
    <3>1. watch' = [watch EXCEPT !.spent = @ + Cost(call)]
      BY <2>4, <2>5, <2>8
    <3>2. /\ watch'.key = k
          /\ watch'.start = watch.start
          /\ watch'.spent = watch.spent + Cost(call)
      BY <2>5, <2>8, <3>1 DEF Watch
    <3>3. watch.spent + Available(k) <= Capacity + (ticks - watch.start) * Refill
      BY <2>5, <2>8 DEF Credit
    <3>4. watch.spent \in Nat
      BY <2>5 DEF Watch
    <3>5. /\ watch'.spent + t <= Capacity + (ticks - watch.start) * Refill
          /\ watch'.spent <= Capacity + (ticks - watch.start) * Refill
      BY <2>1, <2>2, <2>3, <2>6, <3>2, <3>3, <3>4
    <3>6. QED
      BY <2>4, <2>7, <3>2, <3>5 DEF Credit, RateBound
  <2>9. CASE watch.key # k
    <3>1. watch' = watch
      BY <2>4, <2>9
    <3>2. watch.key \in Keys \ {k}
      BY <2>5, <2>9 DEF Watch
    <3>3. Available(watch.key)' = Available(watch.key)
      BY <2>7, <3>1, <3>2
    <3>4. QED
      BY <2>4, <2>5, <3>1, <3>3 DEF Credit, RateBound
  <2>10. QED
    BY <2>8, <2>9
<1>2. ASSUME NEW c \in Clients, NEW call \in Calls, Refuse(c, call)
      PROVE  Credit' /\ RateBound'
  <2> DEFINE k == Key(call)
             t == Available(k)
  <2>1. k \in Keys /\ t \in Int /\ t <= Capacity
    BY CostType, AvailableType
  <2>2. /\ buckets' = [buckets EXCEPT ![k] = [tokens |-> t, last_refill |-> now]]
        /\ UNCHANGED <<ticks, skew, watch>>
    BY <1>2 DEF Refuse
  <2>3. \A j \in Keys : Available(j)' = Available(j)
    <3>1. Available(k)' = t /\ \A j \in Keys \ {k} : Available(j)' = Available(j)
      <4> HIDE DEF k, t
      <4>1. QED
        BY <2>1, <2>2, AfterStore
    <3>2. QED
      BY <3>1
  <2>4. watch # NoWatch => watch.key \in Keys
    BY DEF TypeOK, Watch
  <2>5. QED
    BY <2>2, <2>3, <2>4 DEF Credit, RateBound
<1>3. ASSUME NEW k \in Keys, Observe(k)
      PROVE  Credit' /\ RateBound'
  <2>1. /\ watch'.key = k /\ watch'.start = ticks /\ watch'.spent = 0
        /\ UNCHANGED <<ticks, skew, buckets>>
    BY <1>3 DEF Observe
  <2>2. Available(k)' = Available(k) /\ Available(k) \in Int /\ Available(k) <= Capacity
    BY <2>1, AvailableType DEF Available, now
  <2>3. (ticks - ticks) * Refill = 0
    BY DEF TypeOK
  <2>4. QED
    BY <2>1, <2>2, <2>3 DEF Credit, RateBound
<1>4. ASSUME Tick, watch # NoWatch
      PROVE  Credit' /\ RateBound'
  <2>1. watch' = watch /\ watch.key \in Keys /\ watch.start \in Nat /\ watch.spent \in Nat
    BY <1>4 DEF Tick, TypeOK, Watch
  <2>2. /\ Available(watch.key) \in Int /\ Available(watch.key)' \in Int
        /\ Available(watch.key)' <= Available(watch.key) + Refill
    BY <1>4, <2>1, AvailableType, AfterTick
  <2>3. PICK e \in Int : e = ticks - watch.start
    BY <2>1 DEF TypeOK
  <2>4. ticks' - watch'.start = e + 1
    BY <1>4, <2>1, <2>3 DEF Tick, TypeOK
  <2>5. e * Refill \in Int /\ (e + 1) * Refill = e * Refill + Refill
    BY OneMoreRefill
  <2>6. /\ watch.spent + Available(watch.key) <= Capacity + e * Refill
        /\ watch.spent <= Capacity + e * Refill
    BY <1>4, <2>3 DEF Credit, RateBound
  <2>7. /\ watch.spent + Available(watch.key)' <= Capacity + (e + 1) * Refill
        /\ watch.spent <= Capacity + (e + 1) * Refill
    BY <2>1, <2>2, <2>5, <2>6
  <2>8. QED
    BY <2>1, <2>4, <2>7 DEF Credit, RateBound
<1>5. ASSUME StepBack, watch # NoWatch
      PROVE  Credit' /\ RateBound'
  <2>1. /\ watch' = watch /\ ticks' = ticks
        /\ watch.key \in Keys /\ watch.start \in Nat /\ watch.spent \in Nat
    BY <1>5 DEF StepBack, TypeOK, Watch
  <2>2. /\ Available(watch.key) \in Int /\ Available(watch.key)' \in Int
        /\ Available(watch.key)' <= Available(watch.key)
    BY <1>5, <2>1, AvailableType, AfterStepBack
  <2>3. PICK e \in Int : e = (ticks - watch.start) * Refill
    <3>1. ticks - watch.start \in Int
      BY <2>1 DEF TypeOK
    <3>2. QED
      BY <3>1, OneMoreRefill
  <2>4. watch.spent + Available(watch.key) <= Capacity + e
    BY <1>5, <2>3 DEF Credit
  <2>5. watch.spent + Available(watch.key)' <= Capacity + e
    BY <2>1, <2>2, <2>3, <2>4
  <2>6. QED
    BY <1>5, <2>1, <2>3, <2>5 DEF Credit, RateBound
<1>6. CASE UNCHANGED vars
    BY <1>6 DEF vars, Credit, RateBound, Available, now
<1>7. CASE watch' = NoWatch
    BY <1>7 DEF Credit, RateBound
<1>8. (Tick \/ StepBack) /\ watch' # NoWatch => watch # NoWatch
    BY DEF Tick, StepBack
<1>9. QED
    BY <1>1, <1>2, <1>3, <1>4, <1>5, <1>6, <1>7, <1>8 DEF Next, Evaluate

-----------------------------------------------------------------------------
(* retry_after is long enough.                                             *)

\* A promise whose bucket shows no fewer tokens, at the same instant, stays good.
LEMMA StaysFunded ==
    ASSUME NEW c \in Clients, Funded(c), TypeOK, TypeOK', promise[c] # NoPromise,
           promise'[c] = promise[c], ticks' = ticks,
           Available(Key(promise[c].call))' = Available(Key(promise[c].call))
    PROVE  Funded(c)'
    BY DEF Funded

LEMMA PromiseStep ==
    ASSUME TypeOK, Promises, RetryAdmitted, [Next]_vars
    PROVE  Promises' /\ RetryAdmitted'
<1> USE LimiterAssumption
<1>0. TypeOK'
    BY TypeStep
<1>1. ASSUME NEW c \in Clients, NEW call \in Calls, Admit(c, call)
      PROVE  Promises' /\ RetryAdmitted'
  <2> DEFINE k == Key(call)
             t == Available(k) - Cost(call)
  <2>1. k \in Keys /\ Cost(call) \in Nat /\ Cost(call) >= 1
    BY CostType
  <2>2. t \in Int /\ t <= Capacity
    BY <2>1, AvailableType
  <2>3. /\ buckets' = [buckets EXCEPT ![k] = [tokens |-> t, last_refill |-> now]]
        /\ UNCHANGED <<ticks, skew>>
    BY <1>1 DEF Admit
  <2>4. \A j \in Keys \ {k} : Available(j)' = Available(j)
    <3> HIDE DEF k, t
    <3>1. QED
      BY <2>1, <2>2, <2>3, AfterStore
  <2>5. ASSUME NEW d \in Clients, promise'[d] # NoPromise
        PROVE  /\ promise'[d].sole /\ Cost(promise'[d].call) <= Capacity => Funded(d)'
               /\ Cost(promise'[d].call) <= Capacity => ~promise'[d].broken
    <3>1. d # c /\ promise[d] # NoPromise
      BY <1>1, <2>5 DEF Admit
    <3>2. promise[d] \in Promise
      BY <3>1 DEF TypeOK
    <3>3. CASE Key(promise[d].call) = k
      <4>1. promise'[d] = [promise[d] EXCEPT !.sole = FALSE]
        BY <1>1, <3>1, <3>3 DEF Admit
      <4>2. /\ ~promise'[d].sole
            /\ promise'[d].call = promise[d].call
            /\ promise'[d].broken = promise[d].broken
        BY <3>2, <4>1 DEF Promise
      <4>3. QED
        BY <3>1, <4>2 DEF RetryAdmitted
    <3>4. CASE Key(promise[d].call) # k
      <4>1. promise'[d] = promise[d]
        BY <1>1, <3>1, <3>4 DEF Admit
      <4>2. Key(promise[d].call) \in Keys \ {k}
        BY <3>2, <3>4, CostType DEF Promise
      <4>3. QED
        BY <1>0, <2>3, <2>4, <3>1, <4>1, <4>2, StaysFunded DEF Promises, RetryAdmitted
    <3>5. QED
      BY <3>3, <3>4
  <2>6. QED
    BY <2>5 DEF Promises, RetryAdmitted
<1>2. ASSUME NEW c \in Clients, NEW call \in Calls, Refuse(c, call)
      PROVE  Promises' /\ RetryAdmitted'
  <2> DEFINE k == Key(call)
             t == Available(k)
  <2>1. k \in Keys /\ t \in Int /\ t <= Capacity /\ Cost(call) \in Nat
    BY CostType, AvailableType
  <2>2. /\ buckets' = [buckets EXCEPT ![k] = [tokens |-> t, last_refill |-> now]]
        /\ promise' = [promise EXCEPT ![c] = Told(c, call)]
        /\ UNCHANGED <<ticks, skew, watch>>
        /\ t < Cost(call)
    BY <1>2 DEF Refuse
  <2>3. \A j \in Keys : Available(j)' = Available(j)
    <3>1. Available(k)' = t /\ \A j \in Keys \ {k} : Available(j)' = Available(j)
      <4> HIDE DEF k, t
      <4>1. QED
        BY <2>1, <2>2, AfterStore
    <3>2. QED
      BY <3>1
  <2>4. ticks * Refill \in Int
    BY OneMoreRefill DEF TypeOK
  <2>5. /\ promise'[c] = Told(c, call)
        /\ promise'[c].call = call
        /\ promise'[c].due = ticks * Refill + Cost(call) - t
        /\ promise'[c].broken = (Retries(c, call) /\ promise[c].sole)
    BY <2>2 DEF TypeOK, Told
  <2>6. Funded(c)'
    <3>1. Available(k)' = t
      BY <2>1, <2>3
    <3>2. t + (ticks * Refill + Cost(call) - t) - ticks * Refill >= Cost(call)
      BY <2>1, <2>4
    <3>3. QED
      BY <2>2, <2>5, <3>1, <3>2 DEF Funded
  <2>7. Cost(call) <= Capacity => ~(Retries(c, call) /\ promise[c].sole)
    <3>1. SUFFICES ASSUME Cost(call) <= Capacity, Retries(c, call), promise[c].sole
          PROVE  FALSE
      OBVIOUS
    <3>2. promise[c] # NoPromise /\ promise[c].call = call /\ ticks * Refill >= promise[c].due
      BY <3>1 DEF Retries
    <3>3. Funded(c)
      BY <3>1, <3>2 DEF Promises
    <3>4. promise[c].due \in Int
      BY <3>2 DEF TypeOK, Promise
    <3>5. t >= Cost(call) \/ t + promise[c].due - ticks * Refill >= Cost(call)
      BY <3>2, <3>3 DEF Funded
    <3>6. QED
      BY <2>1, <2>2, <2>4, <3>2, <3>4, <3>5
  <2>8. ASSUME NEW d \in Clients, d # c, promise'[d] # NoPromise
        PROVE  /\ promise'[d].sole /\ Cost(promise'[d].call) <= Capacity => Funded(d)'
               /\ Cost(promise'[d].call) <= Capacity => ~promise'[d].broken
    <3>1. promise'[d] = promise[d] /\ promise[d] \in Promise
      BY <2>2, <2>8 DEF TypeOK
    <3>2. Key(promise[d].call) \in Keys
      BY <3>1, CostType DEF Promise
    <3>3. QED
      BY <1>0, <2>2, <2>3, <2>8, <3>1, <3>2, StaysFunded DEF Promises, RetryAdmitted
  <2>9. QED
    BY <2>5, <2>6, <2>7, <2>8 DEF Promises, RetryAdmitted
<1>3. ASSUME NEW k \in Keys, Observe(k)
      PROVE  Promises' /\ RetryAdmitted'
    BY <1>3 DEF Observe, Promises, RetryAdmitted, Funded, Available, now
<1>4. CASE Tick
  <2>1. promise' = promise /\ ticks' = ticks + 1
    BY <1>4 DEF Tick
  <2>2. ASSUME NEW d \in Clients, promise[d] # NoPromise, promise[d].sole,
               Cost(promise[d].call) <= Capacity
        PROVE  Funded(d)'
    <3>1. promise[d].call \in Calls /\ promise[d].due \in Int
      BY <2>2 DEF TypeOK, Promise
    <3>2. PICK k \in Keys, cost \in Nat :
            k = Key(promise[d].call) /\ cost = Cost(promise[d].call)
      BY <3>1, CostType
    <3>3. /\ Available(k) \in Int /\ Available(k)' \in Int
          /\ Available(k)' >= Available(k)
          /\ Available(k)' = Capacity \/ Available(k)' = Available(k) + Refill
      BY <1>4, <3>2, AvailableType, AfterTick
    <3>4. ticks * Refill \in Int /\ (ticks + 1) * Refill = ticks * Refill + Refill
      BY OneMoreRefill DEF TypeOK
    <3>5. Available(k) >= cost \/ Available(k) + promise[d].due - ticks * Refill >= cost
      BY <2>2, <3>2 DEF Promises, Funded
    <3>6. \/ Available(k)' >= cost
          \/ Available(k)' + promise[d].due - (ticks + 1) * Refill >= cost
      BY <2>2, <3>1, <3>2, <3>3, <3>4, <3>5
    <3>7. QED
      BY <2>1, <3>2, <3>6 DEF Funded
  <2>3. QED
    BY <2>1, <2>2 DEF Promises, RetryAdmitted
<1>5. CASE StepBack
  <2>1. ASSUME NEW d \in Clients, promise'[d] # NoPromise
        PROVE  /\ ~promise'[d].sole
               /\ Cost(promise'[d].call) <= Capacity => ~promise'[d].broken
    <3>1. promise[d] # NoPromise /\ promise'[d] = [promise[d] EXCEPT !.sole = FALSE]
      BY <1>5, <2>1 DEF StepBack
    <3>2. promise[d] \in Promise
      BY <3>1 DEF TypeOK
    <3>3. /\ ~promise'[d].sole
          /\ promise'[d].call = promise[d].call
          /\ promise'[d].broken = promise[d].broken
      BY <3>1, <3>2 DEF Promise
    <3>4. QED
      BY <3>1, <3>3 DEF RetryAdmitted
  <2>2. QED
    BY <2>1 DEF Promises, RetryAdmitted
<1>6. CASE UNCHANGED vars
    BY <1>6 DEF vars, Promises, RetryAdmitted, Funded, Available, now
<1>7. QED
    BY <1>1, <1>2, <1>3, <1>4, <1>5, <1>6 DEF Next, Evaluate

-----------------------------------------------------------------------------
(* The theorems.                                                           *)

LEMMA Invariant == Spec => []IInv
<1>1. ASSUME Init
      PROVE  IInv
  <2>1. TypeOK
    BY <1>1 DEF Init, TypeOK
  <2>2. QED
    BY <1>1, <2>1 DEF Init, IInv, Credit, RateBound, Promises, RetryAdmitted
<1>2. IInv /\ [Next]_vars => IInv'
    BY TypeStep, CreditStep, PromiseStep DEF IInv
<1>3. QED
    BY <1>1, <1>2, PTL DEF Spec

\* Type correctness; in particular a bucket never holds more than its capacity.
THEOREM TypeCorrect == Spec => []TypeOK
<1>1. IInv => TypeOK
    BY DEF IInv
<1>2. QED
    BY <1>1, Invariant, PTL

\* Over any period a key lets through at most one full bucket and the refill
\* of the time that really passed (rate_limiter.py:54-68), for any capacity,
\* refill, costs and keys, and however often the wall clock is set back.
THEOREM KeyRateIsBounded == Spec => []RateBound
<1>1. IInv => RateBound
    BY DEF IInv
<1>2. QED
    BY <1>1, Invariant, PTL

\* A call that fits the bucket, repeated after the retry_after it was told
\* (rate_limiter.py:70-71), is let through unless another call was let through
\* from the same bucket meanwhile or the wall clock was set back.
THEOREM SleepingIsEnough == Spec => []RetryAdmitted
<1>1. IInv => RetryAdmitted
    BY DEF IInv
<1>2. QED
    BY <1>1, Invariant, PTL

-----------------------------------------------------------------------------
(* The refinement: late refills look like continuous ones.                 *)

CreditOf == [k \in Keys |-> Available(k)]

\* A call let through is a spending of its key; no other bucket is touched.
LEMMA AdmitSpends ==
    ASSUME TypeOK, NEW c \in Clients, NEW call \in Calls, Admit(c, call)
    PROVE  Buckets!Spend(Key(call))
<1> DEFINE k == Key(call)
           t == Available(k) - Cost(call)
<1>1. k \in Keys /\ Cost(call) \in Nat /\ Cost(call) >= 1
    BY CostType
<1>2. Available(k) \in Int /\ Available(k) <= Capacity /\ Available(k) >= Cost(call)
    BY <1>1, AvailableType DEF Admit
<1>3. t \in Int /\ t <= Capacity /\ Cost(call) \in 1 .. CreditOf[k]
    BY <1>1, <1>2, LimiterAssumption DEF CreditOf
<1>4. /\ buckets' = [buckets EXCEPT ![k] = [tokens |-> t, last_refill |-> now]]
      /\ UNCHANGED <<ticks, skew>>
    BY DEF Admit
<1>5. Available(k)' = t /\ \A j \in Keys \ {k} : Available(j)' = Available(j)
  <2> HIDE DEF k, t
  <2>1. QED
    BY <1>1, <1>3, <1>4, AfterStore
<1>6. CreditOf' = [CreditOf EXCEPT ![k] = @ - Cost(call)]
    BY <1>1, <1>5 DEF CreditOf
<1>7. QED
    BY <1>3, <1>4, <1>6 DEF Buckets!Spend, CreditOf

\* A refusal stores the refill and changes nothing that anybody could notice.
LEMMA RefuseStutters ==
    ASSUME TypeOK, NEW c \in Clients, NEW call \in Calls, Refuse(c, call)
    PROVE  UNCHANGED Buckets!vars
<1> DEFINE k == Key(call)
           t == Available(k)
<1>1. k \in Keys /\ t \in Int /\ t <= Capacity
    BY CostType, AvailableType
<1>2. /\ buckets' = [buckets EXCEPT ![k] = [tokens |-> t, last_refill |-> now]]
      /\ UNCHANGED <<ticks, skew>>
    BY DEF Refuse
<1>3. Available(k)' = t /\ \A j \in Keys \ {k} : Available(j)' = Available(j)
  <2> HIDE DEF k, t
  <2>1. QED
    BY <1>1, <1>2, AfterStore
<1>4. CreditOf' = CreditOf
    BY <1>3 DEF CreditOf
<1>5. QED
    BY <1>2, <1>4 DEF Buckets!vars, CreditOf

\* Time refills every bucket, those nobody asks for too.
LEMMA TickElapses ==
    ASSUME TypeOK, TypeOK', Tick
    PROVE  Buckets!Elapse
<1>1. ASSUME NEW k \in Keys
      PROVE  Available(k)' = Buckets!Refilled(Available(k))
  <2>1. Available(k) \in Int /\ Available(k) <= Capacity
    BY AvailableType
  <2>2. /\ Available(k)' \in Int
        /\ Available(k)' <= Available(k) + Refill
        /\ Available(k)' = Capacity \/ Available(k)' = Available(k) + Refill
    BY AfterTick
  <2>3. Available(k)' <= Capacity
    <3>1. CASE buckets'[k] = NoBucket
      BY <3>1, LimiterAssumption DEF Available
    <3>2. CASE buckets'[k] # NoBucket
      BY <2>2, <3>2, LimiterAssumption DEF Available, Lesser
    <3>3. QED
      BY <3>1, <3>2
  <2>4. QED
    BY <2>1, <2>2, <2>3, LimiterAssumption DEF Buckets!Refilled
<1>2. CreditOf' = [k \in Keys |-> Buckets!Refilled(CreditOf[k])]
    BY <1>1 DEF CreditOf
<1>3. QED
    BY <1>2 DEF Buckets!Elapse, CreditOf, Tick

LEMMA StepBackSetsBack ==
    ASSUME TypeOK, StepBack
    PROVE  Buckets!SetBack
<1> DEFINE less == [k \in Keys |-> Available(k) - Available(k)']
<1>1. ASSUME NEW k \in Keys
      PROVE  less[k] \in 0 .. Refill /\ Available(k)' = Available(k) - less[k]
  <2>1. Available(k) \in Int
    BY AvailableType
  <2>2. /\ Available(k)' \in Int
        /\ Available(k)' <= Available(k)
        /\ Available(k)' >= Available(k) - Refill
    BY AfterStepBack
  <2>3. QED
    BY <2>1, <2>2, LimiterAssumption
<1>2. less \in [Keys -> 0 .. Refill]
    BY <1>1
<1> HIDE DEF less
<1>3. CreditOf' = [k \in Keys |-> CreditOf[k] - less[k]]
    BY <1>1 DEF CreditOf
<1>4. QED
    BY <1>2, <1>3 DEF Buckets!SetBack, CreditOf, StepBack

LEMMA BucketsStep ==
    ASSUME TypeOK, [Next]_vars
    PROVE  [Buckets!Next]_(Buckets!vars)
<1>0. TypeOK'
    BY TypeStep
<1>1. ASSUME NEW c \in Clients, NEW call \in Calls, Admit(c, call)
      PROVE  Buckets!Next
    BY <1>1, AdmitSpends, CostType DEF Buckets!Next
<1>2. ASSUME NEW c \in Clients, NEW call \in Calls, Refuse(c, call)
      PROVE  UNCHANGED Buckets!vars
    BY <1>2, RefuseStutters
<1>3. ASSUME NEW k \in Keys, Observe(k)
      PROVE  UNCHANGED Buckets!vars
    BY <1>3 DEF Observe, Buckets!vars, Available, now
<1>4. CASE Tick
    BY <1>0, <1>4, TickElapses DEF Buckets!Next
<1>5. CASE StepBack
    BY <1>5, StepBackSetsBack DEF Buckets!Next
<1>6. CASE UNCHANGED vars
    BY <1>6 DEF vars, Buckets!vars, Available, now
<1>7. QED
    BY <1>1, <1>2, <1>3, <1>4, <1>5, <1>6 DEF Next, Evaluate

\* evaluate refills a bucket only when a call asks for it (rate_limiter.py:54-64); to
\* its callers that is a bucket per key that refills all the time, from which calls let
\* through take their cost, refusals take nothing, and a clock set back at most the
\* refill of the time it lost.
THEOREM LimiterKeepsBuckets == Spec => KeepsBuckets
<1>1. Init => Buckets!Init
    BY DEF Init, Buckets!Init, Available
<1>2. TypeOK /\ [Next]_vars => [Buckets!Next]_(Buckets!vars)
    BY BucketsStep
<1>3. QED
    BY <1>1, <1>2, TypeCorrect, PTL DEF Spec, KeepsBuckets, Buckets!Spec

-----------------------------------------------------------------------------
(* Threads that enter evaluate one at a time.                              *)

CONSTANTS Threads, NoThread, MaxCalls
VARIABLES published, object, pc, local, spent, made

Threaded == INSTANCE RateLimiterThreads

Places == {"idle", "lookup", "create", "publish", "elapsed", "min", "store"}

ThreadTypeOK ==
    /\ ticks \in Nat
    /\ published \in Threads \cup {NoThread}
    /\ object \in [Threads -> [tokens : Int, last_refill : Nat]]
    /\ pc \in [Threads -> Places]
    /\ local \in [Threads -> [now : Nat, bucket : Threads \cup {NoThread},
                              elapsed : Int, refilled : Int]]
    /\ spent \in Nat

\* The one bucket: what it let through and what it holds are covered up to the
\* time of its last refill, and it holds no debt.
Covered ==
    /\ published = NoThread => spent = 0
    /\ published # NoThread =>
          /\ 0 <= object[published].tokens
          /\ spent + object[published].tokens
                <= Capacity + object[published].last_refill * Refill
          /\ object[published].last_refill <= ticks

\* The thread inside evaluate works on that bucket, and nobody has touched it since.
Working(t) ==
    /\ pc[t] # "idle" => local[t].now <= ticks
    /\ pc[t] # "idle" /\ published # NoThread =>
          object[published].last_refill <= local[t].now
    /\ pc[t] \in {"create", "publish"} => published = NoThread
    /\ pc[t] = "publish" =>
          local[t].bucket = t /\ object[t] = [tokens |-> Capacity, last_refill |-> local[t].now]
    /\ pc[t] \in {"elapsed", "min", "store"} =>
          published # NoThread /\ local[t].bucket = published
    /\ pc[t] \in {"min", "store"} =>
          local[t].elapsed = local[t].now - object[published].last_refill
    /\ pc[t] = "store" =>
          /\ 0 <= local[t].refilled
          /\ local[t].refilled <= object[published].tokens + local[t].elapsed * Refill

ThreadInv == ThreadTypeOK /\ Covered /\ \A t \in Threads : Working(t)


\* More time refills more.
LEMMA RefillGrows ==
    ASSUME NEW a \in Int, NEW b \in Int, a <= b
    PROVE  a * Refill <= b * Refill
<1>1. PICK n \in Nat : n = b - a
    OBVIOUS
<1>2. n * Refill \in Nat /\ n * Refill = b * Refill - a * Refill
    BY <1>1, OneMoreRefill, LimiterAssumption
<1>3. a * Refill \in Int /\ b * Refill \in Int
    BY OneMoreRefill
<1>4. QED
    BY <1>2, <1>3

\* Whoever else there is, is outside evaluate.
LEMMA OthersIdle ==
    ASSUME ThreadTypeOK, Threaded!Serial, Threaded!Serial', NEW t \in Threads, NEW place,
           Threaded!Goto(t, place), pc[t] # "idle" \/ place # "idle"
    PROVE  /\ pc'[t] = place
           /\ \A u \in Threads \ {t} : pc'[u] = "idle" /\ Working(u)'
<1>1. pc' = [pc EXCEPT ![t] = place] /\ pc \in [Threads -> Places]
    BY DEF Threaded!Goto, ThreadTypeOK
<1>2. ASSUME NEW u \in Threads \ {t}
      PROVE  pc'[u] = "idle"
    BY <1>1, <1>2 DEF Threaded!Serial
<1>3. QED
    BY <1>1, <1>2 DEF Working

\* What the check at the end of evaluate leaves, with the stored bucket in place:
\* a token less in the bucket is a token more let through.
LEMMA Consumed ==
    ASSUME NEW b \in Threads, NEW tokens \in Int, NEW then \in Nat, ThreadTypeOK,
           object' = [object EXCEPT ![b] =
               [[tokens |-> tokens, last_refill |-> then]
                    EXCEPT !.tokens = IF @ >= 1 THEN @ - 1 ELSE @]],
           spent' = IF tokens >= 1 THEN spent + 1 ELSE spent,
           published' = b, then <= ticks', NoThread \notin Threads,
           0 <= tokens, spent + tokens <= Capacity + then * Refill
    PROVE  /\ object' \in [Threads -> [tokens : Int, last_refill : Nat]]
           /\ spent' \in Nat
           /\ Covered'
<1>1. PICK left \in Int : left = IF tokens >= 1 THEN tokens - 1 ELSE tokens
    OBVIOUS
<1>2. object' = [object EXCEPT ![b] = [tokens |-> left, last_refill |-> then]]
  <2>1. [[tokens |-> tokens, last_refill |-> then] EXCEPT !.tokens = IF @ >= 1 THEN @ - 1 ELSE @]
          = [tokens |-> left, last_refill |-> then]
    BY <1>1
  <2>2. QED
    BY <2>1
<1>3. /\ object' \in [Threads -> [tokens : Int, last_refill : Nat]]
      /\ object'[b].tokens = left /\ object'[b].last_refill = then
    BY <1>2 DEF ThreadTypeOK
<1>4. then * Refill \in Int
    BY OneMoreRefill
<1>5. spent' \in Nat /\ 0 <= left /\ spent' + left <= Capacity + then * Refill
    BY <1>1, <1>4, LimiterAssumption DEF ThreadTypeOK
<1>6. QED
    BY <1>3, <1>5 DEF Covered

LEMMA ThreadStep ==
    ASSUME ThreadInv, Threaded!Serial, Threaded!Serial', NoThread \notin Threads,
           [Threaded!Next]_(Threaded!vars)
    PROVE  ThreadInv'
<1> USE LimiterAssumption
<1>0. ThreadTypeOK /\ Covered /\ \A t \in Threads : Working(t)
    BY DEF ThreadInv
<1>1. ASSUME NEW t \in Threads, Threaded!ReadClock(t)
      PROVE  ThreadInv'
  <2>1. pc'[t] = "lookup" /\ \A u \in Threads \ {t} : Working(u)'
    BY <1>0, <1>1, OthersIdle DEF Threaded!ReadClock
  <2>2. /\ local' = [local EXCEPT ![t] = [Threaded!Fresh EXCEPT !.now = ticks]]
        /\ UNCHANGED <<ticks, published, object, spent>>
    BY <1>1 DEF Threaded!ReadClock
  <2>3. [Threaded!Fresh EXCEPT !.now = ticks]
          = [now |-> ticks, bucket |-> NoThread, elapsed |-> 0, refilled |-> 0]
    BY DEF Threaded!Fresh
  <2>4. ThreadTypeOK' /\ local'[t].now = ticks
    BY <1>0, <1>1, <2>2, <2>3 DEF ThreadTypeOK, Threaded!ReadClock, Threaded!Goto, Places
  <2>5. Covered'
    BY <1>0, <2>2 DEF Covered
  <2>6. Working(t)'
    BY <1>0, <2>1, <2>2, <2>4 DEF Working, Covered, ThreadTypeOK
  <2>7. QED
    BY <2>1, <2>4, <2>5, <2>6 DEF ThreadInv
<1>2. ASSUME NEW t \in Threads, Threaded!Lookup(t)
      PROVE  ThreadInv'
  <2> DEFINE place == IF published = NoThread THEN "create" ELSE "elapsed"
  <2>1. pc'[t] = place /\ \A u \in Threads \ {t} : Working(u)'
    BY <1>0, <1>2, OthersIdle DEF Threaded!Lookup
  <2>2. ThreadTypeOK'
    BY <1>0, <1>2 DEF ThreadTypeOK, Threaded!Lookup, Threaded!Goto, Places
  <2>3. Covered'
    BY <1>0, <1>2 DEF Covered, Threaded!Lookup
  <2>4. Working(t)'
    BY <1>0, <1>2, <2>1 DEF Working, Threaded!Lookup, ThreadTypeOK
  <2>5. QED
    BY <2>1, <2>2, <2>3, <2>4 DEF ThreadInv
<1>3. ASSUME NEW t \in Threads, Threaded!Create(t)
      PROVE  ThreadInv'
  <2>1. pc'[t] = "publish" /\ \A u \in Threads \ {t} : Working(u)'
    BY <1>0, <1>3, OthersIdle DEF Threaded!Create
  <2>2. ThreadTypeOK'
    BY <1>0, <1>3 DEF ThreadTypeOK, Threaded!Create, Threaded!Goto, Places
  <2>3. published = NoThread
    BY <1>0, <1>3 DEF Working, Threaded!Create
  <2>4. Covered'
    BY <1>0, <1>3, <2>3 DEF Covered, Threaded!Create
  <2>5. Working(t)'
    BY <1>0, <1>3, <2>1, <2>3 DEF Working, Threaded!Create, ThreadTypeOK
  <2>6. QED
    BY <2>1, <2>2, <2>4, <2>5 DEF ThreadInv
<1>4. ASSUME NEW t \in Threads, Threaded!Publish(t)
      PROVE  ThreadInv'
  <2>1. pc'[t] = "idle" /\ \A u \in Threads \ {t} : Working(u)'
    BY <1>0, <1>4, OthersIdle DEF Threaded!Publish, Threaded!Consume
  <2>2. /\ local[t].bucket = t /\ spent = 0
        /\ object[t] = [tokens |-> Capacity, last_refill |-> local[t].now]
        /\ local[t].now \in Nat /\ local[t].now <= ticks
    BY <1>0, <1>4 DEF Working, Covered, ThreadTypeOK, Threaded!Publish
  <2>3. spent + Capacity <= Capacity + local[t].now * Refill
    <3>1. local[t].now * Refill \in Nat
      BY <2>2
    <3>2. QED
      BY <2>2, <3>1
  <2>4. /\ object' = [object EXCEPT ![t] =
               [[tokens |-> Capacity, last_refill |-> local[t].now]
                    EXCEPT !.tokens = IF @ >= 1 THEN @ - 1 ELSE @]]
        /\ spent' = IF Capacity >= 1 THEN spent + 1 ELSE spent
        /\ published' = t
        /\ UNCHANGED <<ticks, local>>
    BY <1>4, <2>2 DEF Threaded!Publish, Threaded!Consume
  <2>5. /\ object' \in [Threads -> [tokens : Int, last_refill : Nat]]
        /\ spent' \in Nat
        /\ Covered'
    <3>1. Capacity \in Int /\ 0 <= Capacity /\ local[t].now <= ticks'
      BY <2>2, <2>4
    <3>2. QED
      BY <1>0, <2>2, <2>3, <2>4, <3>1, Consumed
  <2>6. ThreadTypeOK' /\ Working(t)'
    BY <1>0, <1>4, <2>1, <2>4, <2>5
    DEF ThreadTypeOK, Working, Threaded!Publish, Threaded!Consume, Threaded!Goto, Places
  <2>7. QED
    BY <2>1, <2>5, <2>6 DEF ThreadInv
<1>5. ASSUME NEW t \in Threads, Threaded!Elapsed(t)
      PROVE  ThreadInv'
  <2>1. pc'[t] = "min" /\ \A u \in Threads \ {t} : Working(u)'
    BY <1>0, <1>5, OthersIdle DEF Threaded!Elapsed
  <2>2. published \in Threads /\ local[t].bucket = published
    BY <1>0, <1>5 DEF Working, ThreadTypeOK, Threaded!Elapsed
  <2>3. ThreadTypeOK'
    BY <1>0, <1>5, <2>2 DEF ThreadTypeOK, Threaded!Elapsed, Threaded!Goto, Places
  <2>4. Covered'
    BY <1>0, <1>5 DEF Covered, Threaded!Elapsed
  <2>5. Working(t)'
    BY <1>0, <1>5, <2>1, <2>2 DEF Working, Threaded!Elapsed, ThreadTypeOK
  <2>6. QED
    BY <2>1, <2>3, <2>4, <2>5 DEF ThreadInv
<1>6. ASSUME NEW t \in Threads, Threaded!Min(t)
      PROVE  ThreadInv'
  <2>1. pc'[t] = "store" /\ \A u \in Threads \ {t} : Working(u)'
    BY <1>0, <1>6, OthersIdle DEF Threaded!Min
  <2>2. /\ published \in Threads /\ local[t].bucket = published
        /\ local[t].elapsed = local[t].now - object[published].last_refill
        /\ object[published].last_refill <= local[t].now /\ local[t].now <= ticks
        /\ 0 <= object[published].tokens
    BY <1>0, <1>6 DEF Working, Covered, ThreadTypeOK, Threaded!Min
  <2>3. /\ object[published].tokens \in Int /\ local[t].elapsed \in Nat
        /\ local[t].now \in Nat /\ object[published].last_refill \in Nat
    BY <1>0, <2>2 DEF ThreadTypeOK
  <2>4. local[t].elapsed * Refill \in Nat
    BY <2>3
  <2>5. PICK sum \in Int : sum = object[published].tokens + local[t].elapsed * Refill
    BY <2>3, <2>4
  <2>6. PICK least \in Int : least = IF sum < Capacity THEN sum ELSE Capacity
    BY <2>5
  <2>7. 0 <= least /\ least <= sum
    BY <2>2, <2>3, <2>4, <2>5, <2>6
  <2>8. /\ local' = [local EXCEPT ![t].refilled = least]
        /\ UNCHANGED <<ticks, published, object, spent>>
    BY <1>6, <2>2, <2>5, <2>6 DEF Threaded!Min
  <2>9. ThreadTypeOK'
    BY <1>0, <1>6, <2>8 DEF ThreadTypeOK, Threaded!Min, Threaded!Goto, Places
  <2>10. Covered'
    BY <1>0, <2>8 DEF Covered
  <2>11. /\ local'[t].refilled = least /\ local'[t].now = local[t].now
         /\ local'[t].bucket = published /\ local'[t].elapsed = local[t].elapsed
    BY <1>0, <2>2, <2>8 DEF ThreadTypeOK
  <2>12. Working(t)'
    BY <2>1, <2>2, <2>5, <2>7, <2>8, <2>11 DEF Working
  <2>13. QED
    BY <2>1, <2>9, <2>10, <2>12 DEF ThreadInv
<1>7. ASSUME NEW t \in Threads, Threaded!Store(t)
      PROVE  ThreadInv'
  <2> DEFINE b == published
  <2>1. pc'[t] = "idle" /\ \A u \in Threads \ {t} : Working(u)'
    BY <1>0, <1>7, OthersIdle DEF Threaded!Store, Threaded!Consume
  <2>2. /\ b \in Threads /\ local[t].bucket = b
        /\ local[t].elapsed = local[t].now - object[b].last_refill
        /\ local[t].now <= ticks
        /\ 0 <= local[t].refilled
        /\ local[t].refilled <= object[b].tokens + local[t].elapsed * Refill
        /\ spent + object[b].tokens <= Capacity + object[b].last_refill * Refill
    BY <1>0, <1>7 DEF Working, Covered, ThreadTypeOK, Threaded!Store
  <2>3. /\ local[t].now \in Nat /\ local[t].refilled \in Int
        /\ object[b].tokens \in Int /\ object[b].last_refill \in Nat /\ spent \in Nat
    BY <1>0, <2>2 DEF ThreadTypeOK
  <2>4. /\ local[t].elapsed * Refill = local[t].now * Refill - object[b].last_refill * Refill
        /\ local[t].now * Refill \in Int /\ object[b].last_refill * Refill \in Int
    <3>1. PICK n \in Int, l \in Int : n = local[t].now /\ l = object[b].last_refill
      BY <2>3
    <3>2. /\ (n - l) * Refill = n * Refill - l * Refill
          /\ n * Refill \in Int /\ l * Refill \in Int
      BY OneMoreRefill
    <3>3. local[t].elapsed = n - l
      BY <2>2, <3>1
    <3>4. QED
      BY <3>1, <3>2, <3>3
  <2>5. spent + local[t].refilled <= Capacity + local[t].now * Refill
    BY <2>2, <2>3, <2>4
  <2>6. /\ object' = [object EXCEPT ![b] =
               [[tokens |-> local[t].refilled, last_refill |-> local[t].now]
                    EXCEPT !.tokens = IF @ >= 1 THEN @ - 1 ELSE @]]
        /\ spent' = IF local[t].refilled >= 1 THEN spent + 1 ELSE spent
        /\ UNCHANGED <<ticks, local, published>>
    BY <1>7, <2>2 DEF Threaded!Store, Threaded!Consume
  <2>7. /\ object' \in [Threads -> [tokens : Int, last_refill : Nat]]
        /\ spent' \in Nat
        /\ Covered'
    BY <1>0, <2>2, <2>3, <2>5, <2>6, Consumed
  <2>8. ThreadTypeOK' /\ Working(t)'
    BY <1>0, <1>7, <2>1, <2>6, <2>7
    DEF ThreadTypeOK, Working, Threaded!Store, Threaded!Consume, Threaded!Goto, Places
  <2>9. QED
    BY <2>1, <2>7, <2>8 DEF ThreadInv
<1>8. CASE Threaded!Tick
  <2>1. /\ ticks' = ticks + 1
        /\ UNCHANGED <<published, object, pc, local, spent, made>>
    BY <1>8 DEF Threaded!Tick
  <2>2. ThreadTypeOK'
    BY <1>0, <2>1 DEF ThreadTypeOK
  <2>3. Covered'
    BY <1>0, <2>1 DEF Covered, ThreadTypeOK
  <2>4. ASSUME NEW t \in Threads
        PROVE  Working(t)'
    BY <1>0, <2>1 DEF Working, ThreadTypeOK
  <2>5. QED
    BY <2>2, <2>3, <2>4 DEF ThreadInv
<1>9. CASE UNCHANGED Threaded!vars
    BY <1>0, <1>9 DEF Threaded!vars, ThreadInv, ThreadTypeOK, Covered, Working
<1>10. QED
    BY <1>1, <1>2, <1>3, <1>4, <1>5, <1>6, <1>7, <1>8, <1>9 DEF Threaded!Next

LEMMA CoveredBounds ==
    ASSUME ThreadInv
    PROVE  Threaded!RateBoundOfKey
<1>1. ThreadTypeOK /\ Covered
    BY DEF ThreadInv
<1>2. CASE published = NoThread
  <2>1. 0 <= ticks * Refill
    BY <1>1, LimiterAssumption DEF ThreadTypeOK
  <2>2. spent = 0 /\ ticks * Refill \in Int
    BY <1>1, <1>2, OneMoreRefill DEF Covered, ThreadTypeOK
  <2>3. QED
    BY <2>1, <2>2, LimiterAssumption DEF Threaded!RateBoundOfKey
<1>3. CASE published # NoThread
  <2>1. PICK then \in Nat, tokens \in Int :
           then = object[published].last_refill /\ tokens = object[published].tokens
    BY <1>1, <1>3 DEF ThreadTypeOK
  <2>2. 0 <= tokens /\ spent + tokens <= Capacity + then * Refill /\ then <= ticks
    BY <1>1, <1>3, <2>1 DEF Covered
  <2>3. then * Refill <= ticks * Refill
    BY <1>1, <2>2, RefillGrows DEF ThreadTypeOK
  <2>4. then * Refill \in Int /\ ticks * Refill \in Int /\ spent \in Nat
    <3>1. then \in Int /\ ticks \in Int /\ spent \in Nat
      BY <1>1 DEF ThreadTypeOK
    <3>2. \A n \in Int : n * Refill \in Int
      BY OneMoreRefill
    <3>3. QED
      BY <3>1, <3>2
  <2>5. QED
    BY <2>2, <2>3, <2>4, LimiterAssumption DEF Threaded!RateBoundOfKey
<1>4. QED
    BY <1>2, <1>3

\* Threads that are inside evaluate one at a time (a lock around it would see to that)
\* let through no more than one bucket and the refill since the start, for any number
\* of threads, and though the time each of them read at its beginning may be old when
\* it stores.  What limiter_threads finds comes of their interleaving alone.
THEOREM OneAtATimeIsEnough ==
    ASSUME NoThread \notin Threads
    PROVE  Threaded!Spec /\ []Threaded!Serial => []Threaded!RateBoundOfKey
<1>1. Threaded!Init => ThreadInv
  <2>1. ASSUME Threaded!Init
        PROVE  ThreadInv
    BY <2>1 DEF Threaded!Init, Threaded!Fresh, ThreadInv, ThreadTypeOK, Covered, Working, Places
  <2>2. QED
    BY <2>1
<1>2. ThreadInv /\ Threaded!Serial /\ Threaded!Serial' /\ [Threaded!Next]_(Threaded!vars)
        => ThreadInv'
    BY ThreadStep
<1>3. ThreadInv => Threaded!RateBoundOfKey
    BY CoveredBounds
<1>4. QED
    BY <1>1, <1>2, <1>3, PTL DEF Threaded!Spec
=============================================================================

-------------------------- MODULE InspectionProofs --------------------------
(***************************************************************************)
(* Theorems about Inspection, for any calls, runs, threads and buffer size:*)
(* its type, that what is settled stays, that the inspections that began   *)
(* later agree on ids and baselines, and that their events are kept.       *)
(***************************************************************************)
EXTENDS Inspection, TLAPS

(***************************************************************************)
(* The strengthening.                                                      *)
(***************************************************************************)

\* What a call found settled is settled still, and what it used is there still.
EarlyIsSettled ==
    \A c \in Calls : \A k \in early[c] : k \in Keys /\ Settled(k)

UsedIsStored ==
    \A k \in Keys : \A x \in used[k] : Settled(k) /\ x = stored[k]

\* A buffer belongs to one thread, and a call that began later holds the one
\* that is stored.
BufferKey(c) == KeyOf(c, "buffer")

Buffers ==
    \A c \in Calls :
        /\ pc[c] \in {"buffer", "push"} => InThread(c)
        /\ stored[BufferKey(c)] # Nobody => Thread[stored[BufferKey(c)]] = Thread[c]
        /\ pc[c] = "push" =>
              /\ buffer[c] \in Calls
              /\ Thread[buffer[c]] = Thread[c]
              /\ BufferKey(c) \in early[c] => buffer[c] = stored[BufferKey(c)]

Emitting == {"deliver", "done"}

\* Just the calls past the append are in their thread's history.
History ==
    /\ \A c \in Calls : pc[c] \in Emitting /\ InThread(c) => Occurs(c, appended[Thread[c]])
    /\ \A t \in Threads : \A i \in 1 .. Len(appended[t]) :
          pc[appended[t][i]] \in Emitting /\ Thread[appended[t][i]] = t

\* An event of a call that began later has at most as many events behind it in
\* the buffer as in the history, so that it leaves no earlier than it should.
Placed(c, i) ==
    LET s == appended[Thread[c]]
        d == deques[stored[BufferKey(c)]]
    IN  \E j \in 1 .. Len(d) : d[j] = c /\ Len(d) - j <= Len(s) - i

AllPlaced ==
    \A c \in Calls : BufferKey(c) \in early[c] /\ InThread(c) =>
        \A i \in 1 .. Len(appended[Thread[c]]) :
            appended[Thread[c]][i] = c /\ i > Len(appended[Thread[c]]) - MaxEvents
                => Placed(c, i)

IInv == TypeOK /\ EarlyIsSettled /\ UsedIsStored /\ Buffers /\ History /\ AllPlaced

-----------------------------------------------------------------------------
(* Facts of the operators.                                                 *)

\* Keys of two memos differ; a buffer's key is its thread's.
LEMMA KeyFacts ==
    ASSUME NEW c \in Calls, NEW d \in Calls, NEW m \in Memos, NEW n \in Memos
    PROVE  /\ KeyOf(c, m) \in Keys
           /\ KeyOf(c, m) \in KeysOf(c)
           /\ KeyOf(c, m) = KeyOf(d, n) => m = n
           /\ KeyOf(c, "buffer") = KeyOf(d, "buffer") <=> Thread[c] = Thread[d]
<1>1. KeyOf(c, m) \in KeysOf(c) /\ KeysOf(c) \subseteq Keys
    BY DEF KeysOf, Keys
<1>2. KeyOf(c, m)[1] = m /\ KeyOf(d, n)[1] = n
    BY DEF KeyOf, Memos
<1>3. KeyOf(c, "buffer") = <<"buffer", NoRun, Thread[c]>> /\ KeyOf(d, "buffer") = <<"buffer", NoRun, Thread[d]>>
    BY DEF KeyOf
<1>4. QED
    BY <1>1, <1>2, <1>3

\* The order of the steps.
LEMMA FollowingFacts ==
    ASSUME NEW c \in Calls,
           NEW step \in Memos \cup {"guard", "compare", "measure", "push", "deliver"}
    PROVE  /\ Following(c, step) \in Pcs
           /\ Following(c, step) = "buffer" => InThread(c)
           /\ Following(c, step) = "push" <=> step = "buffer"
           /\ step = "push" => Following(c, step) = "deliver"
           /\ Following(c, step) \in Emitting => step \in {"push", "deliver"} \/ ~InThread(c)
           /\ Following(c, step) \notin {"skipped", "idle"}
    BY DEF Following, FollowingInNode, Emitted, Pcs, Memos, InThread, Emitting

\* An append to a bounded buffer moves what stays one place back.
LEMMA BoundedFacts ==
    ASSUME NEW q \in Seq(Calls), Len(q) <= MaxEvents, NEW c \in Calls
    PROVE  /\ Bounded(q, c) \in Seq(Calls)
           /\ Len(Bounded(q, c)) \in 1 .. MaxEvents
           /\ Bounded(q, c)[Len(Bounded(q, c))] = c
           /\ \A j \in 1 .. Len(q) : Len(q) - j <= MaxEvents - 2 =>
                 \E i \in 1 .. Len(Bounded(q, c)) :
                    /\ Bounded(q, c)[i] = q[j]
                    /\ Len(Bounded(q, c)) - i = Len(q) - j + 1
<1> DEFINE b == Bounded(q, c)
<1>0. MaxEvents \in Nat /\ MaxEvents > 0 /\ Len(q) \in Nat
    BY InspectionAssumption
<1>1. CASE Len(q) < MaxEvents
  <2>1. b = Append(q, c)
    BY <1>1 DEF Bounded
  <2>2. /\ b \in Seq(Calls) /\ Len(b) = Len(q) + 1 /\ b[Len(q) + 1] = c
        /\ \A j \in 1 .. Len(q) : b[j] = q[j]
    BY <2>1
  <2>3. \A j \in 1 .. Len(q) : j \in 1 .. Len(b) /\ Len(b) - j = Len(q) - j + 1
    BY <1>0, <2>2
  <2>4. Len(b) \in 1 .. MaxEvents
    BY <1>0, <1>1, <2>2
  <2>5. QED
    BY <2>2, <2>3, <2>4
<1>2. CASE ~(Len(q) < MaxEvents)
  <2>1. Len(q) = MaxEvents /\ q # << >>
    BY <1>0, <1>2
  <2>2. b = Append(Tail(q), c)
    BY <1>2 DEF Bounded
  <2>3. /\ Tail(q) \in Seq(Calls) /\ Len(Tail(q)) = MaxEvents - 1
        /\ \A i \in 1 .. MaxEvents - 1 : Tail(q)[i] = q[i + 1]
    BY <1>0, <2>1
  <2>4. /\ b \in Seq(Calls) /\ Len(b) = MaxEvents /\ b[MaxEvents] = c
        /\ \A i \in 1 .. MaxEvents - 1 : b[i] = q[i + 1]
    BY <1>0, <2>2, <2>3
  <2>5. ASSUME NEW j \in 1 .. Len(q), Len(q) - j <= MaxEvents - 2
        PROVE  /\ j - 1 \in 1 .. Len(b)
               /\ b[j - 1] = q[j]
               /\ Len(b) - (j - 1) = Len(q) - j + 1
    <3>1. j \in Int /\ j >= 2 /\ j <= MaxEvents
      BY <1>0, <2>1, <2>5
    <3>2. j - 1 \in 1 .. MaxEvents - 1 /\ (j - 1) + 1 = j
      BY <1>0, <3>1
    <3>3. QED
      BY <1>0, <2>1, <2>4, <3>1, <3>2
  <2>6. \A j \in 1 .. Len(q) : Len(q) - j <= MaxEvents - 2 =>
           \E i \in 1 .. Len(b) : b[i] = q[j] /\ Len(b) - i = Len(q) - j + 1
    BY <2>5
  <2>7. Len(b) \in 1 .. MaxEvents /\ b[Len(b)] = c
    BY <1>0, <2>4
  <2>8. QED
    BY <2>4, <2>6, <2>7
<1>3. QED
    BY <1>1, <1>2

\* One step of a call, elsewhere and onward.
LEMMA ProceedFacts ==
    ASSUME TypeOK, NEW c \in Calls, Proceed(c),
           pc[c] \in Memos \cup {"guard", "compare", "measure", "push", "deliver"}
    PROVE  /\ pc' \in [Calls -> Pcs]
           /\ \A d \in Calls \ {c} : pc'[d] = pc[d]
           /\ pc'[c] = Following(c, pc[c]) \/ (pc[c] = "id" /\ pc'[c] = "skipped")
<1>1. Following(c, pc[c]) \in Pcs /\ "skipped" \in Pcs
    BY FollowingFacts DEF Pcs
<1>2. QED
    BY <1>1 DEF TypeOK, Proceed

\* What a step does to the steps of the calls and to what is stored.
LEMMA StepShape ==
    ASSUME TypeOK, NEW c \in Calls, CallStep(c)
    PROVE  /\ \A d \in Calls \ {c} : pc'[d] = pc[d] /\ missed'[d] = missed[d]
           /\ missed'[c] => /\ pc'[c] \in Memos
                             /\ stored' = stored
                             /\ stored[KeyOf(c, pc'[c])] = Nobody
           /\ \/ stored' = stored
              \/ /\ missed[c] /\ pc[c] \in Memos
                 /\ stored' = [stored EXCEPT ![KeyOf(c, pc[c])] = c]
           /\ pc' \in [Calls -> Pcs] /\ missed' \in [Calls -> BOOLEAN]
<1>1. CASE Begin(c)
    BY <1>1 DEF Begin, First, Emitted, TypeOK, Pcs, Memos
<1>2. ASSUME NEW memo \in Memos, Hit(c, memo)
      PROVE  /\ pc[c] \in Memos /\ Proceed(c) /\ ~missed[c]
             /\ missed' = missed /\ stored' = stored
    BY <1>2 DEF Hit
<1>3. ASSUME NEW memo \in Memos, Miss(c, memo)
      PROVE  /\ pc' = pc /\ pc[c] \in Memos /\ stored' = stored
             /\ stored[KeyOf(c, pc[c])] = Nobody
             /\ missed' = [missed EXCEPT ![c] = TRUE]
    BY <1>3 DEF Miss
<1>4. ASSUME NEW memo \in Memos, Store(c, memo)
      PROVE  /\ pc[c] \in Memos /\ Proceed(c) /\ missed[c]
             /\ missed' = [missed EXCEPT ![c] = FALSE]
             /\ stored' = [stored EXCEPT ![KeyOf(c, pc[c])] = c]
    BY <1>4 DEF Store
<1>5. CASE NoIntent(c) \/ Guard(c) \/ Compare(c) \/ Measure(c) \/ Push(c)
  <2>1. Proceed(c) /\ missed' = missed /\ stored' = stored
    BY <1>5 DEF NoIntent, Guard, Compare, Measure, Push
  <2>2. /\ ~missed[c]
        /\ pc[c] \in Memos \cup {"guard", "compare", "measure", "push", "deliver"}
    BY <1>5 DEF NoIntent, Guard, Compare, Measure, Push, TypeOK, Memos
  <2>3. QED
    BY <2>1, <2>2, ProceedFacts DEF TypeOK
<1>6. CASE Deliver(c)
  <2>1. pc[c] = "deliver" /\ missed' = missed /\ stored' = stored /\ ~missed[c]
    BY <1>6 DEF Deliver, TypeOK, Memos
  <2>2. CASE Proceed(c)
    BY <2>1, <2>2, ProceedFacts DEF TypeOK
  <2>3. CASE pc' = [pc EXCEPT ![c] = "done"]
    BY <2>1, <2>3 DEF TypeOK, Pcs
  <2>4. QED
    BY <1>6, <2>2, <2>3 DEF Deliver
<1>7. CASE \E memo \in Memos : Hit(c, memo)
    BY <1>2, <1>7, ProceedFacts DEF TypeOK
<1>8. CASE \E memo \in Memos : Miss(c, memo)
    BY <1>3, <1>8 DEF TypeOK
<1>9. CASE \E memo \in Memos : Store(c, memo)
    BY <1>4, <1>9, ProceedFacts DEF TypeOK
<1>10. QED
    BY <1>1, <1>5, <1>6, <1>7, <1>8, <1>9 DEF CallStep

\* A step of a call leaves what is settled as it is.
LEMMA SettledStep ==
    ASSUME TypeOK, NEW c \in Calls, CallStep(c), NEW k \in Keys, Settled(k)
    PROVE  stored'[k] = stored[k] /\ Settled(k)'
<1>1. stored[k] # Nobody /\ \A d \in Calls : ~(missed[d] /\ KeyOf(d, pc[d]) = k)
    BY DEF Settled, Misses
<1>2. stored'[k] = stored[k]
    BY <1>1, StepShape DEF TypeOK
<1>3. \A d \in Calls \ {c} : ~(missed'[d] /\ KeyOf(d, pc'[d]) = k)
    BY <1>1, StepShape
<1>4. ~(missed'[c] /\ KeyOf(c, pc'[c]) = k)
    BY <1>1, StepShape
<1>5. QED
    BY <1>1, <1>2, <1>3, <1>4 DEF Settled, Misses, KeyOf

\* How a step takes its call onward.
Onward(c) ==
    \/ pc[c] \in Memos /\ pc'[c] = pc[c]
    \/ pc[c] = "idle" /\ pc'[c] \in {"guard", "id", Emitted(c)}
    \/ /\ pc[c] \in Memos \cup {"guard", "compare", "measure", "push", "deliver"}
       /\ pc'[c] = Following(c, pc[c])
    \/ pc[c] = "id" /\ pc'[c] = "skipped"
    \/ pc[c] = "deliver" /\ pc'[c] = "done"

LEMMA StepOnward ==
    ASSUME TypeOK, NEW c \in Calls, CallStep(c)
    PROVE  Onward(c)
<1>1. CASE Begin(c)
    BY <1>1 DEF Begin, First, TypeOK, Onward
<1>2. CASE \E memo \in Memos : Hit(c, memo) \/ Store(c, memo)
  <2>1. pc[c] \in Memos /\ Proceed(c)
    BY <1>2 DEF Hit, Store
  <2>2. QED
    BY <2>1, ProceedFacts DEF Onward
<1>3. CASE \E memo \in Memos : Miss(c, memo)
    BY <1>3 DEF Miss, Onward
<1>4. CASE NoIntent(c) \/ Guard(c) \/ Compare(c) \/ Measure(c) \/ Push(c)
  <2>1. /\ Proceed(c)
        /\ pc[c] \in Memos \cup {"guard", "compare", "measure", "push", "deliver"}
    BY <1>4 DEF NoIntent, Guard, Compare, Measure, Push, Memos
  <2>2. QED
    BY <2>1, ProceedFacts DEF Onward
<1>5. CASE Deliver(c)
  <2>1. pc[c] = "deliver"
    BY <1>5 DEF Deliver
  <2>2. CASE Proceed(c)
    BY <2>1, <2>2, ProceedFacts DEF Onward
  <2>3. CASE pc' = [pc EXCEPT ![c] = "done"]
    BY <2>1, <2>3 DEF TypeOK, Onward
  <2>4. QED
    BY <1>5, <2>2, <2>3 DEF Deliver
<1>6. QED
    BY <1>1, <1>2, <1>3, <1>4, <1>5 DEF CallStep

\* What a step writes into the histories and its own buffer.
LEMMA StepEffects ==
    ASSUME TypeOK, NEW c \in Calls, CallStep(c)
    PROVE  /\ Push(c) \/ UNCHANGED <<deques, appended>>
           /\ \/ early' = early
              \/ /\ pc[c] = "idle" /\ pc'[c] # "push"
                 /\ early' = [early EXCEPT ![c] =
                        {k \in KeysOf(c) \ {KeyOf(c, "boot")} : Settled(k)}]
           /\ \/ used' = used
              \/ \E memo \in Memos :
                    /\ KeyOf(c, memo) \in early[c]
                    /\ used' = [used EXCEPT ![KeyOf(c, memo)] =
                           @ \cup {stored'[KeyOf(c, memo)]}]
           /\ buffer' \in [Calls -> Stored]
           /\ \A d \in Calls \ {c} : buffer'[d] = buffer[d]
           /\ pc[c] = "buffer" /\ pc'[c] = "push" =>
                 buffer'[c] \in Calls /\ buffer'[c] = stored'[BufferKey(c)]
<1>0. /\ Calls \subseteq Stored /\ Nobody \in Stored
      /\ \A memo \in Memos : KeyOf(c, memo) \in Keys /\ stored[KeyOf(c, memo)] \in Stored
    BY KeyFacts DEF Stored, TypeOK
<1>1. CASE Begin(c)
    BY <1>1 DEF Begin, First, Emitted, TypeOK
<1>2. ASSUME NEW memo \in Memos, Takes(c, memo, stored'[KeyOf(c, memo)]),
             stored'[KeyOf(c, memo)] \in Calls, pc[c] = memo
      PROVE  /\ \/ used' = used
                \/ /\ KeyOf(c, memo) \in early[c]
                   /\ used' = [used EXCEPT ![KeyOf(c, memo)] =
                          @ \cup {stored'[KeyOf(c, memo)]}]
             /\ buffer' \in [Calls -> Stored]
             /\ \A d \in Calls \ {c} : buffer'[d] = buffer[d]
             /\ pc[c] = "buffer" =>
                   buffer'[c] \in Calls /\ buffer'[c] = stored'[BufferKey(c)]
    BY <1>0, <1>2 DEF Takes, Uses, TypeOK, BufferKey
<1>3. ASSUME NEW memo \in Memos, Hit(c, memo) \/ Store(c, memo)
      PROVE  /\ Takes(c, memo, stored'[KeyOf(c, memo)])
             /\ stored'[KeyOf(c, memo)] \in Calls /\ pc[c] = memo
             /\ UNCHANGED <<deques, appended, early>>
  <2>1. CASE Hit(c, memo)
      BY <1>0, <2>1 DEF Hit, Stored
  <2>2. CASE Store(c, memo)
      BY <1>0, <2>2 DEF Store, TypeOK
  <2>3. QED
      BY <1>3, <2>1, <2>2
<1>4. CASE \E memo \in Memos : Hit(c, memo) \/ Store(c, memo)
    BY <1>2, <1>3, <1>4
<1>5. CASE (\E memo \in Memos : Miss(c, memo)) \/ NoIntent(c) \/ Deliver(c)
    BY <1>5 DEF Miss, NoIntent, Deliver, TypeOK, Memos
<1>6. ASSUME NEW memo \in Memos, Reads(c, memo), stored' = stored
      PROVE  \/ used' = used
             \/ /\ KeyOf(c, memo) \in early[c]
                /\ used' = [used EXCEPT ![KeyOf(c, memo)] = @ \cup {stored'[KeyOf(c, memo)]}]
    BY <1>6 DEF Reads, Uses
<1>7. CASE Guard(c) \/ Compare(c) \/ Measure(c)
  <2>1. /\ used' = used \/ Reads(c, "intent") \/ Reads(c, "size")
        /\ UNCHANGED <<stored, deques, appended, early, buffer>> /\ pc[c] # "buffer"
    BY <1>7 DEF Guard, Compare, Measure
  <2>2. "intent" \in Memos /\ "size" \in Memos
    BY DEF Memos
  <2>3. QED
    BY <1>6, <2>1, <2>2 DEF TypeOK
<1>8. CASE Push(c)
    BY <1>0, <1>8 DEF Push, TypeOK
<1>9. QED
    BY <1>1, <1>4, <1>5, <1>7, <1>8 DEF CallStep

-----------------------------------------------------------------------------
(* The invariant holds, and every step keeps it.                           *)

LEMMA InitIInv == ASSUME Init PROVE IInv
<1>1. TypeOK
    BY InspectionAssumption DEF Init, TypeOK, Pcs, Stored
<1>2. EarlyIsSettled /\ UsedIsStored
    BY DEF Init, EarlyIsSettled, UsedIsStored
<1>3. Buffers
    BY KeyFacts DEF Init, Buffers, BufferKey, Memos
<1>4. History
    BY InspectionAssumption DEF Init, History, Emitting
<1>5. AllPlaced
    BY DEF Init, AllPlaced
<1>6. QED
    BY <1>1, <1>2, <1>3, <1>4, <1>5 DEF IInv

LEMMA TypeStep ==
    ASSUME IInv, NEW c \in Calls, CallStep(c)
    PROVE  TypeOK'
<1>0. TypeOK /\ Buffers
    BY DEF IInv
<1>1. /\ pc' \in [Calls -> Pcs] /\ missed' \in [Calls -> BOOLEAN]
      /\ buffer' \in [Calls -> Stored]
    BY <1>0, StepShape, StepEffects
<1>2. \A d \in Calls : missed'[d] => pc'[d] \in Memos
    BY <1>0, StepShape DEF TypeOK
<1>3. stored' \in [Keys -> Stored]
  <2>1. c \in Stored
    BY DEF Stored
  <2>2. QED
    BY <1>0, <2>1, StepShape DEF TypeOK
<1>4. early' \in [Calls -> SUBSET Keys]
  <2>1. KeysOf(c) \subseteq Keys
    BY DEF Keys
  <2>2. {k \in KeysOf(c) \ {KeyOf(c, "boot")} : Settled(k)} \in SUBSET Keys
    BY <2>1
  <2>3. PICK settled \in SUBSET Keys :
            early' = early \/ early' = [early EXCEPT ![c] = settled]
    BY <1>0, <2>2, StepEffects
  <2>4. QED
    BY <1>0, <2>3 DEF TypeOK
<1>5. used' \in [Keys -> SUBSET Stored]
  <2>1. CASE used' = used
    BY <1>0, <2>1 DEF TypeOK
  <2>2. ASSUME NEW memo \in Memos,
               used' = [used EXCEPT ![KeyOf(c, memo)] = @ \cup {stored'[KeyOf(c, memo)]}]
        PROVE  used' \in [Keys -> SUBSET Stored]
    <3>1. KeyOf(c, memo) \in Keys
      BY KeyFacts
    <3>2. used[KeyOf(c, memo)] \cup {stored'[KeyOf(c, memo)]} \in SUBSET Stored
      BY <1>0, <1>3, <3>1 DEF TypeOK
    <3>3. QED
      BY <1>0, <2>2, <3>2 DEF TypeOK
  <2>3. QED
    BY <1>0, <2>1, <2>2, StepEffects
<1>6. /\ deques' \in [Calls -> Seq(Calls)]
      /\ \A d \in Calls : Len(deques'[d]) <= MaxEvents
      /\ appended' \in [Threads -> Seq(Calls)]
  <2>1. CASE UNCHANGED <<deques, appended>>
    BY <1>0, <2>1 DEF TypeOK
  <2>2. CASE Push(c)
    <3>1. buffer[c] \in Calls /\ Thread[c] \in Threads
      BY <1>0, <2>2, InspectionAssumption DEF Push, Buffers, InThread
    <3>2. /\ Bounded(deques[buffer[c]], c) \in Seq(Calls)
          /\ Len(Bounded(deques[buffer[c]], c)) <= MaxEvents
      BY <1>0, <3>1, BoundedFacts, InspectionAssumption DEF TypeOK
    <3>3. deques' = [deques EXCEPT ![buffer[c]] = Bounded(deques[buffer[c]], c)]
      BY <2>2 DEF Push
    <3>4. /\ deques' \in [Calls -> Seq(Calls)]
          /\ \A d \in Calls : Len(deques'[d]) <= MaxEvents
      BY <1>0, <3>1, <3>2, <3>3 DEF TypeOK
    <3>5. Append(appended[Thread[c]], c) \in Seq(Calls)
      BY <1>0, <3>1 DEF TypeOK
    <3>6. appended' \in [Threads -> Seq(Calls)]
      BY <1>0, <2>2, <3>1, <3>5 DEF TypeOK, Push
    <3>7. QED
      BY <3>4, <3>6
  <2>3. QED
    BY <1>0, <2>1, <2>2, StepEffects
<1>7. QED
    BY <1>1, <1>2, <1>3, <1>4, <1>5, <1>6 DEF TypeOK

LEMMA SettledKept ==
    ASSUME IInv, NEW c \in Calls, CallStep(c)
    PROVE  EarlyIsSettled' /\ UsedIsStored'
<1>0. TypeOK /\ EarlyIsSettled /\ UsedIsStored
    BY DEF IInv
<1>1. ASSUME NEW d \in Calls, NEW k \in early'[d]
      PROVE  k \in Keys /\ Settled(k)'
  <2>1. k \in Keys /\ Settled(k)
    <3>1. CASE early' = early
      BY <1>0, <1>1, <3>1 DEF EarlyIsSettled
    <3>2. CASE early' = [early EXCEPT ![c] =
                  {j \in KeysOf(c) \ {KeyOf(c, "boot")} : Settled(j)}]
      BY <1>0, <1>1, <3>2 DEF EarlyIsSettled, TypeOK, Keys
    <3>3. QED
      BY <1>0, <3>1, <3>2, StepEffects
  <2>2. QED
    BY <1>0, <2>1, SettledStep
<1>2. ASSUME NEW k \in Keys, NEW x \in used'[k]
      PROVE  Settled(k)' /\ x = stored'[k]
  <2>1. CASE x \in used[k]
    BY <1>0, <2>1, SettledStep DEF UsedIsStored
  <2>2. CASE x \notin used[k]
    <3>1. PICK memo \in Memos :
              /\ KeyOf(c, memo) \in early[c]
              /\ used' = [used EXCEPT ![KeyOf(c, memo)] = @ \cup {stored'[KeyOf(c, memo)]}]
      BY <1>0, <1>2, <2>2, StepEffects
    <3>2. k = KeyOf(c, memo) /\ x = stored'[k]
      BY <1>0, <1>2, <2>2, <3>1 DEF TypeOK
    <3>3. Settled(k)
      BY <1>0, <3>1, <3>2 DEF EarlyIsSettled
    <3>4. QED
      BY <1>0, <3>2, <3>3, SettledStep
  <2>3. QED
    BY <2>1, <2>2
<1>3. QED
    BY <1>1, <1>2 DEF EarlyIsSettled, UsedIsStored

LEMMA BuffersKept ==
    ASSUME IInv, NEW c \in Calls, CallStep(c)
    PROVE  Buffers'
<1>0. TypeOK /\ Buffers /\ EarlyIsSettled
    BY DEF IInv
<1>1. "buffer" \in Memos
    BY DEF Memos
<1>2. ASSUME NEW d \in Calls, pc'[d] \in {"buffer", "push"}
      PROVE  InThread(d)
  <2>1. CASE d # c
    BY <1>0, <1>2, <2>1, StepShape DEF Buffers
  <2>2. CASE d = c
    BY <1>0, <1>2, <2>2, StepOnward, FollowingFacts DEF Onward, Buffers, Memos, Emitted
  <2>3. QED
    BY <2>1, <2>2
<1>3. ASSUME NEW d \in Calls, stored'[BufferKey(d)] # Nobody
      PROVE  Thread[stored'[BufferKey(d)]] = Thread[d]
  <2>1. CASE stored'[BufferKey(d)] = stored[BufferKey(d)]
    BY <1>0, <1>3, <2>1 DEF Buffers
  <2>2. CASE stored'[BufferKey(d)] # stored[BufferKey(d)]
    <3>1. BufferKey(d) \in Keys
      BY <1>1, KeyFacts DEF BufferKey
    <3>2. /\ pc[c] \in Memos /\ KeyOf(c, pc[c]) = BufferKey(d)
          /\ stored'[BufferKey(d)] = c
      BY <1>0, <2>2, <3>1, StepShape DEF TypeOK
    <3>3. pc[c] = "buffer"
      BY <1>1, <3>2, KeyFacts DEF BufferKey
    <3>4. QED
      BY <1>1, <3>2, <3>3, KeyFacts DEF BufferKey
  <2>3. QED
    BY <2>1, <2>2
<1>4. ASSUME NEW d \in Calls, pc'[d] = "push"
      PROVE  /\ buffer'[d] \in Calls
             /\ Thread[buffer'[d]] = Thread[d]
             /\ BufferKey(d) \in early'[d] => buffer'[d] = stored'[BufferKey(d)]
  <2>1. CASE d # c
    <3>1. pc[d] = "push" /\ buffer'[d] = buffer[d] /\ early'[d] = early[d]
      <4>1. pc[d] = "push"
        BY <1>0, <1>4, <2>1, StepShape
      <4>2. buffer'[d] = buffer[d]
        BY <1>0, <2>1, StepEffects
      <4>3. PICK settled :
                early' = early \/ early' = [early EXCEPT ![c] = settled]
        BY <1>0, StepEffects, Zenon
      <4>4. early'[d] = early[d]
        BY <1>0, <2>1, <4>3 DEF TypeOK
      <4>5. QED
        BY <4>1, <4>2, <4>4
    <3>2. BufferKey(d) \in early[d] => stored'[BufferKey(d)] = stored[BufferKey(d)]
      BY <1>0, SettledStep DEF EarlyIsSettled
    <3>3. QED
      BY <1>0, <3>1, <3>2 DEF Buffers
  <2>2. CASE d = c
    <3>1. pc[c] = "buffer"
      BY <1>0, <1>4, <2>2, StepOnward, FollowingFacts DEF Onward, Memos, Emitted
    <3>2. buffer'[c] \in Calls /\ buffer'[c] = stored'[BufferKey(c)]
      BY <1>0, <1>4, <2>2, <3>1, StepEffects
    <3>3. buffer'[c] # Nobody
      BY <3>2, InspectionAssumption
    <3>4. QED
      BY <1>3, <2>2, <3>2, <3>3
  <2>3. QED
    BY <2>1, <2>2
<1>5. QED
    BY <1>2, <1>3, <1>4 DEF Buffers, BufferKey, KeyOf, InThread

\* Threads' histories only grow, by the call that appends.
LEMMA Grows ==
    ASSUME IInv, NEW c \in Calls, CallStep(c), NEW t \in Threads
    PROVE  \/ appended'[t] = appended[t] /\ ~(Push(c) /\ Thread[c] = t)
           \/ Push(c) /\ Thread[c] = t /\ appended'[t] = Append(appended[t], c)
<1>0. TypeOK
    BY DEF IInv
<1>1. CASE Push(c)
    BY <1>0, <1>1 DEF Push, TypeOK
<1>2. CASE ~Push(c)
    BY <1>0, <1>2, StepEffects
<1>3. QED
    BY <1>1, <1>2

LEMMA HistoryKept ==
    ASSUME IInv, NEW c \in Calls, CallStep(c)
    PROVE  History'
<1>0. TypeOK /\ Buffers /\ History
    BY DEF IInv
<1>1. \A t \in Threads : appended[t] \in Seq(Calls) /\ Len(appended[t]) \in Nat
    BY <1>0 DEF TypeOK
<1>2. \A d \in Calls : pc[d] \in Emitting => pc'[d] \in Emitting
    BY <1>0, StepShape, StepOnward, FollowingFacts DEF Onward, Emitting, Memos, Following
<1>3. ASSUME NEW d \in Calls, pc'[d] \in Emitting, InThread(d)
      PROVE  Occurs(d, appended'[Thread[d]])
  <2>0. Thread[d] \in Threads
    BY <1>3, InspectionAssumption DEF InThread
  <2>1. CASE pc[d] \in Emitting
    <3>1. PICK i \in 1 .. Len(appended[Thread[d]]) : appended[Thread[d]][i] = d
      BY <1>0, <1>3, <2>1 DEF History, Occurs
    <3>2. i \in 1 .. Len(appended'[Thread[d]]) /\ appended'[Thread[d]][i] = d
      BY <1>1, <2>0, <3>1, Grows
    <3>3. QED
      BY <3>2 DEF Occurs
  <2>2. CASE pc[d] \notin Emitting
    <3>1. d = c /\ pc[c] = "push"
      BY <1>0, <1>3, <2>2, StepShape, StepOnward, FollowingFacts DEF Onward, Emitting, Memos, Emitted
    <3>2. Push(c)
      BY <1>0, <3>1 DEF CallStep, Begin, Hit, Miss, Store, NoIntent, Guard, Compare, Measure, Deliver, Memos
    <3>3. appended'[Thread[d]] = Append(appended[Thread[d]], d)
      BY <2>0, <3>1, <3>2, Grows
    <3>4. /\ Len(appended'[Thread[d]]) \in 1 .. Len(appended'[Thread[d]])
          /\ appended'[Thread[d]][Len(appended'[Thread[d]])] = d
      BY <1>1, <2>0, <3>3
    <3>5. QED
      BY <3>4 DEF Occurs
  <2>3. QED
    BY <2>1, <2>2
<1>4. ASSUME NEW t \in Threads, NEW i \in 1 .. Len(appended'[t])
      PROVE  pc'[appended'[t][i]] \in Emitting /\ Thread[appended'[t][i]] = t
  <2>1. CASE i \in 1 .. Len(appended[t])
    <3>1. appended'[t][i] = appended[t][i] /\ appended[t][i] \in Calls
      BY <1>1, <2>1, Grows
    <3>2. QED
      BY <1>0, <1>2, <2>1, <3>1 DEF History
  <2>2. CASE i \notin 1 .. Len(appended[t])
    <3>1. Push(c) /\ Thread[c] = t /\ appended'[t][i] = c
      BY <1>1, <1>4, <2>2, Grows
    <3>2. pc[c] = "push" /\ Proceed(c)
      BY <3>1 DEF Push
    <3>3. pc'[c] = "deliver"
      BY <1>0, <3>2, ProceedFacts, FollowingFacts
    <3>4. QED
      BY <3>1, <3>3 DEF Emitting
  <2>3. QED
    BY <2>1, <2>2
<1>5. QED
    BY <1>3, <1>4 DEF History, Occurs, InThread, Emitting

\* What a step leaves of a stored buffer whose call began later.
LEMMA BufferStep ==
    ASSUME IInv, NEW c \in Calls, CallStep(c),
           NEW d \in Calls, InThread(d), BufferKey(d) \in early[d],
           NEW b, b = stored[BufferKey(d)]
    PROVE  /\ b \in Calls /\ deques[b] \in Seq(Calls) /\ Len(deques[b]) <= MaxEvents
           /\ stored'[BufferKey(d)] = b
           /\ \/ deques'[b] = deques[b] /\ (Push(c) => buffer[c] # b)
              \/ /\ Push(c) /\ buffer[c] = b /\ Thread[c] = Thread[d]
                 /\ deques'[b] = Bounded(deques[b], c)
<1>0. TypeOK /\ Buffers /\ EarlyIsSettled
    BY DEF IInv
<1>1. BufferKey(d) \in Keys /\ Settled(BufferKey(d))
    BY <1>0 DEF EarlyIsSettled
<1>2. b \in Calls
    BY <1>0, <1>1 DEF Settled, TypeOK, Stored
<1>3. stored'[BufferKey(d)] = b
    BY <1>0, <1>1, SettledStep
<1>4. deques[b] \in Seq(Calls) /\ Len(deques[b]) <= MaxEvents
    BY <1>0, <1>2 DEF TypeOK
<1>5. Thread[b] = Thread[d]
    BY <1>0, <1>1 DEF Buffers, Settled
<1>6. CASE Push(c)
  <2>1. /\ deques' = [deques EXCEPT ![buffer[c]] = Bounded(deques[buffer[c]], c)]
        /\ Thread[buffer[c]] = Thread[c]
    BY <1>0, <1>6 DEF Push, Buffers
  <2>2. CASE buffer[c] = b
    BY <1>0, <1>2, <1>3, <1>4, <1>5, <1>6, <2>1, <2>2 DEF TypeOK
  <2>3. CASE buffer[c] # b
    BY <1>0, <1>2, <1>3, <1>4, <2>1, <2>3 DEF TypeOK
  <2>4. QED
    BY <2>2, <2>3
<1>7. CASE ~Push(c)
    BY <1>0, <1>2, <1>3, <1>4, <1>7, StepEffects
<1>8. QED
    BY <1>6, <1>7

LEMMA AllPlacedKept ==
    ASSUME IInv, NEW c \in Calls, CallStep(c)
    PROVE  AllPlaced'
<1>0. TypeOK /\ Buffers /\ History /\ AllPlaced
    BY DEF IInv
<1>1. MaxEvents \in Nat \ {0}
    BY InspectionAssumption
<1>2. SUFFICES ASSUME NEW d \in Calls, BufferKey(d) \in early'[d], InThread(d),
                      NEW i \in 1 .. Len(appended'[Thread[d]]),
                      appended'[Thread[d]][i] = d,
                      i > Len(appended'[Thread[d]]) - MaxEvents
               PROVE  \E j \in 1 .. Len(deques'[stored'[BufferKey(d)]]) :
                         /\ deques'[stored'[BufferKey(d)]][j] = d
                         /\ Len(deques'[stored'[BufferKey(d)]]) - j
                               <= Len(appended'[Thread[d]]) - i
    BY DEF AllPlaced, Placed, BufferKey, KeyOf, InThread
<1> DEFINE t == Thread[d]
           s == appended[t]
           b == stored[BufferKey(d)]
           q == deques[b]
<1>3. t \in Threads /\ s \in Seq(Calls) /\ Len(s) \in Nat
    BY <1>0, <1>2, InspectionAssumption DEF InThread, TypeOK
<1>4. BufferKey(d) \in early[d]
  <2>1. CASE pc[d] = "idle" /\ d = c
    <3>1. ~Push(c)
      BY <2>1 DEF Push
    <3>2. appended'[t] = s
      BY <1>3, <3>1, Grows
    <3>3. pc[d] \in Emitting
      BY <1>0, <1>2, <1>3, <3>2 DEF History
    <3>4. QED
      BY <2>1, <3>3 DEF Emitting
  <2>2. CASE ~(pc[d] = "idle" /\ d = c)
    <3>1. PICK settled :
              \/ early' = early
              \/ pc[c] = "idle" /\ early' = [early EXCEPT ![c] = settled]
      BY <1>0, StepEffects, Zenon
    <3>2. early'[d] = early[d]
      BY <1>0, <2>2, <3>1 DEF TypeOK
    <3>3. QED
      BY <1>2, <3>2
  <2>3. QED
    BY <2>1, <2>2
<1>5. /\ b \in Calls /\ q \in Seq(Calls) /\ Len(q) \in Nat /\ Len(q) <= MaxEvents
      /\ stored'[BufferKey(d)] = b
      /\ \/ deques'[b] = q /\ (Push(c) => buffer[c] # b)
         \/ Push(c) /\ buffer[c] = b /\ Thread[c] = t /\ deques'[b] = Bounded(q, c)
    BY <1>2, <1>4, BufferStep
<1>6. i \in 1 .. Len(s) /\ s[i] = d /\ i > Len(s) - MaxEvents =>
        \E j \in 1 .. Len(q) : q[j] = d /\ Len(q) - j <= Len(s) - i
    BY <1>0, <1>2, <1>4 DEF AllPlaced, Placed
<1>7. CASE appended'[t] = s
  <2>1. ~(Push(c) /\ Thread[c] = t)
    BY <1>3, <1>7, Grows
  <2>2. QED
    BY <1>2, <1>5, <1>6, <1>7, <2>1
<1>8. CASE Push(c) /\ Thread[c] = t /\ appended'[t] = Append(s, c)
  <2>1. Len(appended'[t]) = Len(s) + 1 /\ i \in 1 .. Len(s) + 1
    BY <1>2, <1>3, <1>8
  <2>2. CASE i = Len(s) + 1
    <3>1. d = c
      BY <1>2, <1>3, <1>8, <2>2
    <3>2. buffer[c] = b
      BY <1>0, <1>4, <1>8, <3>1 DEF Push, Buffers
    <3>3. deques'[b] = Bounded(q, c)
      BY <1>5, <1>8, <3>2
    <3>4. /\ Len(Bounded(q, c)) \in 1 .. MaxEvents
          /\ Bounded(q, c)[Len(Bounded(q, c))] = c
      BY <1>5, BoundedFacts
    <3>5. Len(Bounded(q, c)) \in 1 .. Len(Bounded(q, c))
      BY <1>1, <3>4
    <3>6. Len(Bounded(q, c)) - Len(Bounded(q, c)) <= Len(appended'[t]) - i
      BY <1>1, <1>3, <2>1, <2>2, <3>4
    <3>7. QED
      BY <1>5, <3>1, <3>3, <3>4, <3>5, <3>6
  <2>3. CASE i # Len(s) + 1
    <3>1. i \in 1 .. Len(s) /\ s[i] = d /\ i > Len(s) - MaxEvents /\ Len(s) - i <= MaxEvents - 2
      BY <1>1, <1>2, <1>3, <1>8, <2>1, <2>3
    <3>2. PICK j \in 1 .. Len(q) : q[j] = d /\ Len(q) - j <= Len(s) - i
      BY <1>6, <3>1
    <3>3. CASE deques'[b] = q
      <4>1. Len(q) - j <= Len(appended'[t]) - i
        BY <1>3, <1>5, <2>1, <3>2
      <4>2. QED
        BY <1>5, <3>2, <3>3, <4>1
    <3>4. CASE deques'[b] = Bounded(q, c)
      <4>1. Len(q) - j <= MaxEvents - 2
        BY <1>1, <1>3, <1>5, <3>1, <3>2
      <4>2. PICK n \in 1 .. Len(Bounded(q, c)) :
                /\ Bounded(q, c)[n] = q[j]
                /\ Len(Bounded(q, c)) - n = Len(q) - j + 1
        BY <1>5, <4>1, BoundedFacts
      <4>3. Len(Bounded(q, c)) - n <= Len(appended'[t]) - i
        <5>1. Len(q) - j + 1 <= Len(appended'[t]) - i
          BY <1>3, <1>5, <2>1, <3>2
        <5>2. QED
          BY <4>2, <5>1
      <4>4. QED
        BY <1>5, <3>2, <3>4, <4>2, <4>3
    <3>5. QED
      BY <1>5, <3>3, <3>4
  <2>4. QED
    BY <2>2, <2>3
<1>9. QED
    BY <1>3, <1>7, <1>8, Grows

LEMMA NextIInv == ASSUME IInv, [Next]_vars PROVE IInv'
<1>1. CASE Next
    BY <1>1, TypeStep, SettledKept, BuffersKept, HistoryKept, AllPlacedKept
    DEF Next, IInv
<1>2. CASE UNCHANGED vars
    BY <1>2 DEF vars, IInv, TypeOK, EarlyIsSettled, UsedIsStored, Settled, Misses,
                Buffers, BufferKey, History, Occurs, AllPlaced, Placed, KeyOf, InThread, Emitting
<1>3. QED
    BY <1>1, <1>2

-----------------------------------------------------------------------------
(* The theorems.                                                           *)

\* The variables keep their types: no buffer of _EventBuffers holds more than
\* _MAX_EVENTS_PER_THREAD events, and only a call at a memo is still to store.
THEOREM TypeCorrect == Spec => []TypeOK
<1>1. IInv => TypeOK
    BY DEF IInv
<1>2. QED
    BY <1>1, InitIInv, NextIInv, PTL DEF Spec

\* No inspection replaces an id, a flag, a baseline or a buffer that is stored
\* and that no other inspection is still to store.
THEOREM SettledNeverReplaced == Spec => SettledStays
<1>1. ASSUME IInv, [Next]_vars
      PROVE  [\A k \in Keys : Settled(k) => stored'[k] = stored[k] /\ Settled(k)']_vars
  <2>1. CASE Next
      BY <1>1, <2>1, SettledStep DEF Next, IInv
  <2>2. CASE UNCHANGED vars
      BY <2>2
  <2>3. QED
      BY <1>1, <2>1, <2>2
<1>2. QED
    BY <1>1, InitIInv, NextIInv, PTL DEF Spec, SettledStays

\* The events of the inspections of a pair that began when its id was settled
\* carry one id, whatever _correlation_for did for those that overlapped.
THEOREM EventsJoin == Spec => []LateEventsJoin
<1>1. ASSUME IInv PROVE LateEventsJoin
  <2>1. "id" \in Memos
    BY DEF Memos
  <2>2. QED
    BY <1>1, <2>1, KeyFacts DEF IInv, UsedIsStored, LateEventsJoin
<1>2. QED
    BY <1>1, InitIInv, NextIInv, PTL DEF Spec

\* The nodes of a thread that began when its baseline was settled compare with
\* that baseline, in the goal guard as in the scans.
THEOREM BaselineIsOne == Spec => []OneBaseline
<1>1. ASSUME IInv PROVE OneBaseline
  <2>1. "intent" \in Memos /\ "size" \in Memos
    BY DEF Memos
  <2>2. QED
    BY <1>1, <2>1, KeyFacts DEF IInv, UsedIsStored, OneBaseline
<1>2. QED
    BY <1>1, InitIInv, NextIInv, PTL DEF Spec

\* An event emitted into a settled buffer leaves events_for_thread only when
\* _MAX_EVENTS_PER_THREAD later events of its thread have come.
THEOREM NothingLost == Spec => []EventsKept
<1>1. ASSUME IInv PROVE EventsKept
  <2>1. SUFFICES ASSUME NEW c \in Calls, pc[c] = "done", InThread(c),
                        KeyOf(c, "buffer") \in early[c],
                        ~ \E i \in 1 .. Len(appended[Thread[c]]) - MaxEvents :
                              appended[Thread[c]][i] = c
                 PROVE  Occurs(c, Visible(Thread[c]))
    BY DEF EventsKept
  <2>2. Thread[c] \in Threads
    BY <2>1, InspectionAssumption DEF InThread
  <2>3. PICK i \in 1 .. Len(appended[Thread[c]]) : appended[Thread[c]][i] = c
    BY <1>1, <2>1 DEF IInv, History, Occurs, Emitting
  <2>4. i > Len(appended[Thread[c]]) - MaxEvents
    <3>1. Len(appended[Thread[c]]) \in Nat /\ MaxEvents \in Nat
      BY <1>1, <2>2, InspectionAssumption DEF IInv, TypeOK
    <3>2. QED
      BY <2>1, <2>3, <3>1
  <2>5. Placed(c, i)
    BY <1>1, <2>1, <2>3, <2>4 DEF IInv, AllPlaced, BufferKey
  <2>6. Occurs(c, deques[stored[BufferKey(c)]])
    BY <2>5 DEF Placed, Occurs
  <2>7. BufferKey(c) \in Keys /\ stored[BufferKey(c)] # Nobody
    BY <1>1, <2>1 DEF IInv, EarlyIsSettled, BufferKey, Settled
  <2>8. BufferKey(c) = <<"buffer", NoRun, Thread[c]>>
    BY DEF BufferKey, KeyOf
  <2>9. QED
    BY <2>6, <2>7, <2>8 DEF Visible
<1>2. QED
    BY <1>1, InitIInv, NextIInv, PTL DEF Spec
=============================================================================

----------------------------- MODULE Inspection -----------------------------
(***************************************************************************)
(* lens.py: the inspections of one Lens by threads that interleave.        *)
(*                                                                         *)
(* inspect_node, inspect_tool_call, inspect_memory_write and               *)
(* inspect_checkpoint share five memos that each look a key up and, when   *)
(* there is nothing, store what they made: the correlation id of a (run,   *)
(* thread) pair, the flag of the boot scan, the user intent and the first  *)
(* state size of a thread, and the event buffer of a thread.  Lookup and   *)
(* store are two actions, as they are two operations on a dictionary.      *)
(* What a call stores is named by the call: each makes one value per memo. *)
(* A prompt scan (on_llm_start's _scan_rendered_prompt, or scan_prompt) has *)
(* an id of its own for each event and takes part in the buffers only; one *)
(* of a rendered prompt that finds nothing makes no event and no call here.*)
(*                                                                         *)
(* write_event comes before the event is buffered and leaves nothing here; *)
(* it falls back to stderr and is taken not to fail.                       *)
(***************************************************************************)
EXTENDS Integers, Sequences, FiniteSets

CONSTANTS
    Calls,      \* the inspections, each made once
    Kind,       \* [Calls -> Kinds]
    Run,        \* [Calls -> run ids]
    Thread,     \* [Calls -> Threads \cup {NoThread}]
    Threads,
    NoRun, NoThread,
    HasText,    \* nodes whose state has a user's text in it
    Decided,    \* calls made by decide_node, not directly
    Unscanned,  \* checkpoints whose direction scan_on_write or scan_on_read
                \* may leave out
    MaxEvents,  \* _MAX_EVENTS_PER_THREAD
    MaxActive,  \* bound: inspections under way at once
    Nobody      \* nothing is stored

Kinds == {"node", "tool", "memory", "checkpoint", "prompt"}
Memos == {"id", "boot", "intent", "size", "buffer"}
Pcs == Memos \cup {"idle", "guard", "compare", "measure", "push", "deliver", "done", "skipped"}

ASSUME InspectionAssumption ==
    /\ Kind \in [Calls -> Kinds]
    /\ Thread \in [Calls -> Threads \cup {NoThread}]
    /\ NoThread \notin Threads
    /\ \A c \in Unscanned : Kind[c] = "checkpoint"
    /\ {MaxEvents, MaxActive} \subseteq Nat \ {0}
    /\ Nobody \notin Calls

\* What call c looks up in a memo: its pair, its thread, or the one flag.
KeyOf(c, memo) ==
    CASE memo = "id"   -> <<memo, Run[c], Thread[c]>>
      [] memo = "boot" -> <<memo, NoRun, NoThread>>
      [] OTHER         -> <<memo, NoRun, Thread[c]>>

KeysOf(c) == {KeyOf(c, memo) : memo \in Memos}
Keys == UNION {KeysOf(c) : c \in Calls}

VARIABLES
    pc,         \* the step each call is at
    missed,     \* the call found nothing and has not stored yet
    stored,     \* [Keys -> who stored what is there]
    deques,     \* the buffers, by the call that made them
    buffer,     \* the buffer a call is about to append to
    early,      \* history: the keys of a call that were settled when it began
    used,       \* history: what the calls that began later used of a key
    appended    \* history: the events of each thread, in order

vars == <<pc, missed, stored, deques, buffer, early, used, appended>>

Stored == Calls \cup {Nobody}

TypeOK ==
    /\ pc \in [Calls -> Pcs]
    /\ missed \in [Calls -> BOOLEAN]
    /\ \A c \in Calls : missed[c] => pc[c] \in Memos
    /\ stored \in [Keys -> Stored]
    /\ deques \in [Calls -> Seq(Calls)]
    /\ \A c \in Calls : Len(deques[c]) <= MaxEvents
    /\ buffer \in [Calls -> Stored]
    /\ early \in [Calls -> SUBSET Keys]
    /\ used \in [Keys -> SUBSET Stored]
    /\ appended \in [Threads -> Seq(Calls)]

Init ==
    /\ pc = [c \in Calls |-> "idle"]
    /\ missed = [c \in Calls |-> FALSE]
    /\ stored = [k \in Keys |-> Nobody]
    /\ deques = [c \in Calls |-> << >>]
    /\ buffer = [c \in Calls |-> Nobody]
    /\ early = [c \in Calls |-> {}]
    /\ used = [k \in Keys |-> {}]
    /\ appended = [t \in Threads |-> << >>]

InThread(c) == Thread[c] # NoThread
Misses(c, k) == missed[c] /\ KeyOf(c, pc[c]) = k

\* The key has its value, and nobody who found it empty is still to store one.
Settled(k) == stored[k] # Nobody /\ \A c \in Calls : ~Misses(c, k)

-----------------------------------------------------------------------------
\* Regression: the event is delivered before it is buffered.
Following_AlertsFirst(c, step) ==
    CASE step = "guard"  -> "id"
      [] step = "id"     -> IF Kind[c] = "node" THEN "boot" ELSE "deliver"
      [] step = "boot"   -> IF InThread(c) THEN "intent" ELSE "deliver"
      [] step = "intent" -> "size"
      [] step = "size"   -> "compare"
      [] step = "compare" -> "measure"
      [] step = "measure" -> "deliver"
      [] step = "deliver" -> IF InThread(c) THEN "buffer" ELSE "done"
      [] step = "buffer" -> "push"
      [] step = "push"   -> "done"

\* _emit keeps the events of threads only.
Emitted(c) == IF InThread(c) THEN "buffer" ELSE "deliver"

\* inspect_node: outside a thread there is no baseline.
FollowingInNode(c, step) ==
    CASE step = "id"     -> "boot"
      [] step = "boot"   -> IF InThread(c) THEN "intent" ELSE Emitted(c)
      [] step = "intent" -> "size"
      [] step = "size"   -> "compare"
      [] step = "compare" -> "measure"
      [] step = "measure" -> Emitted(c)

\* The order of the steps.  The other inspections make their event as soon as
\* they have its id.
Following(c, step) ==
    CASE step = "guard"  -> "id"
      [] step \in {"id", "boot", "intent", "size", "compare", "measure"} ->
            IF Kind[c] = "node" THEN FollowingInNode(c, step) ELSE Emitted(c)
      [] step = "buffer" -> "push"
      [] step = "push"   -> "deliver"
      [] step = "deliver" -> "done"

\* A checkpoint whose direction is not scanned makes no event.
Proceed(c) ==
    \/ pc' = [pc EXCEPT ![c] = Following(c, pc[c])]
    \/ c \in Unscanned /\ pc[c] = "id" /\ pc' = [pc EXCEPT ![c] = "skipped"]

\* The call makes its event with an id, or its comparison with a baseline.
Uses(c, memo, value) ==
    used' = IF KeyOf(c, memo) \in early[c]
            THEN [used EXCEPT ![KeyOf(c, memo)] = @ \cup {value}]
            ELSE used

\* What _correlation_for and the event buffers hand to the call.
Takes(c, memo, value) ==
    /\ IF memo = "id" THEN Uses(c, memo, value) ELSE UNCHANGED used
    /\ buffer' = IF memo = "buffer" THEN [buffer EXCEPT ![c] = value] ELSE buffer

First(c) ==
    CASE Kind[c] = "node" /\ c \in Decided /\ InThread(c) -> "guard"
      [] Kind[c] = "prompt" -> Emitted(c)
      [] OTHER -> "id"

Ended == {"done", "skipped"}

Begin(c) ==
    /\ pc[c] = "idle"
    /\ Cardinality({x \in Calls : pc[x] \notin {"idle"} \cup Ended}) < MaxActive
    /\ pc' = [pc EXCEPT ![c] = First(c)]
    /\ early' = [early EXCEPT ![c] =
            {k \in KeysOf(c) \ {KeyOf(c, "boot")} : Settled(k)}]
    /\ UNCHANGED <<missed, stored, deques, buffer, used, appended>>

\* A memo has the key.
Hit(c, memo) ==
    /\ pc[c] = memo /\ ~missed[c]
    /\ stored[KeyOf(c, memo)] # Nobody
    /\ Takes(c, memo, stored[KeyOf(c, memo)])
    /\ Proceed(c)
    /\ UNCHANGED <<missed, stored, deques, early, appended>>

\* A state without a user's text gives no intent, and the next node tries again.
NoIntent(c) ==
    /\ pc[c] = "intent" /\ ~missed[c]
    /\ c \notin HasText
    /\ stored[KeyOf(c, "intent")] = Nobody
    /\ Proceed(c)
    /\ UNCHANGED <<missed, stored, deques, buffer, early, used, appended>>

\* Regression: every event gets an id of its own.
Miss_EveryEvent(c, memo) ==
    /\ pc[c] = memo /\ ~missed[c]
    /\ memo = "id" \/ stored[KeyOf(c, memo)] = Nobody
    /\ memo = "intent" => c \in HasText
    /\ missed' = [missed EXCEPT ![c] = TRUE]
    /\ UNCHANGED <<pc, stored, deques, buffer, early, used, appended>>

\* Regression: line 194 without its second test, so that every state with a
\* user's text brings the intent anew.
Miss_Recaptured(c, memo) ==
    /\ pc[c] = memo /\ ~missed[c]
    /\ memo = "intent" \/ stored[KeyOf(c, memo)] = Nobody
    /\ memo = "intent" => c \in HasText
    /\ missed' = [missed EXCEPT ![c] = TRUE]
    /\ UNCHANGED <<pc, stored, deques, buffer, early, used, appended>>

\* A memo does not have the key; for an intent, the state has a user's text.
Miss(c, memo) ==
    /\ pc[c] = memo /\ ~missed[c]
    /\ stored[KeyOf(c, memo)] = Nobody
    /\ memo = "intent" => c \in HasText
    /\ missed' = [missed EXCEPT ![c] = TRUE]
    /\ UNCHANGED <<pc, stored, deques, buffer, early, used, appended>>

\* The call stores what it made, whatever is there by now, and goes on with it.
\* (defaultdict does the same: its factory is Python code, between the lookup
\* and the store.)  After the boot flag comes scan_attack_surface, whose event
\* has an id of its own and no thread, and whose exceptions are dropped.
Store(c, memo) ==
    /\ pc[c] = memo /\ missed[c]
    /\ stored' = [stored EXCEPT ![KeyOf(c, memo)] = c]
    /\ Takes(c, memo, c)
    /\ missed' = [missed EXCEPT ![c] = FALSE]
    /\ Proceed(c)
    /\ UNCHANGED <<deques, early, appended>>

Reads(c, memo) == Uses(c, memo, stored[KeyOf(c, memo)])

\* decide_node's goal guard reads the intent before inspect_node captures it,
\* unless the breaker has refused the node.
Guard(c) ==
    /\ pc[c] = "guard"
    /\ Reads(c, "intent") \/ UNCHANGED used
    /\ Proceed(c)
    /\ UNCHANGED <<missed, stored, deques, buffer, early, appended>>

\* The goal-hijack scan and then the communication scan look their baseline up
\* once more.
Compare(c) ==
    /\ pc[c] = "compare"
    /\ Reads(c, "intent")
    /\ Proceed(c)
    /\ UNCHANGED <<missed, stored, deques, buffer, early, appended>>

Measure(c) ==
    /\ pc[c] = "measure"
    /\ Reads(c, "size")
    /\ Proceed(c)
    /\ UNCHANGED <<missed, stored, deques, buffer, early, appended>>

\* deque(maxlen=MaxEvents).append, and a regression: no maxlen.
Bounded_Not(q, c) == Append(q, c)

Bounded(q, c) == Append(IF Len(q) < MaxEvents THEN q ELSE Tail(q), c)

\* _emit appends to the buffer it looked up.
Push(c) ==
    /\ pc[c] = "push"
    /\ deques' = [deques EXCEPT ![buffer[c]] = Bounded(@, c)]
    /\ buffer' = [buffer EXCEPT ![c] = Nobody]
    /\ appended' = [appended EXCEPT ![Thread[c]] = Append(@, c)]
    /\ Proceed(c)
    /\ UNCHANGED <<missed, stored, early, used>>

\* _emit alerts and exports; either may raise, and then the inspection is done
\* whatever would follow.
Deliver(c) ==
    /\ pc[c] = "deliver"
    /\ Proceed(c) \/ pc' = [pc EXCEPT ![c] = "done"]
    /\ UNCHANGED <<missed, stored, deques, buffer, early, used, appended>>

CallStep(c) ==
    \/ Begin(c)
    \/ \E memo \in Memos : Hit(c, memo) \/ Miss(c, memo) \/ Store(c, memo)
    \/ NoIntent(c)
    \/ Guard(c)
    \/ Compare(c)
    \/ Measure(c)
    \/ Push(c)
    \/ Deliver(c)

Next == \E c \in Calls : CallStep(c)

Spec == Init /\ [][Next]_vars

-----------------------------------------------------------------------------
(* Properties.                                                             *)

\* Once an id, a flag, a baseline or a buffer is settled it is never replaced:
\* only inspections that overlap the first one can disagree with it.
SettledStays ==
    [][\A k \in Keys : Settled(k) => stored'[k] = stored[k] /\ Settled(k)']_vars

\* The events of all inspections of a pair that began when its id was settled
\* carry one id: "correlation_id is stable across every event from the same
\* (run_id, thread_id)" (README.md:169).  Those of prompt scans do not.
LateEventsJoin ==
    \A c \in Calls : \A x, y \in used[KeyOf(c, "id")] : x = y

\* The goal guard and the goal-hijack scan of all nodes of a thread that began
\* when its intent was settled compare with one intent, and the growth rule with
\* one size, wherever the others are between capturing and comparing.
OneBaseline ==
    \A c \in Calls, memo \in {"intent", "size"} :
        \A x, y \in used[KeyOf(c, memo)] : x = y

\* events_for_thread.
Visible(t) ==
    LET k == <<"buffer", NoRun, t>> IN
    IF k \in Keys /\ stored[k] # Nobody THEN deques[stored[k]] ELSE << >>

Occurs(c, s) == \E i \in 1 .. Len(s) : s[i] = c

\* "concurrent invocations ... will not corrupt state" (lens.py:65-69): an event
\* emitted into a settled buffer is among events_for_thread, whoever else emits
\* at the same time and though its own alert failed, until MaxEvents later
\* events of the thread have pushed it out.
EventsKept ==
    \A c \in Calls :
        /\ pc[c] = "done"
        /\ InThread(c) /\ KeyOf(c, "buffer") \in early[c]
        => \/ Occurs(c, Visible(Thread[c]))
           \/ \E i \in 1 .. Len(appended[Thread[c]]) - MaxEvents : appended[Thread[c]][i] = c
=============================================================================

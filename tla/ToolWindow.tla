----------------------------- MODULE ToolWindow -----------------------------
(***************************************************************************)
(* detectors/tool.py: ToolDetector, whose per-thread window of tool names  *)
(* raises the enumeration alarm, as inspect_tool_call and decide_tool_call *)
(* scan it (lens.py), the latter with tool_allowlist.evaluate.             *)
(*                                                                         *)
(* One scan is one action.  decide_tool_call scans twice, for its verdict  *)
(* and for its event, and other calls of the thread come between.  The     *)
(* rules on the arguments have no state: which of them a call matches is   *)
(* an attribute of the call.  The wall clock that time.time() reads may be *)
(* set back; the ticks count real time.  mode = "log" changes the action   *)
(* of the verdict and not its reasons, which are what is kept here.        *)
(***************************************************************************)
EXTENDS Integers, Sequences, FiniteSets

CONSTANTS
    Clients,        \* callers of inspect_tool_call and decide_tool_call
    Tools,
    Threads,
    NoThread,       \* thread_id not given
    Calls,          \* the calls they make: [tool, thread, misuse]
    Rules,          \* config.tool.rules
    Allowed,        \* allowed_tools; all Tools when it is None
    BlockOn,        \* block_on_rules
    Window,         \* enumeration_window_seconds
    Threshold,      \* enumeration_threshold
    MaxTime,        \* bound: ticks of real time
    MaxSkew,        \* bound: ticks the wall clock may lose
    MaxWindow       \* bound: entries of a window when a call begins

Misuse == {"oversized_args", "shell_metachar", "ssrf_pattern"}
AllRules == Misuse \cup {"out_of_allowlist", "enumeration"}
Reasons == AllRules \cup {"circuit_breaker"}

ASSUME ToolsAssumption ==
    /\ IsFiniteSet(Tools)
    /\ NoThread \notin Threads
    /\ Calls \subseteq [tool : Tools, thread : Threads \cup {NoThread}, misuse : SUBSET Misuse]
    /\ {Rules, BlockOn} \subseteq SUBSET AllRules
    /\ Allowed \subseteq Tools
    /\ {Window, MaxTime, MaxSkew, MaxWindow} \subseteq Nat
    /\ Threshold \in Nat \ {0}

VARIABLES
    ticks,      \* real time
    skew,       \* how far the wall clock has been set back
    windows,    \* _enum_windows
    at,         \* the step each client is at
    call,       \* the call it makes
    verdict,    \* triggered_by of its decision
    found,      \* the rules of the detections in its event
    hurried,    \* history: the clock has not moved since its verdict
    made,       \* history: the calls scanned in each thread, at their real time
    latest      \* history: when a thread was scanned last, and the alarm

vars == <<ticks, skew, windows, at, call, verdict, found, hurried, made, latest>>
clock == <<ticks, skew>>

now == ticks - skew     \* time.time()

TypeOK ==
    /\ ticks \in Nat
    /\ skew \in Nat
    /\ windows \in [Threads -> Seq([at : Int, tool : Tools])]
    /\ \A t \in Threads : \A i \in 1 .. Len(windows[t]) : windows[t][i].at <= ticks
    /\ at \in [Clients -> {"idle", "decide", "event", "done"}]
    /\ call \in [Clients -> Calls]
    /\ verdict \in [Clients -> SUBSET Reasons]
    /\ found \in [Clients -> SUBSET AllRules]
    /\ hurried \in [Clients -> BOOLEAN]
    /\ made \in [Threads -> SUBSET [at : Nat, tool : Tools]]
    /\ latest \in [Threads -> [at : Nat, alarm : BOOLEAN]]

Init ==
    /\ ticks = 0
    /\ skew = 0
    /\ windows = [t \in Threads |-> << >>]
    /\ at = [c \in Clients |-> "idle"]
    /\ call \in [Clients -> Calls]
    /\ verdict = [c \in Clients |-> {}]
    /\ found = [c \in Clients |-> {}]
    /\ hurried = [c \in Clients |-> FALSE]
    /\ made = [t \in Threads |-> {}]
    /\ latest = [t \in Threads |-> [at |-> 0, alarm |-> FALSE]]

-----------------------------------------------------------------------------
(* ToolDetector.scan.                                                      *)

\* Regression: the time an entry expires is kept, and its age tested as before.
Entry_Expiry(tool) == [at |-> now + Window, tool |-> tool]

Entry(tool) == [at |-> now, tool |-> tool]

\* Regression: the cutoff itself is outside the window.
Expired_AtCutoff(e) == e.at <= now - Window

Expired(e) == e.at < now - Window

\* Regression: if for while.
Drops_One(w, k) == k = IF Expired(w[1]) THEN 1 ELSE 0

\* The first k entries are popped: all that have expired before one that has
\* not.  The entry just appended has not.
Drops(w, k) == (\A i \in 1 .. k : Expired(w[i])) /\ ~Expired(w[k + 1])

InWindow(w) == {w[i].tool : i \in 1 .. Len(w)}

Sweeps(w) == Cardinality(InWindow(w)) >= Threshold

\* A call outside any thread has no window.
Slide(t, tool) ==
    IF t = NoThread \/ "enumeration" \notin Rules
    THEN UNCHANGED <<windows, made, latest>>
    ELSE LET w == Append(windows[t], Entry(tool)) IN
         /\ \E k \in 0 .. Len(windows[t]) :
               /\ Drops(w, k)
               /\ windows' = [windows EXCEPT ![t] = SubSeq(w, k + 1, Len(w))]
         /\ made' = [made EXCEPT ![t] = @ \cup {[at |-> ticks, tool |-> tool]}]
         /\ latest' = [latest EXCEPT ![t] = [at |-> ticks, alarm |-> Sweeps(windows'[t])]]

\* The rules that match besides the allow-list, once the window has slid.
Matched(m) ==
    (m.misuse \cap Rules) \cup
    (IF m.thread # NoThread /\ "enumeration" \in Rules /\ latest'[m.thread].alarm
     THEN {"enumeration"} ELSE {})

-----------------------------------------------------------------------------
(* The callers.                                                            *)

\* decide_tool_call, or inspect_tool_call alone.
Begin(c) ==
    /\ at[c] \in {"idle", "done"}
    /\ \E m \in Calls, step \in {"decide", "event"} :
          /\ m.thread # NoThread => Len(windows[m.thread]) <= MaxWindow
          /\ call' = [call EXCEPT ![c] = m]
          /\ at' = [at EXCEPT ![c] = step]
    /\ verdict' = [verdict EXCEPT ![c] = {}]
    /\ found' = [found EXCEPT ![c] = {}]
    /\ hurried' = [hurried EXCEPT ![c] = TRUE]
    /\ UNCHANGED <<clock, windows, made, latest>>

\* The breaker refuses, or the allow-list is disabled: no scan for the verdict.
Pass(c) ==
    /\ at[c] = "decide"
    /\ \E reasons \in {{}, {"circuit_breaker"}} :
          verdict' = [verdict EXCEPT ![c] = reasons]
    /\ at' = [at EXCEPT ![c] = "event"]
    /\ UNCHANGED <<clock, windows, call, found, hurried, made, latest>>

\* tool_allowlist.evaluate.  The rate limiter comes next and leaves nothing here.
Evaluate(c) ==
    /\ at[c] = "decide"
    /\ Slide(call[c].thread, call[c].tool)
    /\ verdict' = [verdict EXCEPT ![c] =
            (Matched(call[c]) \cap BlockOn) \cup
            (IF call[c].tool \in Allowed THEN {} ELSE {"out_of_allowlist"})]
    /\ at' = [at EXCEPT ![c] = "event"]
    /\ UNCHANGED <<clock, call, found, hurried>>

\* Regression: a call that was blocked is not inspected any more.
Inspect_NotBlocked(c) ==
    /\ at[c] = "event"
    /\ IF verdict[c] # {}
       THEN UNCHANGED <<windows, found, made, latest>>
       ELSE /\ Slide(call[c].thread, call[c].tool)
            /\ found' = [found EXCEPT ![c] = Matched(call[c])]
    /\ at' = [at EXCEPT ![c] = "done"]
    /\ UNCHANGED <<clock, call, verdict, hurried>>

\* inspect_tool_call, whatever the verdict, and without the allow-list.
Inspect(c) ==
    /\ at[c] = "event"
    /\ Slide(call[c].thread, call[c].tool)
    /\ found' = [found EXCEPT ![c] = Matched(call[c])]
    /\ at' = [at EXCEPT ![c] = "done"]
    /\ UNCHANGED <<clock, call, verdict, hurried>>

Tick ==
    /\ ticks < MaxTime
    /\ ticks' = ticks + 1
    /\ hurried' = [c \in Clients |-> hurried[c] /\ at[c] = "done"]
    /\ UNCHANGED <<skew, windows, at, call, verdict, found, made, latest>>

StepBack ==
    /\ skew < MaxSkew
    /\ skew' = skew + 1
    /\ UNCHANGED <<ticks, windows, at, call, verdict, found, hurried, made, latest>>

Next ==
    \/ \E c \in Clients : Begin(c) \/ Pass(c) \/ Evaluate(c) \/ Inspect(c)
    \/ Tick
    \/ StepBack

Spec == Init /\ [][Next]_vars

-----------------------------------------------------------------------------
(* Properties.                                                             *)

\* The tools called in a thread at or after a time.
Since(t, time) == {m.tool : m \in {m \in made[t] : m.at >= time}}

\* A thread that has called Threshold distinct tools within the window has
\* raised the alarm at its latest call, also when the clock was set back, when
\* the calls were blocked and when each was scanned twice.
NoSweepMissed ==
    \A t \in Threads :
        Cardinality(Since(t, ticks - Window)) >= Threshold => latest[t].alarm

\* The alarm means Threshold distinct tools within the window before the call,
\* and within the time the clock was set back: scanning a call twice adds none.
AlarmsBounded ==
    \A t \in Threads : latest[t].alarm =>
        Cardinality(Since(t, latest[t].at - Window - skew)) >= Threshold

\* What the verdict of a decide_tool_call names is also in the event that the
\* log gets, but for the allow-list, which the event's scan is not given, and
\* for an enumeration that the clock, and no other call, has ended since.
VerdictExplained ==
    \A c \in Clients : at[c] = "done" =>
        verdict[c] \ {"circuit_breaker", "out_of_allowlist"}
            \subseteq found[c] \cup (IF hurried[c] THEN {} ELSE {"enumeration"})
=============================================================================

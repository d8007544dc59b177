---------------------------- MODULE LensPipeline ----------------------------
(***************************************************************************)
(* The Tier 2 decision paths of lens.py (decide_node, decide_tool_call,    *)
(* decide_checkpoint) and the code that acts on their verdicts: wrap_node  *)
(* and LensCallback.on_tool_start (middleware.py) and the put and          *)
(* get_tuple wrappers (integrations/checkpoint.py).                        *)
(*                                                                         *)
(* One Lens serves many calls at a time.  A decision path is a sequence of *)
(* interventions that share state with the other calls (the token bucket,  *)
(* the intents of the threads, the alert cooldown), so each intervention   *)
(* is a step of its own and the calls interleave.  What a text detector    *)
(* finds is an input: a call carries the findings there are to make.  The  *)
(* circuit breaker's verdict is an input too; CircuitBreaker models how it *)
(* comes about, and RateLimiter the bucket that is a counter here.         *)
(***************************************************************************)
EXTENDS Integers, FiniteSets

CONSTANTS
    Calls,         \* nodes to enter, tools to call, checkpoints to put or get
    Kind,          \* [Calls -> Kinds]
    MayCarry,      \* [Calls -> what the call may carry for a detector to find]
    Thread,        \* [Calls -> a thread_id, or NoThread]
    NoThread,
    Mode,          \* [Interventions -> the action each takes when it fires]
    AlertOn,       \* config.alerts.alert_on, as findings; {} when disabled
    Capacity,      \* tokens of the one bucket the calls share
    SendMayRaise,  \* may urlopen raise what _send does not suppress?
    MaxActive,     \* bound: calls under way at once
    Attached       \* is a LensCallback attached to the graph, besides wrap_node?

Kinds == {"node", "tool", "put", "get"}
Interventions == {"circuit_breaker", "goal_guard", "pii_redactor",
                  "tool_allowlist", "rate_limit", "checkpoint_protector"}

\* What there is to find in a call, by kind: "request" is a user's text in the
\* state of a node, which the lens keeps and does not report; "unlisted" is a
\* tool outside the allow-list, which the allow-list reports with no detection.
Carries == [node |-> {"request", "drift", "pii"}, tool |-> {"misuse", "unlisted"},
            put |-> {"unsafe"}, get |-> {"unsafe"}]
Findings == UNION {Carries[k] : k \in Kinds}

Threads == {Thread[c] : c \in Calls} \ {NoThread}

INSTANCE LensDecision

ASSUME PipelineAssumption ==
    /\ Kind \in [Calls -> Kinds]
    /\ \A c \in Calls : MayCarry[c] \subseteq Carries[Kind[c]]
    /\ Mode \in [Interventions -> Actions]
    /\ Mode["circuit_breaker"] = "block"
    /\ Mode["pii_redactor"] \in {"redact", "block"}
    /\ Mode["rate_limit"] \in {"throttle", "block"}
    /\ \A i \in {"goal_guard", "tool_allowlist", "checkpoint_protector"} :
          Mode[i] \in {"allow", "block"}       \* "log" or the blocking mode
    /\ Capacity \in Nat
    /\ MaxActive \in Nat \ {0}
    /\ {SendMayRaise, Attached} \subseteq BOOLEAN

VARIABLES
    at,        \* where each call is
    carried,   \* what there is to find in it
    decision,  \* its LensDecision so far
    paid,      \* has the rate limiter taken its token?
    fate,      \* what became of the node, tool or checkpoint behind it
    tokens,    \* the bucket
    intents,   \* threads in _thread_user_intent
    quiet,     \* findings whose alert is cooling down (_last_sent)
    briefed    \* history: the calls whose thread had its intent when they began

callVars == <<at, carried, decision, paid, fate, briefed>>
vars == <<at, carried, decision, paid, fate, tokens, intents, quiet, briefed>>

Points == {"idle", "load", "observe", "gate", "guard", "redact", "allowlist", "limit",
           "protect", "inspect", "act", "raised", "done"}
Fates == {"pending", "refused", "failed", "raw", "scrubbed"}

TypeOK ==
    /\ at \in [Calls -> Points]
    /\ carried \in [Calls -> SUBSET Findings]
    /\ decision \in [Calls -> Decision]
    /\ paid \in [Calls -> BOOLEAN]
    /\ fate \in [Calls -> Fates]
    /\ tokens \in 0 .. Capacity
    /\ intents \subseteq Threads
    /\ quiet \subseteq AlertOn
    /\ briefed \subseteq Calls

Init ==
    /\ at = [c \in Calls |-> "idle"]
    /\ carried = [c \in Calls |-> {}]
    /\ decision = [c \in Calls |-> NoDecision]
    /\ paid = [c \in Calls |-> FALSE]
    /\ fate = [c \in Calls |-> "pending"]
    /\ tokens = Capacity
    /\ intents = {}
    /\ quiet = {}
    /\ briefed = {}

-----------------------------------------------------------------------------
(* The interventions.  Every decide_* skips an intervention once the       *)
(* decision is terminal.                                                   *)

\* The decision an intervention returns when it fires.
Fired(i) == [action |-> Mode[i], triggered_by |-> {i}, modified |-> Mode[i] = "redact"]

Goto(c, point) == at' = [at EXCEPT ![c] = point]
Live(c) == ~IsTerminal(decision[c])

\* The intervention i fires, or lets the call pass.
Fire(c, i) == decision' = [decision EXCEPT ![c] = Merge(@, Fired(i))]
Pass == UNCHANGED decision

\* A call reaches the lens.
Start(c) ==
    /\ at[c] = "idle"
    /\ Cardinality({x \in Calls : at[x] # "idle"}) < MaxActive
    /\ \E findings \in SUBSET MayCarry[c] :
          carried' = [carried EXCEPT ![c] = findings]
    /\ Goto(c, CASE Kind[c] = "node" -> (IF Attached THEN "observe" ELSE "gate")
                 [] Kind[c] = "tool" -> "gate"
                 [] Kind[c] = "put" -> "protect"
                 [] Kind[c] = "get" -> "load")
    /\ briefed' = IF Thread[c] \in intents THEN briefed \cup {c} ELSE briefed
    /\ UNCHANGED <<decision, paid, fate, tokens, intents, quiet>>

\* get_tuple loads, and so deserialises, before it asks the lens.
Load(c) ==
    /\ at[c] = "load"
    /\ Goto(c, "protect")
    /\ UNCHANGED <<carried, decision, paid, fate, tokens, intents, quiet, briefed>>

\* circuit_breaker.evaluate_request: refuses while it is open, or half-open
\* behind a probe.
Gate(c) ==
    /\ at[c] = "gate"
    /\ Pass \/ Fire(c, "circuit_breaker")
    /\ Goto(c, IF Kind[c] = "node" THEN "guard" ELSE "allowlist")
    /\ UNCHANGED <<carried, paid, fate, tokens, intents, quiet, briefed>>

\* goal_guard.evaluate, against the intent of the thread when there is one.
Drifts(c) == Thread[c] \in intents /\ "drift" \in carried[c]

Guard(c) ==
    /\ at[c] = "guard"
    /\ IF Live(c) /\ Drifts(c) THEN Fire(c, "goal_guard") ELSE Pass
    /\ Goto(c, "redact")
    /\ UNCHANGED <<carried, paid, fate, tokens, intents, quiet, briefed>>

\* pii_redactor.evaluate.
Redact(c) ==
    /\ at[c] = "redact"
    /\ IF Live(c) /\ "pii" \in carried[c]
       THEN Fire(c, "pii_redactor") ELSE Pass
    /\ Goto(c, "inspect")
    /\ UNCHANGED <<carried, paid, fate, tokens, intents, quiet, briefed>>

\* tool_allowlist.evaluate.
Allowlist(c) ==
    /\ at[c] = "allowlist"
    /\ IF Live(c) /\ carried[c] # {}
       THEN Fire(c, "tool_allowlist") ELSE Pass
    /\ Goto(c, "limit")
    /\ UNCHANGED <<carried, paid, fate, tokens, intents, quiet, briefed>>

\* Regression: decide_tool_call without the is_terminal test at line 504.
Limit_Always(c) ==
    /\ at[c] = "limit"
    /\ IF tokens > 0
       THEN Pass /\ tokens' = tokens - 1 /\ paid' = [paid EXCEPT ![c] = TRUE]
       ELSE Fire(c, "rate_limit") /\ UNCHANGED <<tokens, paid>>
    /\ Goto(c, "inspect")
    /\ UNCHANGED <<carried, fate, intents, quiet, briefed>>

\* Regression: evaluate without the test of line 66.
Limit_Unchecked(c) ==
    /\ at[c] = "limit"
    /\ Pass
    /\ IF Live(c) THEN tokens' = tokens - 1 /\ paid' = [paid EXCEPT ![c] = TRUE]
       ELSE UNCHANGED <<tokens, paid>>
    /\ Goto(c, "inspect")
    /\ UNCHANGED <<carried, fate, intents, quiet, briefed>>

\* rate_limiter.evaluate: takes a token, or fires.
Limit(c) ==
    /\ at[c] = "limit"
    /\ \/ ~Live(c) /\ Pass /\ UNCHANGED <<tokens, paid>>
       \/ Live(c) /\ tokens > 0 /\ Pass
             /\ tokens' = tokens - 1 /\ paid' = [paid EXCEPT ![c] = TRUE]
       \/ Live(c) /\ tokens = 0 /\ Fire(c, "rate_limit")
             /\ UNCHANGED <<tokens, paid>>
    /\ Goto(c, "inspect")
    /\ UNCHANGED <<carried, fate, intents, quiet, briefed>>

\* checkpoint_protector.evaluate, first in decide_checkpoint.
Protect(c) ==
    /\ at[c] = "protect"
    /\ IF carried[c] # {} THEN Fire(c, "checkpoint_protector") ELSE Pass
    /\ Goto(c, "inspect")
    /\ UNCHANGED <<carried, paid, fate, tokens, intents, quiet, briefed>>

-----------------------------------------------------------------------------
(* Inspection, and what the caller of the decision does with it.           *)

\* The threads with an intent after an inspection: the first state of a thread
\* with a user's text in it brings the intent, and the others leave it alone.
Captured_Never(c) == intents
Captured(c) ==
    IF "request" \in carried[c] THEN intents \cup ({Thread[c]} \ {NoThread}) ELSE intents

\* The Tier 1 detections in what is inspected: drift needs a thread, and the
\* inspection of a tool call is given no allow-list.
Detected(c, content) ==
    content \ ({"request", "unlisted"} \cup IF Thread[c] \in intents' THEN {} ELSE {"drift"})

\* inspect_node, inspect_tool_call or inspect_checkpoint, with _emit: the alerts
\* that are not cooling down are sent.  A send that raises leaves the alerts
\* after it unsent.
Inspect(c, content, next, onRaise) ==
    LET alerts == Detected(c, content) \cap (AlertOn \ quiet) IN
    /\ intents' = Captured(c)
    /\ \/ quiet' = quiet \cup alerts /\ Goto(c, next)
       \/ /\ SendMayRaise
          /\ \E sent \in SUBSET alerts \ {{}} : quiet' = quiet \cup sent
          /\ Goto(c, onRaise)

\* LensCallback.on_chain_start, before the wrapped node is called: inspects the
\* state as it is, and suppresses whatever is raised.
Observe(c) ==
    /\ at[c] = "observe"
    /\ Inspect(c, carried[c], "gate", "gate")
    /\ UNCHANGED <<carried, decision, paid, fate, tokens, briefed>>

\* The inspection a decide_* makes, of the state that will be forwarded.
\* What the interventions detected is added to the event after _emit, and so
\* sends no alert.
InspectDecided(c) ==
    LET content == IF decision[c].modified THEN carried[c] \ {"pii"} ELSE carried[c] IN
    /\ at[c] = "inspect"
    /\ Inspect(c, content, "act", "raised")
    /\ UNCHANGED <<carried, decision, paid, fate, tokens, briefed>>

\* wrap_node, and the put and get_tuple wrappers, refuse a terminal decision
\* with LensBlockedError; wrap_node runs the body on the modified state.
Runs(c) == IF decision[c].modified THEN "scrubbed" ELSE "raw"

\* Regressions: wrap_node does not substitute the state; it looks at the
\* state before the verdict.
ActOnNode_KeepsState(c) ==
    /\ Kind[c] = "node"
    /\ fate' = [fate EXCEPT ![c] = IF Live(c) THEN "raw" ELSE "refused"]

ActOnNode_VerdictUnread(c) ==
    /\ Kind[c] = "node"
    /\ fate' = [fate EXCEPT ![c] = Runs(c)]

ActOnNode(c) ==
    /\ Kind[c] = "node"
    /\ fate' = [fate EXCEPT ![c] = IF Live(c) THEN Runs(c) ELSE "refused"]

ActOnCheckpoint(c) ==
    /\ Kind[c] \in {"put", "get"}
    /\ fate' = [fate EXCEPT ![c] = IF Live(c) THEN "raw" ELSE "refused"]

\* LensCallback.raise_error: LangChain's dispatcher logs what a handler raises
\* and passes it on only when this is set.
raise_error == FALSE

\* on_tool_start raises LensBlockedError through _safe_or_raise.
ActOnTool(c) ==
    /\ Kind[c] = "tool"
    /\ fate' = [fate EXCEPT ![c] = IF Live(c) \/ ~raise_error THEN "raw" ELSE "refused"]

Act(c) ==
    /\ at[c] = "act"
    /\ ActOnNode(c) \/ ActOnCheckpoint(c) \/ ActOnTool(c)
    /\ Goto(c, "done")
    /\ UNCHANGED <<carried, decision, paid, tokens, intents, quiet, briefed>>

\* An exception out of decide_*: _safe_or_raise suppresses it and the tool
\* runs; wrap_node and the checkpoint wrappers let it through to the graph.
Raised(c) ==
    /\ at[c] = "raised"
    /\ fate' = [fate EXCEPT ![c] = IF Kind[c] = "tool" THEN "raw" ELSE "failed"]
    /\ Goto(c, "done")
    /\ UNCHANGED <<carried, decision, paid, tokens, intents, quiet, briefed>>

-----------------------------------------------------------------------------
(* The rest of the world.                                                  *)

\* The call is over, and its caller may make another like it.
Return(c) ==
    /\ at[c] = "done"
    /\ Goto(c, "idle")
    /\ carried' = [carried EXCEPT ![c] = {}]
    /\ decision' = [decision EXCEPT ![c] = NoDecision]
    /\ paid' = [paid EXCEPT ![c] = FALSE]
    /\ fate' = [fate EXCEPT ![c] = "pending"]
    /\ briefed' = briefed \ {c}
    /\ UNCHANGED <<tokens, intents, quiet>>

Refill ==
    /\ tokens < Capacity
    /\ tokens' = tokens + 1
    /\ UNCHANGED <<callVars, intents, quiet>>

CooldownEnds ==
    /\ \E finding \in quiet : quiet' = quiet \ {finding}
    /\ UNCHANGED <<callVars, tokens, intents>>

CallStep(c) ==
    \/ Start(c) \/ Load(c) \/ Observe(c) \/ Gate(c) \/ Guard(c) \/ Redact(c) \/ Allowlist(c)
    \/ Limit(c) \/ Protect(c) \/ InspectDecided(c) \/ Act(c) \/ Raised(c) \/ Return(c)

Next == (\E c \in Calls : CallStep(c)) \/ Refill \/ CooldownEnds

Spec == Init /\ [][Next]_vars

-----------------------------------------------------------------------------
(* Properties.                                                             *)

Ran(c) == fate[c] \in {"raw", "scrubbed"}

\* The node, the put or the load behind a call has been made.  A load is made
\* first, and what is decided afterwards is whether its result is handed over.
Invoked(c) == IF Kind[c] = "get" THEN at[c] \notin {"idle", "load"} ELSE Ran(c)

\* What a terminal decision does, whichever intervention decided and though an
\* alert may fail in between: a node or a put is never made.  A load has been
\* made by then, the saver has deserialised, and its result goes to nobody.
BlocksEnforced ==
    \A c \in Calls : IsTerminal(decision[c]) =>
        CASE Kind[c] \in {"node", "put"} -> ~Invoked(c)
          [] Kind[c] = "get"  -> Invoked(c) /\ ~Ran(c)
          [] Kind[c] = "tool" -> TRUE       \* CallbackBlocks

\* "The caller must not invoke the underlying node / tool / checkpoint
\* operation" (decisions.py:15), of tools: "block decisions work via callback
\* (the handler raises LensBlockedError)" (README.md:88).
CallbackBlocks ==
    \A c \in Calls : Kind[c] = "tool" /\ IsTerminal(decision[c]) => ~Invoked(c)

\* "Turns Tier 1 system_prompt_drift / tool_call_drift detections into a
\* terminal block" (README.md:148): with the goal guard in block mode, a node
\* runs on a state that drifts only if it began before its thread had an intent,
\* and did not bring the intent itself under a callback that looked at it first.
DriftBlocked ==
    Mode["goal_guard"] = "block" =>
        \A c \in Calls : Ran(c) /\ "drift" \in carried[c] /\ Thread[c] # NoThread =>
            /\ c \notin briefed
            /\ ~(Attached /\ "request" \in carried[c])

\* A node never runs on personal data the redactor finds: its state is the
\* scrubbed one, whatever the interventions before had to say.
ScrubbedBeforeNode ==
    Mode["pii_redactor"] = "redact" =>
        \A c \in Calls : "pii" \in carried[c] => fate[c] # "raw"

\* Once a tool call has been through the interventions, it has paid a token
\* exactly if none of them stopped it: refused calls leave the bucket alone.
PaidIffAllowed ==
    \A c \in Calls :
        Kind[c] = "tool" /\ at[c] \in {"inspect", "act", "raised", "done"} =>
            (paid[c] <=> decision[c].action = "allow")

\* The verdict is the strictest action of the interventions it names, and it
\* carries a rewritten state exactly if one of them rewrote it.
Explained(d) ==
    LET actions == {Mode[i] : i \in d.triggered_by} \cup {"allow"} IN
    /\ d.action \in actions
    /\ \A a \in actions : rank[d.action] >= rank[a]
    /\ d.modified <=> "redact" \in actions

\* The interventions that had to fire for a call the breaker let in: those with
\* something to find, unless an earlier one has blocked it.
Due(c) ==
    {i \in Interventions :
        \/ i = "goal_guard" /\ c \in briefed /\ "drift" \in carried[c]
        \/ i = "pii_redactor" /\ Live(c) /\ "pii" \in carried[c]
        \/ i = "tool_allowlist" /\ Kind[c] = "tool" /\ carried[c] # {}
        \/ i = "rate_limit" /\ Kind[c] = "tool" /\ Live(c) /\ ~paid[c]
        \/ i = "checkpoint_protector" /\ Kind[c] \in {"put", "get"} /\ carried[c] # {}}

\* "Non-terminal decisions accumulate their triggered_by lists so the final
\* audit record reflects everything the lens saw" (decisions.py:20): a verdict
\* is the strictest of what it names, and it names all that fired, those in log
\* mode included, however many more were merged into it.
VerdictComplete ==
    \A c \in Calls :
        /\ Explained(decision[c])
        /\ at[c] \in {"inspect", "act", "raised", "done"}
               /\ "circuit_breaker" \notin decision[c].triggered_by
           => Due(c) \subseteq decision[c].triggered_by
=============================================================================

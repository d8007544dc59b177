# langgraph-lens: models, checks and proofs

TLA+ models of the parts of langgraph-lens in which the order of steps decides
whether they are right: the Tier 2 interventions (circuit breaker, rate limiter,
goal guard, PII redactor, tool allow-list, checkpoint protector), the decision
paths of `Lens` that compose them, the code that acts on their verdicts, the patching
of saver and store classes, the memos and event buffers that interleaved inspections
share, the traversal rule of the communication detector and the enumeration window of
the tool detector.
Paths below are relative to `src/langgraph_lens/` of the repository.

## The system

`Lens` (`lens.py`) is one object shared by every graph of a process. LangGraph
reaches it in four ways: a callback handler (`LensCallback`, `middleware.py`), a
node wrapper (`wrap_node`), wrapped savers and stores (`integrations/`), and direct
calls. Sync nodes and tools run on a thread pool, async ones on an event loop; all
of them use the same `Lens` without a lock.

| Component | State it keeps | Operations | What makes it correct |
|---|---|---|---|
| Circuit breaker (`interventions/circuit_breaker.py`) | `_state`, `_opened_at`, windows `_calls` and `_attacks`, `_half_open_probes_inflight` | `evaluate_request`, `record_response`, `record_attack_signal` | an outage lasts its cooldown; one probe per half-open episode; the slot is always given back; a healthy upstream gets its breaker closed |
| Rate limiter (`rate_limiter.py`) | a bucket per key | `evaluate` | no period lets more through than a bucket and its refill; a client that sleeps `retry_after` gets through |
| Goal guard, allow-list, PII redactor, checkpoint protector | none of their own (the guard reads the thread's intent) | `evaluate` | what is found is blocked, rewritten or logged, as configured |
| Decisions (`decisions.py`, `audit.py`) | a `LensDecision` per call | `merge`, `with_audit_headers`, `stamp_state` | the strictest action wins, no reason and no rewritten state is lost |
| Decision paths (`lens.py`) | intents, correlation ids, event buffers, initial sizes, the boot flag, declared edges | `decide_node`, `decide_tool_call`, `decide_checkpoint`, `inspect_*`, `record_upstream_result`, `events_for_thread` | verdicts follow from what fired; refused calls cost nothing; the events of one run join on one id, its nodes are compared with one intent, and no event is lost before its buffer is full |
| Callback and wrapper (`middleware.py`) | the global lens | hooks, `wrap_node`, `install_global_callback` | blocked work does not run; nothing but a block reaches the agent |
| Saver and store protection (`integrations/`) | flags and methods of classes, the lens of an instance | `protect_saver`, `protect_store`, auto-protection, the method wrappers | every write and load is inspected once, with the right lens |
| Alerts (`alerts.py`) | `_last_sent` per detector | `maybe_send` | alerts do not interfere, and respect the cooldown |
| Communication detector, topology (`detectors/comms.py`, `integrations/topology.py`) | the last node of each thread | `scan`, `extract_topology` | declared traversals raise nothing |
| Tool detector (`detectors/tool.py`) | a window of the latest calls per thread | `scan` | the alarm means a sweep over distinct tools within the window, and every sweep raises it |
| Memory and text detectors, event log, metrics, OpenTelemetry, configuration, CLI | none that steps race for | – | pure functions and output |

**Interactions.** A decision path asks the breaker, then the content interventions,
then (tools) the limiter; each verdict is merged into one `LensDecision`. What the
content interventions detect is fed back to the breaker as attack signals. Then the
event is built by the Tier 1 inspection, logged, kept and alerted, and the caller of
the path enforces the verdict: `wrap_node` and the saver wrappers raise
`LensBlockedError`, `on_tool_start` raises it through LangChain's dispatcher.

**What is hard here.** Requests that outlive the outage they met; a probe whose
answer never comes; several guarded steps of one run behind one breaker; threads
inside `evaluate`; a clock that is set back; retries that come back exactly when
told; an alert that fails between the verdict and its enforcement; an intent that is
captured after it was needed; a verdict that travels as an exception; classes that are
defined, patched and swapped in an order nobody planned; a memory of the last node that
outlives its turn; memos that two threads fill at once; a load that is decided about
when it has been made; a window cut at a clock that
may be set back, and scanned twice by one decision. `PROJECT.json`
lists each of these at its line, with the property that covers it or why none does
yet.

## Modules

| Module | Models | How it corresponds to the code |
|---|---|---|
| `CircuitBreaker` | the breaker with its callers, its upstream and time | one action per method and branch: `AdmitClosed`, `AdmitProbe`, `Refuse` (`evaluate_request`), `RecordHalfOpen`, `RecordClosed`, `RecordOpen` (`record_response`), `RecordAttackSignal`; `Open` and `Close` are the two private methods. `Abandon` is a caller whose request is refused by a later intervention, or who never reports |
| `BreakerContract` | what a breaker promises, nothing of how it trips | the abstract specification `CircuitBreaker` implements: `gate <- state`, `outage <- openAge`, `probed <- slot # NoRequest`, `inside <-` the running requests |
| `GraphRuns` | runs that ask the breaker `Gates` times and report once | extends `CircuitBreaker`; `NextStep` is the next wrapped node or guarded tool of the same run |
| `RateLimiter` | buckets, clients that wait for `retry_after`, a wall clock that may step back | `Evaluate` is the whole of `evaluate` (`Admit` or `Refuse`); `Key` is `_make_key`, `Cost` is `_cost` |
| `TokenBuckets` | what a limiter promises: buckets that refill by themselves | the abstract specification `RateLimiter` implements: `credit <- [k \|-> Available(k)]`, `time <- ticks`, `lost <- skew`; a refusal is a stutter |
| `RateLimiterThreads` | two threads inside `evaluate` on one key | one action per step of `evaluate` that touches shared state |
| `LensDecision` | `LensDecision` and `merge` | pure operators |
| `LensPipeline` | the three decision paths and what their callers do with the verdict | one action per intervention (`Gate`, `Guard`, `Redact`, `Allowlist`, `Limit`, `Protect`), `InspectDecided` for the inspection with `_emit` and the alerts, `Observe` for `on_chain_start`, `Act` and `Raised` for the enforcement. `Load` is the saver's own `get_tuple`, which comes before `Protect`. `Captured` is the intent that a state with a user's text (`"request"`) leaves to its thread |
| `ClassProtection` | saver and store classes, their protection and the calls of their methods | a class is its method table (`own`) and its `Mro`, a method the body's class and a number of wrappers. `Define` is a class statement with the `__init_subclass__` hook, `InstallSavers`, `InstallStores`, `InstallGlobal` the auto-protection with its walk (`Walked`), `ProtectAgain`, `ProtectBySwap`, `ProtectInPlace` the branches of `protect_saver` and `protect_store`. `BeforeWrite`, `BeforeRead`, `AfterRead` are the wrappers, which look the lens up one by one (`LensFor`) |
| `CommsTraversal` | turns of a graph, and what the detector is told of them | `Declared` is `extract_topology`, `Attach` is `attach_graph`, `InspectNode` is `inspect_node` with the `undeclared_edge` rule, reached from `OnChainStart`, `WrappedNode` and `OnLlmStart`. LangGraph's scheduler (`Invoke`, `Advance`, `Finish`, `Fail`) is external |
| `Inspection` | the inspections of one `Lens` by threads that interleave | a memo (correlation id, boot flag, intent, first size, event buffer) is a key and who stored its value; `Hit`, `Miss` and `Store` are the lookup and the store of `_correlation_for`, `_maybe_auto_scan_attack_surface`, the two captures of `inspect_node` and the `defaultdict` of buffers. `Begin` and `First` are the entries, `scan_prompt` and `_scan_rendered_prompt` among them. `Guard`, `Compare`, `Measure` read a baseline again, `Push` and `Deliver` are `_emit`, `Following` and `FollowingInNode` are the order of the steps in each kind of inspection. The scan of the attack surface after the boot flag makes an event outside every thread and has no step |
| `ToolWindow` | the enumeration window of the tool detector, its callers and a wall clock that may be set back | `Slide` is the window part of `scan` (`Entry`, `Drops`, `Sweeps`), `Matched` its other rules; `Begin`, `Evaluate` or `Pass`, and `Inspect` are the steps of `decide_tool_call` with its two scans, `Begin` and `Inspect` those of `inspect_tool_call` alone |
| `CircuitBreakerProofs`, `RateLimiterProofs`, `LensPipelineProofs`, `ClassProtectionProofs`, `ClassPathProofs`, `CommsTraversalProofs`, `InspectionProofs`, `ToolWindowProofs` | – | the theorems below |
| `MCCircuitBreaker`, `MCRateLimiter`, `MCLensPipeline`, `MCClassProtection`, `MCCommsTraversal`, `MCInspection`, `MCToolWindow` | – | bounds for TLC |

`LensPipeline` takes the breaker's verdict as an input and the limiter as a counter of
tokens, and an inspection as one step: the other modules say how those come about. Definitions named
`X_Something` are regressions: plausible mistakes in the code that `X` models,
kept to show that a property would notice them.

**Abstractions.** Time in `CircuitBreaker` is kept as ages that stop one tick past the
window they are compared with, so behaviours are unbounded in time. Tokens and
seconds in `RateLimiter` are whole numbers of one small unit, so that no rounding is
lost. What a text detector finds in a call is an input, chosen when the call starts,
and so is whether a node's state has a user's text in it. The lines `_emit` writes are
left out of `LensPipeline`, whose properties are about verdicts.
A disabled intervention returns before it touches anything, so only enabled ones are
modelled. In `RateLimiterThreads` and `Inspection` a step is one operation on shared
state; elsewhere each modelled step is atomic: in `CircuitBreaker`, `RateLimiter` and
the scans of `ToolWindow` that is one method, which is what an event loop gives and
what threads give only between bytecodes. Actions that are not the code's: `Tick`,
`StepBack`, `UpstreamHeals`, `GiveUp`, `Retries`, `Return`, the bodies of savers
and stores with Python's method lookup, LangGraph's scheduler, and LangChain's
dispatcher (which logs what a handler raises, and passes it on only if the handler
sets `raise_error`).

`ClassProtection` has single inheritance below the abstract base (`MroAssumption`:
the mro of a base is the rest of the mro, and all its classes are of one kind), and runs the whole of
an installation or a protection as one step, as import time and set-up code do; calls
are stepped wrapper by wrapper, so that an installation may come between two of them.
The opt-out `LANGGRAPH_LENS_AUTO_PROTECT=0` leaves a program without the install
actions and is not a case of its own. A read that finds no checkpoint is not inspected
and needs not be; reads here find one. In `CommsTraversal` the runnables inside a node
are not modelled, save model calls; the `<exit>` inspection of `on_chain_end` is told no
thread and does not reach the rule.

In `Inspection` what a call stores is named by the call, since each makes one value per
memo; writing the log line is taken not to fail (`write_event` falls back to stderr),
while the alert and the exporter after it may raise. In `ToolWindow` which argument rules
a call matches belongs to the call, and the wall clock is set back but not forward. The
history variables (`briefed`, `early`, `used`, `appended`, `made`, `hurried`, the time in
`latest`) decide no step. `MaxActive` in `LensPipeline` and `Inspection` bounds how many
calls are under way at once; the theorems hold for any bound.

## Runs

| Run | Question | Answer |
|---|---|---|
| `breaker` | Is the slot accounted for, can callers move an outage, does the breaker keep its contract? Three callers, abandoned requests, late responses, refusals reported as errors, attacks | holds |
| `breaker_heals` | If every admitted request is reported, and only those, does the breaker settle closed once the upstream is healthy? | holds |
| `graph_runs` | Does a breaker heal when a run passes two guarded steps? | violated: the run's second step is refused behind its first. With `Gates = 1` the property holds |
| `limiter` | How much can a key let through, is sleeping `retry_after` enough, and is a late refill as good as a continuous one? | the bound holds; sleeping is enough for calls that fit the bucket; the late refill implements `TokenBuckets` |
| `limiter_threads` | Does the bound hold when threads interleave inside `evaluate`? | violated |
| `pipeline` | What does a block stop, does a verdict name all that fired, who pays, what does a node run on once its thread has an intent? Two nodes of a thread with or without a user's text, two tools on one token with the allow-list in log mode, a put and a get, alerts that may raise | a blocked node or put is never made; a blocked load has been made, and its result is withheld (a finding: documents say it is refused before); the others hold |
| `pipeline_tool_block` | Does a block through the callback stop the tool? | violated: `raise_error` is `False` |
| `savers` | Are calls inspected once per body, by the right lens, and never lost again, in whatever order classes are defined, installed and swapped? A saver like `MemorySaver`, a subclass that calls `super()`, a slotted store | holds |
| `savers_inherited_flag` | Is every saver auto-protected, also one like `PostgresSaver` whose base class is patched? | violated: it inherits the flag and is skipped |
| `traversal` | Does every move outside the graph alarm, and what else does? Two threads, two turns, a wrapped node, a model call, an unlisted branch, a graph attached at any time | moves outside always do; the other alarms have the reasons `FalseAlarmsExplained` lists |
| `inspection` | Which ids do the events of a run carry, what are its nodes compared with, and which events does its thread keep, when inspections interleave inside every memo? Four nodes of a thread, of which two may miss a memo at once and two come later, and a checkpoint load of their run, alerts that may raise | what begins after a memo is settled uses one value; settled values stay; no event in a settled buffer is lost before the buffer is full |
| `tools` | When is the enumeration alarm raised, and does the event of a blocked call show why? Two clients, direct calls and decisions, time and a clock set back | every sweep alarms; an alarm is a sweep within the window and what the clock lost; the event shows what the verdict names, but for an enumeration that ended between the two scans |

The violated ones are findings, with the sentence of the repository they disagree
with, in `PROJECT.json`; so is the load of `pipeline`, where `BlocksEnforced` says what
the code does and the documents say otherwise. What else was seen, with the constants that show it:

* `HealsOnceHealthy` fails with `MayAbandon = TRUE`: a probe that a later intervention
  blocks, or whose caller never reports, keeps the half-open slot for ever. It also
  fails when callers report the breaker's refusals as errors (`RefusalsReported`; "after
  `graph.invoke(...)` returns or raises", `lens.py:562`): the refused one re-opens the
  breaker while the probe is still running.
* The late success of a request admitted before the outage closes a half-open breaker
  whose probe is still running: `RecordHalfOpen` is enabled for any caller.
* A call that costs more than the bucket holds is told a `retry_after` again and again;
  `RetryAdmitted` excludes such calls.
* A block is to keep the caller from the underlying operation (`decisions.py:15-16`), and
  the checkpoint protector to stop the saver before `pickle.loads()`
  (`checkpoint_protector.py:5-8`, and the repository's `README.md:32`, 59 and 147). The
  `get_tuple` wrappers call the saver first (`checkpoint.py:267`): the blob has been
  deserialised when it is refused, and only the result is withheld.
* What `DriftBlocked` leaves open: a state that drifts runs when its node began before the
  thread had an intent and did not bring one to a callback itself. So it is with the first
  nodes of a thread whose states have no user's text (`_extract_user_intent` returns
  `None` and nothing is kept), with a node that is asked about while the one that brings
  the intent is being inspected, and without a callback with the very node that brings
  it: the guard is asked before the same call captures the intent. The Tier 1 scan after
  the guard may then report the drift, but the node runs.
* A `throttle` verdict is not terminal, so `on_tool_start` lets a throttled tool run.
* Only moves outside the graph should alarm, but the first node of a thread's later turn
  does too (the detector remembers the last node of the turn before, `comms.py:42`), and
  so do nodes after a model call (`Models`), wrapped nodes under the callback (`Wrapped`)
  and those behind a branch that lists no ends. `FalseAlarmsExplained` lists them. In a
  parallel superstep each node is compared with the sibling inspected before it.
* Where the swap of the class is refused (slots), `protect_store` patches the class
  instead, and the lens that was asked for has no place to be kept: the wrappers ask the
  global lens, or nobody (`store.py:56-59`, `ProtectInPlace`).
* Inspections that overlap the first one of a pair may carry another id, compare with
  another intent, or put their event into a buffer that is replaced (two calls that
  `Miss` and then `Store`): the reason for `early` in `Inspection`.
* Events join on a pair of ids, but LangChain gives every runnable a `run_id` of its
  own, which `on_chain_start` passes on, and `wrap_node` passes none: the nodes of one
  invocation have different correlation ids, each stable. The pairs, buffers and windows
  are kept for the life of the process.
* The event of a rendered prompt that `on_llm_start` scans has the `run_id` and `thread_id`
  of the `<llm>` event beside it and an id of its own (`middleware.py:291-297`), though the
  id is to be "stable across every event from the same `(run_id, thread_id)`"
  (`README.md:169`). In `Inspection` prompt scans go to the buffers and take no id.
* The intent of a thread may come from the first `<llm>` prompt, and later turns are
  compared with it.
* What the interventions detect is added to the event after `_emit` has written and
  exported it, so the written line does not have it, though every detection is to be "a
  JSON event" (`README.md:139`). A misuse that both scans of a `decide_tool_call` find
  is in the event twice. A tool outside the allow-list is in no detection unless
  `block_on_rules` names that rule.
* The enumeration window spans the turns of a thread that fit into its seconds, though
  the rule is described for "a single turn" (`README.md:133`).
* `sign` has no caller, and the saver wrappers pass decoded checkpoints, which are not
  verified; the `Retry-After` header is the truncated `retry_after`, so a client that
  honours it is early; `stamp_state` stamps the dict it was given, and a later decision
  about the same dict that names nothing leaves the stamp.

**Bounds, and why they are enough.** *Breaker*: a probe, a request refused behind it
and a response from before the outage need three callers, two for liveness; windows
and cooldown of one or two ticks put an age before, at and after its limit; three
calls and two attack signals per window reach the thresholds from both sides.
*Limiter*: two clients on shared and separate buckets, costs one and two with
capacity two, three ticks and one tick of clock skew: enough for a refill to be
capped, a promise to be spoiled and a clock to be set back between a promise and its
retry. *Threads*: a bucket of one token and two threads. *Pipeline*: one bucket token
and two tools, so that one call empties it for another; two nodes, so that one may bring
the intent while the other is asked about; every finding that decides something is
carried by some call; an allow-list in log mode, so that a verdict is merged into one
that already names a reason. Two calls are under way at once and calls repeat, so all
orders of the steps of any two occur, after any others. *Savers*: one class that
delegates, one below it that calls `super()`, one that refuses the swap; one instance
of the subclass and one store, two lenses: every install and protection finds each class
undefined, plain, patched and inherited-from. *Traversal*: two turns make a later turn,
two threads share the detector; each kind of move leaves some node, and a graph may be
attached between any two steps. A run ends when the turns do, so deadlock is not checked
there. *Inspection*: four nodes of one thread and run, three with a user's text, which are
interchangeable (`Alike`, invariants and one action property), and one decided and
without; two under way at once, so that two miss a memo together and two come later and
compare with what they left; a load of the run outside the thread, whose id is that of
another pair; buffers of one event, so that each event evicts the one before. Calls are
made once, so deadlock is not checked. Prompt scans and more calls at once are left to
the theorems. *Tools*: two tools with a threshold of two
and a window of one tick, three ticks and one of skew: entries before, at and after the
cutoff, and an old entry behind one with a later time; the two clients are
interchangeable (`Alike`, invariants only). The theorems drop these bounds.

**Fairness.** Only liveness uses it (`FairSpec`, `RunSpec`): time passes, requests
keep arriving, an admitted request is answered and reported, a refused caller comes
back. The application behind the lens does these, and none of them needs the
breaker's help. Nothing makes the upstream heal, an attack come or a caller abandon.

## Theorems

For every value of the constants that the named `ASSUME`s allow (configuration values
are naturals with positive thresholds, each intervention acts in one of its modes,
and the model values differ):

* `CircuitBreakerProofs` – `TypeCorrect`, `OneProbePerEpisode` (`SlotAccounting`),
  `SlotHasOwner` (`ProbeOwned`), `CallersCannotMoveOutage` (`OutageFixed`) and
  `BreakerKeepsContract` (the refinement). The slot's accounting is inductive
  together with the types: HALF_OPEN is only entered by the action that takes the slot,
  and every response leaves it. The owner needs that accounting. The refinement maps
  each action to a step of the contract or a stutter, using the whole invariant.
  Of `GraphRuns`, for any number of guarded steps: `RunsKeepSlot` (`SlotAccounting`),
  `RunsCannotMoveOutage` (`OutageFixed`), and `OneGateIsTheBreaker`, that runs with one
  guarded step are behaviours of `CircuitBreaker`. What several steps cost is
  `ProbeOwned`: the owner may be refused at its own next step. `OrphanedForGood` and
  `OrphanedByRunsForGood` say that this is for ever: a half-open breaker whose probe no
  running request can report stays half-open, and refuses everybody, unless refusals are
  reported or an attack opens it; `NotOrphanedByReporters` and `NotOrphanedByOneGate`,
  that it takes an abandoned request or a second guarded step to get there. (The
  counterexample of `graph_runs` ends there; so does `breaker_heals` with
  `MayAbandon = TRUE`.)
* `RateLimiterProofs` – `TypeCorrect`, `KeyRateIsBounded` (`RateBound`),
  `SleepingIsEnough` (`RetryAdmitted`). Neither bound is inductive alone. The first
  needs a credit argument: what has been spent since an instant plus what the bucket
  would hold now never exceeds one bucket and the refill, also for a bucket whose
  `last_refill` lies in the future after the clock was set back. The second needs
  that a promise nobody spoiled stays funded: the bucket, refilled up to the due
  time, holds the cost.
  `LimiterKeepsBuckets` (`KeepsBuckets`) is the refinement: an admission is a
  spending of its key alone, a refusal nothing, a tick a refill of every bucket, and a
  clock set back costs each at most one refill per tick it lost. `OneAtATimeIsEnough` is
  about `RateLimiterThreads`: for any number of threads that are inside `evaluate` one
  at a time (`Serial`, what a lock around it would give) `RateBoundOfKey` holds. The
  invariant follows the bucket through the steps: what was spent and what it holds are
  covered up to its `last_refill`, and the thread inside works on the published bucket
  and nobody has touched it since. So the violation comes of the interleaving alone, not
  of the clock that was read long before the store.
* `LensPipelineProofs` – the algebra of `merge` (`MergeIsStrictest`,
  `MergeIsAssociative`), then `TypeCorrect`, `VerdictsExplained`, `BlocksAreEnforced`,
  `RefusedCallsPayNothing`, `NodesSeeScrubbedState` and `KnownDriftIsBlocked`, for
  any number of calls and any modes, with a callback and without. The invariant is a
  conjunction about one call:
  the points its kind can be at, what is settled about its verdict there, and which
  interventions it must name by now. A step of
  another call keeps it because the only shared state it mentions, the threads'
  intents, only grows: a thread that had its intent when the call began has it when the
  goal guard is asked.
* `ClassProtectionProofs` – `TypeCorrect`, `WrappersDoNotStack`
  (`InspectedOncePerBody`) and `SwappedMeetsItsLens` (`SwappedKeepsLens`), for any class
  tree, bodies and lenses. Wrappers could pile up
  in three places, and the invariant bounds each: a method of a class's own has at
  most one wrapper, and that only if the class is flagged; a method of a protected
  subclass has exactly one; and the lenses a call has met, with the wrappers still ahead
  of it and those it comes back through, are at most its bodies and the one it is in.
  For the lens of a swapped instance: an instance has a lens exactly if its class was
  swapped, so the lens is given once; and a call of it has met that lens or has a
  wrapper left to go into or come back through.
* `ClassPathProofs` – `ProtectionLasts` (`StaysInspected`) for any class tree, and
  `AutoProtectionHolds` (`AutoProtected`) for those in which a class below another
  leaves the work to it (`OverridesCallUp`: its bodies call `super()` or delegate);
  `savers_inherited_flag` is a tree that does not, and there the property fails. The
  bodies a call runs through are fixed by the sources: lookup ends where it would end
  with nothing patched, since a patched class that has no body of the method forwards
  to the one lookup finds above it. Patching only places wrappers along that path, and
  none is ever taken away. So the invariant, at each point of a call: it has met a
  lens, or a wrapper is on the path ahead of it, if its method has met one before or
  its class was auto-protected when it began. That the installations leave a wrapper
  on every path is `ClassInv`: a class that has the flag of its own has all its methods
  wrapped, and with the hook in place every class directly below the base has the flag.
  Paths have any length; what one of them says from its last position backwards is
  proved with the least position at which it fails (`LeastPosition`), not by recursion.
* `CommsTraversalProofs` – `TypeCorrect` for any graph; `FalseAlarmsAreExplained` and
  `StraysAreFlagged` for graphs in which every node has one way out (`Sequential`). The
  invariant says of a turn that one node is at work, led there by one move, and that the
  detector remembers the source of that move, the node itself, or a model call; or
  nothing, if the graph was attached later.
* `InspectionProofs` – `TypeCorrect`, `SettledNeverReplaced` (`SettledStays`), `EventsJoin`
  (`LateEventsJoin`), `BaselineIsOne` (`OneBaseline`) and `NothingLost` (`EventsKept`), for
  any calls, runs, threads and buffer length. A key is settled when it has a value and
  nobody who missed it is still to store; the invariant says that keys settled when a
  call began are settled now, that what such calls used is what is stored, and that
  the buffer of a settled key holds the latest events of its thread in order.
* `ToolWindowProofs` – `TypeCorrect`, `SweepsAlarm` (`NoSweepMissed`), `AlarmsAreSweeps`
  (`AlarmsBounded`) and `VerdictsExplained` (`VerdictExplained`), for any tools, window,
  threshold and steps of the clock. The invariant: a recent call has its entry in the
  window (an entry may wait behind a later one, but never leaves early), each entry
  is of a call no earlier than any entry before it says, and the first entry
  had not expired at the latest scan; a client between its two scans still has
  what its verdict names in the window while the clock stands.

Only model-checked: liveness (`HealsOnceHealthy`, `RunsHeal`; these provers have no
ENABLED and no fairness), and the violations. Two of those become theorems under a
hypothesis that the code does not ensure: `AutoProtected` with `OverridesCallUp`,
`RateBoundOfKey` with `Serial`.

## Not modelled, and the plan

What could follow, in this order:

1. `CommsTraversal` with several graphs attached to one lens, and with parallel
   supersteps, once there is a statement of what the rule should do in them.
2. Threads inside one scan of the tool detector, as `RateLimiterThreads` has them for
   the limiter, and a clock that is set forward.
3. The state stamp of `audit.py` beside the rewritten state of `LensPipeline`.

Left out for good: signing and verification of stored checkpoints (no caller signs, and
the wrappers never pass what could be verified), the text and memory detectors (regular
expressions and n-grams), the output side (log lines, metrics, spans), configuration and
the command line; they keep no state that steps race for.

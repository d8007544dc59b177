--------------------------- MODULE CircuitBreaker ---------------------------
(***************************************************************************)
(* interventions/circuit_breaker.py: CircuitBreakerIntervention, with the  *)
(* callers that Lens puts around it (lens.py decide_node, decide_tool_call *)
(* and record_upstream_result).                                            *)
(*                                                                         *)
(* Each method is one action: the module runs them one at a time, as one   *)
(* thread or one event loop does.  time.time() is a clock that never steps *)
(* back, and instants are kept as ages: openAge is now - _opened_at, and a *)
(* deque entry carries now - ts.  An age is only ever compared with its    *)
(* window, so it stops one tick past it; runs are then unbounded in time   *)
(* and the state space is finite.  The enabled breaker is modelled: with   *)
(* enabled = False every method returns before it touches the state.       *)
(***************************************************************************)
EXTENDS Integers, Sequences, FiniteSets

CONSTANTS
    Requests,          \* callers: each has one request at a time
    NoRequest,         \* a value that is no request
    Window,            \* config.window_seconds
    MinSamples,        \* config.min_samples
    RateNum, RateDen,  \* config.error_rate_threshold = RateNum / RateDen
    Cooldown,          \* config.cooldown_seconds
    FailClosedOnAttack,\* config.fail_closed_on_attack
    AttackWindow,      \* config.fail_closed_attack_window_seconds
    MinAttackSignals,  \* config.fail_closed_min_attack_signals
    MaxCalls,          \* bound: responses recorded in one window
    MaxAttacks,        \* bound: attack signals recorded in one window
    MayAbandon,        \* may an admitted request end without a response?
    RefusalsReported   \* does a caller report the breaker's own refusal?

ASSUME RequestsAssumption == NoRequest \notin Requests
ASSUME ConfigAssumption ==
    /\ {Window, MinSamples, RateNum, Cooldown, AttackWindow} \subseteq Nat
    /\ {RateDen, MinAttackSignals} \subseteq Nat \ {0}
    /\ {MaxCalls, MaxAttacks} \subseteq Nat \ {0}
    /\ {FailClosedOnAttack, MayAbandon, RefusalsReported} \subseteq BOOLEAN

VARIABLES
    state,       \* _state
    openAge,     \* now - _opened_at, up to Cooldown
    calls,       \* _calls, oldest first: [age, error]
    attacks,     \* _attacks, oldest first: [age, strong]
    inflight,    \* _half_open_probes_inflight
    phase,       \* what each request's caller is doing
    slot,        \* history: who took the slot of this half-open episode
    healthy      \* the upstream has stopped failing, for good

breakerVars == <<state, openAge, calls, attacks, inflight>>
vars == <<state, openAge, calls, attacks, inflight, phase, slot, healthy>>

States == {"CLOSED", "HALF_OPEN", "OPEN"}
Phases == {"idle", "running", "refused"}
CallRecord == [age : 0 .. Window + 1, error : BOOLEAN]
AttackRecord == [age : 0 .. AttackWindow + 1, strong : BOOLEAN]

TypeOK ==
    /\ state \in States
    /\ openAge \in 0 .. Cooldown
    /\ calls \in Seq(CallRecord)
    /\ attacks \in Seq(AttackRecord)
    /\ inflight \in 0 .. 1
    /\ phase \in [Requests -> Phases]
    /\ slot \in Requests \cup {NoRequest}
    /\ healthy \in BOOLEAN

-----------------------------------------------------------------------------
(* The deques.                                                             *)

\* _gc and _gc_attacks: entries older than the window leave from the left,
\* up to the first one that is not.
Gc(log, window) ==
    LET expired == {i \in 1 .. Len(log) : \A j \in 1 .. i : log[j].age > window}
    IN  SubSeq(log, Cardinality(expired) + 1, Len(log))

Errors(log) == Cardinality({i \in 1 .. Len(log) : log[i].error})
Strong(log) == Cardinality({i \in 1 .. Len(log) : log[i].strong})

\* The deque after append and _gc.
Called(error) == Gc(Append(calls, [age |-> 0, error |-> error]), Window)
Attacked(strong) == Gc(Append(attacks, [age |-> 0, strong |-> strong]), AttackWindow)

\* Regression: the threshold is not looked at.
ShouldTrip_MinSamplesOnly(log) == Len(log) >= MinSamples

\* _should_trip: at least min_samples calls, and errors / len >= threshold.
ShouldTrip(log) ==
    /\ Len(log) >= MinSamples
    /\ Errors(log) * RateDen >= RateNum * Len(log)

\* One tick more, and no more than one past the window.
Older(log, window) ==
    [i \in 1 .. Len(log) |->
        [log[i] EXCEPT !.age = IF @ > window THEN @ ELSE @ + 1]]

-----------------------------------------------------------------------------
Init ==
    /\ state = "CLOSED"
    /\ openAge = Cooldown        \* _opened_at = 0.0, long ago
    /\ calls = << >>
    /\ attacks = << >>
    /\ inflight = 0
    /\ phase = [r \in Requests |-> "idle"]
    /\ slot = NoRequest
    /\ healthy = FALSE

\* Regressions: half-open one tick early; the count of probes is not reset.
CooledDown_Early == state = "OPEN" /\ openAge + 1 >= Cooldown
Inflight_NotReset == inflight

\* _maybe_transition_from_open, as the three fields evaluate_request then sees.
CooledDown == state = "OPEN" /\ openAge >= Cooldown
Gate == IF CooledDown THEN "HALF_OPEN" ELSE state
Inflight == IF CooledDown THEN 0 ELSE inflight

\* evaluate_request lets the request through a closed breaker.
AdmitClosed(r) ==
    /\ state = "CLOSED"
    /\ phase' = [phase EXCEPT ![r] = "running"]
    /\ UNCHANGED <<breakerVars, slot, healthy>>

\* Regression: line 91 without its second conjunct's check.
AdmitProbe_Unlimited(r) ==
    /\ Gate = "HALF_OPEN"
    /\ state' = "HALF_OPEN"
    /\ inflight' = Inflight + 1
    /\ slot' = r
    /\ phase' = [phase EXCEPT ![r] = "running"]
    /\ UNCHANGED <<openAge, calls, attacks, healthy>>

\* evaluate_request lets the request through as the probe.
AdmitProbe(r) ==
    /\ Gate = "HALF_OPEN"
    /\ Inflight = 0
    /\ state' = "HALF_OPEN"
    /\ inflight' = Inflight + 1
    /\ slot' = r
    /\ phase' = [phase EXCEPT ![r] = "running"]
    /\ UNCHANGED <<openAge, calls, attacks, healthy>>

\* evaluate_request blocks: circuit_open, or circuit_half_open behind a probe.
Refuse(r) ==
    /\ Gate = "OPEN" \/ (Gate = "HALF_OPEN" /\ Inflight > 0)
    /\ state' = Gate
    /\ inflight' = Inflight
    /\ phase' = [phase EXCEPT ![r] = "refused"]
    /\ UNCHANGED <<openAge, calls, attacks, slot, healthy>>

EvaluateRequest(r) ==
    /\ phase[r] = "idle"
    /\ AdmitClosed(r) \/ AdmitProbe(r) \/ Refuse(r)

\* _open and _close.  The deques are kept.
Open ==
    /\ state' = "OPEN"
    /\ openAge' = 0
    /\ slot' = NoRequest

Close ==
    /\ state' = "CLOSED"
    /\ inflight' = 0
    /\ slot' = NoRequest
    /\ UNCHANGED openAge

\* Regression: the probe's success frees the slot but does not close.
RecordHalfOpen_NoClose(error) ==
    /\ state = "HALF_OPEN"
    /\ inflight' = IF inflight > 0 THEN inflight - 1 ELSE 0
    /\ IF error THEN Open ELSE UNCHANGED <<state, openAge, slot>>

\* record_response in HALF_OPEN: whoever reports decides the episode.
RecordHalfOpen(error) ==
    /\ state = "HALF_OPEN"
    /\ IF error
       THEN Open /\ inflight' = IF inflight > 0 THEN inflight - 1 ELSE 0
       ELSE Close

\* Regression: line 123 without self._state == _State.CLOSED.
RecordClosed_AnyState ==
    /\ state # "HALF_OPEN"
    /\ IF ShouldTrip(calls')
       THEN Open /\ UNCHANGED inflight
       ELSE UNCHANGED <<state, openAge, inflight, slot>>

\* record_response in CLOSED: the response may trip the breaker.
RecordClosed ==
    /\ state = "CLOSED"
    /\ IF ShouldTrip(calls')
       THEN Open /\ UNCHANGED inflight
       ELSE UNCHANGED <<state, openAge, inflight, slot>>

\* record_response in OPEN: only counted.
RecordOpen ==
    /\ state = "OPEN"
    /\ UNCHANGED <<state, openAge, inflight, slot>>

\* record_upstream_result(error): the caller of an admitted request reports
\* what the upstream answered.  A caller that follows the docstring ("after
\* graph.invoke(...) returns or raises") reports a refusal too, as an error.
RecordResponse(r, error) ==
    /\ \/ phase[r] = "running" /\ (healthy => ~error)
       \/ phase[r] = "refused" /\ RefusalsReported /\ error
    /\ Len(Called(error)) <= MaxCalls
    /\ calls' = Called(error)
    /\ RecordHalfOpen(error) \/ RecordClosed \/ RecordOpen
    /\ phase' = [phase EXCEPT ![r] = "idle"]
    /\ UNCHANGED <<attacks, healthy>>

\* record_attack_signal below the strong severity: appended, then it returns.
AttackNoted(strong) ==
    /\ ~strong \/ Strong(attacks') < MinAttackSignals
    /\ UNCHANGED <<state, openAge, slot>>

\* record_attack_signal with enough strong signals opens, whatever the state.
AttackOpens(strong) ==
    /\ strong
    /\ Strong(attacks') >= MinAttackSignals
    /\ Open

RecordAttackSignal(strong) ==
    /\ FailClosedOnAttack
    /\ Len(Attacked(strong)) <= MaxAttacks
    /\ attacks' = Attacked(strong)
    /\ AttackNoted(strong) \/ AttackOpens(strong)
    /\ UNCHANGED <<calls, inflight, phase, healthy>>

-----------------------------------------------------------------------------
(* The callers, the upstream and the clock.                                *)

\* An admitted request ends with nothing reported: a later intervention of
\* decide_node or decide_tool_call blocked it, or its caller never reports.
Abandon(r) ==
    /\ MayAbandon
    /\ phase[r] = "running"
    /\ phase' = [phase EXCEPT ![r] = "idle"]
    /\ UNCHANGED <<breakerVars, slot, healthy>>

\* A refused caller comes back later, and reports nothing.
GiveUp(r) ==
    /\ phase[r] = "refused"
    /\ phase' = [phase EXCEPT ![r] = "idle"]
    /\ UNCHANGED <<breakerVars, slot, healthy>>

UpstreamHeals ==
    /\ ~healthy
    /\ healthy' = TRUE
    /\ UNCHANGED <<breakerVars, phase, slot>>

Tick ==
    /\ openAge' = IF openAge < Cooldown THEN openAge + 1 ELSE openAge
    /\ calls' = Older(calls, Window)
    /\ attacks' = Older(attacks, AttackWindow)
    /\ UNCHANGED <<state, inflight, phase, slot, healthy>>

Next ==
    \/ \E r \in Requests :
        \/ EvaluateRequest(r)
        \/ \E error \in BOOLEAN : RecordResponse(r, error)
        \/ Abandon(r)
        \/ GiveUp(r)
    \/ \E strong \in BOOLEAN : RecordAttackSignal(strong)
    \/ UpstreamHeals
    \/ Tick

Spec == Init /\ [][Next]_vars

(***************************************************************************)
(* Time passes, requests keep arriving, a refused caller comes back, and a *)
(* request the upstream took is answered and reported.  Nothing makes the  *)
(* upstream heal, an attack come or a caller abandon.                      *)
(***************************************************************************)
Fairness ==
    /\ WF_vars(Tick)
    /\ \A r \in Requests :
        /\ WF_vars(EvaluateRequest(r))
        /\ WF_vars(phase[r] = "running" /\ \E error \in BOOLEAN : RecordResponse(r, error))
        /\ WF_vars(GiveUp(r))

FairSpec == Spec /\ Fairness

-----------------------------------------------------------------------------
(* Properties.                                                             *)

\* The counter of probes agrees with the request that took the slot, in every
\* state and however responses, refusals and attacks interleave: a half-open
\* breaker has let exactly one request through, and no closed breaker keeps a
\* count from an earlier episode.
SlotAccounting ==
    /\ state = "HALF_OPEN" => inflight = 1 /\ slot # NoRequest
    /\ state = "CLOSED" => inflight = 0
    /\ state # "HALF_OPEN" => slot = NoRequest

\* When callers abandon nothing, the request that took the half-open slot is
\* still running: somebody can still report and end the episode.
ProbeOwned ==
    ~MayAbandon /\ state = "HALF_OPEN" => phase[slot] = "running"

\* Before the cooldown is over nothing reopens the gate, and no step of a
\* caller (a request, a late response, a refusal reported as an error) makes
\* the outage longer or shorter.  Only a new attack restarts it.
OutageFixed ==
    [][state = "OPEN" /\ openAge < Cooldown =>
          state' = "OPEN" /\ (phase' # phase => openAge' = openAge)]_vars

\* Once the upstream answers every request well, the breaker ends up closed
\* and stays closed, whatever failures its window still holds.
HealsOnceHealthy == [](healthy => <>[](state = "CLOSED"))

\* What the callers rely on (BreakerContract).
Contract == INSTANCE BreakerContract WITH
    gate <- state,
    outage <- openAge,
    probed <- slot # NoRequest,
    inside <- {r \in Requests : phase[r] = "running"}

KeepsContract == Contract!Spec
=============================================================================

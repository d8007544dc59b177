------------------------ MODULE CircuitBreakerProofs ------------------------
(***************************************************************************)
(* Theorems about CircuitBreaker, for any set of requests and any          *)
(* configuration: its type, the accounting of the half-open slot, who owns *)
(* the slot, that responses cannot move an outage, and that the breaker    *)
(* implements BreakerContract; and what of it runs of a graph with several *)
(* guarded steps keep (GraphRuns).                                         *)
(***************************************************************************)
EXTENDS GraphRuns, FiniteSetTheorems, SequenceTheorems, TLAPS

-----------------------------------------------------------------------------
(* The deques.                                                             *)

\* _gc returns a deque of the same entries, whatever the window.
LEMMA GcType ==
    ASSUME NEW S, NEW log \in Seq(S), NEW window
    PROVE  Gc(log, window) \in Seq(S)
<1> DEFINE expired == {i \in 1 .. Len(log) : \A j \in 1 .. i : log[j].age > window}
<1>1. Len(log) \in Nat
    OBVIOUS
<1>2. IsFiniteSet(1 .. Len(log))
    BY <1>1, FS_Interval
<1>3. Cardinality(expired) \in Nat
    BY <1>2, FS_Subset, FS_CardinalityType
<1> HIDE DEF expired
<1>4. \A i \in Cardinality(expired) + 1 .. Len(log) : log[i] \in S
    BY <1>1, <1>3
<1>5. SubSeq(log, Cardinality(expired) + 1, Len(log)) \in Seq(S)
    BY <1>1, <1>3, <1>4, SubSeqProperties
<1>6. QED
    BY <1>5 DEF Gc, expired

\* What record_response leaves in _calls, and what ageing leaves there.
LEMMA CalledType ==
    ASSUME TypeOK, NEW error \in BOOLEAN
    PROVE  Called(error) \in Seq(CallRecord)
<1>1. Append(calls, [age |-> 0, error |-> error]) \in Seq(CallRecord)
    BY ConfigAssumption DEF TypeOK, CallRecord
<1>2. QED
    BY <1>1, GcType DEF Called

LEMMA AttackedType ==
    ASSUME TypeOK, NEW strong \in BOOLEAN
    PROVE  Attacked(strong) \in Seq(AttackRecord)
<1>1. Append(attacks, [age |-> 0, strong |-> strong]) \in Seq(AttackRecord)
    BY ConfigAssumption DEF TypeOK, AttackRecord
<1>2. QED
    BY <1>1, GcType DEF Attacked

LEMMA OlderCallsType ==
    ASSUME TypeOK
    PROVE  Older(calls, Window) \in Seq(CallRecord)
<1>1. Len(calls) \in Nat
    BY DEF TypeOK
<1>2. ASSUME NEW i \in 1 .. Len(calls)
      PROVE  [calls[i] EXCEPT !.age = IF @ > Window THEN @ ELSE @ + 1] \in CallRecord
  <2>1. calls[i] \in CallRecord
    BY <1>1 DEF TypeOK
  <2>2. PICK a \in 0 .. Window + 1, b \in BOOLEAN : calls[i] = [age |-> a, error |-> b]
    BY <2>1 DEF CallRecord
  <2>3. (IF a > Window THEN a ELSE a + 1) \in 0 .. Window + 1
    BY ConfigAssumption
  <2>4. QED
    BY <2>2, <2>3 DEF CallRecord
<1>3. QED
    BY <1>1, <1>2 DEF Older

LEMMA OlderAttacksType ==
    ASSUME TypeOK
    PROVE  Older(attacks, AttackWindow) \in Seq(AttackRecord)
<1>1. Len(attacks) \in Nat
    BY DEF TypeOK
<1>2. ASSUME NEW i \in 1 .. Len(attacks)
      PROVE  [attacks[i] EXCEPT !.age = IF @ > AttackWindow THEN @ ELSE @ + 1] \in AttackRecord
  <2>1. attacks[i] \in AttackRecord
    BY <1>1 DEF TypeOK
  <2>2. PICK a \in 0 .. AttackWindow + 1, b \in BOOLEAN : attacks[i] = [age |-> a, strong |-> b]
    BY <2>1 DEF AttackRecord
  <2>3. (IF a > AttackWindow THEN a ELSE a + 1) \in 0 .. AttackWindow + 1
    BY ConfigAssumption
  <2>4. QED
    BY <2>2, <2>3 DEF AttackRecord
<1>3. QED
    BY <1>1, <1>2 DEF Older

-----------------------------------------------------------------------------
(* The inductive invariant.                                                *)
(*                                                                         *)
(* SlotAccounting is inductive with the type invariant: HALF_OPEN is only  *)
(* entered by the action that takes the slot, and every response leaves it.*)
(* ProbeOwned needs it to know that a half-open slot has an owner.         *)

IInv == TypeOK /\ SlotAccounting /\ ProbeOwned

\* Asking for a step of a graph, the first of a run or a later one.
Asks(r) == AdmitClosed(r) \/ AdmitProbe(r) \/ Refuse(r)

LEMMA TypeAsked ==
    ASSUME TypeOK, NEW r \in Requests, Asks(r)
    PROVE  TypeOK'
<1> USE ConfigAssumption, RequestsAssumption DEF TypeOK, States, Phases
<1>1. CASE AdmitClosed(r)
    BY <1>1 DEF AdmitClosed, breakerVars
<1>2. CASE AdmitProbe(r)
    BY <1>2 DEF AdmitProbe
<1>3. CASE Refuse(r)
    BY <1>3 DEF Refuse, Gate, Inflight
<1>4. QED
    BY <1>1, <1>2, <1>3 DEF Asks

\* Every step keeps the types.
LEMMA TypeStep ==
    ASSUME TypeOK, [Next]_vars
    PROVE  TypeOK'
<1> USE ConfigAssumption, RequestsAssumption DEF TypeOK, States, Phases
<1>1. ASSUME NEW r \in Requests, EvaluateRequest(r)
      PROVE  TypeOK'
    BY <1>1, TypeAsked DEF EvaluateRequest, Asks
<1>2. ASSUME NEW r \in Requests, NEW error \in BOOLEAN, RecordResponse(r, error)
      PROVE  TypeOK'
  <2>1. calls' \in Seq(CallRecord)
    BY <1>2, CalledType DEF RecordResponse
  <2>2. /\ phase' \in [Requests -> Phases]
        /\ attacks' = attacks
        /\ healthy' = healthy
    BY <1>2 DEF RecordResponse
  <2>3. /\ state' \in States
        /\ openAge' \in 0 .. Cooldown
        /\ inflight' \in 0 .. 1
        /\ slot' \in Requests \cup {NoRequest}
    <3>1. CASE RecordHalfOpen(error)
      BY <3>1 DEF RecordHalfOpen, Open, Close
    <3>2. CASE RecordClosed
      BY <3>2 DEF RecordClosed, Open
    <3>3. CASE RecordOpen
      BY <3>3 DEF RecordOpen
    <3>4. QED
      BY <1>2, <3>1, <3>2, <3>3 DEF RecordResponse
  <2>4. QED
    BY <2>1, <2>2, <2>3
<1>3. ASSUME NEW r \in Requests, Abandon(r) \/ GiveUp(r)
      PROVE  TypeOK'
    BY <1>3 DEF Abandon, GiveUp, breakerVars
<1>4. ASSUME NEW strong \in BOOLEAN, RecordAttackSignal(strong)
      PROVE  TypeOK'
  <2>1. attacks' \in Seq(AttackRecord)
    BY <1>4, AttackedType DEF RecordAttackSignal
  <2>2. /\ state' \in States
        /\ openAge' \in 0 .. Cooldown
        /\ slot' \in Requests \cup {NoRequest}
    BY <1>4 DEF RecordAttackSignal, AttackNoted, AttackOpens, Open
  <2>3. QED
    BY <1>4, <2>1, <2>2 DEF RecordAttackSignal
<1>5. CASE UpstreamHeals
    BY <1>5 DEF UpstreamHeals, breakerVars
<1>6. CASE Tick
  <2>1. calls' \in Seq(CallRecord)
    BY <1>6, OlderCallsType DEF Tick
  <2>2. attacks' \in Seq(AttackRecord)
    BY <1>6, OlderAttacksType DEF Tick
  <2>3. QED
    BY <1>6, <2>1, <2>2 DEF Tick
<1>7. CASE UNCHANGED vars
    BY <1>7 DEF vars
<1>8. QED
    BY <1>1, <1>2, <1>3, <1>4, <1>5, <1>6, <1>7 DEF Next

\* Whoever asks, the accounts of the half-open slot stay right.
LEMMA SlotAsked ==
    ASSUME TypeOK, SlotAccounting, NEW r \in Requests, Asks(r)
    PROVE  SlotAccounting'
<1> USE ConfigAssumption, RequestsAssumption DEF TypeOK, States, SlotAccounting
<1>1. CASE AdmitClosed(r)
    BY <1>1 DEF AdmitClosed, breakerVars
<1>2. CASE AdmitProbe(r)
    BY <1>2 DEF AdmitProbe
<1>3. CASE Refuse(r)
    BY <1>3 DEF Refuse, Gate, Inflight
<1>4. QED
    BY <1>1, <1>2, <1>3 DEF Asks

\* Every step keeps the accounts of the half-open slot.
LEMMA SlotStep ==
    ASSUME TypeOK, SlotAccounting, [Next]_vars
    PROVE  SlotAccounting'
<1> USE ConfigAssumption, RequestsAssumption DEF TypeOK, States, SlotAccounting
<1>1. ASSUME NEW r \in Requests, EvaluateRequest(r)
      PROVE  SlotAccounting'
    BY <1>1, SlotAsked DEF EvaluateRequest, Asks
<1>2. ASSUME NEW r \in Requests, NEW error \in BOOLEAN, RecordResponse(r, error)
      PROVE  SlotAccounting'
  <2>1. CASE RecordHalfOpen(error)
    BY <2>1 DEF RecordHalfOpen, Open, Close
  <2>2. CASE RecordClosed
    BY <2>2 DEF RecordClosed, Open
  <2>3. CASE RecordOpen
    BY <2>3 DEF RecordOpen
  <2>4. QED
    BY <1>2, <2>1, <2>2, <2>3 DEF RecordResponse
<1>3. ASSUME NEW r \in Requests, Abandon(r) \/ GiveUp(r)
      PROVE  SlotAccounting'
    BY <1>3 DEF Abandon, GiveUp, breakerVars
<1>4. ASSUME NEW strong \in BOOLEAN, RecordAttackSignal(strong)
      PROVE  SlotAccounting'
    BY <1>4 DEF RecordAttackSignal, AttackNoted, AttackOpens, Open
<1>5. CASE UpstreamHeals
    BY <1>5 DEF UpstreamHeals, breakerVars
<1>6. CASE Tick
    BY <1>6 DEF Tick
<1>7. CASE UNCHANGED vars
    BY <1>7 DEF vars
<1>8. QED
    BY <1>1, <1>2, <1>3, <1>4, <1>5, <1>6, <1>7 DEF Next

\* A request that asks is not running yet, so it is not the owner of the slot.
LEMMA OwnerStep ==
    ASSUME IInv, [Next]_vars
    PROVE  ProbeOwned'
<1> USE ConfigAssumption, RequestsAssumption
    DEF IInv, TypeOK, States, Phases, SlotAccounting, ProbeOwned
<1>1. ASSUME NEW r \in Requests, EvaluateRequest(r)
      PROVE  ProbeOwned'
  <2>1. CASE AdmitClosed(r)
    BY <2>1 DEF AdmitClosed, breakerVars
  <2>2. CASE AdmitProbe(r)
    BY <2>2 DEF AdmitProbe
  <2>3. CASE Refuse(r)
    BY <1>1, <2>3 DEF EvaluateRequest, Refuse, Gate, Inflight
  <2>4. QED
    BY <1>1, <2>1, <2>2, <2>3 DEF EvaluateRequest
<1>2. ASSUME NEW r \in Requests, NEW error \in BOOLEAN, RecordResponse(r, error)
      PROVE  ProbeOwned'
  <2>1. CASE RecordHalfOpen(error)
    BY <2>1 DEF RecordHalfOpen, Open, Close
  <2>2. CASE RecordClosed
    BY <2>2 DEF RecordClosed, Open
  <2>3. CASE RecordOpen
    BY <2>3 DEF RecordOpen
  <2>4. QED
    BY <1>2, <2>1, <2>2, <2>3 DEF RecordResponse
<1>3. ASSUME NEW r \in Requests, Abandon(r) \/ GiveUp(r)
      PROVE  ProbeOwned'
    BY <1>3 DEF Abandon, GiveUp, breakerVars
<1>4. ASSUME NEW strong \in BOOLEAN, RecordAttackSignal(strong)
      PROVE  ProbeOwned'
    BY <1>4 DEF RecordAttackSignal, AttackNoted, AttackOpens, Open
<1>5. CASE UpstreamHeals
    BY <1>5 DEF UpstreamHeals, breakerVars
<1>6. CASE Tick
    BY <1>6 DEF Tick
<1>7. CASE UNCHANGED vars
    BY <1>7 DEF vars
<1>8. QED
    BY <1>1, <1>2, <1>3, <1>4, <1>5, <1>6, <1>7 DEF Next

\* The invariant holds in every reachable state.
LEMMA InvariantInit == Init => IInv
<1>1. << >> \in Seq(CallRecord) /\ << >> \in Seq(AttackRecord)
  OBVIOUS
<1>2. ASSUME Init
      PROVE  TypeOK
  <2>1. state \in States /\ phase \in [Requests -> Phases]
    BY <1>2 DEF Init, States, Phases
  <2>2. calls \in Seq(CallRecord) /\ attacks \in Seq(AttackRecord)
    BY <1>1, <1>2, Zenon DEF Init
  <2>3. openAge \in 0 .. Cooldown /\ inflight \in 0 .. 1
    BY <1>2, ConfigAssumption, SMT DEF Init
  <2>4. slot \in Requests \cup {NoRequest} /\ healthy \in BOOLEAN
    BY <1>2 DEF Init
  <2>5. QED
    BY <2>1, <2>2, <2>3, <2>4 DEF TypeOK
<1>3. ASSUME Init
      PROVE  SlotAccounting /\ ProbeOwned
  BY <1>3 DEF Init, SlotAccounting, ProbeOwned
<1>4. QED
  BY <1>2, <1>3 DEF IInv

LEMMA Invariant == Spec => []IInv
<1>1. Init => IInv
    BY InvariantInit
<1>2. IInv /\ [Next]_vars => IInv'
    BY TypeStep, SlotStep, OwnerStep DEF IInv
<1>3. QED
    BY <1>1, <1>2, PTL DEF Spec

\* Type correctness, for every configuration.
THEOREM TypeCorrect == Spec => []TypeOK
<1>1. IInv => TypeOK
    BY DEF IInv
<1>2. QED
    BY <1>1, Invariant, PTL

\* A half-open breaker has let exactly one request through, and no count of
\* probes outlives its episode (circuit_breaker.py:91-103, 147-153, 177-179).
THEOREM OneProbePerEpisode == Spec => []SlotAccounting
<1>1. IInv => SlotAccounting
    BY DEF IInv
<1>2. QED
    BY <1>1, Invariant, PTL

\* While no caller abandons a request, the half-open slot belongs to a request
\* that is still running and can still report.
THEOREM SlotHasOwner == Spec => []ProbeOwned
<1>1. IInv => ProbeOwned
    BY DEF IInv
<1>2. QED
    BY <1>1, Invariant, PTL

-----------------------------------------------------------------------------
(* The outage.                                                             *)

\* What a step may do to an outage that has not lasted its cooldown.
OutageKept ==
    state = "OPEN" /\ openAge < Cooldown =>
        state' = "OPEN" /\ (phase' # phase => openAge' = openAge)

LEMMA OutageAsked ==
    ASSUME TypeOK, NEW r \in Requests, Asks(r)
    PROVE  OutageKept
    BY ConfigAssumption
    DEF TypeOK, Asks, AdmitClosed, AdmitProbe, Refuse, Gate, CooledDown, breakerVars, OutageKept

LEMMA OutageStep ==
    ASSUME TypeOK, [Next]_vars
    PROVE  OutageKept
<1> USE ConfigAssumption DEF TypeOK, OutageKept
<1>1. ASSUME NEW r \in Requests, EvaluateRequest(r)
      PROVE  OutageKept
    BY <1>1, OutageAsked DEF EvaluateRequest, Asks
<1>2. ASSUME NEW r \in Requests, NEW error \in BOOLEAN, RecordResponse(r, error)
      PROVE  OutageKept
    BY <1>2 DEF RecordResponse, RecordHalfOpen, RecordClosed, RecordOpen
<1>3. ASSUME NEW r \in Requests, Abandon(r) \/ GiveUp(r)
      PROVE  OutageKept
    BY <1>3 DEF Abandon, GiveUp, breakerVars
<1>4. ASSUME NEW strong \in BOOLEAN, RecordAttackSignal(strong)
      PROVE  OutageKept
    BY <1>4 DEF RecordAttackSignal, AttackNoted, AttackOpens, Open
<1>5. CASE UpstreamHeals
    BY <1>5 DEF UpstreamHeals, breakerVars
<1>6. CASE Tick
    BY <1>6 DEF Tick
<1>7. CASE UNCHANGED vars
    BY <1>7 DEF vars
<1>8. QED
    BY <1>1, <1>2, <1>3, <1>4, <1>5, <1>6, <1>7 DEF Next

\* Before the cooldown ends no step opens the gate, and no step of a caller
\* makes the outage longer: late responses are only counted
\* (circuit_breaker.py:65-104, 108-124).
THEOREM CallersCannotMoveOutage == Spec => OutageFixed
<1>1. TypeOK /\ [Next]_vars => [OutageKept]_vars
    BY OutageStep
<1>2. QED
    BY <1>1, TypeCorrect, PTL DEF Spec, OutageFixed, OutageKept

-----------------------------------------------------------------------------
(* The breaker implements its contract.                                    *)

\* Requests let through and not finished.
Inside == {r \in Requests : phase[r] = "running"}

\* The refinement mapping takes the initial state to an initial state.
LEMMA ContractInit == Init => Contract!Init
    BY DEF Init, Contract!Init

\* A request that leaves, and one that enters, as the contract sees it.
LEMMA LeaveInside ==
    ASSUME TypeOK, NEW r \in Requests, phase' = [phase EXCEPT ![r] = "idle"]
    PROVE  Inside' = Inside \ {r}
    BY DEF TypeOK, Inside

LEMMA EnterInside ==
    ASSUME TypeOK, NEW r \in Requests, phase' = [phase EXCEPT ![r] = "running"]
    PROVE  Inside' = Inside \cup {r}
    BY DEF TypeOK, Inside

\* Every step of the breaker is a step of the contract, or none.
LEMMA ContractStep ==
    ASSUME IInv, [Next]_vars
    PROVE  [Contract!Next]_Contract!vars
<1> USE ConfigAssumption, RequestsAssumption DEF IInv, Contract!vars
<1>0. TypeOK /\ SlotAccounting
    OBVIOUS
<1>1. ASSUME NEW r \in Requests, EvaluateRequest(r)
      PROVE  Contract!Admit(r) \/ UNCHANGED Contract!vars
  <2>0. phase[r] = "idle" /\ r \notin Inside
    BY <1>1 DEF EvaluateRequest, Inside
  <2>1. CASE AdmitClosed(r)
    BY <1>0, <2>0, <2>1, EnterInside DEF AdmitClosed, breakerVars, Contract!Admit, Inside
  <2>2. CASE AdmitProbe(r)
    <3>1. state = "OPEN" /\ openAge = Cooldown
      BY <1>0, <2>2 DEF AdmitProbe, Gate, Inflight, CooledDown, SlotAccounting, TypeOK, States
    <3>2. QED
      BY <1>0, <2>0, <2>2, <3>1, EnterInside DEF AdmitProbe, Contract!Admit, Inside
  <2>3. CASE Refuse(r)
    <3>1. state' = state
      BY <2>3 DEF Refuse, Gate, Inflight
    <3>2. Inside' = Inside
      BY <1>0, <2>0, <2>3 DEF Refuse, Inside, TypeOK
    <3>3. QED
      BY <2>3, <3>1, <3>2 DEF Refuse, Inside
  <2>4. QED
    BY <1>1, <2>1, <2>2, <2>3 DEF EvaluateRequest
<1>2. ASSUME NEW r \in Requests, NEW error \in BOOLEAN, RecordResponse(r, error)
      PROVE  Contract!Open \/ Contract!Close(r) \/ Contract!Leave(r)
  <2>0. Inside' = Inside \ {r}
    BY <1>0, <1>2, LeaveInside DEF RecordResponse
  <2>1. (UNCHANGED Inside) \/ (\E q \in Inside : Inside' = Inside \ {q})
    BY <2>0
  <2>2. CASE RecordHalfOpen(error)
    BY <1>0, <2>0, <2>1, <2>2
    DEF RecordHalfOpen, Open, Close, SlotAccounting, Contract!Open, Contract!Close, Inside
  <2>3. CASE RecordClosed
    BY <1>0, <2>0, <2>1, <2>3
    DEF RecordClosed, Open, Contract!Open, Contract!Leave, Inside
  <2>4. CASE RecordOpen
    BY <2>0, <2>4 DEF RecordOpen, Contract!Leave, Inside
  <2>5. QED
    BY <1>2, <2>2, <2>3, <2>4 DEF RecordResponse
<1>3. ASSUME NEW r \in Requests, Abandon(r) \/ GiveUp(r)
      PROVE  Contract!Leave(r)
    BY <1>0, <1>3, LeaveInside DEF Abandon, GiveUp, breakerVars, Contract!Leave, Inside
<1>4. ASSUME NEW strong \in BOOLEAN, RecordAttackSignal(strong)
      PROVE  Contract!Open \/ UNCHANGED Contract!vars
  <2>1. CASE AttackNoted(strong)
    BY <1>4, <2>1 DEF RecordAttackSignal, AttackNoted
  <2>2. CASE AttackOpens(strong)
    BY <1>4, <2>2 DEF RecordAttackSignal, AttackOpens, Open, Contract!Open
  <2>3. QED
    BY <1>4, <2>1, <2>2 DEF RecordAttackSignal
<1>5. CASE UpstreamHeals
    BY <1>5 DEF UpstreamHeals, breakerVars
<1>6. CASE Tick
    BY <1>6 DEF Tick, Contract!Next, Contract!Elapse
<1>7. CASE UNCHANGED vars
    BY <1>7 DEF vars
<1>8. QED
    BY <1>1, <1>2, <1>3, <1>4, <1>5, <1>6, <1>7 DEF Next, Contract!Next

\* The breaker keeps its contract: an outage lasts its cooldown, and a
\* half-open episode lets one request through and ends with a report.
THEOREM BreakerKeepsContract == Spec => KeepsContract
<1>1. QED
    BY ContractInit, ContractStep, Invariant, PTL DEF Spec, KeepsContract, Contract!Spec

-----------------------------------------------------------------------------
(* Runs with several guarded steps: what they keep.                        *)

\* A step of the runs is a step of the breaker, or a run that has been let
\* through asks again, and pays for it.
LEMMA RunSteps ==
    ASSUME [RunNext]_runVars
    PROVE  \/ [Next]_vars
           \/ \E r \in Requests : phase[r] = "running" /\ left[r] > 0 /\ Asks(r)
<1>1. ASSUME NEW r \in Requests, Invoke(r)
      PROVE  Next
    BY <1>1 DEF Invoke, Next
<1>2. ASSUME NEW r \in Requests, NextStep(r)
      PROVE  phase[r] = "running" /\ left[r] > 0 /\ Asks(r)
    BY <1>2 DEF NextStep, Asks
<1>3. ASSUME NEW r \in Requests, NEW error \in BOOLEAN, Report(r, error)
      PROVE  Next
    BY <1>3 DEF Report, Next
<1>4. ASSUME NEW r \in Requests, GiveUp(r)
      PROVE  Next
    BY <1>4 DEF Next
<1>5. CASE UpstreamHeals \/ Tick
    BY <1>5 DEF Next
<1>6. CASE UNCHANGED runVars
    BY <1>6 DEF runVars
<1>7. QED
    BY <1>1, <1>2, <1>3, <1>4, <1>5, <1>6 DEF RunNext

\* The owner of the slot is not part of it: the run that took the slot may be
\* refused at its own next step, and nobody can report for it then.
RunInv == TypeOK /\ SlotAccounting

LEMMA RunInvariant == RunSpec => []RunInv
<1>1. RunInit => RunInv
    BY InvariantInit DEF RunInit, RunInv, IInv
<1>2. RunInv /\ [RunNext]_runVars => RunInv'
    BY RunSteps, TypeStep, TypeAsked, SlotStep, SlotAsked DEF RunInv
<1>3. QED
    BY <1>1, <1>2, PTL DEF RunSpec

\* However many guarded steps a run has (wrap_node and on_tool_start ask the breaker
\* at each, lens.py:562 reports once), a half-open breaker lets one of them through.
THEOREM RunsKeepSlot == RunSpec => []SlotAccounting
<1>1. RunInv => SlotAccounting
    BY DEF RunInv
<1>2. QED
    BY <1>1, RunInvariant, PTL

\* Nor does a run move an outage by asking again.
THEOREM RunsCannotMoveOutage == RunSpec => OutageFixed
<1>1. RunInv /\ [RunNext]_runVars => [OutageKept]_vars
    BY RunSteps, OutageStep, OutageAsked DEF RunInv
<1>2. QED
    BY <1>1, RunInvariant, PTL DEF RunSpec, OutageFixed, OutageKept

\* Runs with one guarded step are the requests of CircuitBreaker, so that all its
\* theorems hold of them; what several steps add is NextStep.
THEOREM OneGateIsTheBreaker ==
    ASSUME Gates = 1
    PROVE  RunSpec => Spec
<1> DEFINE NoneLeft == left = [r \in Requests |-> 0]
<1>1. RunInit => NoneLeft /\ Init
    BY DEF RunInit
<1>2. NoneLeft /\ [RunNext]_runVars => NoneLeft'
    BY DEF RunNext, Invoke, NextStep, Report, runVars
<1>3. NoneLeft /\ [RunNext]_runVars => [Next]_vars
    BY RunSteps
<1>4. QED
    BY <1>1, <1>2, <1>3, PTL DEF RunSpec, Spec

-----------------------------------------------------------------------------
(* A slot that nobody can give back.                                       *)

\* Half-open behind a probe that no running request can report.
Orphaned == state = "HALF_OPEN" /\ \A r \in Requests : phase[r] # "running"

LEMMA OrphanedAsked ==
    ASSUME TypeOK, SlotAccounting, Orphaned, NEW r \in Requests, Asks(r)
    PROVE  Orphaned'
<1>1. Gate = "HALF_OPEN" /\ Inflight = 1 /\ Refuse(r)
    BY DEF Asks, AdmitClosed, AdmitProbe, Orphaned, SlotAccounting, Gate, Inflight, CooledDown
<1>2. QED
    BY <1>1 DEF Refuse, Orphaned, TypeOK

LEMMA OrphanedStep ==
    ASSUME TypeOK, SlotAccounting, Orphaned, [Next]_vars,
           ~RefusalsReported, ~FailClosedOnAttack
    PROVE  Orphaned'
<1> USE DEF TypeOK, Orphaned
<1>1. ASSUME NEW r \in Requests, EvaluateRequest(r)
      PROVE  Orphaned'
    BY <1>1, OrphanedAsked DEF EvaluateRequest, Asks
<1>2. ASSUME NEW r \in Requests, NEW error \in BOOLEAN
      PROVE  ~RecordResponse(r, error)
    BY DEF RecordResponse
<1>3. ASSUME NEW r \in Requests, Abandon(r) \/ GiveUp(r)
      PROVE  Orphaned'
    BY <1>3 DEF Abandon, GiveUp, breakerVars
<1>4. ASSUME NEW strong \in BOOLEAN
      PROVE  ~RecordAttackSignal(strong)
    BY DEF RecordAttackSignal
<1>5. CASE UpstreamHeals
    BY <1>5 DEF UpstreamHeals, breakerVars
<1>6. CASE Tick
    BY <1>6 DEF Tick
<1>7. CASE UNCHANGED vars
    BY <1>7 DEF vars
<1>8. QED
    BY <1>1, <1>2, <1>3, <1>4, <1>5, <1>6, <1>7 DEF Next

\* A half-open slot has no timeout (circuit_breaker.py:91-103 refuses while the
\* count is one, and only record_response takes it back): once the request that holds
\* it is gone, the breaker refuses every request from then on, healthy upstream or
\* not, unless callers report refusals or an attack opens it anew.
THEOREM OrphanedForGood ==
    ASSUME ~RefusalsReported, ~FailClosedOnAttack
    PROVE  Spec => [](Orphaned => []Orphaned)
<1>1. IInv /\ Orphaned /\ [Next]_vars => Orphaned'
    BY OrphanedStep DEF IInv
<1>2. QED
    BY <1>1, Invariant, PTL DEF Spec

\* The same of runs with any number of guarded steps: a run that is refused behind
\* its own first step locks everybody out.
THEOREM OrphanedByRunsForGood ==
    ASSUME ~RefusalsReported, ~FailClosedOnAttack
    PROVE  RunSpec => [](Orphaned => []Orphaned)
<1>1. RunInv /\ Orphaned /\ [RunNext]_runVars => Orphaned'
    BY RunSteps, OrphanedStep, OrphanedAsked DEF RunInv
<1>2. QED
    BY <1>1, RunInvariant, PTL DEF RunSpec

\* It takes an abandoned request, or a run with a second guarded step, to get there:
\* where every admitted request is reported (lens.py:562), the slot that
\* evaluate_request gave away always has an owner who can return it.
THEOREM NotOrphanedByReporters ==
    ASSUME ~MayAbandon
    PROVE  Spec => []~Orphaned
<1>1. IInv => ~Orphaned
    BY DEF IInv, TypeOK, SlotAccounting, ProbeOwned, Orphaned
<1>2. QED
    BY <1>1, Invariant, PTL

\* So a graph with one guarded step never locks its callers out.
COROLLARY NotOrphanedByOneGate ==
    ASSUME ~MayAbandon, Gates = 1
    PROVE  RunSpec => []~Orphaned
    BY NotOrphanedByReporters, OneGateIsTheBreaker, PTL
=============================================================================

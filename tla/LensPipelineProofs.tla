------------------------- MODULE LensPipelineProofs -------------------------
(***************************************************************************)
(* Proofs about LensPipeline, for any number of calls of any kind and any  *)
(* configuration of the interventions.  The invariant speaks of one call   *)
(* at a time: where it can be given its kind, and what is settled about it *)
(* by the time it is there.  The state the calls share enters through the  *)
(* bucket's bound and through the intents of threads, which only grow.     *)
(***************************************************************************)
EXTENDS LensPipeline, TLAPS

-----------------------------------------------------------------------------
(* The decision algebra.                                                   *)

\* The ranks of the four actions: the table in merge.
LEMMA RankTable ==
    /\ rank["allow"] = 0 /\ rank["redact"] = 1
    /\ rank["throttle"] = 2 /\ rank["block"] = 3
BY DEF rank, Actions

\* merge returns a decision that names the reasons of both.
LEMMA MergeType ==
    ASSUME NEW d \in Decision, NEW e \in Decision
    PROVE  /\ Merge(d, e) \in Decision
           /\ Merge(d, e).action = Winner(d, e).action
           /\ Merge(d, e).triggered_by = d.triggered_by \cup e.triggered_by
           /\ Merge(d, e).modified = (d.modified \/ (~IsTerminal(d) /\ e.modified))
BY DEF Merge, Winner, Decision

\* "Terminal beats non-terminal; among non-terminals, redact and throttle beat
\* allow" (decisions.py:62): merge is never less strict than what it merges,
\* and takes its action from one of the two.
THEOREM MergeIsStrictest ==
    ASSUME NEW d \in Decision, NEW e \in Decision
    PROVE  /\ Merge(d, e).action \in {d.action, e.action}
           /\ rank[Merge(d, e).action] >= rank[d.action]
           /\ rank[Merge(d, e).action] >= rank[e.action]
           /\ IsTerminal(Merge(d, e)) <=> IsTerminal(d) \/ IsTerminal(e)
<1>1. Merge(d, e).action = Winner(d, e).action
  BY MergeType
<1>2. d.action \in Actions /\ e.action \in Actions
  BY DEF Decision
<1> QED
  BY <1>1, <1>2, RankTable DEF Winner, IsTerminal, Actions

\* "Terminal beats non-terminal" does not depend on how merges are nested: the
\* value of a chain of merges is that of any bracketing of it.
THEOREM MergeIsAssociative ==
    ASSUME NEW d \in Decision, NEW e \in Decision, NEW f \in Decision
    PROVE  Merge(Merge(d, e), f) = Merge(d, Merge(e, f))
<1>1. /\ Merge(d, e) \in Decision /\ Merge(e, f) \in Decision
      /\ Merge(Merge(d, e), f) \in Decision /\ Merge(d, Merge(e, f)) \in Decision
  BY MergeType
<1>2. Merge(Merge(d, e), f).action = Merge(d, Merge(e, f)).action
  <2>1. /\ Merge(d, e).action = Winner(d, e).action
        /\ Merge(e, f).action = Winner(e, f).action
        /\ Merge(Merge(d, e), f).action = Winner(Merge(d, e), f).action
        /\ Merge(d, Merge(e, f)).action = Winner(d, Merge(e, f)).action
    BY <1>1, MergeType
  <2>2. d.action \in Actions /\ e.action \in Actions /\ f.action \in Actions
    BY DEF Decision
  <2> QED
    BY <2>1, <2>2, RankTable DEF Winner, IsTerminal, Actions
<1>3. Merge(Merge(d, e), f).triggered_by = Merge(d, Merge(e, f)).triggered_by
  <2>1. /\ Merge(d, e).triggered_by = d.triggered_by \cup e.triggered_by
        /\ Merge(e, f).triggered_by = e.triggered_by \cup f.triggered_by
        /\ Merge(Merge(d, e), f).triggered_by = Merge(d, e).triggered_by \cup f.triggered_by
        /\ Merge(d, Merge(e, f)).triggered_by = d.triggered_by \cup Merge(e, f).triggered_by
    BY <1>1, MergeType
  <2> QED
    BY <2>1
<1>4. Merge(Merge(d, e), f).modified = Merge(d, Merge(e, f)).modified
  <2>1. IsTerminal(Merge(d, e)) <=> IsTerminal(d) \/ IsTerminal(e)
    BY MergeIsStrictest
  <2>2. /\ Merge(d, e).modified = (d.modified \/ (~IsTerminal(d) /\ e.modified))
        /\ Merge(e, f).modified = (e.modified \/ (~IsTerminal(e) /\ f.modified))
        /\ Merge(Merge(d, e), f).modified
              = (Merge(d, e).modified \/ (~IsTerminal(Merge(d, e)) /\ f.modified))
        /\ Merge(d, Merge(e, f)).modified
              = (d.modified \/ (~IsTerminal(d) /\ Merge(e, f).modified))
    BY <1>1, MergeType
  <2> QED
    BY <2>1, <2>2
<1>5. ASSUME NEW x \in Decision
      PROVE  x = [action |-> x.action, triggered_by |-> x.triggered_by, modified |-> x.modified]
  BY DEF Decision
<1> QED
  BY <1>1, <1>2, <1>3, <1>4, <1>5

-----------------------------------------------------------------------------
(* The invariant.                                                          *)

Late == {"inspect", "act", "raised", "done"}

\* Which points a call of each kind passes.
Route(c) ==
    /\ carried[c] \subseteq Carries[Kind[c]]
    /\ at[c] \in {"observe", "guard", "redact"} => Kind[c] = "node"
    /\ at[c] \in {"allowlist", "limit"} => Kind[c] = "tool"
    /\ at[c] = "gate" => Kind[c] \in {"node", "tool"}
    /\ at[c] \in {"load", "protect"} => Kind[c] \in {"put", "get"}
    /\ at[c] # "done" => fate[c] = "pending"

\* What a node or checkpoint met on its way out.
Enforced(c) ==
    Kind[c] # "tool" /\ fate[c] \in {"raw", "scrubbed"} =>
        /\ ~IsTerminal(decision[c])
        /\ Kind[c] = "node" => fate[c] = Runs(c)

\* Tool calls pay last.
Paid(c) ==
    Kind[c] = "tool" =>
        /\ at[c] \in {"idle", "gate", "allowlist", "limit"} => ~paid[c]
        /\ at[c] \in {"idle", "gate", "allowlist", "limit"} =>
               decision[c].action \in {"allow", "block"}
        /\ at[c] \in Late => (paid[c] <=> decision[c].action = "allow")

\* Personal data that got past the redactor belongs to a blocked node.
Scrubbed(c) ==
    Kind[c] = "node" /\ at[c] \in Late /\ "pii" \in carried[c]
        /\ Mode["pii_redactor"] = "redact"
    => IsTerminal(decision[c]) \/ decision[c].modified

\* The lens knows the intent of the thread by the time it decides about the
\* node: it was known before, or the callback has seen the node bring it.
Known(c) == c \in briefed \/ (Attached /\ "request" \in carried[c])

\* A node of such a thread meets the guard with the intent at hand, and the
\* guard names itself in the verdict on a drifting one unless the breaker came
\* first.
Guarded(c) ==
    /\ c \in briefed => at[c] # "idle" /\ Thread[c] \in intents
    /\ Kind[c] = "node" /\ Thread[c] # NoThread /\ Known(c) =>
        /\ at[c] \in {"gate", "guard", "redact"} \cup Late => Thread[c] \in intents
        /\ at[c] \in {"redact"} \cup Late /\ "drift" \in carried[c] =>
              /\ Mode["goal_guard"] = "block" => IsTerminal(decision[c])
              /\ \/ "circuit_breaker" \in decision[c].triggered_by
                 \/ "goal_guard" \in decision[c].triggered_by

\* What the verdict names by the time the call is past each intervention; until
\* then nothing but the breaker can have stopped it.
Named(c) ==
    LET reasons == decision[c].triggered_by IN
    /\ at[c] \in {"idle", "load", "observe", "gate", "protect"} => reasons = {}
    /\ at[c] \in {"guard", "allowlist"} => reasons \subseteq {"circuit_breaker"}
    /\ at[c] \in {"limit"} \cup Late /\ Kind[c] = "tool" /\ carried[c] # {} =>
           "circuit_breaker" \in reasons \/ "tool_allowlist" \in reasons
    /\ at[c] \in Late =>
           /\ Kind[c] = "tool" /\ Live(c) /\ ~paid[c] => "rate_limit" \in reasons
           /\ Kind[c] = "node" /\ Live(c) /\ "pii" \in carried[c] => "pii_redactor" \in reasons
           /\ Kind[c] \in {"put", "get"} /\ carried[c] # {} =>
                  "checkpoint_protector" \in reasons

CallInv(c) ==
    /\ Explained(decision[c])
    /\ Route(c)
    /\ Enforced(c)
    /\ Paid(c)
    /\ Scrubbed(c)
    /\ Guarded(c)
    /\ Named(c)

IInv == TypeOK /\ \A c \in Calls : CallInv(c)

-----------------------------------------------------------------------------
(* Types and locality.                                                     *)

\* What an intervention returns is a decision with its own name in it.
LEMMA FiredType ==
    ASSUME NEW i \in Interventions
    PROVE  /\ Fired(i) \in Decision
           /\ Fired(i).action = Mode[i]
           /\ Fired(i).triggered_by = {i}
           /\ Fired(i).modified = (Mode[i] = "redact")
BY PipelineAssumption DEF Fired, Decision

\* Firing keeps the types.
LEMMA FireType ==
    ASSUME TypeOK, NEW c \in Calls, NEW i \in Interventions, Fire(c, i)
    PROVE  /\ decision' \in [Calls -> Decision]
           /\ decision'[c] = Merge(decision[c], Fired(i))
           /\ \A x \in Calls \ {c} : decision'[x] = decision[x]
BY FiredType, MergeType DEF Fire, TypeOK

\* The inspection keeps the types, and threads keep their intents.
LEMMA InspectType ==
    ASSUME TypeOK, NEW c \in Calls, NEW content \in SUBSET Findings,
           NEW next \in Points, NEW onRaise \in Points,
           Inspect(c, content, next, onRaise)
    PROVE  /\ at' \in [Calls -> Points]
           /\ at'[c] \in {next, onRaise}
           /\ \A x \in Calls \ {c} : at'[x] = at[x]
           /\ intents' \subseteq Threads
           /\ intents \subseteq intents'
           /\ quiet' \subseteq AlertOn
<1>1. at' \in [Calls -> Points] /\ at'[c] \in {next, onRaise}
      /\ \A x \in Calls \ {c} : at'[x] = at[x]
  BY DEF Inspect, Goto, TypeOK
<1>2. /\ intents' \subseteq Threads
      /\ intents \subseteq intents'
  BY DEF Inspect, Captured, Threads, TypeOK
<1>3. quiet' \subseteq AlertOn
  BY DEF Inspect, TypeOK
<1> QED
  BY <1>1, <1>2, <1>3

\* What a step of call c leaves alone in the other calls.
Local(c) ==
    /\ intents \subseteq intents'
    /\ \A x \in Calls \ {c} :
          /\ at'[x] = at[x] /\ carried'[x] = carried[x] /\ decision'[x] = decision[x]
          /\ paid'[x] = paid[x] /\ fate'[x] = fate[x]
          /\ x \in briefed' <=> x \in briefed

\* A step of a call keeps the types and touches no other call.
LEMMA CallStepType ==
    ASSUME TypeOK, NEW c \in Calls, CallStep(c)
    PROVE  TypeOK' /\ Local(c)
<1>1. CASE Start(c)
  <2>1. at' \in [Calls -> Points] /\ \A x \in Calls \ {c} : at'[x] = at[x]
    BY <1>1, PipelineAssumption DEF Start, Goto, TypeOK, Points, Kinds
  <2>2. MayCarry[c] \subseteq Findings
    BY PipelineAssumption DEF Findings
  <2>3. carried' \in [Calls -> SUBSET Findings]
        /\ \A x \in Calls \ {c} : carried'[x] = carried[x]
    BY <1>1, <2>2 DEF Start, TypeOK
  <2> QED
    BY <1>1, <2>1, <2>3 DEF Start, TypeOK, Local
<1>2. CASE Load(c)
  BY <1>2 DEF Load, Goto, TypeOK, Points, Local
<1>3. CASE Observe(c)
  <2>1. carried[c] \in SUBSET Findings /\ "gate" \in Points
    BY DEF TypeOK, Points
  <2>2. /\ at' \in [Calls -> Points] /\ \A x \in Calls \ {c} : at'[x] = at[x]
        /\ intents' \subseteq Threads /\ intents \subseteq intents' /\ quiet' \subseteq AlertOn
    BY <1>3, <2>1, InspectType DEF Observe
  <2> QED
    BY <1>3, <2>2 DEF Observe, TypeOK, Local
<1>4. CASE Gate(c)
  <2>1. decision' \in [Calls -> Decision] /\ \A x \in Calls \ {c} : decision'[x] = decision[x]
    BY <1>4, FireType DEF Gate, Pass, TypeOK, Interventions
  <2> QED
    BY <1>4, <2>1 DEF Gate, Goto, TypeOK, Points, Local
<1>5. CASE Guard(c)
  <2>1. decision' \in [Calls -> Decision] /\ \A x \in Calls \ {c} : decision'[x] = decision[x]
    BY <1>5, FireType DEF Guard, Pass, TypeOK, Interventions
  <2> QED
    BY <1>5, <2>1 DEF Guard, Goto, TypeOK, Points, Local
<1>6. CASE Redact(c)
  <2>1. decision' \in [Calls -> Decision] /\ \A x \in Calls \ {c} : decision'[x] = decision[x]
    BY <1>6, FireType DEF Redact, Pass, TypeOK, Interventions
  <2> QED
    BY <1>6, <2>1 DEF Redact, Goto, TypeOK, Points, Local
<1>7. CASE Allowlist(c)
  <2>1. decision' \in [Calls -> Decision] /\ \A x \in Calls \ {c} : decision'[x] = decision[x]
    BY <1>7, FireType DEF Allowlist, Pass, TypeOK, Interventions
  <2> QED
    BY <1>7, <2>1 DEF Allowlist, Goto, TypeOK, Points, Local
<1>8. CASE Limit(c)
  <2>1. decision' \in [Calls -> Decision] /\ \A x \in Calls \ {c} : decision'[x] = decision[x]
    BY <1>8, FireType DEF Limit, Pass, TypeOK, Interventions
  <2>2. tokens' \in 0 .. Capacity
    BY <1>8, PipelineAssumption DEF Limit, TypeOK
  <2>3. paid' \in [Calls -> BOOLEAN] /\ \A x \in Calls \ {c} : paid'[x] = paid[x]
    BY <1>8 DEF Limit, TypeOK
  <2>4. at' \in [Calls -> Points] /\ \A x \in Calls \ {c} : at'[x] = at[x]
    BY <1>8 DEF Limit, Goto, TypeOK, Points
  <2> QED
    BY <1>8, <2>1, <2>2, <2>3, <2>4 DEF Limit, TypeOK, Local
<1>9. CASE Protect(c)
  <2>1. decision' \in [Calls -> Decision] /\ \A x \in Calls \ {c} : decision'[x] = decision[x]
    BY <1>9, FireType DEF Protect, Pass, TypeOK, Interventions
  <2> QED
    BY <1>9, <2>1 DEF Protect, Goto, TypeOK, Points, Local
<1>10. CASE InspectDecided(c)
  <2>1. /\ carried[c] \in SUBSET Findings /\ carried[c] \ {"pii"} \in SUBSET Findings
        /\ "act" \in Points /\ "raised" \in Points
    BY DEF TypeOK, Points
  <2>2. /\ at' \in [Calls -> Points] /\ \A x \in Calls \ {c} : at'[x] = at[x]
        /\ intents' \subseteq Threads /\ intents \subseteq intents' /\ quiet' \subseteq AlertOn
    <3>1. CASE decision[c].modified
      BY <1>10, <2>1, <3>1, InspectType DEF InspectDecided
    <3>2. CASE ~decision[c].modified
      BY <1>10, <2>1, <3>2, InspectType DEF InspectDecided
    <3> QED
      BY <3>1, <3>2
  <2> QED
    BY <1>10, <2>2 DEF InspectDecided, TypeOK, Local
<1>11. CASE Act(c)
  <2>1. fate' \in [Calls -> Fates] /\ \A x \in Calls \ {c} : fate'[x] = fate[x]
    BY <1>11 DEF Act, ActOnNode, ActOnCheckpoint, ActOnTool, Runs, TypeOK, Fates
  <2> QED
    BY <1>11, <2>1 DEF Act, Goto, TypeOK, Points, Local
<1>12. CASE Raised(c)
  BY <1>12 DEF Raised, Goto, TypeOK, Points, Fates, Local
<1>13. CASE Return(c)
  <2>1. NoDecision \in Decision
    BY DEF NoDecision, Decision, Actions
  <2> QED
    BY <1>13, <2>1 DEF Return, Goto, TypeOK, Points, Fates, Local
<1> QED
  BY <1>1, <1>2, <1>3, <1>4, <1>5, <1>6, <1>7, <1>8, <1>9, <1>10, <1>11, <1>12, <1>13 DEF CallStep

\* What has been settled about a call stays so while the others move.
LEMMA Others ==
    ASSUME NEW c \in Calls, NEW x \in Calls \ {c}, CallInv(x), Local(c)
    PROVE  CallInv(x)'
<1>1. /\ at'[x] = at[x] /\ carried'[x] = carried[x] /\ decision'[x] = decision[x]
      /\ paid'[x] = paid[x] /\ fate'[x] = fate[x] /\ (x \in briefed' <=> x \in briefed)
      /\ intents \subseteq intents'
  BY DEF Local
<1>2. Explained(decision[x])' /\ Route(x)' /\ Enforced(x)' /\ Paid(x)' /\ Scrubbed(x)'
  BY <1>1 DEF CallInv, Explained, Route, Enforced, Paid, Scrubbed, Runs, IsTerminal, Late
<1>3. Guarded(x)'
  BY <1>1 DEF CallInv, Guarded, Known, IsTerminal, Late
<1>4. Named(x)'
  BY <1>1 DEF CallInv, Named, Live, IsTerminal, Late
<1> QED
  BY <1>2, <1>3, <1>4 DEF CallInv

-----------------------------------------------------------------------------
(* What a step settles about its own call.                                 *)

\* An intervention that fires keeps the verdict explained, as long as only a
\* blocking one can fire on a terminal decision.
LEMMA FireExplained ==
    ASSUME NEW d \in Decision, Explained(d), NEW i \in Interventions,
           ~IsTerminal(d) \/ Mode[i] # "redact"
    PROVE  Explained(Merge(d, Fired(i)))
<1> DEFINE m == Merge(d, Fired(i))
<1>1. /\ Fired(i) \in Decision /\ Fired(i).action = Mode[i]
      /\ Fired(i).triggered_by = {i} /\ Fired(i).modified = (Mode[i] = "redact")
  BY FiredType
<1>2. /\ m.triggered_by = d.triggered_by \cup {i}
      /\ m.modified = (d.modified \/ (~IsTerminal(d) /\ Mode[i] = "redact"))
  BY <1>1, MergeType
<1>3. /\ m.action \in {d.action, Mode[i]}
      /\ rank[m.action] >= rank[d.action] /\ rank[m.action] >= rank[Mode[i]]
  BY <1>1, MergeIsStrictest
<1>4. d.triggered_by \subseteq Interventions /\ d.action \in Actions /\ m.action \in Actions
  BY <1>1, MergeType DEF Decision
<1> HIDE DEF m
<1>5. /\ m.action \in {Mode[j] : j \in m.triggered_by} \cup {"allow"}
      /\ m.modified <=> "redact" \in {Mode[j] : j \in m.triggered_by} \cup {"allow"}
  BY <1>2, <1>3 DEF Explained
<1>6. ASSUME NEW a \in {Mode[j] : j \in m.triggered_by} \cup {"allow"}
      PROVE  rank[m.action] >= rank[a]
  <2>1. CASE a \in {Mode[j] : j \in d.triggered_by} \cup {"allow"}
    <3>1. rank[d.action] >= rank[a]
      BY <2>1 DEF Explained
    <3>2. a \in Actions
      BY <2>1, <1>4, PipelineAssumption DEF Actions
    <3> QED
      BY <3>1, <3>2, <1>3, <1>4, RankTable DEF Actions
  <2>2. CASE a = Mode[i]
    BY <2>2, <1>3
  <2> QED
    BY <2>1, <2>2, <1>2
<1>7. Explained(m)
  BY <1>5, <1>6 DEF Explained
<1> QED
  BY <1>7 DEF m

\* The verdict of a call is explained after each of its steps.
LEMMA ExplainedStep ==
    ASSUME TypeOK, NEW c \in Calls, Explained(decision[c]), CallStep(c)
    PROVE  Explained(decision'[c])
<1>1. decision[c] \in Decision
  BY DEF TypeOK
<1>2. ASSUME NEW i \in Interventions, Fire(c, i), ~IsTerminal(decision[c]) \/ Mode[i] # "redact"
      PROVE  Explained(decision'[c])
  BY <1>1, <1>2, FireExplained, FireType
<1>3. CASE decision' = decision
  BY <1>3
<1>4. CASE Gate(c)
  BY <1>4, <1>2, <1>3, PipelineAssumption DEF Gate, Pass, Interventions
<1>5. CASE Guard(c)
  BY <1>5, <1>2, <1>3, PipelineAssumption DEF Guard, Pass, Interventions
<1>6. CASE Redact(c)
  BY <1>6, <1>2, <1>3 DEF Redact, Pass, Interventions, Live
<1>7. CASE Allowlist(c)
  BY <1>7, <1>2, <1>3, PipelineAssumption DEF Allowlist, Pass, Interventions
<1>8. CASE Limit(c)
  BY <1>8, <1>2, <1>3, PipelineAssumption DEF Limit, Pass, Interventions
<1>9. CASE Protect(c)
  BY <1>9, <1>2, <1>3, PipelineAssumption DEF Protect, Pass, Interventions
<1>10. CASE Return(c)
  <2>1. decision'[c] = NoDecision
    BY <1>10 DEF Return, TypeOK
  <2> QED
    BY <2>1, RankTable DEF Explained, NoDecision
<1> QED
  BY <1>3, <1>4, <1>5, <1>6, <1>7, <1>8, <1>9, <1>10
     DEF CallStep, Start, Load, Observe, InspectDecided, Act, Raised

\* A call keeps to the points of its kind.
LEMMA RouteStep ==
    ASSUME TypeOK, NEW c \in Calls, Route(c), CallStep(c)
    PROVE  Route(c)'
<1> USE PipelineAssumption DEF Route, TypeOK, Goto
<1>1. CASE Start(c)
  <2>1. carried'[c] \subseteq Carries[Kind[c]]
    BY <1>1 DEF Start
  <2> QED
    BY <1>1, <2>1 DEF Start, Kinds
<1>2. CASE Load(c)
  BY <1>2 DEF Load
<1>3. CASE Observe(c)
  BY <1>3 DEF Observe, Inspect
<1>4. CASE Gate(c)
  BY <1>4 DEF Gate
<1>5. CASE Guard(c)
  BY <1>5 DEF Guard
<1>6. CASE Redact(c)
  BY <1>6 DEF Redact
<1>7. CASE Allowlist(c)
  BY <1>7 DEF Allowlist
<1>8. CASE Limit(c)
  BY <1>8 DEF Limit
<1>9. CASE Protect(c)
  BY <1>9 DEF Protect
<1>10. CASE InspectDecided(c)
  BY <1>10 DEF InspectDecided, Inspect
<1>11. CASE Act(c)
  BY <1>11 DEF Act
<1>12. CASE Raised(c)
  BY <1>12 DEF Raised
<1>13. CASE Return(c)
  BY <1>13 DEF Return
<1> QED
  BY <1>1, <1>2, <1>3, <1>4, <1>5, <1>6, <1>7, <1>8, <1>9, <1>10, <1>11, <1>12, <1>13 DEF CallStep

\* The decision of a call is terminal once an intervention that fires makes it
\* so, and stays terminal until the call is over.
LEMMA FireTerminal ==
    ASSUME TypeOK, NEW c \in Calls, NEW i \in Interventions, Fire(c, i)
    PROVE  /\ IsTerminal(decision'[c]) <=> IsTerminal(decision[c]) \/ Mode[i] = "block"
           /\ decision'[c].action \in {decision[c].action, Mode[i]}
           /\ ~IsTerminal(decision[c]) => rank[decision'[c].action] >= rank[Mode[i]]
           /\ decision[c].modified => decision'[c].modified
           /\ ~IsTerminal(decision[c]) /\ Mode[i] = "redact" => decision'[c].modified
<1>1. decision[c] \in Decision /\ decision'[c] = Merge(decision[c], Fired(i))
  BY FireType DEF TypeOK
<1>2. /\ Fired(i) \in Decision /\ Fired(i).action = Mode[i]
      /\ Fired(i).modified = (Mode[i] = "redact")
  BY FiredType
<1>3. IsTerminal(Fired(i)) <=> Mode[i] = "block"
  BY <1>2 DEF IsTerminal
<1>4. /\ IsTerminal(decision'[c]) <=> IsTerminal(decision[c]) \/ IsTerminal(Fired(i))
      /\ decision'[c].action \in {decision[c].action, Fired(i).action}
      /\ rank[decision'[c].action] >= rank[Fired(i).action]
  BY <1>1, <1>2, MergeIsStrictest
<1>5. decision'[c].modified
         = (decision[c].modified \/ (~IsTerminal(decision[c]) /\ Fired(i).modified))
  BY <1>1, <1>2, MergeType
<1>6. decision[c].modified \in BOOLEAN
  BY <1>1 DEF Decision
<1> QED
  BY <1>2, <1>3, <1>4, <1>5, <1>6

\* A node or checkpoint goes through only on a verdict that lets it.
LEMMA EnforcedStep ==
    ASSUME TypeOK, NEW c \in Calls, Route(c), Enforced(c), CallStep(c)
    PROVE  Enforced(c)'
<1>1. CASE Act(c)
  <2>1. decision'[c] = decision[c] /\ (Runs(c))' = Runs(c)
    BY <1>1 DEF Act, Runs
  <2>2. CASE Kind[c] = "node"
    <3>1. fate'[c] = IF Live(c) THEN Runs(c) ELSE "refused"
      BY <1>1, <2>2 DEF Act, ActOnNode, ActOnCheckpoint, ActOnTool, TypeOK
    <3> QED
      BY <2>1, <3>1 DEF Enforced, Live
  <2>3. CASE Kind[c] \in {"put", "get"}
    <3>1. fate'[c] = IF Live(c) THEN "raw" ELSE "refused"
      BY <1>1, <2>3 DEF Act, ActOnNode, ActOnCheckpoint, ActOnTool, TypeOK
    <3> QED
      BY <2>1, <2>3, <3>1 DEF Enforced, Live
  <2> QED
    BY <2>2, <2>3, PipelineAssumption DEF Enforced, Kinds
<1>2. CASE Raised(c) \/ Return(c)
  <2>1. fate'[c] \in {"failed", "pending"} \/ Kind[c] = "tool"
    BY <1>2 DEF Raised, Return, TypeOK
  <2> QED
    BY <2>1 DEF Enforced
<1>3. CASE fate'[c] = fate[c] /\ at[c] # "done"
  BY <1>3 DEF Enforced, Route
<1> QED
  BY <1>1, <1>2, <1>3 DEF CallStep, Start, Load, Observe, Gate, Guard, Redact, Allowlist,
     Limit, Protect, InspectDecided

\* A tool call pays when nothing has stopped it, and then nothing does.
LEMMA PaidStep ==
    ASSUME TypeOK, NEW c \in Calls, Route(c), Paid(c), CallStep(c)
    PROVE  Paid(c)'
<1> SUFFICES ASSUME Kind[c] = "tool"
             PROVE  Paid(c)'
  BY DEF Paid
<1> USE DEF Late
<1>1. CASE Start(c)
  BY <1>1 DEF Start, Goto, Paid, TypeOK
<1>2. CASE Gate(c)
  <2>1. decision'[c].action \in {"allow", "block"}
    BY <1>2, FireTerminal, PipelineAssumption DEF Gate, Pass, Paid, Interventions
  <2> QED
    BY <1>2, <2>1 DEF Gate, Goto, Paid, TypeOK
<1>3. CASE Allowlist(c)
  <2>1. decision'[c].action \in {"allow", "block"}
    BY <1>3, FireTerminal, PipelineAssumption DEF Allowlist, Pass, Paid, Interventions
  <2> QED
    BY <1>3, <2>1 DEF Allowlist, Goto, Paid, TypeOK
<1>4. CASE Limit(c)
  <2>1. at'[c] = "inspect" /\ ~paid[c] /\ decision[c].action \in {"allow", "block"}
    BY <1>4 DEF Limit, Goto, Paid, TypeOK
  <2>2. paid'[c] <=> decision'[c].action = "allow"
    <3>1. CASE ~Live(c) /\ Pass /\ UNCHANGED paid
      BY <2>1, <3>1 DEF Live, IsTerminal, Pass
    <3>2. CASE Live(c) /\ Pass /\ paid' = [paid EXCEPT ![c] = TRUE]
      BY <2>1, <3>2 DEF Live, IsTerminal, Pass, TypeOK
    <3>3. CASE Live(c) /\ Fire(c, "rate_limit") /\ UNCHANGED paid
      <4>1. rank[decision'[c].action] >= rank[Mode["rate_limit"]]
        BY <3>3, FireTerminal DEF Live, Interventions
      <4>2. decision'[c].action # "allow"
        BY <4>1, RankTable, PipelineAssumption
      <4> QED
        BY <2>1, <3>3, <4>2
    <3> QED
      BY <1>4, <3>1, <3>2, <3>3 DEF Limit
  <2> QED
    BY <2>1, <2>2 DEF Paid
<1>5. CASE InspectDecided(c)
  BY <1>5 DEF InspectDecided, Inspect, Goto, Paid, TypeOK
<1>6. CASE Act(c) \/ Raised(c)
  BY <1>6 DEF Act, Raised, Goto, Paid, TypeOK
<1>7. CASE Return(c)
  BY <1>7 DEF Return, Goto, Paid, TypeOK, NoDecision
<1> QED
  BY <1>1, <1>2, <1>3, <1>4, <1>5, <1>6, <1>7
     DEF CallStep, Route, Load, Observe, Guard, Redact, Protect

\* What the redactor finds is rewritten, unless the node is blocked.
LEMMA ScrubbedStep ==
    ASSUME TypeOK, NEW c \in Calls, Route(c), Scrubbed(c), CallStep(c)
    PROVE  Scrubbed(c)'
<1> SUFFICES ASSUME Kind[c] = "node", Mode["pii_redactor"] = "redact"
             PROVE  Scrubbed(c)'
  BY DEF Scrubbed
<1> USE DEF Late
<1>1. CASE Redact(c)
  <2>1. CASE Live(c) /\ "pii" \in carried[c]
    <3>1. decision'[c].modified
      BY <1>1, <2>1, FireTerminal DEF Redact, Live, Interventions
    <3> QED
      BY <3>1 DEF Scrubbed
  <2>2. CASE ~Live(c) \/ "pii" \notin carried[c]
    BY <1>1, <2>2 DEF Redact, Pass, Live, Scrubbed, IsTerminal
  <2> QED
    BY <2>1, <2>2
<1>2. CASE InspectDecided(c)
  BY <1>2 DEF InspectDecided, Scrubbed, IsTerminal
<1>3. CASE Act(c) \/ Raised(c)
  BY <1>3 DEF Act, Raised, Scrubbed, IsTerminal
<1>4. CASE Start(c) \/ Observe(c) \/ Gate(c) \/ Guard(c) \/ Return(c)
  <2>1. at'[c] \notin Late
    BY <1>4 DEF Start, Observe, Gate, Guard, Return, Inspect, Goto, TypeOK
  <2> QED
    BY <2>1 DEF Scrubbed
<1> QED
  BY <1>1, <1>2, <1>3, <1>4 DEF CallStep, Route, Load, Allowlist, Limit, Protect

\* An intervention that fires adds its name to the verdict.
LEMMA FireNames ==
    ASSUME TypeOK, NEW c \in Calls, NEW i \in Interventions, Fire(c, i)
    PROVE  decision'[c].triggered_by = decision[c].triggered_by \cup {i}
<1>1. decision[c] \in Decision /\ decision'[c] = Merge(decision[c], Fired(i))
  BY FireType DEF TypeOK
<1>2. Fired(i) \in Decision /\ Fired(i).triggered_by = {i}
  BY FiredType
<1>3. Merge(decision[c], Fired(i)).triggered_by
         = decision[c].triggered_by \cup Fired(i).triggered_by
  BY <1>1, <1>2, MergeType
<1> QED
  BY <1>1, <1>2, <1>3

\* A verdict is terminal only for an intervention it names.
LEMMA BlockNamed ==
    ASSUME NEW d \in Decision, Explained(d), d.triggered_by \subseteq {"circuit_breaker"},
           IsTerminal(d)
    PROVE  "circuit_breaker" \in d.triggered_by
BY DEF Explained, IsTerminal

\* With the intent at hand, the guard blocks drift, or the breaker did.
LEMMA GuardedStep ==
    ASSUME TypeOK, NEW c \in Calls, Explained(decision[c]), Route(c), Guarded(c), Named(c),
           CallStep(c)
    PROVE  Guarded(c)'
<1> USE DEF Late
<1>0. intents \subseteq intents'
  BY CallStepType DEF Local
<1>1. CASE Start(c)
  <2>1. carried'[c] \in SUBSET MayCarry[c] /\ c \notin briefed
    BY <1>1 DEF Start, Guarded, TypeOK
  <2>2. c \in briefed' => Thread[c] \in intents'
    BY <1>1, <2>1 DEF Start
  <2>3. at'[c] \in {"observe", "gate", "protect", "load"}
        /\ (at'[c] = "gate" /\ Kind[c] = "node" => ~Attached)
    BY <1>1, PipelineAssumption DEF Start, Goto, TypeOK, Kinds
  <2> QED
    BY <2>2, <2>3 DEF Guarded, Known
<1>2. CASE Observe(c)
  <2>1. carried[c] \in SUBSET Findings /\ "gate" \in Points
    BY DEF TypeOK, Points
  <2>2. at'[c] = "gate" /\ carried' = carried /\ briefed' = briefed
    BY <1>2 DEF Observe, Inspect, Goto, TypeOK
  <2>3. "request" \in carried[c] /\ Thread[c] # NoThread => Thread[c] \in intents'
    BY <1>2 DEF Observe, Inspect, Captured
  <2> QED
    BY <1>0, <1>2, <2>2, <2>3 DEF Guarded, Known
<1>3. CASE Gate(c)
  <2>1. at'[c] \in {"guard", "allowlist"} /\ UNCHANGED <<carried, briefed, intents>>
    BY <1>3 DEF Gate, Goto, TypeOK
  <2> QED
    BY <1>3, <2>1 DEF Gate, Guarded, Known
<1>4. CASE Guard(c)
  <2>1. at'[c] = "redact" /\ UNCHANGED <<carried, briefed, intents>>
    BY <1>4 DEF Guard, Goto, TypeOK
  <2>2. ASSUME Known(c), Kind[c] = "node", Thread[c] # NoThread, "drift" \in carried[c]
        PROVE  /\ Mode["goal_guard"] = "block" => IsTerminal(decision'[c])
               /\ \/ "circuit_breaker" \in decision'[c].triggered_by
                  \/ "goal_guard" \in decision'[c].triggered_by
    <3>1. Drifts(c)
      BY <1>4, <2>2 DEF Guard, Drifts, Guarded
    <3>2. CASE Live(c)
      BY <1>4, <3>1, <3>2, FireTerminal, FireNames DEF Guard, Interventions
    <3>3. CASE ~Live(c)
      <4>1. decision[c].triggered_by \subseteq {"circuit_breaker"} /\ decision[c] \in Decision
        BY <1>4 DEF Guard, Named, TypeOK
      <4>2. "circuit_breaker" \in decision[c].triggered_by
        BY <3>3, <4>1, BlockNamed DEF Live
      <4> QED
        BY <1>4, <3>3, <4>2 DEF Guard, Pass, Live
    <3> QED
      BY <3>2, <3>3
  <2>3. Thread[c] # NoThread /\ Kind[c] = "node" /\ Known(c) => Thread[c] \in intents
    BY <1>4 DEF Guard, Guarded
  <2>4. Known(c)' <=> Known(c)
    BY <2>1 DEF Known
  <2> QED
    BY <1>4, <2>1, <2>2, <2>3, <2>4 DEF Guard, Guarded
<1>5. CASE Redact(c)
  <2>1. /\ at'[c] = "inspect" /\ UNCHANGED <<carried, briefed, intents>>
        /\ IsTerminal(decision[c]) => IsTerminal(decision'[c])
        /\ decision[c].triggered_by \subseteq decision'[c].triggered_by
    BY <1>5, FireTerminal, FireNames DEF Redact, Pass, Goto, TypeOK, Interventions
  <2> QED
    BY <1>5, <2>1 DEF Redact, Guarded, Known
<1>6. CASE InspectDecided(c) \/ Act(c) \/ Raised(c)
  <2>1. /\ at[c] \in Late /\ at'[c] \in Late
        /\ decision'[c] = decision[c] /\ carried'[c] = carried[c] /\ briefed' = briefed
    BY <1>6 DEF InspectDecided, Inspect, Goto, Act, Raised, TypeOK
  <2> QED
    BY <2>1, <1>0 DEF Guarded, Known, IsTerminal
<1>7. CASE Return(c)
  BY <1>7 DEF Return, Goto, Guarded, TypeOK
<1>8. CASE Load(c) \/ Allowlist(c) \/ Limit(c) \/ Protect(c)
  <2>1. Kind[c] # "node" /\ at'[c] # "idle" /\ UNCHANGED <<briefed, intents>>
    BY <1>8 DEF Load, Allowlist, Limit, Protect, Goto, Route, TypeOK
  <2> QED
    BY <1>8, <2>1 DEF Guarded, Load, Allowlist, Limit, Protect
<1> QED
  BY <1>1, <1>2, <1>3, <1>4, <1>5, <1>6, <1>7, <1>8 DEF CallStep

\* What fires for a call is named in its verdict, and stays named.
LEMMA NamedStep ==
    ASSUME TypeOK, NEW c \in Calls, Explained(decision[c]), Route(c), Named(c), CallStep(c)
    PROVE  Named(c)'
<1> USE DEF Late
<1>1. CASE Start(c) \/ Load(c) \/ Observe(c)
  <2>1. /\ decision' = decision /\ at[c] \in {"idle", "load", "observe"}
        /\ at'[c] \in {"load", "observe", "gate", "protect"}
    BY <1>1, PipelineAssumption DEF Start, Load, Observe, Inspect, Goto, TypeOK, Kinds
  <2> QED
    BY <2>1 DEF Named
<1>2. CASE Gate(c)
  <2>1. at'[c] \in {"guard", "allowlist"}
    BY <1>2 DEF Gate, Goto, TypeOK
  <2>2. decision'[c].triggered_by \subseteq {"circuit_breaker"}
    BY <1>2, FireNames DEF Gate, Pass, Named, Interventions
  <2> QED
    BY <2>1, <2>2 DEF Named
<1>3. CASE Guard(c)
  <2>1. at'[c] = "redact" /\ Kind[c] = "node"
    BY <1>3 DEF Guard, Goto, Route, TypeOK
  <2> QED
    BY <2>1 DEF Named
<1>4. CASE Redact(c)
  <2>1. at'[c] = "inspect" /\ Kind[c] = "node" /\ carried'[c] = carried[c]
    BY <1>4 DEF Redact, Goto, Route, TypeOK
  <2>2. CASE Live(c) /\ "pii" \in carried[c]
    BY <1>4, <2>1, <2>2, FireNames DEF Redact, Named, Interventions
  <2>3. CASE ~Live(c) \/ "pii" \notin carried[c]
    BY <1>4, <2>1, <2>3 DEF Redact, Pass, Live, Named, IsTerminal
  <2> QED
    BY <2>2, <2>3
<1>5. CASE Allowlist(c)
  <2>1. /\ at'[c] = "limit" /\ Kind[c] = "tool" /\ carried'[c] = carried[c]
        /\ decision[c] \in Decision /\ decision[c].triggered_by \subseteq {"circuit_breaker"}
    BY <1>5 DEF Allowlist, Goto, Route, Named, TypeOK
  <2>2. CASE Live(c) /\ carried[c] # {}
    BY <1>5, <2>1, <2>2, FireNames DEF Allowlist, Named, Interventions
  <2>3. CASE ~Live(c)
    <3>1. "circuit_breaker" \in decision[c].triggered_by
      BY <2>1, <2>3, BlockNamed DEF Live
    <3> QED
      BY <1>5, <2>1, <2>3, <3>1 DEF Allowlist, Pass, Named
  <2>4. CASE carried[c] = {}
    BY <2>1, <2>4 DEF Named
  <2> QED
    BY <2>2, <2>3, <2>4
<1>6. CASE Limit(c)
  <2>1. at[c] = "limit" /\ at'[c] = "inspect" /\ Kind[c] = "tool" /\ carried'[c] = carried[c]
    BY <1>6 DEF Limit, Goto, Route, TypeOK
  <2>2. decision[c].triggered_by \subseteq decision'[c].triggered_by
    BY <1>6, FireNames DEF Limit, Pass, Interventions
  <2>3. Live(c)' /\ ~paid'[c] => "rate_limit" \in decision'[c].triggered_by
    <3>1. CASE ~Live(c) /\ Pass
      BY <3>1 DEF Live, Pass, IsTerminal
    <3>2. CASE Live(c) /\ Pass /\ paid' = [paid EXCEPT ![c] = TRUE]
      BY <3>2 DEF TypeOK
    <3>3. CASE Fire(c, "rate_limit")
      BY <3>3, FireNames DEF Interventions
    <3> QED
      BY <1>6, <3>1, <3>2, <3>3 DEF Limit
  <2> QED
    BY <2>1, <2>2, <2>3 DEF Named
<1>7. CASE Protect(c)
  <2>1. at'[c] = "inspect" /\ Kind[c] \in {"put", "get"} /\ carried'[c] = carried[c]
    BY <1>7 DEF Protect, Goto, Route, TypeOK
  <2>2. carried[c] # {} => "checkpoint_protector" \in decision'[c].triggered_by
    BY <1>7, FireNames DEF Protect, Interventions
  <2> QED
    BY <2>1, <2>2 DEF Named
<1>8. CASE InspectDecided(c) \/ Act(c) \/ Raised(c)
  <2>1. /\ at[c] \in Late /\ at'[c] \in Late
        /\ UNCHANGED <<decision, carried, paid>>
    BY <1>8 DEF InspectDecided, Inspect, Goto, Act, Raised, TypeOK
  <2> QED
    BY <2>1 DEF Named, Live, IsTerminal
<1>9. CASE Return(c)
  <2>1. at'[c] = "idle" /\ decision'[c] = NoDecision
    BY <1>9 DEF Return, Goto, TypeOK
  <2> QED
    BY <2>1 DEF Named, NoDecision
<1> QED
  BY <1>1, <1>2, <1>3, <1>4, <1>5, <1>6, <1>7, <1>8, <1>9 DEF CallStep

-----------------------------------------------------------------------------
(* The theorems.                                                           *)

\* The invariant holds initially and every step keeps it.
LEMMA Invariant == Spec => []IInv
<1>1. Init => IInv
  <2> SUFFICES ASSUME Init
               PROVE  IInv
    OBVIOUS
  <2>1. NoDecision \in Decision /\ Explained(NoDecision)
    BY RankTable DEF NoDecision, Decision, Actions, Explained
  <2>2. TypeOK
    BY <2>1, PipelineAssumption DEF Init, TypeOK, Points, Fates
  <2>3. ASSUME NEW c \in Calls
        PROVE  CallInv(c)
    BY <2>1 DEF Init, CallInv, Route, Enforced, Paid, Scrubbed, Guarded, Named, Late, NoDecision
  <2> QED
    BY <2>2, <2>3 DEF IInv
<1>2. IInv /\ [Next]_vars => IInv'
  <2> SUFFICES ASSUME IInv, [Next]_vars
               PROVE  IInv'
    OBVIOUS
  <2>1. ASSUME NEW c \in Calls, CallStep(c)
        PROVE  IInv'
    <3>1. TypeOK' /\ Local(c)
      BY <2>1, CallStepType DEF IInv
    <3>2. CallInv(c)'
      <4>1. CallInv(c) /\ TypeOK
        BY <2>1 DEF IInv
      <4>2. Explained(decision'[c])
        BY <2>1, <4>1, ExplainedStep DEF CallInv
      <4>3. Route(c)' /\ Enforced(c)' /\ Paid(c)' /\ Scrubbed(c)'
        BY <2>1, <4>1, RouteStep, EnforcedStep, PaidStep, ScrubbedStep DEF CallInv
      <4>4. Guarded(c)' /\ Named(c)'
        BY <2>1, <4>1, GuardedStep, NamedStep DEF CallInv
      <4> QED
        BY <4>2, <4>3, <4>4 DEF CallInv, Explained
    <3>3. ASSUME NEW x \in Calls \ {c}
          PROVE  CallInv(x)'
      BY <2>1, <3>1, Others DEF IInv
    <3> QED
      BY <3>1, <3>2, <3>3 DEF IInv
  <2>2. ASSUME Refill \/ CooldownEnds \/ UNCHANGED vars
        PROVE  IInv'
    <3>1. /\ UNCHANGED <<at, carried, decision, paid, fate, intents, briefed>>
          /\ tokens' \in 0 .. Capacity
          /\ quiet' \subseteq AlertOn
      BY <2>2, PipelineAssumption DEF Refill, CooldownEnds, vars, callVars, IInv, TypeOK
    <3>2. TypeOK'
      BY <3>1 DEF IInv, TypeOK
    <3>3. ASSUME NEW c \in Calls
          PROVE  CallInv(c)'
      <4>1. CallInv(c)
        BY DEF IInv
      <4> QED
        BY <3>1, <4>1 DEF CallInv, Explained, Route, Enforced, Paid, Scrubbed, Guarded,
           Known, Named, Live, Runs, IsTerminal, Late
    <3> QED
      BY <3>2, <3>3 DEF IInv
  <2> QED
    BY <2>1, <2>2 DEF Next
<1> QED
  BY <1>1, <1>2, PTL DEF Spec

\* Types: in particular the bucket the calls share never goes below zero.
THEOREM TypeCorrect == Spec => []TypeOK
<1>1. IInv => TypeOK
  BY DEF IInv
<1> QED
  BY <1>1, Invariant, PTL

\* Every LensDecision is the strictest action of the interventions it names, and
\* names all that fired.
THEOREM VerdictsExplained == Spec => []VerdictComplete
<1>1. IInv => VerdictComplete
  <2> SUFFICES ASSUME IInv, NEW c \in Calls, at[c] \in Late,
                      "circuit_breaker" \notin decision[c].triggered_by, NEW i \in Due(c)
               PROVE  i \in decision[c].triggered_by
    BY DEF IInv, CallInv, VerdictComplete, Late
  <2>1. Route(c) /\ Guarded(c) /\ Named(c) /\ Kind[c] \in Kinds
    BY PipelineAssumption DEF IInv, CallInv
  <2>2. CASE i = "goal_guard" /\ c \in briefed /\ "drift" \in carried[c]
    <3>1. Kind[c] = "node"
      BY <2>1, <2>2 DEF Route, Carries, Kinds
    <3>2. Thread[c] # NoThread
      BY <2>1, <2>2 DEF Guarded, IInv, TypeOK, Threads
    <3> QED
      BY <2>1, <2>2, <3>1, <3>2 DEF Guarded, Known
  <2>3. CASE i = "pii_redactor" /\ Live(c) /\ "pii" \in carried[c]
    <3>1. Kind[c] = "node"
      BY <2>1, <2>3 DEF Route, Carries, Kinds
    <3> QED
      BY <2>1, <2>3, <3>1 DEF Named
  <2>4. CASE i \in {"tool_allowlist", "rate_limit", "checkpoint_protector"}
    BY <2>1, <2>4 DEF Named, Due
  <2> QED
    BY <2>2, <2>3, <2>4 DEF Due
<1> QED
  BY <1>1, Invariant, PTL

\* wrap_node and the put wrappers enforce every terminal decision, and the get
\* wrappers withhold what they have loaded, also when an alert raises between
\* the verdict and its enforcement.
THEOREM BlocksAreEnforced == Spec => []BlocksEnforced
<1>1. IInv => BlocksEnforced
  <2> SUFFICES ASSUME IInv, NEW c \in Calls, IsTerminal(decision[c])
               PROVE  /\ Kind[c] # "tool" => ~Ran(c)
                      /\ Kind[c] = "get" => Invoked(c)
    BY PipelineAssumption DEF BlocksEnforced, Invoked, Kinds
  <2>1. Explained(decision[c]) /\ Enforced(c) /\ Named(c)
    BY DEF IInv, CallInv
  <2>2. decision[c].triggered_by # {}
    BY <2>1 DEF Explained, IsTerminal
  <2> QED
    BY <2>1, <2>2 DEF Enforced, Named, Ran, Invoked
<1> QED
  BY <1>1, Invariant, PTL

\* decide_tool_call takes a token exactly for the calls nothing stops.
THEOREM RefusedCallsPayNothing == Spec => []PaidIffAllowed
<1>1. IInv => PaidIffAllowed
  BY DEF IInv, CallInv, Paid, PaidIffAllowed, Late
<1> QED
  BY <1>1, Invariant, PTL

\* No node runs on personal data the redactor finds.
THEOREM NodesSeeScrubbedState == Spec => []ScrubbedBeforeNode
<1>1. IInv => ScrubbedBeforeNode
  <2> SUFFICES ASSUME IInv, Mode["pii_redactor"] = "redact",
                      NEW c \in Calls, "pii" \in carried[c], fate[c] = "raw"
               PROVE  FALSE
    BY DEF ScrubbedBeforeNode
  <2>1. Route(c) /\ Enforced(c) /\ Scrubbed(c)
    BY DEF IInv, CallInv
  <2>2. Kind[c] \in Kinds
    BY PipelineAssumption
  <2>3. Kind[c] = "node"
    BY <2>1, <2>2 DEF Route, Carries, Kinds
  <2>4. at[c] = "done"
    BY <2>1 DEF Route
  <2> QED
    BY <2>1, <2>3, <2>4 DEF Enforced, Scrubbed, Runs, Late
<1> QED
  BY <1>1, Invariant, PTL

\* In block mode no node runs on a state that drifts from an intent the lens knew
\* when the node began, or saw it bring.
THEOREM KnownDriftIsBlocked == Spec => []DriftBlocked
<1>1. IInv => DriftBlocked
  <2> SUFFICES ASSUME IInv, Mode["goal_guard"] = "block", NEW c \in Calls, Ran(c),
                      Thread[c] # NoThread, "drift" \in carried[c], Known(c)
               PROVE  FALSE
    BY DEF DriftBlocked, Known
  <2>1. Route(c) /\ Enforced(c) /\ Guarded(c)
    BY DEF IInv, CallInv
  <2>2. Kind[c] = "node"
    <3>1. Kind[c] \in Kinds
      BY PipelineAssumption
    <3> QED
      BY <2>1, <3>1 DEF Route, Carries, Kinds
  <2>3. at[c] = "done"
    BY <2>1 DEF Route, Ran
  <2> QED
    BY <2>1, <2>2, <2>3 DEF Enforced, Guarded, Ran, Late
<1> QED
  BY <1>1, Invariant, PTL
=============================================================================

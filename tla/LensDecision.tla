---------------------------- MODULE LensDecision ----------------------------
(***************************************************************************)
(* interventions/decisions.py: LensDecision and how merge combines two.    *)
(* A decision is its action, the interventions that triggered it (as a     *)
(* set: the order and the rule names are wording) and whether it carries a *)
(* modified_state.  merge may hand back either object it was given; only   *)
(* its value is used afterwards.                                           *)
(***************************************************************************)
EXTENDS Naturals

CONSTANT Interventions   \* what may appear in triggered_by

Actions == {"allow", "redact", "throttle", "block"}

Decision == [action : Actions, triggered_by : SUBSET Interventions, modified : BOOLEAN]

\* LensDecision(): nothing fired.
NoDecision == [action |-> "allow", triggered_by |-> {}, modified |-> FALSE]

IsTerminal(d) == d.action = "block"

rank == [a \in Actions |-> CASE a = "allow" -> 0 [] a = "redact" -> 1
                             [] a = "throttle" -> 2 [] a = "block" -> 3]

\* Regression: the comparison of ranks turned round.
Winner_Weaker(d, e) ==
    IF IsTerminal(d) \/ (~IsTerminal(e) /\ rank[d.action] <= rank[e.action]) THEN d ELSE e

\* The decision merge hands back: the first terminal one, or the stricter.
Winner(d, e) ==
    IF IsTerminal(d) \/ (~IsTerminal(e) /\ rank[d.action] >= rank[e.action]) THEN d ELSE e

\* Regression: the reasons of the decision that lost are dropped.
Merge_WinnersReasons(d, e) ==
    [Winner(d, e) EXCEPT !.modified = d.modified \/ (~IsTerminal(d) /\ e.modified)]

\* merge: the reasons of both, and the state either has rewritten, unless self
\* was terminal already.
Merge(d, e) ==
    [Winner(d, e) EXCEPT
        !.triggered_by = d.triggered_by \cup e.triggered_by,
        !.modified = d.modified \/ (~IsTerminal(d) /\ e.modified)]
=============================================================================

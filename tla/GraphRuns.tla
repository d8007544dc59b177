----------------------------- MODULE GraphRuns -----------------------------
(***************************************************************************)
(* Runs of a graph with several guarded steps in front of one breaker.     *)
(* wrap_node calls decide_node for each node it wraps and on_tool_start    *)
(* calls decide_tool_call for each tool, and every one of them asks the    *)
(* breaker; record_upstream_result is called once, "after                  *)
(* graph.invoke(...)" (lens.py:562).  In CircuitBreaker a request asks     *)
(* once and reports once; here a run asks Gates times.                     *)
(***************************************************************************)
EXTENDS CircuitBreaker

CONSTANT Gates     \* at least 1: wrapped nodes and guarded tools on the way through the graph

VARIABLE left      \* guarded steps each run has before it

runVars == <<vars, left>>

RunInit == Init /\ left = [r \in Requests |-> 0]

\* graph.invoke: the run reaches its first guarded step.
Invoke(r) ==
    /\ EvaluateRequest(r)
    /\ left' = [left EXCEPT ![r] = Gates - 1]

\* The run reaches its next guarded step.  A refusal there is a
\* LensBlockedError, which ends the run.
NextStep(r) ==
    /\ phase[r] = "running"
    /\ left[r] > 0
    /\ AdmitClosed(r) \/ AdmitProbe(r) \/ Refuse(r)
    /\ left' = [left EXCEPT ![r] = @ - 1]

\* graph.invoke has returned, or a node has raised; the caller reports it.
Report(r, error) ==
    /\ left[r] = 0 \/ error
    /\ RecordResponse(r, error)
    /\ UNCHANGED left

RunNext ==
    \/ \E r \in Requests :
        \/ Invoke(r)
        \/ NextStep(r)
        \/ \E error \in BOOLEAN : Report(r, error)
        \/ GiveUp(r) /\ UNCHANGED left
    \/ UpstreamHeals /\ UNCHANGED left
    \/ Tick /\ UNCHANGED left

\* Time passes, runs are started, go on and are reported; a refused caller
\* comes back.
RunFairness ==
    /\ WF_runVars(Tick /\ UNCHANGED left)
    /\ \A r \in Requests :
        /\ WF_runVars(Invoke(r))
        /\ WF_runVars(NextStep(r))
        /\ WF_runVars(phase[r] = "running" /\ \E error \in BOOLEAN : Report(r, error))
        /\ WF_runVars(GiveUp(r) /\ UNCHANGED left)

RunSpec == RunInit /\ [][RunNext]_runVars /\ RunFairness

\* "After cooldown_seconds, the breaker moves to half_open and allows a single
\* probe request through; success closes the breaker" (circuit_breaker.py:16):
\* a breaker that is not closed closes, once the upstream is healthy and
\* whatever is admitted is reported.
RunsHeal == [](healthy => <>(state = "CLOSED"))
=============================================================================

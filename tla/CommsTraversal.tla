--------------------------- MODULE CommsTraversal ---------------------------
(***************************************************************************)
(* The undeclared_edge rule of detectors/comms.py against the traversal of *)
(* a graph: what attach_graph knows of the edges, what the callback, the   *)
(* node wrapper and the model hook tell the detector, and the last node it *)
(* remembers for each thread.                                              *)
(*                                                                         *)
(* The graph and its scheduler are LangGraph's (external): a turn is one   *)
(* invoke on a thread; in a superstep all due nodes run, in any order; the *)
(* moves out of them start the next.  The other rules of the detector      *)
(* judge one state on its own and keep nothing.                            *)
(***************************************************************************)
EXTENDS Naturals

CONSTANTS
    Nodes,
    Threads,
    Start, End,   \* LangGraph's two virtual nodes
    Llm,          \* the pseudo-node "<llm>"
    NoNode,
    Edges,        \* the builder's static edges
    Branches,     \* conditional edges [from, ends, listed]
    Strays,       \* moves outside the graph that nodes may make: goto
    Wrapped,      \* the nodes in wrap_node
    Models,       \* the nodes that call a model
    MaxTurns      \* bound: turns of a thread

Sources == Nodes \cup {Start}
Targets == Nodes \cup {End}

ASSUME GraphAssumption ==
    /\ Edges \subseteq Sources \X Targets
    /\ Branches \subseteq [from : Sources, ends : SUBSET Targets, listed : BOOLEAN]
    /\ Strays \subseteq Nodes \X Nodes
    /\ Wrapped \subseteq Nodes /\ Models \subseteq Nodes
    /\ Strays \cap (Edges \cup UNION {{b.from} \X b.ends : b \in Branches}) = {}
    /\ MaxTurns \in Nat
ASSUME DistinctAssumption ==
    /\ Start \notin Nodes /\ End \notin Nodes /\ Start # End
    /\ Llm \notin Sources /\ NoNode \notin Sources \cup {Llm}

VARIABLES
    attached,   \* whether _declared_edges holds the graph's
    last,       \* [Threads -> _last_node]
    stage,      \* [Threads -> [Nodes -> what the node does in this superstep]]
    moves,      \* [Threads -> the moves this superstep began with]
    turns,      \* [Threads -> turns begun]
    followed,   \* history: the turn of the thread began with the graph attached
    report      \* history: the latest inspection

vars == <<attached, last, stage, moves, turns, followed, report>>

Stages == {"idle", "due", "entered", "running", "done"}
Resting == [n \in Nodes |-> "idle"]

\* An inspection: the rule's verdict, the node remembered before, what led to it
\* (a move, or a second look in the same node), and whether the turn it was made
\* in was not the thread's first, and began with the graph attached.
Report == [alarm : BOOLEAN, after : Nodes \cup {Llm, NoNode},
           by : {"invoke", "declared", "unlisted", "stray", "wrapper", "model"},
           again : BOOLEAN, followed : BOOLEAN]
NoReport == [alarm |-> FALSE, after |-> NoNode, by |-> "invoke", again |-> FALSE,
             followed |-> FALSE]

\* With the types: nothing is remembered before a graph is attached.
TypeOK ==
    /\ attached \in BOOLEAN
    /\ last \in [Threads -> Nodes \cup {Llm, NoNode}]
    /\ ~attached => \A t \in Threads : last[t] = NoNode
    /\ stage \in [Threads -> [Nodes -> Stages]]
    /\ moves \in [Threads -> SUBSET (Sources \X Nodes)]
    /\ turns \in [Threads -> 0 .. MaxTurns]
    /\ followed \in [Threads -> BOOLEAN]
    /\ report \in Report

Init ==
    /\ attached = FALSE
    /\ last = [t \in Threads |-> NoNode]
    /\ stage = [t \in Threads |-> Resting]
    /\ moves = [t \in Threads |-> {}]
    /\ turns = [t \in Threads |-> 0]
    /\ followed = [t \in Threads |-> FALSE]
    /\ report = NoReport

-----------------------------------------------------------------------------
(* The declared edges, and the rule.                                       *)

\* Regression: the branches whose ends are a mapping are left out.
Declared_StaticOnly == Edges

\* extract_topology: static edges, and the branches that list their ends.
Declared == Edges \cup UNION {{b.from} \X b.ends : b \in {c \in Branches : c.listed}}

\* The edges the graph has and extract_topology cannot know.
Unlisted == UNION {{b.from} \X b.ends : b \in {c \in Branches : ~c.listed}}

\* attach_graph: a graph without edges leaves what was attached.
Attach ==
    /\ Declared # {}
    /\ attached' = TRUE
    /\ UNCHANGED <<last, stage, moves, turns, followed, report>>

\* Regression: the target of an edge is enough.
Undeclared_AnySource(t, n) ==
    attached /\ last[t] # NoNode /\ \A e \in Declared : e[2] # n

Undeclared(t, n) == attached /\ last[t] # NoNode /\ <<last[t], n>> \notin Declared

Reported(t, n, by) ==
    report' = [alarm |-> Undeclared(t, n), after |-> last[t], by |-> by,
               again |-> turns[t] > 1, followed |-> followed[t]]

\* Regression: the node is remembered without edges to compare it with.
InspectNode_RemembersAlways(t, n, by) ==
    Reported(t, n, by) /\ last' = [last EXCEPT ![t] = n]

\* inspect_node with comms.scan; without edges scan does not look at nodes.
InspectNode(t, n, by) ==
    /\ Reported(t, n, by)
    /\ last' = IF attached THEN [last EXCEPT ![t] = n] ELSE last

-----------------------------------------------------------------------------
(* A turn of a thread.                                                     *)

\* The moves out of the nodes that are done: every static edge, one end of
\* every branch, and perhaps one move outside the graph.
Move(t, done) ==
    LET taken == {b \in Branches : b.from \in done} IN
    \E pick \in [taken -> Targets], goto \in {{}} \cup {{s} : s \in Strays} :
        /\ \A b \in taken : pick[b] \in b.ends
        /\ \A s \in goto : s[1] \in done
        /\ LET all == {e \in Edges : e[1] \in done} \cup {<<b.from, pick[b]>> : b \in taken} \cup goto
               begun == {m \in all : m[2] # End}
           IN  /\ moves' = [moves EXCEPT ![t] = begun]
               /\ stage' = [stage EXCEPT ![t] =
                     [n \in Nodes |-> IF \E m \in begun : m[2] = n THEN "due" ELSE "idle"]]

\* graph.invoke on a thread.
Invoke(t) ==
    /\ stage[t] = Resting
    /\ turns[t] < MaxTurns
    /\ turns' = [turns EXCEPT ![t] = @ + 1]
    /\ followed' = [followed EXCEPT ![t] = attached]
    /\ Move(t, {Start})
    /\ UNCHANGED <<attached, last, report>>

\* What led a thread to a node: of several moves, the one the graph knows best.
LedBy(t, n) ==
    LET led == {m \in moves[t] : m[2] = n}
    IN  IF \E m \in led : m[1] = Start THEN "invoke"
        ELSE IF led \subseteq Strays THEN "stray"
        ELSE IF led \subseteq Strays \cup Unlisted THEN "unlisted"
        ELSE "declared"

\* on_chain_start of a node.
OnChainStart(t, n) ==
    /\ stage[t][n] = "due"
    /\ InspectNode(t, n, LedBy(t, n))
    /\ stage' = [stage EXCEPT ![t][n] = IF n \in Wrapped THEN "entered" ELSE "running"]
    /\ UNCHANGED <<attached, moves, turns, followed>>

\* The wrapper of the node: decide_node inspects it again.
WrappedNode(t, n) ==
    /\ stage[t][n] = "entered"
    /\ InspectNode(t, n, "wrapper")
    /\ stage' = [stage EXCEPT ![t][n] = "running"]
    /\ UNCHANGED <<attached, moves, turns, followed>>

\* on_llm_start, in the node.
OnLlmStart(t, n) ==
    /\ stage[t][n] = "running" /\ n \in Models
    /\ InspectNode(t, Llm, "model")
    /\ UNCHANGED <<attached, stage, moves, turns, followed>>

Finish(t, n) ==
    /\ stage[t][n] = "running"
    /\ stage' = [stage EXCEPT ![t][n] = "done"]
    /\ UNCHANGED <<attached, last, moves, turns, followed, report>>

\* The node raises, or its wrapper did: the turn is over.
Fail(t, n) ==
    /\ stage[t][n] = "running"
    /\ stage' = [stage EXCEPT ![t] = Resting]
    /\ moves' = [moves EXCEPT ![t] = {}]
    /\ UNCHANGED <<attached, last, turns, followed, report>>

\* The superstep is over; without a move, so is the turn.
Advance(t) ==
    LET done == {n \in Nodes : stage[t][n] = "done"} IN
    /\ done # {}
    /\ \A n \in Nodes : stage[t][n] \in {"idle", "done"}
    /\ Move(t, done)
    /\ UNCHANGED <<attached, last, turns, followed, report>>

NodeStep(t, n) ==
    OnChainStart(t, n) \/ WrappedNode(t, n) \/ OnLlmStart(t, n) \/ Finish(t, n) \/ Fail(t, n)

Next ==
    \/ Attach
    \/ \E t \in Threads : Invoke(t) \/ Advance(t) \/ (\E n \in Nodes : NodeStep(t, n))

Spec == Init /\ [][Next]_vars

-----------------------------------------------------------------------------
(* Properties.                                                             *)

\* "edges traversed that aren't in the declared topology" (README.md:137) are
\* flagged.  The false alarms there are besides, in a graph whose supersteps have
\* one node: the second look of a wrapped node, a model call and what follows it,
\* a branch that does not list its ends, and the first node of a later turn.
FalseAlarmsExplained ==
    report.alarm =>
        \/ report.by \in {"stray", "unlisted", "wrapper", "model"}
        \/ report.by = "invoke" /\ report.again
        \/ report.after = Llm

\* The rule fires "when traversal leaves the declared topology"
\* (tests/integrations/test_topology.py:56-57): every move outside the graph is
\* flagged, if the graph was attached before the turn began.
StraysAlarm == report.by = "stray" /\ report.followed => report.alarm
=============================================================================

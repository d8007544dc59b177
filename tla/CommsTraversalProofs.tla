------------------------ MODULE CommsTraversalProofs ------------------------
(***************************************************************************)
(* Theorems about CommsTraversal: its type, for any graph; and for any     *)
(* graph whose supersteps have one node, that moves outside the graph are  *)
(* flagged, and which other inspections are.                               *)
(***************************************************************************)
EXTENDS CommsTraversal, TLAPS

\* Every node has one way out: an edge, a branch, or gotos of its own.
Sequential ==
    /\ \A e, f \in Edges : e[1] = f[1] => e = f
    /\ \A b, c \in Branches : b.from = c.from => b = c
    /\ \A e \in Edges, b \in Branches : e[1] # b.from
    /\ \A s \in Strays : /\ \A e \in Edges : e[1] # s[1]
                         /\ \A b \in Branches : b.from # s[1]

Begun == {"entered", "running", "done"}

\* What a thread's turn is like: one node is at work, led there by one move, and
\* the detector remembers that move's source, or the node, or a model call; or
\* nothing, if the graph was not attached when the turn began.
OneNode(t) ==
    /\ \A n, k \in Nodes : stage[t][n] # "idle" /\ stage[t][k] # "idle" => n = k
    /\ \A m, k \in moves[t] : m = k
    /\ moves[t] \subseteq Declared \cup Unlisted \cup Strays
    /\ \A n \in Nodes : stage[t][n] = "due" => \E m \in moves[t] : m[2] = n
Remembered(t) ==
    /\ turns[t] = 0 => last[t] = NoNode /\ \A n \in Nodes : stage[t][n] = "idle"
    /\ followed[t] => attached
    /\ \A n \in Nodes, m \in moves[t] : stage[t][n] = "due" =>
          IF m[1] = Start THEN turns[t] = 1 => last[t] = NoNode
          ELSE last[t] \in {NoNode, Llm, m[1]} /\ (followed[t] => last[t] # NoNode)
    /\ \A n \in Nodes : stage[t][n] \in Begun =>
          last[t] \in {NoNode, Llm, n} /\ (followed[t] => last[t] # NoNode)

TurnOK(t) == OneNode(t) /\ Remembered(t)

IInv ==
    /\ TypeOK
    /\ \A t \in Threads : TurnOK(t)
    /\ FalseAlarmsExplained /\ StraysAlarm

-----------------------------------------------------------------------------
(* The type.                                                               *)

\* Declared edges are edges.
LEMMA DeclaredType == Declared \subseteq Sources \X Targets /\ Unlisted \subseteq Sources \X Targets
    BY GraphAssumption DEF Declared, Unlisted

LEMMA MoveType ==
    ASSUME TypeOK, NEW t \in Threads, NEW done \in SUBSET Sources, Move(t, done)
    PROVE  /\ stage' \in [Threads -> [Nodes -> Stages]]
           /\ moves' \in [Threads -> SUBSET (Sources \X Nodes)]
<1>1. PICK pick \in [{b \in Branches : b.from \in done} -> Targets],
           goto \in {{}} \cup {{s} : s \in Strays} :
        LET all == {e \in Edges : e[1] \in done}
                      \cup {<<b.from, pick[b]>> : b \in {c \in Branches : c.from \in done}} \cup goto
            begun == {m \in all : m[2] # End}
        IN  /\ moves' = [moves EXCEPT ![t] = begun]
            /\ stage' = [stage EXCEPT ![t] =
                  [n \in Nodes |-> IF \E m \in begun : m[2] = n THEN "due" ELSE "idle"]]
    BY DEF Move
<1> DEFINE taken == {b \in Branches : b.from \in done}
           all == {e \in Edges : e[1] \in done} \cup {<<b.from, pick[b]>> : b \in taken} \cup goto
           begun == {m \in all : m[2] # End}
<1>2. all \subseteq Sources \X Targets
  <2>1. goto \subseteq Sources \X Targets
        BY GraphAssumption DEF Sources, Targets
  <2>2. {<<b.from, pick[b]>> : b \in taken} \subseteq Sources \X Targets
        BY GraphAssumption
  <2>3. QED
        BY <2>1, <2>2, GraphAssumption
<1>3. begun \subseteq Sources \X Nodes
    BY <1>2 DEF Targets
<1>4. moves' = [moves EXCEPT ![t] = begun]
    BY <1>1
<1>5. [n \in Nodes |-> IF \E m \in begun : m[2] = n THEN "due" ELSE "idle"] \in [Nodes -> Stages]
    BY DEF Stages
<1>6. stage' = [stage EXCEPT ![t] =
          [n \in Nodes |-> IF \E m \in begun : m[2] = n THEN "due" ELSE "idle"]]
    BY <1>1
<1> HIDE DEF begun
<1>7. moves' \in [Threads -> SUBSET (Sources \X Nodes)]
    BY <1>3, <1>4 DEF TypeOK
<1>8. stage' \in [Threads -> [Nodes -> Stages]]
    BY <1>5, <1>6 DEF TypeOK
<1>9. QED
    BY <1>7, <1>8

\* An inspection is a report, and remembers a node only if a graph is attached.
LEMMA InspectType ==
    ASSUME TypeOK, NEW t \in Threads, NEW n \in Nodes \cup {Llm},
           NEW by \in {"invoke", "declared", "unlisted", "stray", "wrapper", "model"},
           InspectNode(t, n, by)
    PROVE  /\ report' \in Report
           /\ last' \in [Threads -> Nodes \cup {Llm, NoNode}]
           /\ ~attached => \A u \in Threads : last'[u] = NoNode
<1>1. Undeclared(t, n) \in BOOLEAN /\ (turns[t] > 1) \in BOOLEAN /\ followed[t] \in BOOLEAN
      /\ last[t] \in Nodes \cup {Llm, NoNode}
    BY DEF Undeclared, TypeOK
<1>2. report' = [alarm |-> Undeclared(t, n), after |-> last[t], by |-> by,
                 again |-> turns[t] > 1, followed |-> followed[t]]
    BY DEF InspectNode, Reported
<1>3. report' \in Report
    BY <1>1, <1>2, Zenon DEF Report
<1>4. QED
    BY <1>3 DEF InspectNode, TypeOK

LEMMA TypeStep ==
    ASSUME TypeOK, Next
    PROVE  TypeOK'
<1>1. CASE Attach
    BY <1>1 DEF Attach, TypeOK
<1>2. ASSUME NEW t \in Threads, Invoke(t)
      PROVE  TypeOK'
  <2>1. /\ stage' \in [Threads -> [Nodes -> Stages]]
        /\ moves' \in [Threads -> SUBSET (Sources \X Nodes)]
        BY <1>2, MoveType DEF Invoke, Sources
  <2>2. turns' \in [Threads -> 0 .. MaxTurns]
        BY <1>2, GraphAssumption DEF Invoke, TypeOK
  <2>3. followed' \in [Threads -> BOOLEAN]
        BY <1>2 DEF Invoke, TypeOK
  <2>4. QED
        BY <1>2, <2>1, <2>2, <2>3 DEF Invoke, TypeOK
<1>3. ASSUME NEW t \in Threads, Advance(t)
      PROVE  TypeOK'
  <2>1. {n \in Nodes : stage[t][n] = "done"} \in SUBSET Sources
        BY DEF Sources
  <2>2. /\ stage' \in [Threads -> [Nodes -> Stages]]
        /\ moves' \in [Threads -> SUBSET (Sources \X Nodes)]
        BY <1>3, <2>1, MoveType DEF Advance
  <2>3. QED
        BY <1>3, <2>2 DEF Advance, TypeOK
<1>4. ASSUME NEW t \in Threads, NEW n \in Nodes, NodeStep(t, n)
      PROVE  TypeOK'
  <2>1. CASE OnChainStart(t, n)
    <3>1. LedBy(t, n) \in {"invoke", "declared", "unlisted", "stray", "wrapper", "model"}
          BY DEF LedBy
    <3>2. /\ report' \in Report /\ last' \in [Threads -> Nodes \cup {Llm, NoNode}]
          /\ ~attached => \A u \in Threads : last'[u] = NoNode
          BY <2>1, <3>1, InspectType DEF OnChainStart
    <3>3. stage' \in [Threads -> [Nodes -> Stages]]
          BY <2>1 DEF OnChainStart, TypeOK, Stages
    <3>4. QED
          BY <2>1, <3>2, <3>3 DEF OnChainStart, TypeOK
  <2>2. CASE WrappedNode(t, n)
    <3>1. /\ report' \in Report /\ last' \in [Threads -> Nodes \cup {Llm, NoNode}]
          /\ ~attached => \A u \in Threads : last'[u] = NoNode
          BY <2>2, InspectType DEF WrappedNode
    <3>2. stage' \in [Threads -> [Nodes -> Stages]]
          BY <2>2 DEF WrappedNode, TypeOK, Stages
    <3>3. QED
          BY <2>2, <3>1, <3>2 DEF WrappedNode, TypeOK
  <2>3. CASE OnLlmStart(t, n)
    <3>1. /\ report' \in Report /\ last' \in [Threads -> Nodes \cup {Llm, NoNode}]
          /\ ~attached => \A u \in Threads : last'[u] = NoNode
          BY <2>3, InspectType DEF OnLlmStart
    <3>2. QED
          BY <2>3, <3>1 DEF OnLlmStart, TypeOK
  <2>4. CASE Finish(t, n)
        BY <2>4 DEF Finish, TypeOK, Stages
  <2>5. CASE Fail(t, n)
    <3>1. Resting \in [Nodes -> Stages]
          BY DEF Resting, Stages
    <3>2. QED
          BY <2>5, <3>1 DEF Fail, TypeOK
  <2>6. QED
        BY <1>4, <2>1, <2>2, <2>3, <2>4, <2>5 DEF NodeStep
<1>5. QED
    BY <1>1, <1>2, <1>3, <1>4 DEF Next

LEMMA InitType == Init => TypeOK
<1>1. Resting \in [Nodes -> Stages]
    BY DEF Resting, Stages
<1>2. NoReport \in Report
    BY DEF NoReport, Report
<1>3. 0 \in 0 .. MaxTurns
    BY GraphAssumption
<1>4. QED
    BY <1>1, <1>2, <1>3 DEF Init, TypeOK

\* Nothing is remembered before a graph is attached, whatever the graph.
THEOREM TypeCorrect == Spec => []TypeOK
<1>1. TypeOK /\ [Next]_vars => TypeOK'
  <2>1. CASE UNCHANGED vars
        BY <2>1 DEF vars, TypeOK
  <2>2. QED
        BY <2>1, TypeStep
<1>2. QED
    BY <1>1, InitType, PTL DEF Spec

-----------------------------------------------------------------------------
(* Moves of a sequential graph.                                            *)

\* Out of one source a sequential graph makes at most one move.
LEMMA OneMove ==
    ASSUME TypeOK, Sequential, NEW t \in Threads, NEW s \in Sources, Move(t, {s})
    PROVE  /\ \A m, k \in moves'[t] : m = k
           /\ \A m \in moves'[t] : m[1] = s
           /\ moves'[t] \subseteq Declared \cup Unlisted \cup Strays
           /\ \A n \in Nodes : stage'[t][n] \in {"idle", "due"}
           /\ \A n \in Nodes : stage'[t][n] = "due" <=> \E m \in moves'[t] : m[2] = n
           /\ \A u \in Threads : u # t => stage'[u] = stage[u] /\ moves'[u] = moves[u]
<1> DEFINE taken == {b \in Branches : b.from \in {s}}
<1>1. PICK pick \in [taken -> Targets], goto \in {{}} \cup {{r} : r \in Strays} :
        /\ \A b \in taken : pick[b] \in b.ends
        /\ \A r \in goto : r[1] \in {s}
        /\ LET all == {e \in Edges : e[1] \in {s}} \cup {<<b.from, pick[b]>> : b \in taken} \cup goto
               begun == {m \in all : m[2] # End}
           IN  /\ moves' = [moves EXCEPT ![t] = begun]
               /\ stage' = [stage EXCEPT ![t] =
                     [n \in Nodes |-> IF \E m \in begun : m[2] = n THEN "due" ELSE "idle"]]
    BY DEF Move
<1> DEFINE all == {e \in Edges : e[1] \in {s}} \cup {<<b.from, pick[b]>> : b \in taken} \cup goto
           begun == {m \in all : m[2] # End}
           due == [n \in Nodes |-> IF \E m \in begun : m[2] = n THEN "due" ELSE "idle"]
<1>2. moves' = [moves EXCEPT ![t] = begun] /\ stage' = [stage EXCEPT ![t] = due]
    BY <1>1
<1>3. \A m, k \in all : m = k
  <2>1. \A m, k \in {e \in Edges : e[1] \in {s}} : m = k
        BY DEF Sequential
  <2>2. \A m, k \in {<<b.from, pick[b]>> : b \in taken} : m = k
        BY DEF Sequential
  <2>3. \A m, k \in goto : m = k
        BY <1>1
  <2>4. \A m \in {e \in Edges : e[1] \in {s}}, k \in {<<b.from, pick[b]>> : b \in taken} : FALSE
        BY DEF Sequential
  <2>5. \A m \in goto : m \in Strays /\ m[1] = s
        BY <1>1
  <2>6. \A m \in goto, k \in {e \in Edges : e[1] \in {s}} : FALSE
        BY <2>5 DEF Sequential
  <2>7. \A m \in goto, k \in {<<b.from, pick[b]>> : b \in taken} : FALSE
        BY <2>5 DEF Sequential
  <2>8. QED
        BY <2>1, <2>2, <2>3, <2>4, <2>6, <2>7
<1>4. \A m \in all : m[1] = s /\ m \in Declared \cup Unlisted \cup Strays
  <2>1. ASSUME NEW m \in Edges, m[1] \in {s}
        PROVE  m[1] = s /\ m \in Declared
        BY <2>1 DEF Declared
  <2>2. ASSUME NEW b \in taken
        PROVE  <<b.from, pick[b]>>[1] = s /\ <<b.from, pick[b]>> \in Declared \cup Unlisted
    <3>1. <<b.from, pick[b]>> \in {b.from} \X b.ends /\ b \in Branches /\ b.from = s
          BY <1>1
    <3>2. CASE b.listed
          BY <3>1, <3>2 DEF Declared
    <3>3. CASE ~b.listed
          BY <3>1, <3>3 DEF Unlisted
    <3>4. QED
          BY <3>1, <3>2, <3>3
  <2>3. ASSUME NEW m \in goto
        PROVE  m[1] = s /\ m \in Strays
        BY <1>1
  <2>4. QED
        BY <2>1, <2>2, <2>3
<1>5. begun \subseteq all
    OBVIOUS
<1>6. \A n \in Nodes : due[n] \in {"idle", "due"} /\ (due[n] = "due" <=> \E m \in begun : m[2] = n)
    OBVIOUS
<1> HIDE DEF all, begun, due
<1>7. moves'[t] = begun /\ stage'[t] = due
    BY <1>2 DEF TypeOK
<1>8. \A u \in Threads : u # t => stage'[u] = stage[u] /\ moves'[u] = moves[u]
    BY <1>2 DEF TypeOK
<1>9. QED
    BY <1>3, <1>4, <1>5, <1>6, <1>7, <1>8

\* Moves of a thread are its own.
LEMMA MoveFrame ==
    ASSUME TypeOK, NEW t \in Threads, NEW done, Move(t, done), NEW u \in Threads, u # t
    PROVE  stage'[u] = stage[u] /\ moves'[u] = moves[u]
<1>1. (\E begun : moves' = [moves EXCEPT ![t] = begun]) /\ (\E due : stage' = [stage EXCEPT ![t] = due])
    BY Zenon DEF Move
<1>2. QED
    BY <1>1 DEF TypeOK

\* A thread whose state a step leaves alone stays as it should be.
LEMMA OtherThread ==
    ASSUME NEW u \in Threads, TurnOK(u), attached => attached',
           stage'[u] = stage[u], moves'[u] = moves[u], last'[u] = last[u],
           turns'[u] = turns[u], followed'[u] = followed[u]
    PROVE  TurnOK(u)'
    BY DEF TurnOK, OneNode, Remembered

\* A thread begins a turn.
LEMMA InvokeStep ==
    ASSUME IInv, Sequential, NEW t \in Threads, Invoke(t)
    PROVE  TurnOK(t)'
<1>1. TypeOK /\ TurnOK(t)
    BY DEF IInv
<1>2. /\ \A m, k \in moves'[t] : m = k
      /\ \A m \in moves'[t] : m[1] = Start
      /\ moves'[t] \subseteq Declared \cup Unlisted \cup Strays
      /\ \A n \in Nodes : stage'[t][n] \in {"idle", "due"}
      /\ \A n \in Nodes : stage'[t][n] = "due" <=> \E m \in moves'[t] : m[2] = n
    BY <1>1, OneMove DEF Invoke, Sources
<1>3. OneNode(t)'
  <2>1. \A n, k \in Nodes : stage'[t][n] # "idle" /\ stage'[t][k] # "idle" => n = k
        BY <1>2
  <2>2. QED
        BY <1>2, <2>1, Zenon DEF OneNode, Declared, Unlisted
<1>4. turns[t] \in Nat /\ turns'[t] = turns[t] + 1 /\ last' = last
    BY <1>1, GraphAssumption DEF Invoke, TypeOK
<1>5. followed'[t] = attached /\ attached' = attached
    BY <1>1 DEF Invoke, TypeOK
<1>6. turns'[t] = 1 => last'[t] = NoNode
    BY <1>1, <1>4 DEF TurnOK, Remembered
<1>7. turns'[t] # 0
    BY <1>4
<1>8. \A n \in Nodes : stage'[t][n] \notin Begun
    BY <1>2 DEF Begun
<1>9. Remembered(t)'
  <2>1. ASSUME NEW n \in Nodes, NEW m \in moves'[t]
        PROVE  IF m[1] = Start THEN turns'[t] = 1 => last'[t] = NoNode
               ELSE last'[t] \in {NoNode, Llm, m[1]} /\ (followed'[t] => last'[t] # NoNode)
        BY <1>2, <1>6
  <2>2. followed'[t] => attached'
        BY <1>5
  <2>3. QED
        BY <1>7, <1>8, <2>1, <2>2 DEF Remembered
<1>10. QED
    BY <1>3, <1>9 DEF TurnOK

\* A superstep begins out of the node that is done.
LEMMA AdvanceStep ==
    ASSUME IInv, Sequential, NEW t \in Threads, Advance(t)
    PROVE  TurnOK(t)'
<1>1. TypeOK /\ TurnOK(t)
    BY DEF IInv
<1>2. PICK k \in Nodes : stage[t][k] = "done"
    BY DEF Advance
<1>3. {n \in Nodes : stage[t][n] = "done"} = {k}
    BY <1>1, <1>2 DEF TurnOK, OneNode
<1>4. /\ \A m, j \in moves'[t] : m = j
      /\ \A m \in moves'[t] : m[1] = k
      /\ moves'[t] \subseteq Declared \cup Unlisted \cup Strays
      /\ \A n \in Nodes : stage'[t][n] \in {"idle", "due"}
      /\ \A n \in Nodes : stage'[t][n] = "due" <=> \E m \in moves'[t] : m[2] = n
  <2>1. Move(t, {k}) /\ k \in Sources
        BY <1>3 DEF Advance, Sources
  <2>2. QED
        BY <1>1, <2>1, OneMove
<1>5. OneNode(t)'
  <2>1. \A n, j \in Nodes : stage'[t][n] # "idle" /\ stage'[t][j] # "idle" => n = j
        BY <1>4
  <2>2. QED
        BY <1>4, <2>1, Zenon DEF OneNode, Declared, Unlisted
<1>6. last[t] \in {NoNode, Llm, k} /\ (followed[t] => last[t] # NoNode)
    BY <1>1, <1>2 DEF TurnOK, Remembered, Begun
<1>7. last' = last /\ turns' = turns /\ followed' = followed /\ attached' = attached
    BY DEF Advance
<1>8. \A n \in Nodes : stage'[t][n] \notin Begun
    BY <1>4 DEF Begun
<1>9. k # Start
    BY DistinctAssumption
<1>10. Remembered(t)'
  <2>1. turns'[t] # 0 /\ (followed'[t] => attached')
        BY <1>1, <1>2, <1>7 DEF TurnOK, Remembered
  <2>2. QED
        BY <1>4, <1>6, <1>7, <1>8, <1>9, <2>1 DEF Remembered
<1>11. QED
    BY <1>5, <1>10 DEF TurnOK

\* The node of a thread that is at work is its only one.
LEMMA OnlyNode ==
    ASSUME TypeOK, NEW t \in Threads, TurnOK(t), NEW n \in Nodes, stage[t][n] # "idle",
           NEW k \in Nodes, k # n
    PROVE  stage[t][k] = "idle"
    BY DEF TurnOK, OneNode

\* A step of the node at work, with or without an inspection.
LEMMA WorkStep ==
    ASSUME IInv, NEW t \in Threads, NEW n \in Nodes, stage[t][n] # "idle",
           NEW next \in Begun, stage' = [stage EXCEPT ![t][n] = next],
           moves' = moves, turns' = turns, followed' = followed, attached' = attached,
           last'[t] \in {NoNode, Llm, n}, followed[t] => last'[t] # NoNode
    PROVE  TurnOK(t)'
<1>1. TypeOK /\ TurnOK(t)
    BY DEF IInv
<1>2. stage'[t][n] = next /\ \A k \in Nodes : k # n => stage'[t][k] = "idle"
    BY <1>1, OnlyNode DEF TypeOK
<1>3. OneNode(t)'
  <2>1. \A k \in Nodes : stage'[t][k] # "due"
        BY <1>2 DEF Begun
  <2>2. \A k, j \in Nodes : stage'[t][k] # "idle" /\ stage'[t][j] # "idle" => k = j
        BY <1>2
  <2>3. (\A m, k \in moves[t] : m = k) /\ moves[t] \subseteq Declared \cup Unlisted \cup Strays
        BY <1>1 DEF TurnOK, OneNode
  <2>4. QED
        BY <2>1, <2>2, <2>3 DEF OneNode, Declared, Unlisted
<1>4. Remembered(t)'
  <2>1. turns'[t] # 0 /\ (followed'[t] => attached')
        BY <1>1 DEF TurnOK, Remembered
  <2>2. \A k \in Nodes : stage'[t][k] # "due"
        BY <1>2 DEF Begun
  <2>3. \A k \in Nodes : stage'[t][k] \in Begun => k = n
        BY <1>2 DEF Begun
  <2>4. QED
        BY <2>1, <2>2, <2>3 DEF Remembered
<1>5. QED
    BY <1>3, <1>4 DEF TurnOK

\* What an inspection remembers, of a thread whose turn is as it should be.
LEMMA InspectRemembers ==
    ASSUME IInv, NEW t \in Threads, NEW n \in Nodes \cup {Llm}, NEW by, InspectNode(t, n, by)
    PROVE  /\ last'[t] = IF attached THEN n ELSE NoNode
           /\ \A u \in Threads : u # t => last'[u] = last[u]
           /\ followed[t] => last'[t] # NoNode
<1>1. TypeOK /\ (followed[t] => attached)
    BY DEF IInv, TurnOK, Remembered
<1>2. n # NoNode
    BY DistinctAssumption DEF Sources
<1>3. last' = IF attached THEN [last EXCEPT ![t] = n] ELSE last
    BY DEF InspectNode
<1>4. QED
    BY <1>1, <1>2, <1>3 DEF TypeOK

LEMMA OnChainStartStep ==
    ASSUME IInv, NEW t \in Threads, NEW n \in Nodes, OnChainStart(t, n)
    PROVE  TurnOK(t)'
<1>1. TypeOK
    BY DEF IInv
<1>2. /\ last'[t] = IF attached THEN n ELSE NoNode
      /\ followed[t] => last'[t] # NoNode
    BY InspectRemembers DEF OnChainStart
<1>3. PICK next \in Begun : stage' = [stage EXCEPT ![t][n] = next]
    BY DEF OnChainStart, Begun
<1>4. QED
    BY <1>2, <1>3, WorkStep DEF OnChainStart

LEMMA WrappedNodeStep ==
    ASSUME IInv, NEW t \in Threads, NEW n \in Nodes, WrappedNode(t, n)
    PROVE  TurnOK(t)'
<1>1. /\ last'[t] = IF attached THEN n ELSE NoNode
      /\ followed[t] => last'[t] # NoNode
    BY InspectRemembers DEF WrappedNode
<1>2. "running" \in Begun
    BY DEF Begun
<1>3. QED
    BY <1>1, <1>2, WorkStep DEF WrappedNode

LEMMA OnLlmStartStep ==
    ASSUME IInv, NEW t \in Threads, NEW n \in Nodes, OnLlmStart(t, n)
    PROVE  TurnOK(t)'
<1>1. /\ last'[t] = IF attached THEN Llm ELSE NoNode
      /\ followed[t] => last'[t] # NoNode
    BY InspectRemembers DEF OnLlmStart
<1>2. "running" \in Begun /\ stage' = [stage EXCEPT ![t][n] = "running"]
    BY DEF Begun, OnLlmStart, IInv, TypeOK
<1>3. QED
    BY <1>1, <1>2, WorkStep DEF OnLlmStart

LEMMA FinishStep ==
    ASSUME IInv, NEW t \in Threads, NEW n \in Nodes, Finish(t, n)
    PROVE  TurnOK(t)'
<1>1. last'[t] \in {NoNode, Llm, n} /\ (followed[t] => last'[t] # NoNode)
    BY DEF Finish, IInv, TurnOK, Remembered, Begun
<1>2. "done" \in Begun
    BY DEF Begun
<1>3. QED
    BY <1>1, <1>2, WorkStep DEF Finish

LEMMA FailStep ==
    ASSUME IInv, NEW t \in Threads, NEW n \in Nodes, Fail(t, n)
    PROVE  TurnOK(t)'
<1>1. TypeOK /\ TurnOK(t)
    BY DEF IInv
<1>2. moves'[t] = {} /\ \A k \in Nodes : stage'[t][k] = "idle"
    BY <1>1 DEF Fail, TypeOK, Resting
<1>3. OneNode(t)'
    BY <1>2 DEF OneNode
<1>4. turns'[t] # 0 /\ (followed'[t] => attached')
    BY <1>1 DEF Fail, TurnOK, Remembered
<1>5. Remembered(t)'
    BY <1>2, <1>4 DEF Remembered, Begun
<1>6. QED
    BY <1>3, <1>5 DEF TurnOK

-----------------------------------------------------------------------------
(* Reports.                                                                *)

\* A pair of nodes that is a move outside the graph, or starts at the model's
\* pseudo-node, is not declared.
LEMMA NotDeclared ==
    ASSUME NEW n
    PROVE  /\ <<Llm, n>> \notin Declared
           /\ \A m \in Strays : m \notin Declared /\ m[1] # Start
  <1>1. <<Llm, n>> \notin Declared
        BY DeclaredType, DistinctAssumption
  <1>2. \A m \in Strays : m \notin Declared
        BY GraphAssumption DEF Declared
  <1>3. \A m \in Strays : m[1] # Start
        BY GraphAssumption, DistinctAssumption
  <1>4. QED
        BY <1>1, <1>2, <1>3

LEMMA OnChainStartReports ==
    ASSUME IInv, NEW t \in Threads, NEW n \in Nodes, OnChainStart(t, n)
    PROVE  FalseAlarmsExplained' /\ StraysAlarm'
<1> DEFINE by == LedBy(t, n)
<1>1. TypeOK /\ TurnOK(t) /\ stage[t][n] = "due"
    BY DEF IInv, OnChainStart
<1>2. PICK m \in moves[t] : m[2] = n
    BY <1>1 DEF TurnOK, OneNode
<1>3. /\ {k \in moves[t] : k[2] = n} = {m}
      /\ m \in Declared \cup Unlisted \cup Strays
      /\ m = <<m[1], n>> /\ m[1] \in Sources
  <2>1. m \in Sources \X Nodes
        BY <1>1 DEF TypeOK
  <2>2. QED
        BY <1>1, <1>2, <2>1 DEF TurnOK, OneNode
<1>4. IF m[1] = Start THEN turns[t] = 1 => last[t] = NoNode
      ELSE last[t] \in {NoNode, Llm, m[1]} /\ (followed[t] => last[t] # NoNode)
    BY <1>1, <1>2 DEF TurnOK, Remembered
<1>5. /\ report'.alarm = Undeclared(t, n) /\ report'.after = last[t] /\ report'.by = by
      /\ report'.again = (turns[t] > 1) /\ report'.followed = followed[t]
    BY DEF OnChainStart, InspectNode, Reported
<1>6. CASE m[1] = Start
  <2>1. by = "invoke"
        BY <1>3, <1>6 DEF LedBy
  <2>2. turns[t] \in Nat /\ turns[t] # 0
        BY <1>1, GraphAssumption DEF TypeOK, TurnOK, Remembered
  <2>3. Undeclared(t, n) => turns[t] > 1
        BY <1>4, <1>6, <2>2 DEF Undeclared
  <2>4. QED
        BY <1>5, <2>1, <2>3 DEF FalseAlarmsExplained, StraysAlarm
<1>7. CASE m[1] # Start /\ m \in Strays
  <2>1. by = "stray"
        BY <1>3, <1>7 DEF LedBy
  <2>2. followed[t] => attached /\ last[t] \in {Llm, m[1]}
        BY <1>1, <1>4, <1>7 DEF TurnOK, Remembered
  <2>3. followed[t] => Undeclared(t, n)
        BY <1>3, <1>4, <1>7, <2>2, NotDeclared DEF Undeclared
  <2>4. QED
        BY <1>5, <2>1, <2>3 DEF FalseAlarmsExplained, StraysAlarm
<1>8. CASE m[1] # Start /\ m \notin Strays
  <2>1. by = IF m \in Unlisted THEN "unlisted" ELSE "declared"
        BY <1>3, <1>8 DEF LedBy
  <2>2. m \notin Unlisted /\ Undeclared(t, n) => last[t] = Llm
        BY <1>3, <1>4, <1>8 DEF Undeclared
  <2>3. QED
        BY <1>5, <2>1, <2>2 DEF FalseAlarmsExplained, StraysAlarm
<1>9. QED
    BY <1>6, <1>7, <1>8

\* The invariant is kept by every step.
LEMMA InvStep ==
    ASSUME IInv, Sequential, Next
    PROVE  IInv'
<1>1. TypeOK'
    BY TypeStep DEF IInv
<1>2. CASE Attach
  <2>1. \A t \in Threads : TurnOK(t)'
        BY <1>2, OtherThread DEF Attach, IInv
  <2>2. QED
        BY <1>1, <1>2, <2>1 DEF Attach, IInv, FalseAlarmsExplained, StraysAlarm
<1>3. ASSUME NEW t \in Threads, Invoke(t)
      PROVE  IInv'
  <2>1. ASSUME NEW u \in Threads, u # t PROVE TurnOK(u)'
    <3>1. stage'[u] = stage[u] /\ moves'[u] = moves[u]
          BY <1>3, <2>1, MoveFrame DEF Invoke, IInv
    <3>2. QED
          BY <1>3, <2>1, <3>1, OtherThread DEF Invoke, IInv, TypeOK
  <2>2. TurnOK(t)'
        BY <1>3, InvokeStep
  <2>3. QED
        BY <1>1, <1>3, <2>1, <2>2 DEF Invoke, IInv, FalseAlarmsExplained, StraysAlarm
<1>4. ASSUME NEW t \in Threads, Advance(t)
      PROVE  IInv'
  <2>1. ASSUME NEW u \in Threads, u # t PROVE TurnOK(u)'
    <3>1. stage'[u] = stage[u] /\ moves'[u] = moves[u]
          BY <1>4, <2>1, MoveFrame DEF Advance, IInv
    <3>2. QED
          BY <1>4, <2>1, <3>1, OtherThread DEF Advance, IInv
  <2>2. TurnOK(t)'
        BY <1>4, AdvanceStep
  <2>3. QED
        BY <1>1, <1>4, <2>1, <2>2 DEF Advance, IInv, FalseAlarmsExplained, StraysAlarm
<1>5. ASSUME NEW t \in Threads, NEW n \in Nodes, NodeStep(t, n)
      PROVE  IInv'
  <2>1. TurnOK(t)'
        BY <1>5, OnChainStartStep, WrappedNodeStep, OnLlmStartStep, FinishStep, FailStep
           DEF NodeStep
  <2>2. ASSUME NEW u \in Threads, u # t PROVE TurnOK(u)'
    <3>1. last'[u] = last[u]
          BY <1>5, <2>2, InspectRemembers
             DEF NodeStep, OnChainStart, WrappedNode, OnLlmStart, Finish, Fail
    <3>2. stage'[u] = stage[u] /\ moves'[u] = moves[u]
          BY <1>5, <2>2
             DEF NodeStep, OnChainStart, WrappedNode, OnLlmStart, Finish, Fail, IInv, TypeOK
    <3>3. turns' = turns /\ followed' = followed /\ attached' = attached
          BY <1>5 DEF NodeStep, OnChainStart, WrappedNode, OnLlmStart, Finish, Fail
    <3>4. QED
          BY <2>2, <3>1, <3>2, <3>3, OtherThread DEF IInv
  <2>3. FalseAlarmsExplained' /\ StraysAlarm'
    <3>1. CASE OnChainStart(t, n)
          BY <3>1, OnChainStartReports
    <3>2. CASE WrappedNode(t, n) \/ OnLlmStart(t, n)
      <4>1. report'.by \in {"wrapper", "model"}
            BY <3>2 DEF WrappedNode, OnLlmStart, InspectNode, Reported
      <4>2. QED
            BY <4>1 DEF FalseAlarmsExplained, StraysAlarm
    <3>3. CASE Finish(t, n) \/ Fail(t, n)
          BY <3>3 DEF Finish, Fail, IInv, FalseAlarmsExplained, StraysAlarm
    <3>4. QED
          BY <1>5, <3>1, <3>2, <3>3 DEF NodeStep
  <2>4. QED
        BY <1>1, <2>1, <2>2, <2>3 DEF IInv
<1>6. QED
    BY <1>2, <1>3, <1>4, <1>5 DEF Next

LEMMA Invariance ==
    ASSUME Sequential
    PROVE  Spec => []IInv
<1>1. Init => IInv
  <2>1. ASSUME Init PROVE \A t \in Threads : TurnOK(t)
        BY <2>1 DEF Init, TurnOK, OneNode, Remembered, Resting, Begun
  <2>2. Init => FalseAlarmsExplained /\ StraysAlarm
        BY DEF Init, NoReport, FalseAlarmsExplained, StraysAlarm
  <2>3. QED
        BY <2>1, <2>2, InitType DEF IInv
<1>2. IInv /\ [Next]_vars => IInv'
  <2>1. CASE UNCHANGED vars
        BY <2>1 DEF vars, IInv, TypeOK, TurnOK, OneNode, Remembered, FalseAlarmsExplained,
                    StraysAlarm
  <2>2. QED
        BY <2>1, InvStep
<1>3. QED
    BY <1>1, <1>2, PTL DEF Spec

\* In any graph whose supersteps have one node, the rule flags nothing but moves
\* outside the graph, second looks, model calls and what follows them, branches
\* that do not list their ends, and the first node of a later turn: with none of
\* these, declared traversals raise nothing.
THEOREM FalseAlarmsAreExplained ==
    ASSUME Sequential
    PROVE  Spec => []FalseAlarmsExplained
<1>1. IInv => FalseAlarmsExplained
    BY DEF IInv
<1>2. QED
    BY <1>1, Invariance, PTL

\* In any such graph, every move outside it is flagged, if the graph was attached
\* before the turn: model calls, wrappers and earlier turns hide none.
THEOREM StraysAreFlagged ==
    ASSUME Sequential
    PROVE  Spec => []StraysAlarm
<1>1. IInv => StraysAlarm
    BY DEF IInv
<1>2. QED
    BY <1>1, Invariance, PTL
=============================================================================

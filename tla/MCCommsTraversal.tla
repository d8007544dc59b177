-------------------------- MODULE MCCommsTraversal --------------------------
(***************************************************************************)
(* Bounds for TLC: an agent that plans, acts and checks, as in a ReAct     *)
(* loop.  check has no edges: it says where to go, and may say so wrongly; *)
(* what tool goes on to is not listed with its branch.                     *)
(***************************************************************************)
EXTENDS CommsTraversal

CONSTANTS plan, act, check, tool

MCEdges == {<<Start, plan>>, <<plan, act>>}
MCBranches == {[from |-> act, ends |-> {plan, check, tool, End}, listed |-> TRUE],
               [from |-> tool, ends |-> {plan, End}, listed |-> FALSE]}
MCStrays == {<<check, plan>>, <<check, tool>>}
=============================================================================

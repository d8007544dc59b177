---------------------------- MODULE MCInspection ----------------------------
(***************************************************************************)
(* Bounds for TLC: four nodes of one thread and a checkpoint load of their *)
(* run without a thread, two under way at once.  Three nodes have a user's *)
(* text and are alike, so that two can miss the intent together and what   *)
(* they leave is met by two that come later.                               *)
(***************************************************************************)
EXTENDS Inspection, TLC

CONSTANTS node1, node2, node3, node4, load1, run1, t1

Alike == Permutations(HasText)

MCKind == [c \in Calls |-> IF c = load1 THEN "checkpoint" ELSE "node"]
MCRun == [c \in Calls |-> run1]
MCThread == [c \in Calls |-> IF c = load1 THEN NoThread ELSE t1]
=============================================================================

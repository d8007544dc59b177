---------------------------- MODULE MCToolWindow ----------------------------
(***************************************************************************)
(* Bounds for TLC: two clients in one thread, a listed tool that is used   *)
(* properly and one that is not listed and is misused.                     *)
(***************************************************************************)
EXTENDS ToolWindow, TLC

CONSTANTS t1, search, shell

MCCalls ==
    {[tool |-> search, thread |-> t1, misuse |-> {}],
     [tool |-> shell, thread |-> t1, misuse |-> {"shell_metachar"}],
     [tool |-> shell, thread |-> NoThread, misuse |-> {"shell_metachar", "oversized_args"}]}
\* The clients are alike.
Alike == Permutations(Clients)
=============================================================================

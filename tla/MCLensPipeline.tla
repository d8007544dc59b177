--------------------------- MODULE MCLensPipeline ---------------------------
(***************************************************************************)
(* Bounds for TLC: two nodes of one thread, each of which may bring its    *)
(* intent or not and may drift, and two tools on a bucket of one token; a  *)
(* put and a get, which meet each other in the alert cooldown.             *)
(* Two calls are under way at once, the others come before and after them. *)
(* The allow-list is in log mode, so that what it reports has to survive   *)
(* the limiter's verdict; MCBlockMode has it block.                        *)
(***************************************************************************)
EXTENDS LensPipeline

CONSTANTS node1, node2, tool1, tool2, put1, get1, t1

MCKind == [c \in Calls |->
    CASE c \in {node1, node2} -> "node" [] c \in {tool1, tool2} -> "tool"
      [] c = put1 -> "put" [] c = get1 -> "get"]
MCThread == [c \in Calls |-> IF c \in {put1, get1} THEN NoThread ELSE t1]
MCMayCarry == [c \in Calls |->
    CASE c = node1 -> {"request", "drift", "pii"} [] c = node2 -> {"request", "drift"}
      [] c \in {tool1, tool2} -> {"unlisted"} [] c \in {put1, get1} -> {"unsafe"}]
MCBlockMode == [i \in {"circuit_breaker", "goal_guard", "pii_redactor",
                  "tool_allowlist", "rate_limit", "checkpoint_protector"} |->
    CASE i = "pii_redactor" -> "redact" [] i = "rate_limit" -> "throttle" [] OTHER -> "block"]
MCMode == [MCBlockMode EXCEPT !["tool_allowlist"] = "allow"]
=============================================================================

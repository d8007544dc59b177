------------------------- MODULE MCClassProtection -------------------------
(***************************************************************************)
(* Bounds for TLC.  Root is built like MemorySaver, whose async methods    *)
(* call the sync ones; Child derives from it and its put calls super().    *)
(* Mem is built like InMemoryStore, which has __slots__.  Shared and Leaf  *)
(* are built like BasePostgresSaver, which leaves the four methods to its  *)
(* subclasses, and PostgresSaver.                                          *)
(***************************************************************************)
EXTENDS ClassProtection

CONSTANTS Root, Child, Mem, Shared, Leaf

MCKind == [c \in Classes |-> IF c = Mem THEN "store" ELSE "saver"]
MCMro == [c \in Classes |->
    CASE c = Child -> <<Child, Root>> [] c = Leaf -> <<Leaf, Shared>> [] OTHER -> <<c>>]

Sources == [works |-> [m \in Methods |->
                IF m \in {"put", "get_tuple"} THEN "works" ELSE "delegates"],
            store |-> [m \in Methods |-> CASE m = "put" -> "works" [] m = "aput" -> "delegates"
                                           [] OTHER -> "absent"],
            none |-> [m \in Methods |-> "absent"],
            put |-> [m \in Methods |-> IF m = "put" THEN "super" ELSE "absent"]]
MCBody == [c \in Classes |->
    CASE c = Child -> Sources.put [] c = Shared -> Sources.none
      [] c = Mem -> Sources.store [] OTHER -> Sources.works]

CONSTANTS saver1, saver2, store1
MCClassOf == [i \in Instances |->
    CASE i = saver1 -> (IF Child \in Classes THEN Child ELSE Leaf)
      [] i = saver2 -> Root [] i = store1 -> Mem]
=============================================================================

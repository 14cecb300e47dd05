--------------------------- MODULE MCExplorerSearch ---------------------------
(* The tree of the instances: r above A and b, A above a; a filter that matches a and b. *)
EXTENDS ExplorerSearch

MCItems     == {"r", "A", "a", "b"}
MCParent    == [x \in {"A", "a", "b"} |-> IF x = "a" THEN "A" ELSE "r"]
MCAncestors == [x \in MCItems |-> CASE x = "r" -> {} [] x = "a" -> {"r", "A"} [] OTHER -> {"r"}]
MCMatches   == [f \in {"f"} |-> {"a", "b"}]
=============================================================================

--------------------------- MODULE MCHarnessRunner ---------------------------
(* One orchestrator at a terminal and one supervisor. *)
EXTENDS HarnessRunner

CONSTANTS c1, c2, t1, t2

MCCorredor ==
  c1 :> [orq |-> TRUE, ui |-> TRUE] @@ c2 :> [orq |-> FALSE, ui |-> FALSE]

MCRuntimeDe == [r \in {"developer", "reviewer", "deployer"} |-> "claude"]
=============================================================================

--------------------------- MODULE MCRunRecovery ----------------------------
(* Small DAGs for RunRecovery, as in MCOrchestrator. *)
EXTENDS RunRecovery, TLC

CONSTANTS p, q, x, y

FourTasks == {p, q, x, y}
FourParents == (p :> {}) @@ (q :> {}) @@ (x :> {p}) @@ (y :> {p, q})
FourOrder == (p :> 1) @@ (q :> 2) @@ (x :> 3) @@ (y :> 4)
FourIds == (p :> 3) @@ (q :> 2) @@ (x :> 1) @@ (y :> 4)

ThreeTasks == {p, q, y}
(* A replan of p may be cut short between p and y, and y then runs at once   *)
(* with p: ids put p before y.                                              *)
ThreeParents == (p :> {}) @@ (q :> {}) @@ (y :> {p})
ThreeOrder == (p :> 1) @@ (q :> 2) @@ (y :> 3)
ThreeIds == (p :> 1) @@ (q :> 3) @@ (y :> 2)

Effects == {p, y}
NoErrors == {}
Errors == {"RETRYABLE", "REPLAN_REQUIRED"}
=============================================================================

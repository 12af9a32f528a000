--------------------------- MODULE MCOrchestrator ---------------------------
(* Small DAGs for Orchestrator.  Two parents p and q can finish together;   *)
(* x needs p alone and y needs both, so one release loop can meet a task    *)
(* another loop has released.                                               *)
EXTENDS OrchestratorInv, TLC

CONSTANTS p, q, x, y

FourTasks == {p, q, x, y}
FourParents == (p :> {}) @@ (q :> {}) @@ (x :> {p}) @@ (y :> {p, q})
FourOrder == (p :> 1) @@ (q :> 2) @@ (x :> 3) @@ (y :> 4)
FourIds == (p :> 3) @@ (q :> 2) @@ (x :> 1) @@ (y :> 4)

ThreeTasks == {p, q, y}
ThreeParents == (p :> {}) @@ (q :> {}) @@ (y :> {p, q})
ThreeOrder == (p :> 1) @@ (q :> 2) @@ (y :> 3)
ThreeIds == (p :> 3) @@ (q :> 2) @@ (y :> 1)

AllErrors == ErrorClass
NoErrors == {}
Recoverables == {"RETRYABLE", "SAFE_STOP"}
=============================================================================

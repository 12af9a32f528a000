---------------------------- MODULE MCPlacement -----------------------------
(* Small pools of agents and devices for Placement. *)
EXTENDS Placement, TLC

CONSTANTS p, q, x, wide, narrow, edge1, cloud1

ThreeTasks == {p, q, x}
TwoAgents == {wide, narrow}
TwoDevices == {edge1, cloud1}
Rank == (p :> 1) @@ (q :> 2) @@ (x :> 3)
Ids == (p :> 3) @@ (q :> 1) @@ (x :> 2)
AgentRank == (wide :> 1) @@ (narrow :> 2)

(* Two tasks at once on any tier, or one task on the cloud tier. *)
Slots == (wide :> 2) @@ (narrow :> 1) @@ (edge1 :> 1) @@ (cloud1 :> 1)
Declared == (wide :> NoTier) @@ (narrow :> "cloud") @@ (edge1 :> "edge") @@ (cloud1 :> "cloud")
AnyAgent == (p :> TwoAgents) @@ (q :> TwoAgents) @@ (x :> {wide})

(* q must stay on the edge; Alike makes the candidate cache mix up p and q. *)
EdgeOnly == (p :> {}) @@ (q :> {"edge"}) @@ (x :> {})
Distinct == (p :> 1) @@ (q :> 2) @@ (x :> 3)
Alike == (p :> 1) @@ (q :> 1) @@ (x :> 3)
Exclusive == (p :> {x}) @@ (q :> {}) @@ (x :> {p})

SolverAndBaseline == {"ortools", "round_robin"}
Solver == {"ortools"}
=============================================================================

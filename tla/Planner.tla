------------------------------ MODULE Planner ------------------------------
(***************************************************************************)
(* The ToDAG planner (todag/): a GoalSpec is compiled into a typed graph of  *)
(* tasks, results are reported against it, and a change of the GoalSpec, of  *)
(* one node or of the evidence of a node recomputes only the part of the     *)
(* graph it reaches.                                                        *)
(*                                                                         *)
(* Every operation holds the engine's lock, so each is one action.  One that *)
(* the validation refuses changes nothing and is no step.  Of a definition   *)
(* the model keeps what was declared, the policy every node repeats, a title *)
(* and the dependencies; revision, version, the trace and the change set     *)
(* only report.                                                             *)
(***************************************************************************)
EXTENDS Naturals, FiniteSets

CONSTANTS
    Declared,     \* the names of sub-goals and acceptance conditions, and of
                  \* the clarification guard
    GoalSpecs,    \* the GoalSpecs an operator submits
    Titles,       \* the titles a patch gives a node
    MaxReplans    \* bound of the model: rebuilds, replans and invalidations

ASSUME PlannerAssumption ==
    /\ "clarify" \in Declared
    /\ \A s \in GoalSpecs :
          /\ s.subgoals \cup s.conditions \subseteq Declared
          /\ IsFiniteSet(s.subgoals) /\ IsFiniteSet(s.conditions)
          /\ s.refs \in [Declared -> SUBSET Declared]
          /\ DOMAIN s.detail = Declared
    /\ MaxReplans \in Nat

VARIABLES
    spec,         \* _specification, NoSpec before the first build
    defs,         \* definition_dict() of every node
    nodeStatus,   \* its status
    prints,       \* its fingerprint
    accepted,     \* (history) the Tree under which its result was accepted
    epoch,        \* (history) how often its evidence was invalidated
    replans

plannerVars == <<spec, defs, nodeStatus, prints, accepted, epoch, replans>>

NoSpec == [built |-> FALSE]
NoTree == {}

Requirements == <<"requirements", "">>
WorkTask(i) == <<"work", i>>
Verification(c) == <<"verify", c>>
Final == <<"final", "">>

PlannerInit ==
    /\ spec = NoSpec
    /\ defs = <<>> /\ nodeStatus = <<>> /\ prints = <<>>
    /\ accepted = <<>> /\ epoch = <<>>
    /\ replans = 0

-----------------------------------------------------------------------------
(* DecompositionAgent.run: the nodes of a GoalSpec.                          *)

WorkItems(s) ==
    IF s.subgoals # {} THEN s.subgoals
    ELSE IF s.conditions # {} THEN s.conditions ELSE {"clarify"}

Targets(s, i) == {WorkTask(j) : j \in s.refs[i] \cap WorkItems(s)}

WorkNode(s, i) ==
    [about |-> s.detail[i], policy |-> s.policy, title |-> "compiled",
     deps |-> {Requirements} \cup (Targets(s, i) \ {WorkTask(i)})]

VerificationNode(s, c) ==
    [about |-> s.detail[c], policy |-> s.policy, title |-> "compiled",
     deps |-> IF Targets(s, c) # {} THEN Targets(s, c)
              ELSE IF s.subgoals = {} THEN {WorkTask(c)}
              ELSE {WorkTask(j) : j \in WorkItems(s)}]

MilestoneNode(s, deps) ==
    [about |-> s.main, policy |-> s.policy, title |-> "compiled",
     deps |-> deps]

Compiled(s) ==
    LET works == {WorkTask(i) : i \in WorkItems(s)}
        checks == {Verification(c) : c \in s.conditions}
    IN  [n \in {Requirements, Final} \cup works \cup checks |->
            CASE n = Requirements -> MilestoneNode(s, {})
              [] n = Final -> MilestoneNode(s, IF checks # {} THEN checks
                                                              ELSE works)
              [] n \in works -> WorkNode(s, n[2])
              [] n \in checks -> VerificationNode(s, n[2])]

-----------------------------------------------------------------------------
(* graph.py.                                                                *)

Children(d, S) == {n \in DOMAIN d : d[n].deps \cap S # {}}

(* outgoing_index and the traversal of descendants; Graphs!Descendants says  *)
(* the same and takes TLC far too long.                                     *)
WithDescendants(d, S) ==
    LET D[X \in SUBSET DOMAIN d] ==
          LET Y == X \cup Children(d, X) IN IF Y = X THEN X ELSE D[Y]
    IN  D[S]

(* DAGValidationAgent.run: no dangling dependency, no cycle, one terminal.   *)
Accepts(d) ==
    /\ \A n \in DOMAIN d : d[n].deps \subseteq DOMAIN d
    /\ \A n \in DOMAIN d : n \notin WithDescendants(d, Children(d, {n}))
    /\ Cardinality({n \in DOMAIN d : Children(d, {n}) = {}}) = 1

ChildrenOnly(d, changed) ==
    LET S == changed \cap DOMAIN d IN S \cup Children(d, S)

AffectedClosure(d, changed) == WithDescendants(d, changed \cap DOMAIN d)

(* IncrementalRecomputeAgent.run *)
AffectedBy(old, new, changed) ==
    (AffectedClosure(old, changed) \cup AffectedClosure(new, changed))
        \cap DOMAIN new

(* _refresh_fingerprints: parents first, and only what is affected.  A hash  *)
(* over the hashes of the parents is the set of what it covers.              *)
Fingerprints(new, affected) ==
    LET P[n \in DOMAIN new] ==
          IF n \in affected THEN {<<n, new[n]>>} \cup UNION {P[p] : p \in new[n].deps}
          ELSE prints[n]
    IN  P

(* _mark_recompute, and what _copy_runtime keeps of the other nodes.         *)
Replan(new, changed) ==
    LET affected == AffectedBy(defs, new, changed)
        kept(f, n, none) == IF n \in affected THEN none ELSE f[n]
    IN  /\ Accepts(new)
        /\ defs' = new
        /\ nodeStatus' = [n \in DOMAIN new |->
              IF n \in changed THEN "pending" ELSE kept(nodeStatus, n, "stale")]
        /\ prints' = Fingerprints(new, affected)
        /\ accepted' = [n \in DOMAIN new |-> kept(accepted, n, NoTree)]
        /\ replans' = replans + 1

(* What the result of a node rests on: its definition and evidence, and      *)
(* those of everything above it.                                            *)
Tree(n) ==
    LET T[m \in DOMAIN defs] ==
          {<<m, defs[m], epoch[m]>>} \cup UNION {T[p] : p \in defs[m].deps}
    IN  T[n]

-----------------------------------------------------------------------------

(* build: everything starts anew. *)
Build(s) ==
    LET new == Compiled(s)
    IN  /\ replans < MaxReplans
        /\ Accepts(new)
        /\ spec' = s
        /\ defs' = new
        /\ nodeStatus' = [n \in DOMAIN new |-> "pending"]
        /\ prints' = Fingerprints(new, DOMAIN new)
        /\ accepted' = [n \in DOMAIN new |-> NoTree]
        /\ epoch' = [n \in DOMAIN new |-> 0]
        /\ replans' = replans + 1

(* update_specification: added and changed nodes, and what stood below a     *)
(* removed one.                                                             *)
UpdateSpecification(s) ==
    LET new == Compiled(s)
        added == DOMAIN new \ DOMAIN defs
        removed == DOMAIN defs \ DOMAIN new
        differing == {n \in (DOMAIN new) \cap (DOMAIN defs) : new[n] # defs[n]}
        changed == added \cup differing
                     \cup (AffectedClosure(defs, removed) \cap DOMAIN new)
    IN  /\ spec # NoSpec
        /\ replans < MaxReplans
        /\ Replan(new, changed)
        /\ spec' = s
        /\ epoch' = [n \in DOMAIN new |-> IF n \in added THEN 0 ELSE epoch[n]]

(* update_node: a patch of the title, or of one dependency. *)
UpdateNode(n) ==
    \E patched \in {[defs[n] EXCEPT !.title = t] : t \in Titles}
                 \cup {[defs[n] EXCEPT !.deps = @ \cup {p}] : p \in DOMAIN defs}
                 \cup {[defs[n] EXCEPT !.deps = @ \ {p}] : p \in defs[n].deps} :
      /\ patched # defs[n]
      /\ replans < MaxReplans
      /\ Replan([defs EXCEPT ![n] = patched], {n})
      /\ UNCHANGED <<spec, epoch>>

(* invalidate_node *)
InvalidateNode(n) ==
    /\ replans < MaxReplans
    /\ Replan(defs, {n})
    /\ epoch' = [epoch EXCEPT ![n] = @ + 1]
    /\ UNCHANGED spec

ParentsCompleted(n, st) == \A p \in defs[n].deps : st[p] = "completed"

NotReleased(st) == st

(* _release_stale_nodes; releasing one completes no parent of another.       *)
Released(st) ==
    [n \in DOMAIN st |->
        IF st[n] = "stale" /\ ParentsCompleted(n, st) THEN "pending" ELSE st[n]]

(* set_node_result, for a node in any state. *)
SetNodeResult(n, result) ==
    LET st == [nodeStatus EXCEPT ![n] = result]
    IN  /\ \/ result = "failed" /\ nodeStatus' = st
           \/ /\ result = "completed"
              /\ ParentsCompleted(n, nodeStatus)
              /\ nodeStatus' = Released(st)
        /\ accepted' = [accepted EXCEPT ![n] =
                            IF result = "completed" THEN Tree(n) ELSE NoTree]
        /\ UNCHANGED <<spec, defs, prints, epoch, replans>>

PlannerNext ==
    \/ \E s \in GoalSpecs : Build(s)
    \/ \E s \in GoalSpecs : UpdateSpecification(s)
    \/ \E n \in DOMAIN defs : UpdateNode(n)
    \/ \E n \in DOMAIN defs : InvalidateNode(n)
    \/ \E n \in DOMAIN defs : SetNodeResult(n, "completed")
    \/ \E n \in DOMAIN defs : SetNodeResult(n, "failed")

PlannerSpec == PlannerInit /\ [][PlannerNext]_plannerVars

-----------------------------------------------------------------------------

(* ready_task_ids *)
Ready(n) == nodeStatus[n] = "pending" /\ ParentsCompleted(n, nodeStatus)

PlannerTypeOK ==
    /\ spec \in GoalSpecs \cup {NoSpec}
    /\ \A n \in DOMAIN defs : defs[n].deps \subseteq DOMAIN defs
    /\ nodeStatus \in
          [DOMAIN defs -> {"pending", "stale", "completed", "failed"}]
    /\ epoch \in [DOMAIN defs -> 0 .. MaxReplans]
    /\ DOMAIN prints = DOMAIN defs /\ DOMAIN accepted = DOMAIN defs

(* A result that still counts was accepted for the present definition of its *)
(* node and of everything above it, with no invalidation since (a result that*)
(* is only reported again stales nothing), and the fingerprint of every node *)
(* is the one a full recomputation would give: a local replan (closures in    *)
(* the old and the new graph, removed parents, copied runtime) forgets        *)
(* nothing a full one would have reset.                                     *)
ResultsCurrent ==
    /\ \A n \in DOMAIN defs :
          nodeStatus[n] = "completed" => accepted[n] = Tree(n)
    /\ prints = Fingerprints(defs, DOMAIN defs)

(* However results, patches, replans and invalidations are mixed, the plan   *)
(* never gets stuck: unless a task failed or all are completed, one is ready *)
(* (no stale node is left below completed parents).                         *)
ReadyOrDone ==
    \/ \E n \in DOMAIN defs : nodeStatus[n] = "failed" \/ Ready(n)
    \/ \A n \in DOMAIN defs : nodeStatus[n] = "completed"
=============================================================================

----------------------------- MODULE Placement ------------------------------
(***************************************************************************)
(* Where the tasks of a scheduling round run, and what the registry says of *)
(* the agents meanwhile (scheduler.py, orchestrator.py _set_agent_load and  *)
(* _update_posteriors, capability.py, posterior.py, recovery/engine.py).    *)
(*                                                                         *)
(* A profile is stored as one row: every change of one field reads the row  *)
(* and writes all of it back, in two database transactions.  Costs and      *)
(* posteriors are data: a policy may choose any bundle it is allowed, and a *)
(* posterior update is the read and the write of the row it makes.  Models  *)
(* and tools are never the bottleneck and are left out of a bundle.         *)
(***************************************************************************)
EXTENDS Integers, FiniteSets

CONSTANTS
    Tasks, Agents, Devices,
    ListOrder,      \* rank of a task in the sort by (-priority, task_id)
    IdOrder,        \* rank of a task in the order of task ids
    AgentOrder,     \* rank of an agent in the order of actor ids
    Capacity,       \* concurrent tasks of an agent, or of a device net of its load
    Tier,           \* declared tier of an agent or device, or NoTier
    Able,           \* the agents that pass a task's capability, permission,
                    \* privacy and latency filters
    AllowedTiers,   \* resource_requirements.allowed_tiers, empty when not given
    Signature,      \* what the solver's candidate cache knows of a task
    MutexWith,      \* mutex_with
    Policies,       \* the values of scheduler_policy
    MaxConcurrency, \* max_concurrency
    MaxRetries,     \* max_task_retries
    MaxOffline      \* bound of the model: agents an operator takes offline

NoTier == "none"
Tiers == {"device", "edge", "cloud"}

(* The cache key holds every field behind Able; ToDAG makes mutex_with      *)
(* symmetric (todag/agents.py).                                            *)
ASSUME PlacementAssumption ==
    /\ {ListOrder, IdOrder} \subseteq [Tasks -> Nat] /\ AgentOrder \in [Agents -> Nat]
    /\ Capacity \in [Agents \cup Devices -> Nat] /\ \A a \in Agents : Capacity[a] > 0
    /\ Tier \in [Agents \cup Devices -> Tiers \cup {NoTier}]
    /\ Able \in [Tasks -> SUBSET Agents]
    /\ AllowedTiers \in [Tasks -> SUBSET Tiers]
    /\ MutexWith \in [Tasks -> SUBSET Tasks]
    /\ \A s, t \in Tasks : /\ Signature[s] = Signature[t] => Able[s] = Able[t]
                           /\ s \in MutexWith[t] => t \in MutexWith[s]
    /\ Policies \subseteq {"ortools", "greedy", "round_robin"}
    /\ MaxConcurrency \in Nat \ {0} /\ {MaxRetries, MaxOffline} \subseteq Nat

(* A pool and a run are finite; task ids are unique in the run. *)
ASSUME PoolAssumption ==
    /\ IsFiniteSet(Tasks) /\ IsFiniteSet(Agents)
    /\ \A s, t \in Tasks : IdOrder[s] = IdOrder[t] => s = t

VARIABLES
    policy,    \* scheduler_policy
    main,      \* where the thread of run_until_blocked is
    ready,     \* the READY tasks
    attempt,   \* executions of a task so far
    todo,      \* READY tasks the policy has still to consider
    plan,      \* the placements of the current round
    status,    \* last_round.solver_status
    offset,    \* _round_robin_offset
    row,       \* the stored profile of every agent; load counts tasks
    live,      \* _live_load
    job,       \* the worker thread of every task
    banned     \* agents the operator took offline

sched == <<todo, plan, status, offset>>
vars == <<policy, main, ready, attempt, sched, row, live, job, banned>>

Profile(a) == [online : BOOLEAN, load : 0 .. Capacity[a]]
Fresh == [online |-> TRUE, load |-> 0]
Stages == {"enter", "work", "sample", "offline", "leave"}
Outcomes == {"none", "passed", "retryable", "replaceable", "stuck"}

(* A worker: the stage of _execute_assignment, the step inside it, and the  *)
(* locals running (of _set_agent_load) and profile (of update_runtime).     *)
Off == [stage |-> "enter", step |-> "off", running |-> 0, read |-> Fresh,
        outcome |-> "none"]

Init ==
    /\ policy \in Policies
    /\ main = "loop"
    /\ ready = Tasks /\ attempt = [t \in Tasks |-> 0]
    /\ todo = {} /\ plan = {} /\ status = "NO_ASSIGNMENT" /\ offset = 0
    /\ row = [a \in Agents |-> Fresh]
    /\ live = [a \in Agents |-> 0]
    /\ job = [t \in Tasks |-> Off]
    /\ banned = {}

-----------------------------------------------------------------------------
(* Candidates *)

Bundles == [agent : Agents, device : Devices]

TierCompatible(a, d) == NoTier \in {Tier[a], Tier[d]} \/ Tier[a] = Tier[d]

WithinAllowed(t, x) == AllowedTiers[t] = {} \/ Tier[x] \in AllowedTiers[t] \cup {NoTier}

(* The hard filters of the cost model. *)
Evaluate(t, b) ==
    /\ b.agent \in Able[t]
    /\ WithinAllowed(t, b.agent) /\ WithinAllowed(t, b.device)

ByKind == {a \in Agents : row[a].online}

Candidates(t) ==
    {b \in Bundles : /\ b.agent \in ByKind
                     /\ TierCompatible(b.agent, b.device)
                     /\ Evaluate(t, b)}

(* Variant: the occupied share of an agent is rounded up to a task more. *)
AgentSlotsRoundedUp(a) == Capacity[a] - row[a].load - 1

(* What is left of a capacity in this round: the published load and the     *)
(* placements already made are taken off.                                  *)
AgentSlots(a) == Capacity[a] - row[a].load

AgentLeft(a) == AgentSlots(a) - Cardinality({m \in plan : m.agent = a})

(* Variant: the resource capacity is not used up by the placements. *)
DeviceLeftUncounted(d) == Capacity[d]

DeviceLeft(d) == Capacity[d] - Cardinality({m \in plan : m.device = d})

Affordable(t) ==
    {b \in Candidates(t) : AgentLeft(b.agent) > 0 /\ DeviceLeft(b.device) > 0}

Claimed == {m.task : m \in plan}

Place(t, b) == plan' = plan \cup {[task |-> t, agent |-> b.agent, device |-> b.device]}

FirstTodo == {t \in todo : \A u \in todo : ListOrder[t] <= ListOrder[u]}

-----------------------------------------------------------------------------
(* run_once: read READY, let the policy choose, start the workers           *)

(* Submit the chosen placements, or end run_until_blocked without progress. *)
Submit(p, s) ==
    /\ plan' = p /\ status' = s /\ todo' = {}
    /\ IF p = {} THEN /\ main' = "idle" /\ UNCHANGED <<ready, job>>
       ELSE LET chosen == {m.task : m \in p} IN
            /\ main' = "round"
            /\ ready' = ready \ chosen
            /\ job' = [t \in Tasks |-> IF t \in chosen THEN [Off EXCEPT !.step = "queued"]
                                       ELSE job[t]]

RunOnce ==
    /\ main = "loop"
    /\ main' = CASE policy = "ortools" -> "solve" [] policy = "greedy" -> "greedy"
                 [] OTHER -> "rotate"
    /\ todo' = ready /\ plan' = {}
    /\ job' = [t \in Tasks |-> Off]
    /\ UNCHANGED <<policy, ready, attempt, status, offset, row, live, banned>>

(* Variant: a mutual exclusion is not looked at. *)
GreedyUnexclusive(t) ==
    /\ main = "greedy" /\ t \in FirstTodo
    /\ todo' = todo \ {t}
    /\ IF Affordable(t) = {} THEN UNCHANGED plan
       ELSE \E b \in Affordable(t) : Place(t, b)
    /\ UNCHANGED <<policy, main, ready, attempt, status, offset, row, live, job, banned>>

Greedy(t) ==
    /\ main = "greedy" /\ t \in FirstTodo
    /\ todo' = todo \ {t}
    /\ IF Affordable(t) = {} \/ MutexWith[t] \cap Claimed # {} THEN UNCHANGED plan
       ELSE \E b \in Affordable(t) : Place(t, b)
    /\ UNCHANGED <<policy, main, ready, attempt, status, offset, row, live, job, banned>>

(* The agents with a free slot when the round began, in order of their ids; *)
(* Distance is how far an agent is from the one whose turn it is.           *)
Rotation == {a \in ByKind : AgentSlots(a) > 0}

Index(a) == Cardinality({b \in Rotation : AgentOrder[b] < AgentOrder[a]})

Distance(a) == (Index(a) - offset) % Cardinality(Rotation)

RoundRobin(t) ==
    LET next == {b \in Affordable(t) :
                   \A c \in Affordable(t) : Distance(b.agent) <= Distance(c.agent)}
    IN  /\ main = "rotate" /\ t \in FirstTodo
        /\ todo' = todo \ {t}
        /\ IF next = {} THEN UNCHANGED <<plan, offset>>
           ELSE \E b \in next :
                  /\ Place(t, b)
                  /\ offset' = (Index(b.agent) + 1) % Cardinality(Rotation)
        /\ UNCHANGED <<policy, main, ready, attempt, status, row, live, job, banned>>

(* A baseline, or the fallback of the solver: greedy, then round robin.     *)
EndGreedy ==
    /\ main = "greedy" /\ todo = {}
    /\ IF plan = {} /\ policy = "ortools"
       THEN /\ main' = "rotate" /\ todo' = ready
            /\ UNCHANGED <<plan, status, ready, job>>
       ELSE Submit(plan, IF plan = {} THEN "NO_ASSIGNMENT" ELSE "GREEDY_SELECTED")
    /\ UNCHANGED <<policy, attempt, offset, row, live, banned>>

EndRotate ==
    /\ main = "rotate" /\ todo = {}
    /\ Submit(plan, IF plan = {} THEN "NO_ASSIGNMENT" ELSE "ROUND_ROBIN_SELECTED")
    /\ UNCHANGED <<policy, attempt, offset, row, live, banned>>

-----------------------------------------------------------------------------
(* CP-SAT *)

(* The candidates of the first task with the same signature are reused. *)
Template(t) ==
    Candidates(CHOOSE s \in todo :
        /\ Signature[s] = Signature[t]
        /\ \A u \in todo : Signature[u] = Signature[t] => ListOrder[s] <= ListOrder[u])

Unplaced == [agent |-> NoTier, device |-> NoTier]

PlanOf(f) == {[task |-> t, agent |-> f[t].agent, device |-> f[t].device] :
                 t \in {u \in todo : f[u] # Unplaced}}

(* The constraints of the model.  A pair of exclusive tasks is read from    *)
(* the task with the smaller id.                                           *)
Satisfies(f) ==
    /\ \A a \in ByKind : Cardinality({t \in todo : f[t].agent = a}) <= AgentSlots(a)
    /\ \A d \in Devices : Cardinality({t \in todo : f[t].device = d}) <= Capacity[d]
    /\ \A s, t \in todo :
          t \in MutexWith[s] /\ IdOrder[s] < IdOrder[t] => Unplaced \in {f[s], f[t]}

Solutions ==
    {f \in [todo -> Bundles \cup {Unplaced}] :
        /\ \A t \in todo : f[t] \in Template(t) \cup {Unplaced}
        /\ Satisfies(f)}

(* Every assignment earns more than its cost, so that an optimum leaves     *)
(* nothing out that could be added to it.                                  *)
Optimal(f, solutions) ==
    \A g \in solutions : (\A t \in todo : f[t] \in {Unplaced, g[t]}) => g = f

(* The solver proves an optimum or stops at its time limit with some        *)
(* solution, the empty one included.                                       *)
Solve ==
    LET solutions == Solutions IN
    /\ main = "solve" /\ Cardinality(solutions) > 1
    /\ \E f \in solutions :
          \/ Optimal(f, solutions) /\ Submit(PlanOf(f), "OPTIMAL")
          \/ Submit(PlanOf(f), "FEASIBLE")
    /\ UNCHANGED <<policy, attempt, offset, row, live, banned>>

(* No variable, no solution in time, or no OR-Tools: fall back to greedy    *)
(* (scheduler_allow_fallback keeps its default).                           *)
SolverFails ==
    /\ main = "solve"
    /\ main' = "greedy"
    /\ UNCHANGED <<policy, ready, attempt, sched, row, live, job, banned>>

-----------------------------------------------------------------------------
(* _execute_assignment, for the profile of the assigned agent               *)

AgentOf(t) == (CHOOSE m \in plan : m.task = t).agent

Working == {t \in Tasks : job[t].step \notin {"off", "queued"}}

At(t, stage, step) == job[t].stage = stage /\ job[t].step = step

Dequeue(t) ==
    /\ main = "round"
    /\ job[t].step = "queued" /\ Cardinality(Working) < MaxConcurrency
    /\ job' = [job EXCEPT ![t].step = "count"]
    /\ attempt' = [attempt EXCEPT ![t] = @ + 1]
    /\ UNCHANGED <<policy, main, ready, sched, row, live, banned>>

(* Variant: the end of a task is not counted down. *)
CountUpOnly(t) ==
    /\ job[t].step = "count"
    /\ LET a == AgentOf(t)
           n == live[a] + (IF job[t].stage = "enter" THEN 1 ELSE 0)
       IN  /\ live' = [live EXCEPT ![a] = n]
           /\ job' = [job EXCEPT ![t].running = n, ![t].step = "get"]
    /\ UNCHANGED <<policy, main, ready, attempt, sched, row, banned>>

(* _set_agent_load, under the lock: +1 when the task starts, -1 at its end. *)
Count(t) ==
    /\ job[t].step = "count"
    /\ LET a == AgentOf(t)
           n == IF job[t].stage = "enter" THEN live[a] + 1
                ELSE IF live[a] > 0 THEN live[a] - 1 ELSE 0
       IN  /\ live' = [live EXCEPT ![a] = n]
           /\ job' = [job EXCEPT ![t].running = n, ![t].step = "get"]
    /\ UNCHANGED <<policy, main, ready, attempt, sched, row, banned>>

Get(t) ==
    /\ job[t].step = "get"
    /\ job' = [job EXCEPT ![t].read = row[AgentOf(t)], ![t].step = "put"]
    /\ UNCHANGED <<policy, main, ready, attempt, sched, row, live, banned>>

(* The row a stage writes: its own field over the row it read. *)
Written(t) ==
    LET c == Capacity[AgentOf(t)]
        n == job[t].running
    IN  CASE job[t].stage \in {"enter", "leave"} ->
                [job[t].read EXCEPT !.load = IF n < c THEN n ELSE c]
          [] job[t].stage = "sample" -> job[t].read
          [] job[t].stage = "offline" -> [job[t].read EXCEPT !.online = FALSE]

RetryAllowed(t) == attempt[t] <= MaxRetries

(* Variant: a replaced agent is not marked offline. *)
NextStageKeeping(t) == IF job[t].stage = "enter" THEN "work" ELSE "leave"

(* After the row is written: a failure classified REPLACEABLE also marks    *)
(* its agent offline.                                                      *)
NextStage(t) ==
    CASE job[t].stage = "enter" -> "work"
      [] job[t].stage = "sample" /\ job[t].outcome = "replaceable" -> "offline"
      [] OTHER -> "leave"

NextStep(t) ==
    CASE job[t].stage = "enter" -> "run"
      [] job[t].stage = "leave" -> "off"
      [] job[t].stage # "leave" /\ NextStage(t) = "leave" -> "count"
      [] OTHER -> "get"

(* The recovery of a failed attempt follows the last write of its stage. *)
Put(t) ==
    /\ job[t].step = "put"
    /\ row' = [row EXCEPT ![AgentOf(t)] = Written(t)]
    /\ job' = [job EXCEPT ![t] = [Off EXCEPT
                  !.stage = NextStage(t), !.step = NextStep(t),
                  !.outcome = IF job[t].outcome = "replaceable" THEN "replaceable" ELSE "none"]]
    /\ ready' = IF /\ job[t].stage \in {"sample", "offline"} /\ NextStage(t) = "leave"
                   /\ job[t].outcome \in {"retryable", "replaceable"} /\ RetryAllowed(t)
                THEN ready \cup {t} ELSE ready
    /\ UNCHANGED <<policy, main, attempt, sched, live, banned>>

(* The execution ends: verified or failed, and its posteriors are updated,  *)
(* or it raised before RUNNING and goes straight to the finally clause.     *)
Work(t) ==
    /\ At(t, "work", "run")
    /\ \E o \in Outcomes \ {"none"} :
          job' = [job EXCEPT ![t].outcome = o,
                             ![t].stage = IF o = "stuck" THEN "leave" ELSE "sample",
                             ![t].step = IF o = "stuck" THEN "count" ELSE "get"]
    /\ UNCHANGED <<policy, main, ready, attempt, sched, row, live, banned>>

(* Variant: the pool is not joined. *)
EndRoundUnjoined ==
    /\ main = "round"
    /\ \A t \in Tasks : job[t].step # "queued"
    /\ main' = "loop"
    /\ UNCHANGED <<policy, ready, attempt, sched, row, live, job, banned>>

(* Variant: the end of the round is read from the published loads. *)
EndRoundUnloaded ==
    /\ main = "round"
    /\ \A t \in Tasks : job[t].step = "off"
    /\ \A a \in Agents : row[a].load = 0
    /\ main' = "loop"
    /\ UNCHANGED <<policy, ready, attempt, sched, row, live, job, banned>>

(* The pool has joined its workers. *)
EndRound ==
    /\ main = "round"
    /\ \A t \in Tasks : job[t].step = "off"
    /\ main' = "loop"
    /\ UNCHANGED <<policy, ready, attempt, sched, row, live, job, banned>>

(* Live fault agent_offline, at a round boundary. *)
Offline(a) ==
    /\ main = "loop"
    /\ Cardinality(banned) < MaxOffline /\ a \notin banned
    /\ row' = [row EXCEPT ![a].online = FALSE]
    /\ banned' = banned \cup {a}
    /\ UNCHANGED <<policy, main, ready, attempt, sched, live, job>>

Schedule ==
    \/ RunOnce
    \/ \E t \in Tasks : Greedy(t) \/ RoundRobin(t)
    \/ EndGreedy \/ EndRotate \/ Solve \/ SolverFails \/ EndRound

Worker(t) == Dequeue(t) \/ Count(t) \/ Get(t) \/ Put(t) \/ Work(t)

Next == Schedule \/ (\E t \in Tasks : Worker(t)) \/ (\E a \in Agents : Offline(a))

Spec == Init /\ [][Next]_vars

(* The thread of the caller and the threads of the pool keep running. *)
Fairness == WF_vars(Schedule) /\ \A t \in Tasks : WF_vars(Worker(t))

FairSpec == Spec /\ Fairness

-----------------------------------------------------------------------------
(* Properties *)

Quiet == \A t \in Tasks : job[t].step = "off"

Users(a) == {m.task : m \in {n \in plan : n.agent = a}}

(* Under every policy a round gives each task at most one placement, and no *)
(* agent or device more tasks than its capacity ("constrains Agent max_load,*)
(* resource capacity and task mutual exclusion together"): neither in the   *)
(* plan nor in the tasks that execute, whatever load was published before.  *)
WithinCapacity ==
    /\ Cardinality(plan) = Cardinality(Claimed)
    /\ \A a \in Agents : Cardinality(Users(a)) <= Capacity[a] /\ live[a] <= Capacity[a]
    /\ \A d \in Devices : Cardinality({m \in plan : m.device = d}) <= Capacity[d]

(* Mutually exclusive tasks are not started in the same round, unless the   *)
(* round-robin baseline was chosen, which never looks at mutex_with.        *)
MutexRespected ==
    policy # "round_robin" =>
        \A s, t \in Claimed : t \in MutexWith[s] => s = t

(* "mark registry agent offline; subsequent scheduler rounds must exclude   *)
(* it": no worker writes an old row over the mark the operator set.         *)
OfflineExcluded ==
    main = "round" /\ plan # {} => \A m \in plan : m.agent \notin banned

(* A load published late never takes the last slot of an agent that runs    *)
(* nothing: stale rows slow a run down but never block it.                  *)
NeverSaturatedIdle == Quiet => \A a \in Agents : AgentSlots(a) >= 1

(* What a round leaves in the registry is exact for an agent only one task  *)
(* of the round used: its load is 0, and it is offline if recovery replaced *)
(* it.  (With two users either can be lost.)                               *)
LoneUserExact ==
    main = "loop" =>
        \A a \in Agents : \A t \in Tasks :
            Users(a) = {t} => /\ row[a].load = 0
                              /\ job[t].outcome = "replaceable" => ~row[a].online

(* A run stops with READY tasks only if none of them has a candidate bundle *)
(* on a device that can take a task, or the solver ran out of time.         *)
StopsOnlyInfeasible ==
    main = "idle" /\ status # "FEASIBLE" =>
        \A t \in ready : \A b \in Candidates(t) : Capacity[b.device] = 0

(* A run that may fail, retry, replace and lose agents comes to its end.    *)
RunEnds == <>(main = "idle")

(* "allowed_tiers ... used to be recorded but never enforced, so a task     *)
(* that said "device or edge only" could still be scheduled into the        *)
(* cloud": every placement respects the allowed tiers of its own task.      *)
TiersEnforced ==
    \A m \in plan : WithinAllowed(m.task, m.agent) /\ WithinAllowed(m.task, m.device)

(* "it must track actual execution": an agent that runs nothing is          *)
(* published as unloaded.                                                  *)
LoadTracksExecution == Quiet => \A a \in Agents : row[a].load = 0
=============================================================================

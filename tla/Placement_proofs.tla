-------------------------- MODULE Placement_proofs --------------------------
(***************************************************************************)
(* What a scheduling round promises, for any pool of agents, any policy and *)
(* any number of concurrent workers: an offline mark is never lost, nothing *)
(* is placed or executed beyond capacities and exclusions, rows written     *)
(* late never block a run, and a run stops only when nothing can be placed. *)
(*                                                                         *)
(* The offline mark first.  A worker writes back a whole row it read        *)
(* earlier.  It cannot bring a marked agent back online because the mark is *)
(* set while no worker runs, so that every row a worker holds was read      *)
(* after it.                                                                *)
(***************************************************************************)
EXTENDS Placement, FiniteSetTheorems, TLAPS

RowType == [online : BOOLEAN, load : Nat]

Steps == {"off", "queued", "count", "get", "put", "run"}

WorkerType == [stage : Stages, step : Steps, running : Nat, read : RowType,
               outcome : Outcomes]

Types ==
    /\ row \in [Agents -> RowType]
    /\ live \in [Agents -> Nat]
    /\ job \in [Tasks -> WorkerType]
    /\ plan \subseteq [task : Tasks, agent : Agents, device : Devices]
    /\ banned \subseteq Agents

(* Workers run in a round only, each for a placement of the plan. *)
Placed ==
    \A t \in Tasks : /\ job[t].step # "off" => main = "round"
                     /\ job[t].step # "off" => \E m \in plan : m.task = t
                     /\ job[t].stage = "work" <=> job[t].step = "run"

(* A marked agent is offline in its row and in every row a worker holds. *)
Marked ==
    /\ \A a \in banned : ~row[a].online
    /\ \A t \in Tasks : job[t].step = "put" /\ AgentOf(t) \in banned
                           => ~job[t].read.online

(* While a round is planned or executed the plan holds no marked agent. *)
Unbanned ==
    main \in {"solve", "greedy", "rotate", "round"} =>
        \A m \in plan : m.agent \notin banned

OfflineInv == Types /\ Placed /\ Marked /\ Unbanned

(* Only tasks of the run are considered. *)
Asked == ready \subseteq Tasks /\ todo \subseteq Tasks

-----------------------------------------------------------------------------
LEMMA FreshType == Fresh \in RowType /\ Off \in WorkerType
BY DEF Fresh, RowType, Off, WorkerType, Stages, Steps, Outcomes

LEMMA InitOffline == Init => OfflineInv
<1> SUFFICES ASSUME Init PROVE OfflineInv
  OBVIOUS
<1>1. \A t \in Tasks : job[t] = Off
  BY DEF Init
<1>2. Types
  BY FreshType DEF Init, Types
<1>3. Placed /\ Marked
  BY <1>1 DEF Init, Placed, Marked, Off
<1>4. QED BY <1>2, <1>3 DEF Init, OfflineInv, Unbanned

LEMMA AgentOfType ==
    ASSUME Types, Placed, NEW t \in Tasks, job[t].step # "off"
    PROVE  AgentOf(t) \in Agents
<1>1. \E m \in plan : m.task = t
  BY DEF Placed
<1>2. (CHOOSE m \in plan : m.task = t) \in plan
  BY <1>1
<1>3. QED BY <1>2 DEF AgentOf, Types

(* A candidate is online, hence not marked. *)
LEMMA CandidateUnbanned ==
    ASSUME OfflineInv, NEW t, NEW b \in Candidates(t)
    PROVE  b \in Bundles /\ b.agent \notin banned
BY DEF OfflineInv, Types, Marked, Candidates, ByKind, Bundles

(* Steps that leave the workers, the rows and the marks alone. *)
LEMMA PlanningStep ==
    ASSUME OfflineInv, main # "round", main' # "round",
           UNCHANGED <<row, live, job, banned>>,
           plan' \subseteq [task : Tasks, agent : Agents, device : Devices],
           \A m \in plan' : m.agent \notin banned
    PROVE  OfflineInv'
<1>1. \A t \in Tasks : job[t].step = "off"
  BY DEF OfflineInv, Placed
<1>2. Types' BY DEF OfflineInv, Types
<1>3. Placed' BY <1>1 DEF OfflineInv, Placed
<1>4. Marked' BY <1>1 DEF OfflineInv, Marked
<1>5. QED BY <1>2, <1>3, <1>4 DEF OfflineInv, Unbanned

LEMMA PlaceUnbanned ==
    ASSUME OfflineInv, NEW t \in Tasks, NEW b \in Candidates(t),
           main \in {"greedy", "rotate"}, Place(t, b)
    PROVE  /\ plan' \subseteq [task : Tasks, agent : Agents, device : Devices]
           /\ \A m \in plan' : m.agent \notin banned
<1>1. b \in Bundles /\ b.agent \notin banned
  BY CandidateUnbanned
<1>2. QED BY <1>1 DEF Place, OfflineInv, Types, Unbanned, Bundles

LEMMA SubmitStep ==
    ASSUME OfflineInv, main \in {"solve", "greedy", "rotate"}, NEW p, NEW s,
           Submit(p, s),
           p \subseteq [task : Tasks, agent : Agents, device : Devices],
           \A m \in p : m.agent \notin banned,
           UNCHANGED <<row, live, banned>>
    PROVE  OfflineInv'
<1>1. \A t \in Tasks : job[t].step = "off"
  BY DEF OfflineInv, Placed
<1>2. CASE p = {}
  <2>1. UNCHANGED job /\ main' = "idle" /\ plan' = p
    BY <1>2 DEF Submit
  <2>2. QED BY <2>1, PlanningStep
<1>3. CASE p # {}
  <2> DEFINE chosen == {m.task : m \in p}
  <2>1. /\ plan' = p /\ main' = "round"
        /\ job' = [t \in Tasks |-> IF t \in chosen THEN [Off EXCEPT !.step = "queued"]
                                   ELSE job[t]]
    BY <1>3 DEF Submit
  <2>2. [Off EXCEPT !.step = "queued"] \in WorkerType
    BY FreshType DEF WorkerType, Steps
  <2>3. Types'
    BY <2>1, <2>2 DEF OfflineInv, Types
  <2>4. Placed'
    BY <2>1, <1>1 DEF OfflineInv, Placed, Off
  <2>5. Marked'
    BY <2>1, <1>1 DEF OfflineInv, Marked, Off
  <2>6. QED BY <2>1, <2>3, <2>4, <2>5 DEF OfflineInv, Unbanned
<1>4. QED BY <1>2, <1>3

-----------------------------------------------------------------------------
(* The round is planned *)

LEMMA ScheduleStep ==
    ASSUME OfflineInv, Asked, Schedule
    PROVE  OfflineInv'
<1>1. CASE RunOnce
  <2>1. /\ main = "loop" /\ main' \in {"solve", "greedy", "rotate"} /\ plan' = {}
        /\ job' = [t \in Tasks |-> Off] /\ UNCHANGED <<row, live, banned>>
    BY <1>1 DEF RunOnce
  <2>2. \A t \in Tasks : job'[t] = Off
    BY <2>1
  <2>3. Types' /\ Unbanned'
    BY <2>1, FreshType DEF OfflineInv, Types, Unbanned
  <2>4. Placed' /\ Marked'
    BY <2>1, <2>2 DEF OfflineInv, Placed, Marked, Off
  <2>5. QED BY <2>3, <2>4 DEF OfflineInv
<1>2. ASSUME NEW t \in Tasks, Greedy(t) PROVE OfflineInv'
  <2>1. /\ main = "greedy" /\ main' = "greedy"
        /\ UNCHANGED <<row, live, job, banned>>
    BY <1>2 DEF Greedy
  <2>2. UNCHANGED plan \/ \E b \in Candidates(t) : Place(t, b)
    BY <1>2 DEF Greedy, Affordable
  <2>3. /\ plan' \subseteq [task : Tasks, agent : Agents, device : Devices]
        /\ \A m \in plan' : m.agent \notin banned
    BY <2>1, <2>2, PlaceUnbanned DEF OfflineInv, Types, Unbanned
  <2>4. QED BY <2>1, <2>3, PlanningStep
<1>3. ASSUME NEW t \in Tasks, RoundRobin(t) PROVE OfflineInv'
  <2>1. /\ main = "rotate" /\ main' = "rotate"
        /\ UNCHANGED <<row, live, job, banned>>
    BY <1>3 DEF RoundRobin
  <2>2. UNCHANGED plan \/ \E b \in Candidates(t) : Place(t, b)
    BY <1>3 DEF RoundRobin, Affordable
  <2>3. /\ plan' \subseteq [task : Tasks, agent : Agents, device : Devices]
        /\ \A m \in plan' : m.agent \notin banned
    BY <2>1, <2>2, PlaceUnbanned DEF OfflineInv, Types, Unbanned
  <2>4. QED BY <2>1, <2>3, PlanningStep
<1>4. CASE EndGreedy
  <2>1. CASE plan = {} /\ policy = "ortools"
    <3>1. /\ main = "greedy" /\ main' = "rotate"
          /\ UNCHANGED <<plan, row, live, job, banned>>
      BY <1>4, <2>1 DEF EndGreedy
    <3>2. QED BY <3>1, PlanningStep DEF OfflineInv, Types, Unbanned
  <2>2. CASE ~(plan = {} /\ policy = "ortools")
    <3>1. PICK s : Submit(plan, s)
      BY <1>4, <2>2 DEF EndGreedy
    <3>2. main = "greedy" /\ UNCHANGED <<row, live, banned>>
      BY <1>4 DEF EndGreedy
    <3>3. QED BY <3>1, <3>2, SubmitStep DEF OfflineInv, Types, Unbanned
  <2>3. QED BY <2>1, <2>2
<1>5. CASE EndRotate
  <2>1. PICK s : Submit(plan, s)
    BY <1>5 DEF EndRotate
  <2>2. main = "rotate" /\ UNCHANGED <<row, live, banned>>
    BY <1>5 DEF EndRotate
  <2>3. QED BY <2>1, <2>2, SubmitStep DEF OfflineInv, Types, Unbanned
<1>6. CASE Solve
  <2>1. main = "solve" /\ UNCHANGED <<row, live, banned>>
    BY <1>6 DEF Solve
  <2>2. PICK f \in Solutions : \E s : Submit(PlanOf(f), s)
    BY <1>6 DEF Solve
  <2>3. \A t \in todo : f[t] # Unplaced =>
           f[t] \in Bundles /\ f[t].agent \notin banned
    <3>1. \A t \in todo : f[t] # Unplaced => f[t] \in Template(t)
      BY <2>2 DEF Solutions
    <3>2. ASSUME NEW t, NEW b \in Template(t) PROVE b \in Bundles /\ b.agent \notin banned
      BY <3>2, CandidateUnbanned DEF Template
    <3>3. QED BY <3>1, <3>2
  <2>4. /\ PlanOf(f) \subseteq [task : Tasks, agent : Agents, device : Devices]
        /\ \A m \in PlanOf(f) : m.agent \notin banned
    BY <2>3 DEF PlanOf, Bundles, Asked
  <2>5. QED BY <2>1, <2>2, <2>4, SubmitStep
<1>7. CASE SolverFails
  <2>1. /\ main = "solve" /\ main' = "greedy"
        /\ UNCHANGED <<plan, row, live, job, banned>>
    BY <1>7 DEF SolverFails, sched
  <2>2. QED BY <2>1, PlanningStep DEF OfflineInv, Types, Unbanned
<1>8. CASE EndRound
  <2>1. /\ main = "round" /\ main' = "loop" /\ \A t \in Tasks : job[t].step = "off"
        /\ UNCHANGED <<plan, row, live, job, banned>>
    BY <1>8 DEF EndRound, sched
  <2>2. QED BY <2>1 DEF OfflineInv, Types, Placed, Marked, Unbanned, AgentOf
<1>9. QED BY <1>1, <1>2, <1>3, <1>4, <1>5, <1>6, <1>7, <1>8 DEF Schedule

-----------------------------------------------------------------------------
(* The round is executed *)

(* A worker changes its own record and leaves plan and marks alone. *)
LEMMA WorkerStep ==
    ASSUME OfflineInv, NEW t \in Tasks, NEW r \in WorkerType,
           job[t].step # "off",
           job' = [job EXCEPT ![t] = r],
           r.stage = "work" <=> r.step = "run",
           r.step = "put" /\ AgentOf(t) \in banned => ~r.read.online,
           UNCHANGED <<main, plan, banned>>,
           row' \in [Agents -> RowType], live' \in [Agents -> Nat],
           \A a \in banned : ~row'[a].online
    PROVE  OfflineInv'
<1>1. \A u \in Tasks : AgentOf(u)' = AgentOf(u)
  BY DEF AgentOf
<1>2. \A u \in Tasks : job'[u] = IF u = t THEN r ELSE job[u]
  BY DEF OfflineInv, Types
<1>3. Types'
  BY DEF OfflineInv, Types
<1>4. Placed'
  BY <1>2 DEF OfflineInv, Placed
<1>5. Marked'
  BY <1>1, <1>2 DEF OfflineInv, Marked
<1>6. QED BY <1>3, <1>4, <1>5 DEF OfflineInv, Unbanned

LEMMA DequeueStep ==
    ASSUME OfflineInv, NEW t \in Tasks, Dequeue(t)
    PROVE  OfflineInv'
<1> DEFINE r == [job[t] EXCEPT !.step = "count"]
<1>1. /\ r \in WorkerType /\ r.step = "count" /\ r.stage = job[t].stage
      /\ job[t].step = "queued" /\ job' = [job EXCEPT ![t] = r]
  BY DEF Dequeue, OfflineInv, Types, WorkerType, Steps
<1>2. UNCHANGED <<main, plan, banned, row, live>>
  BY DEF Dequeue, sched
<1>3. QED BY <1>1, <1>2, WorkerStep DEF OfflineInv, Types, Placed, Marked

LEMMA CountStep ==
    ASSUME OfflineInv, NEW t \in Tasks, Count(t)
    PROVE  OfflineInv'
<1> DEFINE n == IF job[t].stage = "enter" THEN live[AgentOf(t)] + 1
                ELSE IF live[AgentOf(t)] > 0 THEN live[AgentOf(t)] - 1 ELSE 0
           r == [job[t] EXCEPT !.running = n, !.step = "get"]
<1>1. job[t].step = "count" /\ AgentOf(t) \in Agents
  BY AgentOfType DEF Count, OfflineInv
<1>2. n \in Nat
  BY <1>1 DEF OfflineInv, Types
<1>3. /\ r \in WorkerType /\ r.step = "get" /\ r.stage = job[t].stage
      /\ job' = [job EXCEPT ![t] = r]
  BY <1>2 DEF Count, OfflineInv, Types, WorkerType, Steps
<1>4. live' = [live EXCEPT ![AgentOf(t)] = n]
  BY DEF Count
<1>5. UNCHANGED <<main, plan, banned, row>>
  BY DEF Count, sched
<1>6. live' \in [Agents -> Nat]
  BY <1>2, <1>4 DEF OfflineInv, Types
<1> HIDE DEF n, r
<1>7. QED BY <1>1, <1>3, <1>5, <1>6, WorkerStep DEF OfflineInv, Types, Placed, Marked

LEMMA GetStep ==
    ASSUME OfflineInv, NEW t \in Tasks, Get(t)
    PROVE  OfflineInv'
<1> DEFINE r == [job[t] EXCEPT !.read = row[AgentOf(t)], !.step = "put"]
<1>1. job[t].step = "get" /\ AgentOf(t) \in Agents
  BY AgentOfType DEF Get, OfflineInv
<1>2. /\ r \in WorkerType /\ r.step = "put" /\ r.stage = job[t].stage
      /\ r.read = row[AgentOf(t)] /\ job' = [job EXCEPT ![t] = r]
  BY <1>1 DEF Get, OfflineInv, Types, WorkerType, Steps
<1>3. UNCHANGED <<main, plan, banned, row, live>>
  BY DEF Get, sched
<1> HIDE DEF r
<1>4. QED BY <1>1, <1>2, <1>3, WorkerStep DEF OfflineInv, Types, Placed, Marked

(* What is written keeps the offline mark of what was read. *)
LEMMA WrittenType ==
    ASSUME OfflineInv, NEW t \in Tasks, job[t].step = "put"
    PROVE  /\ Written(t) \in RowType
           /\ ~job[t].read.online => ~Written(t).online
<1>1. /\ job[t].stage \in Stages \ {"work"} /\ job[t].read \in RowType
      /\ job[t].running \in Nat
  BY DEF OfflineInv, Types, Placed, WorkerType, Stages
<1>2. Capacity[AgentOf(t)] \in Nat
  BY AgentOfType, PlacementAssumption DEF OfflineInv
<1>3. CASE job[t].stage \in {"enter", "leave"}
  BY <1>1, <1>2, <1>3 DEF Written, RowType
<1>4. CASE job[t].stage = "sample"
  BY <1>1, <1>4 DEF Written, RowType
<1>5. CASE job[t].stage = "offline"
  BY <1>1, <1>5 DEF Written, RowType
<1>6. QED BY <1>1, <1>3, <1>4, <1>5 DEF Stages

LEMMA PutStep ==
    ASSUME OfflineInv, NEW t \in Tasks, Put(t)
    PROVE  OfflineInv'
<1> DEFINE r == [Off EXCEPT !.stage = NextStage(t), !.step = NextStep(t),
                            !.outcome = IF job[t].outcome = "replaceable"
                                        THEN "replaceable" ELSE "none"]
<1>1. job[t].step = "put" /\ AgentOf(t) \in Agents
  BY AgentOfType DEF Put, OfflineInv
<1>2. /\ NextStage(t) \in Stages /\ NextStep(t) \in Steps \ {"put"}
      /\ NextStage(t) = "work" <=> NextStep(t) = "run"
  BY DEF NextStage, NextStep, Stages, Steps
<1>3. /\ r \in WorkerType /\ r.stage = NextStage(t) /\ r.step = NextStep(t)
  BY <1>2, FreshType DEF WorkerType, Off, Outcomes
<1>4. job' = [job EXCEPT ![t] = r] /\ row' = [row EXCEPT ![AgentOf(t)] = Written(t)]
  BY DEF Put
<1>5. UNCHANGED <<main, plan, banned, live>>
  BY DEF Put, sched
<1>6. row' \in [Agents -> RowType]
  BY <1>1, <1>4, WrittenType DEF OfflineInv, Types
<1>7. \A a \in banned : ~row'[a].online
  BY <1>1, <1>4, WrittenType DEF OfflineInv, Types, Marked
<1> HIDE DEF r
<1>8. QED BY <1>1, <1>2, <1>3, <1>4, <1>5, <1>6, <1>7, WorkerStep DEF OfflineInv, Types

LEMMA WorkStep ==
    ASSUME OfflineInv, NEW t \in Tasks, Work(t)
    PROVE  OfflineInv'
<1>1. PICK o \in Outcomes \ {"none"} :
         job' = [job EXCEPT ![t].outcome = o,
                            ![t].stage = IF o = "stuck" THEN "leave" ELSE "sample",
                            ![t].step = IF o = "stuck" THEN "count" ELSE "get"]
  BY DEF Work
<1> DEFINE r == [job[t] EXCEPT !.outcome = o,
                               !.stage = IF o = "stuck" THEN "leave" ELSE "sample",
                               !.step = IF o = "stuck" THEN "count" ELSE "get"]
<1>2. /\ r \in WorkerType /\ r.step \in {"count", "get"} /\ r.stage # "work"
      /\ job' = [job EXCEPT ![t] = r]
  BY <1>1 DEF OfflineInv, Types, WorkerType, Stages, Steps
<1>3. job[t].step = "run" /\ UNCHANGED <<main, plan, banned, row, live>>
  BY DEF Work, At, sched
<1> HIDE DEF r
<1>4. QED BY <1>2, <1>3, WorkerStep DEF OfflineInv, Types, Marked

-----------------------------------------------------------------------------
(* The mark is set at a round boundary, when no worker holds a row. *)
LEMMA OfflineStep ==
    ASSUME OfflineInv, NEW a \in Agents, Offline(a)
    PROVE  OfflineInv'
<1>1. /\ main = "loop" /\ main' = "loop" /\ banned' = banned \cup {a}
      /\ row' = [row EXCEPT ![a].online = FALSE] /\ UNCHANGED <<plan, live, job>>
  BY DEF Offline, sched
<1>2. \A t \in Tasks : job[t].step = "off"
  BY <1>1 DEF OfflineInv, Placed
<1>3. Types'
  BY <1>1 DEF OfflineInv, Types, RowType
<1>4. \A b \in banned' : ~row'[b].online
  BY <1>1 DEF OfflineInv, Types, RowType, Marked
<1>5. QED BY <1>1, <1>2, <1>3, <1>4 DEF OfflineInv, Placed, Marked, Unbanned

LEMMA AskedStep ==
    ASSUME Asked, [Next]_vars
    PROVE  Asked'
<1>1. ASSUME NEW p, NEW s, Submit(p, s) PROVE Asked'
  BY <1>1 DEF Submit, Asked
<1>2. CASE Schedule
  BY <1>1, <1>2 DEF Schedule, RunOnce, Greedy, RoundRobin, EndGreedy, EndRotate, Solve,
                    SolverFails, EndRound, Asked, sched
<1>3. ASSUME NEW t \in Tasks, Worker(t) PROVE Asked'
  BY <1>3 DEF Worker, Dequeue, Count, Get, Put, Work, Asked, sched
<1>4. ASSUME NEW a \in Agents, Offline(a) PROVE Asked'
  BY <1>4 DEF Offline, Asked, sched
<1>5. CASE UNCHANGED vars
  BY <1>5 DEF vars, sched, Asked
<1>6. QED BY <1>2, <1>3, <1>4, <1>5 DEF Next

LEMMA NextOffline ==
    ASSUME OfflineInv, Asked, [Next]_vars
    PROVE  OfflineInv'
<1>1. CASE Schedule
  BY <1>1, ScheduleStep
<1>2. ASSUME NEW t \in Tasks, Worker(t) PROVE OfflineInv'
  BY <1>2, DequeueStep, CountStep, GetStep, PutStep, WorkStep DEF Worker
<1>3. ASSUME NEW a \in Agents, Offline(a) PROVE OfflineInv'
  BY <1>3, OfflineStep
<1>4. CASE UNCHANGED vars
  BY <1>4 DEF vars, sched, OfflineInv, Types, Placed, Marked, Unbanned, AgentOf
<1>5. QED BY <1>1, <1>2, <1>3, <1>4 DEF Next

(* Every reachable state: an agent the operator took offline is offline in  *)
(* its stored row and in every row a worker is about to write.              *)
THEOREM MarkIsKept == Spec => [](OfflineInv /\ Asked)
<1>1. Init => OfflineInv /\ Asked
  BY InitOffline DEF Init, Asked
<1>2. OfflineInv /\ Asked /\ [Next]_vars => OfflineInv' /\ Asked'
  BY NextOffline, AskedStep
<1>3. QED BY <1>1, <1>2, PTL DEF Spec

(* Subsequent scheduler rounds exclude it: no round executes a placement on *)
(* an agent the live fault agent_offline marked.                            *)
THEOREM OfflineStays == Spec => []OfflineExcluded
<1>1. OfflineInv => OfflineExcluded
  BY DEF OfflineInv, Unbanned, OfflineExcluded
<1>2. QED BY <1>1, MarkIsKept, PTL

-----------------------------------------------------------------------------
(* The inductive invariant of the other properties *)

Unique(P) == \A m, n \in P : m.task = n.task => m = n

(* No task twice, nobody beyond capacity, and what is placed is not asked    *)
(* again.                                                                   *)
Fitted ==
    /\ Unique(plan)
    /\ \A a \in Agents : Cardinality({m \in plan : m.agent = a}) <= Capacity[a]
    /\ \A d \in Devices : Cardinality({m \in plan : m.device = d}) <= Capacity[d]
    /\ main = "solve" => plan = {}
    /\ main \in {"greedy", "rotate"} => Claimed \cap todo = {}

(* The stages a worker may be in at each step. *)
Stepped ==
    \A t \in Tasks :
        /\ job[t].step \in {"off", "count"} => job[t].stage \in {"enter", "leave"}
        /\ job[t].step = "queued" => job[t].stage = "enter"
        /\ job[t].stage = "enter" => job[t].outcome # "replaceable"
        /\ job[t].stage = "work" => job[t].outcome # "replaceable"

(* The tasks _live_load counts on an agent. *)
InUse(t) ==
    \/ job[t].stage \in {"work", "sample", "offline"}
    \/ job[t].stage = "enter" /\ job[t].step \in {"get", "put"}
    \/ job[t].stage = "leave" /\ job[t].step = "count"

Counted(a) == {t \in Tasks : InUse(t) /\ AgentOf(t) = a}

(* A worker about to write its last row has counted itself off. *)
LastRow(t) == job[t].stage = "leave" /\ job[t].step \in {"get", "put"}

Counting ==
    /\ \A a \in Agents : live[a] = Cardinality(Counted(a))
    /\ \A t \in Tasks : LastRow(t) => job[t].running < Capacity[AgentOf(t)]
    /\ \A a \in Agents : \/ row[a].load < Capacity[a]
                         \/ \E t \in Tasks : job[t].step # "off" /\ AgentOf(t) = a

(* Nobody else writes the row of an agent with one user. *)
Lone ==
    main \in {"round", "loop"} =>
        \A a \in Agents : \A t \in Tasks : Users(a) = {t} =>
            /\ LastRow(t) => job[t].running = 0
            /\ job[t].step = "off" => row[a].load = 0
            /\ job[t].outcome = "replaceable" /\ job[t].stage = "leave" =>
                  ~row[a].online /\ (job[t].step = "put" => ~job[t].read.online)

(* As long as nothing is placed, nothing considered could be afforded, and   *)
(* the second fallback finds nothing.                                       *)
Tried ==
    /\ main = "solve" => ready \subseteq todo
    /\ main \in {"greedy", "rotate"} /\ plan = {} =>
          \A t \in ready \ todo : Affordable(t) = {}
    /\ policy = "ortools" /\ main = "rotate" =>
          plan = {} /\ todo \subseteq ready /\ \A t \in ready : Affordable(t) = {}
    /\ policy = "greedy" => main # "rotate"
    /\ main = "idle" => /\ plan = {}
                        /\ status # "FEASIBLE" => \A t \in ready : Affordable(t) = {}

Booked ==
    /\ Fitted /\ Stepped /\ Counting /\ Lone /\ Tried /\ MutexRespected
    /\ offset \in Int /\ policy \in Policies

RoundInv == OfflineInv /\ Asked /\ Booked

-----------------------------------------------------------------------------
(* Finite sets *)

LEMMA LeastNat ==
    ASSUME NEW T \in SUBSET Nat, T # {}
    PROVE  \E x \in T : \A y \in T : x <= y
<1> DEFINE R == OpToRel(<, Nat)
<1>1. IsWellFoundedOn(R, Nat) BY NatLessThanWellFounded
<1>2. \A x, y \in Nat : y < x => <<y, x>> \in R BY DEF OpToRel
<1> HIDE DEF R
<1>3. \E x \in T : \A y \in T : ~(<<y, x>> \in R) BY <1>1, WFMin
<1>4. PICK x \in T : \A y \in T : ~(<<y, x>> \in R) BY <1>3
<1>5. \A y \in T : ~(y < x) BY <1>2, <1>4
<1>6. QED BY <1>5

(* Placements without a task twice are as many as their tasks. *)
LEMMA OneEach ==
    ASSUME NEW P, Unique(P), {m.task : m \in P} \subseteq Tasks
    PROVE  /\ IsFiniteSet(P) /\ IsFiniteSet({m.task : m \in P})
           /\ Cardinality(P) = Cardinality({m.task : m \in P})
<1> DEFINE S == {m.task : m \in P}
           f == [s \in S |-> CHOOSE m \in P : m.task = s]
<1>1. IsFiniteSet(S) BY PoolAssumption, FS_Subset
<1>2. \A s \in S : f[s] \in P /\ f[s].task = s
  OBVIOUS
<1>3. f \in [S -> P] /\ \A m \in P : f[m.task] = m BY <1>2 DEF Unique
<1> HIDE DEF f
<1>4. f \in Bijection(S, P)
  <2>1. IsInjective(f) BY <1>2, <1>3 DEF IsInjective
  <2>2. \A m \in P : \E s \in S : f[s] = m BY <1>3
  <2>3. QED BY <1>3, <2>1, <2>2 DEF Bijection, Injection, Surjection
<1>5. QED BY <1>1, <1>4, FS_Bijection DEF ExistsBijection

LEMMA SameAgent ==
    ASSUME Unique(plan), NEW m \in plan
    PROVE  AgentOf(m.task) = m.agent
<1>1. \A n \in plan : n.task = m.task => n = m BY DEF Unique
<1>2. (CHOOSE n \in plan : n.task = m.task) = m BY <1>1
<1>3. QED BY <1>2 DEF AgentOf

LEMMA UsersAre ==
    ASSUME Types, Unique(plan), NEW a
    PROVE  Users(a) = {t \in Tasks : t \in Claimed /\ AgentOf(t) = a}
<1>1. \A m \in plan : m.task \in Tasks /\ AgentOf(m.task) = m.agent
  BY SameAgent DEF Types
<1>2. QED BY <1>1 DEF Users, Claimed

(* The users of an agent are as many as its placements. *)
LEMMA UsersCount ==
    ASSUME RoundInv, NEW a \in Agents
    PROVE  /\ IsFiniteSet(Users(a)) /\ Cardinality(Users(a)) <= Capacity[a]
           /\ Cardinality(Users(a)) \in Nat /\ Capacity[a] \in Nat
<1> DEFINE P == {m \in plan : m.agent = a}
<1>1. Unique(P) BY DEF RoundInv, Booked, Fitted, Unique
<1>2. {m.task : m \in P} \subseteq Tasks BY DEF RoundInv, OfflineInv, Types
<1>3. Cardinality(P) <= Capacity[a] BY DEF RoundInv, Booked, Fitted
<1>4. IsFiniteSet(Users(a)) /\ Cardinality(Users(a)) = Cardinality(P)
  BY <1>1, <1>2, OneEach DEF Users
<1>5. QED BY <1>3, <1>4, FS_CardinalityType, PlacementAssumption

(* Only users are counted. *)
LEMMA CountedUse ==
    ASSUME RoundInv, NEW a \in Agents
    PROVE  /\ Counted(a) \subseteq Users(a) /\ IsFiniteSet(Counted(a))
           /\ Cardinality(Counted(a)) \in Nat
           /\ Cardinality(Counted(a)) <= Cardinality(Users(a))
<1>1. \A t \in Tasks : InUse(t) => job[t].step # "off"
  BY DEF RoundInv, Booked, Stepped, InUse
<1>2. \A t \in Tasks : InUse(t) => t \in Claimed
  BY <1>1 DEF RoundInv, OfflineInv, Placed, Claimed
<1>3. Counted(a) \subseteq Users(a)
  BY <1>2, UsersAre DEF RoundInv, OfflineInv, Booked, Fitted, Counted
<1>4. QED BY <1>3, UsersCount, FS_Subset, FS_CardinalityType

-----------------------------------------------------------------------------
(* The round is executed *)

(* What the record r of a worker of agent a, and its row w, must satisfy.    *)
Allowed(r) ==
    /\ r.step \in {"off", "count"} => r.stage \in {"enter", "leave"}
    /\ r.step = "queued" => r.stage = "enter"
    /\ r.stage \in {"enter", "work"} => r.outcome # "replaceable"

IsLast(r) == r.stage = "leave" /\ r.step \in {"get", "put"}

Alone(r, w) ==
    /\ IsLast(r) => r.running = 0
    /\ r.step = "off" => w.load = 0
    /\ r.outcome = "replaceable" /\ r.stage = "leave" =>
          ~w.online /\ (r.step = "put" => ~r.read.online)

LEMMA WorkerBooks ==
    ASSUME RoundInv, NEW t \in Tasks, NEW r, job[t].step # "off",
           job' = [job EXCEPT ![t] = r],
           UNCHANGED <<policy, main, sched>>,
           Allowed(r),
           \A b \in Agents : live'[b] = Cardinality(Counted(b)'),
           \A b \in Agents \ {AgentOf(t)} : row'[b] = row[b],
           IsLast(r) => r.running < Capacity[AgentOf(t)],
           row'[AgentOf(t)].load < Capacity[AgentOf(t)] \/ r.step # "off",
           Users(AgentOf(t)) = {t} => Alone(r, row'[AgentOf(t)])
    PROVE  Booked'
<1> DEFINE a == AgentOf(t)
<1>1. /\ main = "round" /\ main' = "round" /\ a \in Agents
      /\ UNCHANGED <<plan, todo, status, offset, policy>>
  BY AgentOfType DEF RoundInv, OfflineInv, Placed, sched
<1>2. \A u \in Tasks : job'[u] = IF u = t THEN r ELSE job[u]
  BY DEF RoundInv, OfflineInv, Types
<1>3. /\ \A u \in Tasks : AgentOf(u)' = AgentOf(u)
      /\ \A b : Users(b)' = Users(b)
      /\ Claimed' = Claimed
  BY <1>1 DEF AgentOf, Users, Claimed
<1>4. Fitted' /\ MutexRespected' /\ offset' \in Int
  BY <1>1, <1>3 DEF RoundInv, Booked, Fitted, Unique, MutexRespected
<1>5. Tried' BY <1>1 DEF Tried
<1>6. Stepped' BY <1>2 DEF RoundInv, Booked, Stepped, Allowed
<1>7. Counting'
  <2>1. \A u \in Tasks : LastRow(u)' => job'[u].running < Capacity[AgentOf(u)]
    BY <1>2 DEF RoundInv, Booked, Counting, LastRow, IsLast
  <2>2. ASSUME NEW b \in Agents
        PROVE  \/ row'[b].load < Capacity[b]
               \/ \E u \in Tasks : job'[u].step # "off" /\ AgentOf(u) = b
    <3>1. CASE b = a BY <1>2, <3>1
    <3>2. CASE b # a
      <4>1. row'[b] = row[b] BY <3>2
      <4>2. \A u \in Tasks : AgentOf(u) = b => job'[u] = job[u] BY <1>2, <3>2
      <4>3. QED BY <4>1, <4>2 DEF RoundInv, Booked, Counting
    <3>3. QED BY <3>1, <3>2
  <2>3. QED BY <1>3, <2>1, <2>2 DEF Counting
<1>8. Lone'
  <2>1. \A b : Users(b) = {u \in Tasks : u \in Claimed /\ AgentOf(u) = b}
    BY UsersAre DEF RoundInv, OfflineInv, Booked, Fitted
  <2>2. t \in Users(a)
    BY <2>1 DEF RoundInv, OfflineInv, Placed, Claimed
  <2>3. ASSUME NEW b \in Agents, NEW u \in Tasks, Users(b) = {u}
        PROVE  Alone(job'[u], row'[b])
    <3>1. AgentOf(u) = b BY <2>1, <2>3
    <3>2. CASE b = a
      <4>1. u = t BY <2>2, <2>3, <3>2
      <4>2. QED BY <1>2, <2>3, <3>2, <4>1
    <3>3. CASE b # a
      <4>1. job'[u] = job[u] /\ row'[b] = row[b] BY <1>2, <3>1, <3>3
      <4>2. Alone(job[u], row[b])
        BY <1>1, <2>3 DEF RoundInv, Booked, Lone, Alone, LastRow, IsLast
      <4>3. QED BY <4>1, <4>2
    <3>4. QED BY <3>2, <3>3
  <2>4. QED BY <1>3, <2>3 DEF Lone, Alone, LastRow, IsLast
<1>9. QED BY <1>1, <1>4, <1>5, <1>6, <1>7, <1>8 DEF Booked, RoundInv

(* A step that neither counts nor moves t in or out of use. *)
LEMMA CountStays ==
    ASSUME RoundInv, NEW t \in Tasks, NEW r,
           job' = [job EXCEPT ![t] = r], UNCHANGED <<live, plan>>,
           InUse(t)' <=> InUse(t)
    PROVE  \A b \in Agents : live'[b] = Cardinality(Counted(b)')
<1>1. \A u \in Tasks : AgentOf(u)' = AgentOf(u) BY DEF AgentOf
<1>2. \A u \in Tasks : InUse(u)' <=> InUse(u)
  BY DEF InUse, RoundInv, OfflineInv, Types
<1>3. \A b : Counted(b)' = Counted(b) BY <1>1, <1>2 DEF Counted
<1>4. QED BY <1>3 DEF RoundInv, Booked, Counting

LEMMA DequeueBooks ==
    ASSUME RoundInv, NEW t \in Tasks, Dequeue(t)
    PROVE  Booked'
<1> DEFINE r == [job[t] EXCEPT !.step = "count"]
<1>1. /\ r.step = "count" /\ r.stage = job[t].stage /\ r.outcome = job[t].outcome
      /\ job[t].step = "queued" /\ job' = [job EXCEPT ![t] = r]
  BY DEF Dequeue, RoundInv, OfflineInv, Types, WorkerType
<1>2. job[t].stage = "enter" /\ job[t].outcome # "replaceable"
  BY <1>1 DEF RoundInv, Booked, Stepped
<1>3. UNCHANGED <<policy, main, sched, row, live, plan>>
  BY DEF Dequeue, sched
<1>4. job'[t] = r BY <1>1 DEF RoundInv, OfflineInv, Types
<1> HIDE DEF r
<1>5. InUse(t)' <=> InUse(t) BY <1>1, <1>2, <1>4 DEF InUse
<1>6. \A b \in Agents : live'[b] = Cardinality(Counted(b)') BY <1>1, <1>3, <1>5, CountStays
<1>7. Allowed(r) /\ ~IsLast(r) /\ Alone(r, row'[AgentOf(t)])
  BY <1>1, <1>2 DEF Allowed, IsLast, Alone
<1>8. QED BY <1>1, <1>3, <1>6, <1>7, WorkerBooks

(* The number a task reads is exact: it counts the tasks in use. *)
LEMMA CountBooks ==
    ASSUME RoundInv, NEW t \in Tasks, Count(t)
    PROVE  Booked'
<1>0. job[t].step = "count" /\ AgentOf(t) \in Agents
  BY AgentOfType DEF Count, RoundInv, OfflineInv
<1>1. PICK a \in Agents : job[t].step = "count" /\ a = AgentOf(t)
  BY <1>0
<1> DEFINE n == IF job[t].stage = "enter" THEN live[a] + 1
                ELSE IF live[a] > 0 THEN live[a] - 1 ELSE 0
           r == [job[t] EXCEPT !.running = n, !.step = "get"]
<1>2. /\ r.step = "get" /\ r.stage = job[t].stage /\ r.outcome = job[t].outcome
      /\ r.running = n /\ job' = [job EXCEPT ![t] = r]
  BY <1>1 DEF Count, RoundInv, OfflineInv, Types, WorkerType
<1>3. live' = [live EXCEPT ![a] = n] BY <1>1 DEF Count
<1>4. UNCHANGED <<policy, main, sched, row, plan>> BY DEF Count, sched
<1>5. job[t].stage \in {"enter", "leave"} /\ Allowed(r)
  BY <1>1, <1>2 DEF RoundInv, Booked, Stepped, Allowed
<1>6. \A u \in Tasks : AgentOf(u)' = AgentOf(u) BY <1>4 DEF AgentOf
<1>7. /\ live \in [Agents -> Nat] /\ live[a] = Cardinality(Counted(a))
      /\ Capacity[a] \in Nat /\ live[a] <= Capacity[a] /\ 0 < Capacity[a]
  BY <1>1, CountedUse, UsersCount, PlacementAssumption
     DEF RoundInv, OfflineInv, Types, Booked, Counting
<1>8. \A u \in Tasks \ {t} : InUse(u)' <=> InUse(u)
  BY <1>2 DEF InUse, RoundInv, OfflineInv, Types
<1>9. job'[t] = r BY <1>2 DEF RoundInv, OfflineInv, Types
<1> HIDE DEF r
<1>10. \A b \in Agents \ {a} : live'[b] = Cardinality(Counted(b)')
  <2>1. \A b \in Agents \ {a} : Counted(b)' = Counted(b)
    BY <1>1, <1>6, <1>8 DEF Counted
  <2>2. QED BY <1>3, <1>7, <2>1 DEF RoundInv, Booked, Counting
<1>11. CASE job[t].stage = "enter"
  <2>1. ~InUse(t) /\ InUse(t)' BY <1>1, <1>2, <1>9, <1>11 DEF InUse
  <2>2. Counted(a)' = Counted(a) \cup {t} /\ t \notin Counted(a)
    BY <1>1, <1>6, <1>8, <2>1 DEF Counted
  <2>3. Cardinality(Counted(a)') = n
    <3>1. IsFiniteSet(Counted(a)) BY CountedUse
    <3>2. Cardinality(Counted(a) \cup {t}) = live[a] + 1
      BY <1>7, <2>2, <3>1, FS_AddElement
    <3>3. QED BY <1>11, <2>2, <3>2
  <2>4. \A b \in Agents : live'[b] = Cardinality(Counted(b)')
    BY <1>3, <1>7, <1>10, <2>3
  <2>5. ~IsLast(r) /\ Alone(r, row'[a])
    BY <1>2, <1>11 DEF IsLast, Alone
  <2>6. QED BY <1>1, <1>2, <1>4, <1>5, <2>4, <2>5, WorkerBooks
<1>12. CASE job[t].stage = "leave"
  <2>1. InUse(t) /\ ~InUse(t)' BY <1>1, <1>2, <1>9, <1>12 DEF InUse
  <2>2. Counted(a)' = Counted(a) \ {t} /\ t \in Counted(a)
    BY <1>1, <1>6, <1>8, <2>1 DEF Counted
  <2>3. Cardinality(Counted(a)') = live[a] - 1 /\ live[a] # 0
    <3>1. IsFiniteSet(Counted(a)) BY <1>1, CountedUse
    <3>2. Cardinality(Counted(a)) # 0 BY <2>2, <3>1, FS_EmptySet
    <3>3. QED BY <1>7, <2>2, <3>1, <3>2, FS_RemoveElement
  <2>4. n = live[a] - 1 /\ n < Capacity[a] BY <1>7, <1>12, <2>3
  <2>5. \A b \in Agents : live'[b] = Cardinality(Counted(b)')
    BY <1>3, <1>7, <1>10, <2>3, <2>4
  <2>6. Users(a) = {t} => n = 0
    <3>1. Users(a) = {t} => Counted(a)' = {} BY <1>1, <2>2, CountedUse
    <3>2. QED BY <2>3, <2>4, <3>1, FS_EmptySet
  <2>7. Users(a) = {t} => Alone(r, row'[a])
    <3>1. main = "round" BY <1>1 DEF RoundInv, OfflineInv, Placed
    <3>2. QED BY <1>1, <1>2, <1>4, <2>6, <3>1 DEF Alone, RoundInv, Booked, Lone
  <2>8. QED BY <1>1, <1>2, <1>4, <1>5, <2>4, <2>5, <2>7, WorkerBooks
<1>13. QED BY <1>5, <1>11, <1>12

LEMMA GetBooks ==
    ASSUME RoundInv, NEW t \in Tasks, Get(t)
    PROVE  Booked'
<1> DEFINE r == [job[t] EXCEPT !.read = row[AgentOf(t)], !.step = "put"]
<1>1. job[t].step = "get" /\ AgentOf(t) \in Agents
  BY AgentOfType DEF Get, RoundInv, OfflineInv
<1>2. /\ r.step = "put" /\ r.stage = job[t].stage /\ r.outcome = job[t].outcome
      /\ r.running = job[t].running /\ r.read = row[AgentOf(t)]
      /\ job' = [job EXCEPT ![t] = r]
  BY DEF Get, RoundInv, OfflineInv, Types, WorkerType
<1>3. UNCHANGED <<policy, main, sched, row, live, plan>> BY DEF Get, sched
<1>4. job'[t] = r BY <1>2 DEF RoundInv, OfflineInv, Types
<1> HIDE DEF r
<1>5. InUse(t)' <=> InUse(t) BY <1>1, <1>2, <1>4 DEF InUse
<1>6. \A b \in Agents : live'[b] = Cardinality(Counted(b)')
  BY <1>2, <1>3, <1>5, CountStays
<1>7. Allowed(r) BY <1>2 DEF RoundInv, Booked, Stepped, Allowed
<1>8. IsLast(r) => r.running < Capacity[AgentOf(t)]
  BY <1>1, <1>2 DEF RoundInv, Booked, Counting, LastRow, IsLast
<1>9. Users(AgentOf(t)) = {t} => Alone(r, row'[AgentOf(t)])
  <2>1. main = "round" BY <1>1 DEF RoundInv, OfflineInv, Placed
  <2>2. QED BY <1>1, <1>2, <1>3, <2>1 DEF Alone, IsLast, RoundInv, Booked, Lone, LastRow
<1>10. QED BY <1>1, <1>2, <1>3, <1>6, <1>7, <1>8, <1>9, WorkerBooks

(* What the last row says, and what a row keeps. *)
LEMMA WrittenLoad ==
    ASSUME RoundInv, NEW t \in Tasks, job[t].step = "put"
    PROVE  /\ job[t].stage = "leave" =>
                 /\ Written(t).load < Capacity[AgentOf(t)]
                 /\ job[t].running = 0 => Written(t).load = 0
           /\ job[t].stage = "offline" => ~Written(t).online
           /\ ~job[t].read.online => ~Written(t).online
<1>1. /\ job[t].read \in RowType /\ job[t].running \in Nat
      /\ job[t].stage = "leave" => job[t].running < Capacity[AgentOf(t)]
  BY DEF RoundInv, OfflineInv, Types, WorkerType, Booked, Counting, LastRow
<1>2. AgentOf(t) \in Agents /\ Capacity[AgentOf(t)] \in Nat
  BY AgentOfType, PlacementAssumption DEF RoundInv, OfflineInv
<1>3. ASSUME job[t].stage = "leave"
      PROVE  Written(t).load = job[t].running
  BY <1>1, <1>2, <1>3 DEF Written, RowType
<1>4. job[t].stage = "offline" => ~Written(t).online
  BY <1>1 DEF Written, RowType
<1>5. QED BY <1>1, <1>3, <1>4, WrittenType DEF RoundInv

LEMMA PutBooks ==
    ASSUME RoundInv, NEW t \in Tasks, Put(t)
    PROVE  Booked'
<1>1. job[t].step = "put" /\ AgentOf(t) \in Agents
  BY AgentOfType DEF Put, RoundInv, OfflineInv
<1> DEFINE r == [Off EXCEPT !.stage = NextStage(t), !.step = NextStep(t),
                            !.outcome = IF job[t].outcome = "replaceable"
                                        THEN "replaceable" ELSE "none"]
<1>2. /\ r.stage = NextStage(t) /\ r.step = NextStep(t)
      /\ r.outcome = "replaceable" <=> job[t].outcome = "replaceable"
      /\ job' = [job EXCEPT ![t] = r]
  BY DEF Put, Off
<1>3. UNCHANGED <<policy, main, sched, live, plan>> BY DEF Put, sched
<1>4. job'[t] = r BY <1>2 DEF RoundInv, OfflineInv, Types
<1>5. /\ row'[AgentOf(t)] = Written(t)
      /\ \A b \in Agents \ {AgentOf(t)} : row'[b] = row[b]
  BY <1>1 DEF Put, RoundInv, OfflineInv, Types
<1> HIDE DEF r
<1>6. /\ job[t].stage \in {"enter", "sample", "offline", "leave"}
      /\ job[t].stage = "enter" => job[t].outcome # "replaceable"
  BY <1>1 DEF RoundInv, OfflineInv, Types, WorkerType, Stages, Placed, Booked, Stepped
<1>7. /\ job[t].stage = "enter" => r.stage = "work" /\ r.step = "run"
      /\ job[t].stage = "leave" => r.stage = "leave" /\ r.step = "off"
      /\ job[t].stage = "offline" => r.stage = "leave" /\ r.step = "count"
      /\ job[t].stage = "sample" /\ job[t].outcome = "replaceable" =>
            r.stage = "offline" /\ r.step = "get"
      /\ job[t].stage = "sample" /\ job[t].outcome # "replaceable" =>
            r.stage = "leave" /\ r.step = "count"
  BY <1>2 DEF NextStage, NextStep
<1>8. InUse(t)' <=> InUse(t) BY <1>1, <1>4, <1>6, <1>7 DEF InUse
<1>9. \A b \in Agents : live'[b] = Cardinality(Counted(b)')
  BY <1>2, <1>3, <1>8, CountStays
<1>10. Allowed(r) /\ ~IsLast(r)
  BY <1>2, <1>6, <1>7 DEF Allowed, IsLast
<1>11. row'[AgentOf(t)].load < Capacity[AgentOf(t)] \/ r.step # "off"
  BY <1>1, <1>5, <1>6, <1>7, WrittenLoad
<1>12. Users(AgentOf(t)) = {t} => Alone(r, row'[AgentOf(t)])
  <2>1. main = "round" BY <1>1 DEF RoundInv, OfflineInv, Placed
  <2>2. CASE job[t].stage = "leave"
    <3>1. Users(AgentOf(t)) = {t} =>
             /\ job[t].running = 0
             /\ job[t].outcome = "replaceable" => ~job[t].read.online
      BY <1>1, <2>1, <2>2 DEF RoundInv, Booked, Lone, LastRow
    <3>2. QED BY <1>1, <1>2, <1>5, <1>7, <1>10, <2>2, <3>1, WrittenLoad DEF Alone
  <2>3. CASE job[t].stage = "offline"
    BY <1>1, <1>2, <1>5, <1>7, <1>10, <2>3, WrittenLoad DEF Alone
  <2>4. CASE job[t].stage \in {"enter", "sample"}
    BY <1>2, <1>7, <1>10, <2>4 DEF Alone
  <2>5. QED BY <1>6, <2>2, <2>3, <2>4
<1>13. QED BY <1>1, <1>2, <1>3, <1>5, <1>9, <1>10, <1>11, <1>12, WorkerBooks

LEMMA WorkBooks ==
    ASSUME RoundInv, NEW t \in Tasks, Work(t)
    PROVE  Booked'
<1>1. PICK o \in Outcomes \ {"none"} :
         job' = [job EXCEPT ![t].outcome = o,
                            ![t].stage = IF o = "stuck" THEN "leave" ELSE "sample",
                            ![t].step = IF o = "stuck" THEN "count" ELSE "get"]
  BY DEF Work
<1> DEFINE r == [job[t] EXCEPT !.outcome = o,
                               !.stage = IF o = "stuck" THEN "leave" ELSE "sample",
                               !.step = IF o = "stuck" THEN "count" ELSE "get"]
<1>2. /\ r.outcome = o /\ job' = [job EXCEPT ![t] = r]
      /\ \/ o = "stuck" /\ r.stage = "leave" /\ r.step = "count"
         \/ o # "stuck" /\ r.stage = "sample" /\ r.step = "get"
  BY <1>1 DEF RoundInv, OfflineInv, Types, WorkerType
<1>3. /\ job[t].step = "run" /\ job[t].stage = "work"
      /\ UNCHANGED <<policy, main, sched, plan, row, live>>
  BY DEF Work, At, sched
<1>4. job'[t] = r BY <1>2 DEF RoundInv, OfflineInv, Types
<1> HIDE DEF r
<1>5. InUse(t)' <=> InUse(t) BY <1>2, <1>3, <1>4 DEF InUse
<1>6. \A b \in Agents : live'[b] = Cardinality(Counted(b)')
  BY <1>2, <1>3, <1>5, CountStays
<1>7. Allowed(r) /\ ~IsLast(r) /\ Alone(r, row'[AgentOf(t)])
  BY <1>2 DEF Allowed, IsLast, Alone
<1>8. QED BY <1>2, <1>3, <1>6, <1>7, WorkerBooks

-----------------------------------------------------------------------------
(* The round is planned *)

Queued == [Off EXCEPT !.step = "queued"]

(* While nobody works nothing is counted, and every load leaves a slot. *)
LEMMA QuietBooks ==
    ASSUME RoundInv, \A t \in Tasks : job[t].step = "off",
           live' = live, \A a \in Agents : row'[a].load = row[a].load,
           \A t \in Tasks : job'[t] \in {job[t], Off, Queued}
    PROVE  Stepped' /\ Counting' /\ \A t \in Tasks : ~LastRow(t)'
<1>1. \A t \in Tasks : ~InUse(t)
  BY DEF RoundInv, Booked, Stepped, InUse
<1>2. \A t \in Tasks : ~InUse(t)' /\ ~LastRow(t)'
  BY <1>1 DEF InUse, LastRow, Off, Queued
<1>3. Stepped' BY DEF RoundInv, Booked, Stepped, Off, Queued
<1>4. \A a \in Agents : Counted(a) = {} /\ Counted(a)' = {}
  BY <1>1, <1>2 DEF Counted
<1>5. \A a \in Agents : row[a].load < Capacity[a]
  BY DEF RoundInv, Booked, Counting
<1>6. Counting'
  BY <1>2, <1>4, <1>5 DEF RoundInv, Booked, Counting
<1>7. QED BY <1>2, <1>3, <1>6

LEMMA PlanBooks ==
    ASSUME RoundInv, main # "round", main' \notin {"round", "loop"},
           UNCHANGED <<row, live>>,
           \A t \in Tasks : job'[t] \in {job[t], Off, Queued},
           Fitted', MutexRespected', Tried', offset' \in Int, policy' = policy
    PROVE  Booked'
<1>1. \A t \in Tasks : job[t].step = "off" BY DEF RoundInv, OfflineInv, Placed
<1>2. Stepped' /\ Counting' BY <1>1, QuietBooks
<1>3. Lone' BY DEF Lone
<1>4. QED BY <1>2, <1>3 DEF Booked, RoundInv

LEMMA AffordableStays ==
    ASSUME UNCHANGED <<row, plan>>, NEW t
    PROVE  Affordable(t)' = Affordable(t)
BY DEF Affordable, Candidates, ByKind, AgentLeft, AgentSlots, DeviceLeft

(* A placement takes a slot that is left of the agent and of the device. *)
LEMMA PlaceFits ==
    ASSUME RoundInv, main \in {"greedy", "rotate"}, main' = main,
           NEW t \in todo, NEW b \in Affordable(t), Place(t, b), todo' = todo \ {t}
    PROVE  Fitted' /\ Claimed' = Claimed \cup {t}
<1> DEFINE new == [task |-> t, agent |-> b.agent, device |-> b.device]
<1>1. /\ b \in Bundles /\ b.agent \in Agents /\ b.device \in Devices
      /\ AgentLeft(b.agent) > 0 /\ DeviceLeft(b.device) > 0
  BY DEF Affordable, Candidates, Bundles
<1>2. plan' = plan \cup {new} /\ t \notin Claimed /\ t \in Tasks
  BY DEF Place, RoundInv, Booked, Fitted, Asked
<1>3. new.task = t /\ new.agent = b.agent /\ new.device = b.device
  OBVIOUS
<1> HIDE DEF new
<1>4. Unique(plan)'
  BY <1>2, <1>3 DEF RoundInv, Booked, Fitted, Unique, Claimed
<1>5. Claimed' = Claimed \cup {t} BY <1>2, <1>3 DEF Claimed
<1>6. ASSUME NEW P \in SUBSET plan
      PROVE  /\ IsFiniteSet(P) /\ Cardinality(P) \in Nat
             /\ IsFiniteSet(P \cup {new}) /\ Cardinality(P \cup {new}) = Cardinality(P) + 1
  <2>1. Unique(P) /\ {m.task : m \in P} \subseteq Tasks
    BY DEF RoundInv, OfflineInv, Types, Booked, Fitted, Unique
  <2>2. IsFiniteSet(P) BY <2>1, OneEach
  <2>3. new \notin P BY <1>2, <1>3 DEF Claimed
  <2>4. QED BY <2>2, <2>3, FS_CardinalityType, FS_AddElement
<1>7. ASSUME NEW a \in Agents
      PROVE  Cardinality({m \in plan' : m.agent = a}) <= Capacity[a]
  <2>1. CASE a = b.agent
    <3>1. {m \in plan' : m.agent = a} = {m \in plan : m.agent = a} \cup {new}
      BY <1>2, <1>3, <2>1
    <3>2. /\ Cardinality({m \in plan : m.agent = a}) \in Nat
          /\ Cardinality({m \in plan' : m.agent = a})
                = Cardinality({m \in plan : m.agent = a}) + 1
      BY <3>1, <1>6
    <3>3. row[a].load \in Nat /\ Capacity[a] \in Nat
      BY PlacementAssumption DEF RoundInv, OfflineInv, Types, RowType
    <3>4. QED BY <1>1, <2>1, <3>2, <3>3 DEF AgentLeft, AgentSlots
  <2>2. CASE a # b.agent
    <3>1. {m \in plan' : m.agent = a} = {m \in plan : m.agent = a}
      BY <1>2, <1>3, <2>2
    <3>2. QED BY <3>1 DEF RoundInv, Booked, Fitted
  <2>3. QED BY <2>1, <2>2
<1>8. ASSUME NEW d \in Devices
      PROVE  Cardinality({m \in plan' : m.device = d}) <= Capacity[d]
  <2>1. CASE d = b.device
    <3>1. {m \in plan' : m.device = d} = {m \in plan : m.device = d} \cup {new}
      BY <1>2, <1>3, <2>1
    <3>2. /\ Cardinality({m \in plan : m.device = d}) \in Nat
          /\ Cardinality({m \in plan' : m.device = d})
                = Cardinality({m \in plan : m.device = d}) + 1
      BY <3>1, <1>6
    <3>3. Capacity[d] \in Nat BY PlacementAssumption
    <3>4. QED BY <1>1, <2>1, <3>2, <3>3 DEF DeviceLeft
  <2>2. CASE d # b.device
    <3>1. {m \in plan' : m.device = d} = {m \in plan : m.device = d}
      BY <1>2, <1>3, <2>2
    <3>2. QED BY <3>1 DEF RoundInv, Booked, Fitted
  <2>3. QED BY <2>1, <2>2
<1>9. Claimed' \cap todo' = {} BY <1>5 DEF RoundInv, Booked, Fitted
<1>10. Fitted' BY <1>4, <1>7, <1>8, <1>9 DEF Fitted
<1>11. QED BY <1>5, <1>10

(* A task that is considered and not placed. *)
LEMMA SkipFits ==
    ASSUME RoundInv, main' = main, plan' = plan, todo' \subseteq todo
    PROVE  Fitted'
BY DEF RoundInv, Booked, Fitted, Unique, Claimed

LEMMA GreedyBooks ==
    ASSUME RoundInv, NEW t \in Tasks, Greedy(t)
    PROVE  Booked'
<1>1. /\ main = "greedy" /\ main' = "greedy" /\ t \in todo /\ todo' = todo \ {t}
      /\ UNCHANGED <<policy, ready, status, offset, row, live, job>>
  BY DEF Greedy, FirstTodo
<1>2. CASE Affordable(t) # {} /\ MutexWith[t] \cap Claimed = {}
  <2>1. PICK b \in Affordable(t) : Place(t, b) BY <1>2 DEF Greedy
  <2>2. Fitted' /\ Claimed' = Claimed \cup {t} BY <1>1, <2>1, PlaceFits
  <2>3. Claimed \subseteq Tasks BY DEF RoundInv, OfflineInv, Types, Claimed
  <2>4. \A s \in Claimed : s \notin MutexWith[t] /\ t \notin MutexWith[s]
    BY <1>2, <2>3, PlacementAssumption
  <2>5. MutexRespected'
    BY <1>1, <2>2, <2>4 DEF MutexRespected, RoundInv, Booked
  <2>6. plan' # {} BY <2>1 DEF Place
  <2>7. Tried' BY <1>1, <2>6 DEF Tried
  <2>8. QED BY <1>1, <2>2, <2>5, <2>7, PlanBooks DEF RoundInv, Booked
<1>3. CASE Affordable(t) = {} \/ MutexWith[t] \cap Claimed # {}
  <2>1. plan' = plan BY <1>3 DEF Greedy
  <2>2. Claimed' = Claimed BY <2>1 DEF Claimed
  <2>3. Fitted' BY <1>1, <2>1, SkipFits
  <2>4. MutexRespected' BY <1>1, <2>2 DEF MutexRespected, RoundInv, Booked
  <2>5. plan = {} => Affordable(t) = {} BY <1>3 DEF Claimed
  <2>6. Tried'
    <3>1. \A u : Affordable(u)' = Affordable(u) BY <1>1, <2>1, AffordableStays
    <3>2. QED BY <1>1, <2>1, <2>5, <3>1 DEF Tried, RoundInv, Booked
  <2>7. QED BY <1>1, <2>3, <2>4, <2>6, PlanBooks DEF RoundInv, Booked
<1>4. QED BY <1>2, <1>3

(* The turn goes round a finite rotation: whoever can be afforded has one    *)
(* that comes first.                                                        *)
LEMMA SomebodyIsNext ==
    ASSUME RoundInv, NEW t, Affordable(t) # {}
    PROVE  \E b \in Affordable(t) :
              \A c \in Affordable(t) : Distance(b.agent) <= Distance(c.agent)
<1>1. \A b \in Affordable(t) : b.agent \in Rotation
  <2>1. ASSUME NEW b \in Affordable(t) PROVE b.agent \in Rotation
    <3> DEFINE P == {m \in plan : m.agent = b.agent}
    <3>1. /\ b.agent \in ByKind /\ b.agent \in Agents
          /\ AgentLeft(b.agent) > 0
      BY DEF Affordable, Candidates, Bundles
    <3>2. Unique(P) /\ {m.task : m \in P} \subseteq Tasks
      BY DEF RoundInv, OfflineInv, Types, Booked, Fitted, Unique
    <3>3. Cardinality(P) \in Nat BY <3>2, OneEach, FS_CardinalityType
    <3>4. row[b.agent].load \in Nat /\ Capacity[b.agent] \in Nat
      BY <3>1, PlacementAssumption DEF RoundInv, OfflineInv, Types, RowType
    <3>5. AgentSlots(b.agent) > 0
      BY <3>1, <3>3, <3>4 DEF AgentLeft, AgentSlots
    <3>6. QED BY <3>1, <3>5 DEF Rotation
  <2>2. QED BY <2>1
<1>2. Cardinality(Rotation) \in Nat \ {0}
  <2>1. Rotation \subseteq Agents /\ Rotation # {} BY <1>1 DEF Rotation, ByKind
  <2>2. IsFiniteSet(Rotation) BY <2>1, PoolAssumption, FS_Subset
  <2>3. QED BY <2>1, <2>2, FS_EmptySet, FS_CardinalityType
<1>3. \A a : Distance(a) \in Nat
  <2>1. ASSUME NEW a PROVE Distance(a) \in Nat
    <3> DEFINE S == {b \in Rotation : AgentOrder[b] < AgentOrder[a]}
    <3>1. S \subseteq Agents BY DEF Rotation, ByKind
    <3>2. IsFiniteSet(S) BY <3>1, PoolAssumption, FS_Subset
    <3>3. Index(a) \in Nat BY <3>2, FS_CardinalityType DEF Index
    <3>4. offset \in Int BY DEF RoundInv, Booked
    <3>5. Index(a) - offset \in Int BY <3>3, <3>4
    <3>6. \A i \in Int, n \in Nat \ {0} : i % n \in Nat OBVIOUS
    <3>7. QED BY <1>2, <3>5, <3>6 DEF Distance
  <2>2. QED BY <2>1
<1> DEFINE D == {Distance(b.agent) : b \in Affordable(t)}
<1>4. D \in SUBSET Nat /\ D # {} BY <1>3
<1>5. PICK x \in D : \A y \in D : x <= y BY <1>4, LeastNat
<1>6. PICK b \in Affordable(t) : x = Distance(b.agent) BY <1>5
<1>7. QED BY <1>5, <1>6

LEMMA RoundRobinBooks ==
    ASSUME RoundInv, NEW t \in Tasks, RoundRobin(t)
    PROVE  Booked'
<1> DEFINE next == {b \in Affordable(t) :
                      \A c \in Affordable(t) : Distance(b.agent) <= Distance(c.agent)}
<1>1. /\ main = "rotate" /\ main' = "rotate" /\ t \in todo /\ todo' = todo \ {t}
      /\ UNCHANGED <<policy, ready, status, row, live, job>>
  BY DEF RoundRobin, FirstTodo
<1>2. policy = "ortools" => Affordable(t) = {}
  BY <1>1 DEF RoundInv, Booked, Tried
<1>3. policy \in {"ortools", "round_robin"}
  BY <1>1, PlacementAssumption DEF RoundInv, Booked, Tried
<1>4. CASE next # {}
  <2>1. PICK b \in next : Place(t, b) /\ offset' = (Index(b.agent) + 1) % Cardinality(Rotation)
    BY <1>4 DEF RoundRobin
  <2>2. b \in Affordable(t) OBVIOUS
  <2>3. Fitted' BY <1>1, <2>1, <2>2, PlaceFits
  <2>4. offset' \in Int
    <3> DEFINE S == {c \in Rotation : AgentOrder[c] < AgentOrder[b.agent]}
    <3>1. S \subseteq Agents /\ Rotation \subseteq Agents BY DEF Rotation, ByKind
    <3>2. IsFiniteSet(S) /\ IsFiniteSet(Rotation) BY <3>1, PoolAssumption, FS_Subset
    <3>3. Index(b.agent) \in Nat /\ Cardinality(Rotation) \in Nat
      BY <3>2, FS_CardinalityType DEF Index
    <3>4. QED BY <2>1, <3>3
  <2>5. policy = "round_robin" BY <1>2, <1>3, <2>2
  <2>6. MutexRespected' /\ Tried'
    BY <1>1, <2>1, <2>5 DEF MutexRespected, Tried, Place
  <2>7. QED BY <1>1, <2>3, <2>4, <2>6, PlanBooks
<1>5. CASE next = {}
  <2>1. plan' = plan /\ offset' = offset BY <1>5 DEF RoundRobin
  <2>2. Affordable(t) = {} BY <1>5, SomebodyIsNext
  <2>3. Claimed' = Claimed BY <2>1 DEF Claimed
  <2>4. Fitted' BY <1>1, <2>1, SkipFits
  <2>5. MutexRespected' BY <1>1, <2>3 DEF MutexRespected, RoundInv, Booked
  <2>6. Tried'
    <3>1. \A u : Affordable(u)' = Affordable(u) BY <1>1, <2>1, AffordableStays
    <3>2. QED BY <1>1, <2>1, <2>2, <3>1 DEF Tried, RoundInv, Booked
  <2>7. QED BY <1>1, <2>1, <2>4, <2>5, <2>6, PlanBooks DEF RoundInv, Booked
<1>6. QED BY <1>4, <1>5

-----------------------------------------------------------------------------
(* A plan is submitted *)

LEMMA SubmitBooks ==
    ASSUME RoundInv, main \in {"solve", "greedy", "rotate"}, NEW p, NEW s, Submit(p, s),
           UNCHANGED <<policy, offset, row, live>>, Types',
           Unique(p),
           \A a \in Agents : Cardinality({m \in p : m.agent = a}) <= Capacity[a],
           \A d \in Devices : Cardinality({m \in p : m.device = d}) <= Capacity[d],
           policy # "round_robin" =>
               \A m, n \in p : n.task \in MutexWith[m.task] => m.task = n.task,
           p = {} => plan = {} /\ (s # "FEASIBLE" => \A t \in ready : Affordable(t) = {})
    PROVE  Booked'
<1>1. plan' = p /\ todo' = {} /\ status' = s /\ main' \in {"idle", "round"}
  BY DEF Submit
<1>2. Fitted' BY <1>1 DEF Fitted
<1>3. MutexRespected' BY <1>1 DEF MutexRespected, Claimed
<1>4. CASE p = {}
  <2>1. main' = "idle" /\ UNCHANGED <<ready, job, plan>> BY <1>1, <1>4 DEF Submit
  <2>2. \A t : Affordable(t)' = Affordable(t) BY <2>1, AffordableStays
  <2>3. Tried' BY <1>1, <1>4, <2>1, <2>2 DEF Tried
  <2>4. QED BY <1>2, <1>3, <2>1, <2>3, PlanBooks DEF RoundInv, Booked
<1>5. CASE p # {}
  <2>1. main' = "round" BY <1>5 DEF Submit
  <2>2. \A t \in Tasks : job'[t] = IF t \in Claimed' THEN Queued ELSE job[t]
    BY <1>1, <1>5 DEF Submit, Queued, Claimed
  <2>3. \A t \in Tasks : job[t].step = "off" BY DEF RoundInv, OfflineInv, Placed
  <2>4. Stepped' /\ Counting' BY <2>2, <2>3, QuietBooks
  <2>5. \A a : Users(a)' \subseteq Claimed' BY DEF Users, Claimed
  <2>6. Lone'
    <3>1. \A a \in Agents : \A t \in Tasks : Users(a)' = {t} => job'[t] = Queued
      BY <2>2, <2>5
    <3>2. /\ Queued.step = "queued" /\ Queued.outcome = "none"
      BY DEF Queued, Off
    <3>3. QED BY <3>1, <3>2 DEF Lone, LastRow
  <2>7. Tried' BY <2>1 DEF Tried
  <2>8. QED BY <1>2, <1>3, <2>4, <2>6, <2>7 DEF Booked, RoundInv
<1>6. QED BY <1>4, <1>5

(* What greedy or round robin has placed meets the conditions already. *)
LEMMA PlanFits ==
    ASSUME RoundInv
    PROVE  /\ Unique(plan)
           /\ \A a \in Agents : Cardinality({m \in plan : m.agent = a}) <= Capacity[a]
           /\ \A d \in Devices : Cardinality({m \in plan : m.device = d}) <= Capacity[d]
           /\ policy # "round_robin" =>
                 \A m, n \in plan : n.task \in MutexWith[m.task] => m.task = n.task
BY DEF RoundInv, Booked, Fitted, MutexRespected, Claimed

LEMMA EndGreedyBooks ==
    ASSUME RoundInv, EndGreedy, Types'
    PROVE  Booked'
<1>1. /\ main = "greedy" /\ todo = {} /\ UNCHANGED <<policy, offset, row, live>>
  BY DEF EndGreedy
<1>2. plan = {} => \A t \in ready : Affordable(t) = {}
  BY <1>1 DEF RoundInv, Booked, Tried
<1>3. CASE plan = {} /\ policy = "ortools"
  <2>1. main' = "rotate" /\ todo' = ready /\ UNCHANGED <<plan, status, ready, job>>
    BY <1>3 DEF EndGreedy
  <2>2. Fitted' /\ MutexRespected'
    BY <1>1, <1>3, <2>1 DEF RoundInv, Booked, Fitted, MutexRespected, Claimed, Unique
  <2>3. \A t : Affordable(t)' = Affordable(t) BY <1>1, <2>1, AffordableStays
  <2>4. Tried' BY <1>1, <1>2, <1>3, <2>1, <2>3 DEF Tried
  <2>5. QED BY <1>1, <2>1, <2>2, <2>4, PlanBooks DEF RoundInv, Booked
<1>4. CASE ~(plan = {} /\ policy = "ortools")
  <2>1. PICK s : Submit(plan, s) BY <1>4 DEF EndGreedy
  <2>2. QED BY <1>1, <1>2, <2>1, PlanFits, SubmitBooks
<1>5. QED BY <1>3, <1>4

LEMMA EndRotateBooks ==
    ASSUME RoundInv, EndRotate, Types'
    PROVE  Booked'
<1>1. /\ main = "rotate" /\ todo = {} /\ UNCHANGED <<policy, offset, row, live>>
  BY DEF EndRotate
<1>2. plan = {} => \A t \in ready : Affordable(t) = {}
  BY <1>1 DEF RoundInv, Booked, Tried
<1>3. PICK s : Submit(plan, s) BY DEF EndRotate
<1>4. QED BY <1>1, <1>2, <1>3, PlanFits, SubmitBooks

(* The constraints of the solver say of the plan what greedy checks as it    *)
(* goes.                                                                    *)
LEMMA SolutionFits ==
    ASSUME RoundInv, NEW f \in Solutions
    PROVE  /\ Unique(PlanOf(f))
           /\ \A a \in Agents :
                 Cardinality({m \in PlanOf(f) : m.agent = a}) <= Capacity[a]
           /\ \A d \in Devices :
                 Cardinality({m \in PlanOf(f) : m.device = d}) <= Capacity[d]
           /\ \A m, n \in PlanOf(f) : n.task \in MutexWith[m.task] => m.task = n.task
<1> DEFINE P == PlanOf(f)
<1>1. /\ \A m \in P : /\ m.task \in todo /\ f[m.task] # Unplaced
                      /\ m.agent = f[m.task].agent /\ m.device = f[m.task].device
                      /\ m = [task |-> m.task, agent |-> m.agent, device |-> m.device]
      /\ todo \subseteq Tasks
  BY DEF PlanOf, RoundInv, Asked
<1>2. /\ Satisfies(f) /\ \A t \in todo : f[t] # Unplaced => f[t] \in Template(t)
  BY DEF Solutions
<1> HIDE DEF P
<1>3. Unique(P)
  <2>1. ASSUME NEW m \in P, NEW n \in P, m.task = n.task PROVE m = n
    BY <1>1, <2>1
  <2>2. QED BY <2>1 DEF Unique
<1>4. ASSUME NEW S \in SUBSET P, NEW U, \A m \in S : m.task \in U, U \subseteq todo
      PROVE  Cardinality(S) <= Cardinality(U) /\ Cardinality(S) \in Nat
             /\ Cardinality(U) \in Nat
  <2>1. {m.task : m \in S} \subseteq U /\ U \subseteq Tasks BY <1>1, <1>4
  <2>2. Unique(S) BY <1>3 DEF Unique
  <2>3. IsFiniteSet(S) /\ Cardinality(S) = Cardinality({m.task : m \in S})
    BY <2>1, <2>2, OneEach
  <2>4. IsFiniteSet(U) BY <2>1, PoolAssumption, FS_Subset
  <2>5. QED BY <2>1, <2>3, <2>4, FS_Subset, FS_CardinalityType
<1>5. \A m \in P : m.agent \in ByKind
  <2>1. ASSUME NEW t, NEW b \in Template(t) PROVE b.agent \in ByKind
    BY DEF Template, Candidates
  <2>2. QED BY <1>1, <1>2, <2>1
<1>6. ASSUME NEW a \in Agents
      PROVE  Cardinality({m \in P : m.agent = a}) <= Capacity[a]
  <2> DEFINE S == {m \in P : m.agent = a}
             U == {t \in todo : f[t].agent = a}
  <2>1. /\ Cardinality(S) <= Cardinality(U) /\ Cardinality(S) \in Nat
        /\ Cardinality(U) \in Nat
    <3>1. \A m \in S : m.task \in U BY <1>1
    <3>2. S \in SUBSET P /\ U \subseteq todo OBVIOUS
    <3> HIDE DEF S, U
    <3>3. QED BY <1>4, <3>1, <3>2
  <2>2. row[a].load \in Nat /\ Capacity[a] \in Nat
    BY PlacementAssumption DEF RoundInv, OfflineInv, Types, RowType
  <2>3. CASE a \in ByKind
    <3>1. Cardinality(U) <= Capacity[a] - row[a].load
      BY <1>2, <2>3 DEF Satisfies, AgentSlots
    <3> HIDE DEF U, S
    <3>2. Cardinality(S) <= Capacity[a] BY <2>1, <2>2, <3>1
    <3>3. QED BY <3>2 DEF S
  <2>4. CASE a \notin ByKind
    <3>1. S = {} BY <1>5, <2>4
    <3>2. QED BY <2>2, <3>1, FS_EmptySet
  <2>5. QED BY <2>3, <2>4
<1>7. ASSUME NEW d \in Devices
      PROVE  Cardinality({m \in P : m.device = d}) <= Capacity[d]
  <2> DEFINE S == {m \in P : m.device = d}
             U == {t \in todo : f[t].device = d}
  <2>1. /\ Cardinality(S) <= Cardinality(U) /\ Cardinality(S) \in Nat
        /\ Cardinality(U) \in Nat
    <3>1. \A m \in S : m.task \in U BY <1>1
    <3>2. S \in SUBSET P /\ U \subseteq todo OBVIOUS
    <3> HIDE DEF S, U
    <3>3. QED BY <1>4, <3>1, <3>2
  <2>2. Cardinality(U) <= Capacity[d] /\ Capacity[d] \in Nat
    BY <1>2, PlacementAssumption DEF Satisfies
  <2> HIDE DEF U, S
  <2>3. Cardinality(S) <= Capacity[d] BY <2>1, <2>2
  <2>4. QED BY <2>3 DEF S
<1>8. ASSUME NEW m \in P, NEW n \in P, n.task \in MutexWith[m.task] PROVE m.task = n.task
  <2> SUFFICES ASSUME m.task # n.task PROVE FALSE OBVIOUS
  <2>1. m.task \in Tasks /\ n.task \in Tasks /\ m.task \in MutexWith[n.task]
    BY <1>1, <1>8, PlacementAssumption
  <2>2. /\ IdOrder[m.task] \in Nat /\ IdOrder[n.task] \in Nat
        /\ IdOrder[m.task] # IdOrder[n.task]
    BY <2>1, PlacementAssumption, PoolAssumption
  <2>3. Unplaced \in {f[m.task], f[n.task]}
    BY <1>1, <1>2, <1>8, <2>1, <2>2 DEF Satisfies
  <2>4. QED BY <1>1, <2>3
<1>9. QED BY <1>3, <1>6, <1>7, <1>8 DEF P

(* An optimum that places nothing would leave no other solution. *)
LEMMA OptimumPlaces ==
    ASSUME NEW f \in Solutions, Optimal(f, Solutions), Cardinality(Solutions) > 1
    PROVE  PlanOf(f) # {}
<1> SUFFICES ASSUME PlanOf(f) = {} PROVE FALSE
  OBVIOUS
<1>1. \A t \in todo : f[t] = Unplaced BY DEF PlanOf
<1>2. \A g \in Solutions : g = f BY <1>1 DEF Optimal
<1>3. Solutions = {f} BY <1>2
<1>4. Cardinality({f}) = 1 BY FS_Singleton
<1>5. QED BY <1>3, <1>4

LEMMA SolveBooks ==
    ASSUME RoundInv, Solve, Types'
    PROVE  Booked'
<1>1. /\ main = "solve" /\ Cardinality(Solutions) > 1
      /\ UNCHANGED <<policy, offset, row, live>>
  BY DEF Solve
<1>2. PICK f \in Solutions : \/ Optimal(f, Solutions) /\ Submit(PlanOf(f), "OPTIMAL")
                             \/ Submit(PlanOf(f), "FEASIBLE")
  BY DEF Solve
<1>3. plan = {} BY <1>1 DEF RoundInv, Booked, Fitted
<1>4. PICK p : p = PlanOf(f)
  OBVIOUS
<1>5. PICK s : Submit(p, s) /\ (p = {} => s = "FEASIBLE")
  BY <1>1, <1>2, <1>4, OptimumPlaces
<1>6. /\ Unique(p)
      /\ \A a \in Agents : Cardinality({m \in p : m.agent = a}) <= Capacity[a]
      /\ \A d \in Devices : Cardinality({m \in p : m.device = d}) <= Capacity[d]
      /\ \A m, n \in p : n.task \in MutexWith[m.task] => m.task = n.task
  BY <1>4, SolutionFits
<1>7. QED BY <1>1, <1>3, <1>5, <1>6, SubmitBooks

-----------------------------------------------------------------------------
(* The invariant *)

LEMMA RunOnceBooks ==
    ASSUME RoundInv, RunOnce
    PROVE  Booked'
<1>1. /\ main = "loop" /\ main' \in {"solve", "greedy", "rotate"} /\ plan' = {}
      /\ policy = "greedy" => main' = "greedy"
      /\ main' = "rotate" => policy # "ortools"
      /\ todo' = ready /\ job' = [t \in Tasks |-> Off]
      /\ UNCHANGED <<policy, ready, status, offset, row, live>>
  BY DEF RunOnce
<1>3. \A a \in Agents \cup Devices : Capacity[a] \in Nat BY PlacementAssumption
<1>4. Fitted'
  <2>1. \A a : {m \in plan' : m.agent = a} = {} /\ {m \in plan' : m.device = a} = {}
    BY <1>1
  <2>2. \A a : /\ Cardinality({m \in plan' : m.agent = a}) = 0
               /\ Cardinality({m \in plan' : m.device = a}) = 0
    BY <2>1, FS_EmptySet
  <2>3. Unique(plan') /\ Claimed' = {} BY <1>1 DEF Unique, Claimed
  <2>4. QED BY <1>1, <1>3, <2>2, <2>3 DEF Fitted, Unique
<1>5. MutexRespected' BY <1>1 DEF MutexRespected, Claimed
<1>6. Tried' BY <1>1 DEF Tried
<1>7. QED BY <1>1, <1>4, <1>5, <1>6, PlanBooks DEF RoundInv, Booked

LEMMA ScheduleBooks ==
    ASSUME RoundInv, Schedule, Types'
    PROVE  Booked'
<1>1. CASE SolverFails
  <2>1. /\ main = "solve" /\ main' = "greedy"
        /\ UNCHANGED <<policy, ready, todo, plan, status, offset, row, live, job>>
    BY <1>1 DEF SolverFails, sched
  <2>2. plan = {} BY <2>1 DEF RoundInv, Booked, Fitted
  <2>3. Fitted' /\ MutexRespected'
    BY <2>1, <2>2 DEF RoundInv, Booked, Fitted, MutexRespected, Claimed, Unique
  <2>4. Tried' BY <2>1, <2>2 DEF RoundInv, Booked, Tried
  <2>5. QED BY <2>1, <2>3, <2>4, PlanBooks DEF RoundInv, Booked
<1>2. CASE EndRound
  <2>1. /\ main = "round" /\ main' = "loop" /\ \A t \in Tasks : job[t].step = "off"
        /\ UNCHANGED <<policy, ready, todo, plan, status, offset, row, live, job>>
    BY <1>2 DEF EndRound, sched
  <2>2. Fitted' /\ MutexRespected'
    BY <2>1 DEF RoundInv, Booked, Fitted, MutexRespected, Claimed, Unique
  <2>3. Stepped' /\ Counting' BY <2>1, QuietBooks
  <2>4. Lone' BY <2>1 DEF RoundInv, Booked, Lone, LastRow, Users
  <2>5. Tried' BY <2>1 DEF Tried
  <2>6. QED BY <2>1, <2>2, <2>3, <2>4, <2>5 DEF RoundInv, Booked
<1>3. QED BY <1>1, <1>2, RunOnceBooks, GreedyBooks, RoundRobinBooks, EndGreedyBooks,
             EndRotateBooks, SolveBooks DEF Schedule

LEMMA OfflineBooks ==
    ASSUME RoundInv, NEW a \in Agents, Offline(a)
    PROVE  Booked'
<1>1. /\ main = "loop" /\ main' = "loop" /\ row' = [row EXCEPT ![a].online = FALSE]
      /\ UNCHANGED <<policy, ready, todo, plan, status, offset, live, job>>
  BY DEF Offline, sched
<1>2. \A b \in Agents : /\ row'[b].load = row[b].load
                        /\ ~row[b].online => ~row'[b].online
  BY <1>1 DEF RoundInv, OfflineInv, Types, RowType
<1>3. \A t \in Tasks : job[t].step = "off" BY <1>1 DEF RoundInv, OfflineInv, Placed
<1>4. Fitted' /\ MutexRespected'
  BY <1>1 DEF RoundInv, Booked, Fitted, MutexRespected, Claimed, Unique
<1>5. Stepped' /\ Counting' BY <1>1, <1>2, <1>3, QuietBooks
<1>6. Lone' BY <1>1, <1>2 DEF RoundInv, Booked, Lone, LastRow, Users
<1>7. Tried' BY <1>1 DEF Tried
<1>8. QED BY <1>1, <1>4, <1>5, <1>6, <1>7 DEF RoundInv, Booked

LEMMA InitBooks == Init => Booked
<1> SUFFICES ASSUME Init PROVE Booked
  OBVIOUS
<1>1. \A t \in Tasks : job[t] = Off BY DEF Init
<1>2. \A a \in Agents : live[a] = 0 /\ row[a] = Fresh BY DEF Init
<1>3. \A a \in Agents \cup Devices : Capacity[a] \in Nat BY PlacementAssumption
<1>4. Fitted
  <2>1. \A a : {m \in plan : m.agent = a} = {} /\ {m \in plan : m.device = a} = {}
    BY DEF Init
  <2>2. \A a : /\ Cardinality({m \in plan : m.agent = a}) = 0
               /\ Cardinality({m \in plan : m.device = a}) = 0
    BY <2>1, FS_EmptySet
  <2>3. QED BY <1>3, <2>2 DEF Init, Fitted, Unique
<1>5. Stepped BY <1>1 DEF Stepped, Off
<1>6. Counting
  <2>1. \A a : Counted(a) = {} BY <1>1 DEF Counted, InUse, Off
  <2>2. \A a \in Agents : row[a].load < Capacity[a]
    BY <1>2, PlacementAssumption DEF Fresh
  <2>3. \A t \in Tasks : ~LastRow(t) BY <1>1 DEF LastRow, Off
  <2>4. QED BY <1>2, <2>1, <2>2, <2>3, FS_EmptySet DEF Counting
<1>7. Lone
  <2>1. \A a : Users(a) = {} BY DEF Init, Users
  <2>2. QED BY <2>1 DEF Lone
<1>8. Tried /\ MutexRespected /\ offset \in Int /\ policy \in Policies
  BY DEF Init, Tried, MutexRespected, Claimed
<1>9. QED BY <1>4, <1>5, <1>6, <1>7, <1>8 DEF Booked

LEMMA NextBooks ==
    ASSUME RoundInv, [Next]_vars
    PROVE  RoundInv'
<1>1. OfflineInv' /\ Asked' BY NextOffline, AskedStep DEF RoundInv
<1>2. CASE Schedule
  BY <1>1, <1>2, ScheduleBooks DEF RoundInv, OfflineInv
<1>3. ASSUME NEW t \in Tasks, Worker(t) PROVE RoundInv'
  BY <1>1, <1>3, DequeueBooks, CountBooks, GetBooks, PutBooks, WorkBooks
     DEF Worker, RoundInv
<1>4. ASSUME NEW a \in Agents, Offline(a) PROVE RoundInv'
  BY <1>1, <1>4, OfflineBooks DEF RoundInv
<1>5. CASE UNCHANGED vars
  <2>1. UNCHANGED <<policy, main, ready, attempt, todo, plan, status, offset, row, live,
                    job, banned>>
    BY <1>5 DEF vars, sched
  <2>2. /\ \A t : Affordable(t)' = Affordable(t)
        /\ \A a : Counted(a)' = Counted(a)
        /\ \A a : Users(a)' = Users(a)
        /\ \A t : AgentOf(t)' = AgentOf(t)
        /\ Claimed' = Claimed
    BY <2>1, AffordableStays DEF Counted, InUse, AgentOf, Users, Claimed
  <2>3. Fitted' /\ Stepped' /\ MutexRespected'
    BY <2>1, <2>2 DEF RoundInv, Booked, Fitted, Stepped, MutexRespected, Unique
  <2>4. Counting' /\ Lone' /\ Tried'
    BY <2>1, <2>2 DEF RoundInv, Booked, Counting, Lone, Tried, LastRow
  <2>5. QED BY <1>1, <2>1, <2>3, <2>4 DEF RoundInv, Booked
<1>6. QED BY <1>2, <1>3, <1>4, <1>5 DEF Next

(* Every reachable state: nothing is placed twice or beyond what is left,    *)
(* the live count of an agent is the number of tasks at work on it, and a    *)
(* worker's last row is written after it has counted itself off.            *)
THEOREM RoundInvariant == Spec => []RoundInv
<1>1. Init => RoundInv BY InitOffline, InitBooks DEF RoundInv, Init, Asked
<1>2. RoundInv /\ [Next]_vars => RoundInv' BY NextBooks
<1>3. QED BY <1>1, <1>2, PTL DEF Spec

(* No agent or device is given, or runs, more tasks than its capacity, and   *)
(* no task is placed twice in a round, under every policy.                  *)
THEOREM CapacityKept == Spec => []WithinCapacity
<1>1. RoundInv => WithinCapacity
  <2> SUFFICES ASSUME RoundInv PROVE WithinCapacity
    OBVIOUS
  <2>1. Unique(plan) /\ {m.task : m \in plan} \subseteq Tasks
    BY DEF RoundInv, OfflineInv, Types, Booked, Fitted
  <2>2. Cardinality(plan) = Cardinality(Claimed) BY <2>1, OneEach DEF Claimed
  <2>3. ASSUME NEW a \in Agents
        PROVE  Cardinality(Users(a)) <= Capacity[a] /\ live[a] <= Capacity[a]
    BY UsersCount, CountedUse DEF RoundInv, Booked, Counting
  <2>4. QED BY <2>2, <2>3 DEF WithinCapacity, RoundInv, Booked, Fitted
<1>2. QED BY <1>1, RoundInvariant, PTL

(* Mutually exclusive tasks never start in one round of the solver or of     *)
(* greedy: the second fallback of the solver finds nothing to place.        *)
THEOREM ExclusionsKept == Spec => []MutexRespected
<1>1. RoundInv => MutexRespected BY DEF RoundInv, Booked
<1>2. QED BY <1>1, RoundInvariant, PTL

(* However late rows are written, an idle agent has a slot left. *)
THEOREM IdleHasSlot == Spec => []NeverSaturatedIdle
<1>1. RoundInv => NeverSaturatedIdle
  <2> SUFFICES ASSUME RoundInv, Quiet, NEW a \in Agents PROVE AgentSlots(a) >= 1
    BY DEF NeverSaturatedIdle
  <2>1. row[a].load < Capacity[a] BY DEF Quiet, RoundInv, Booked, Counting
  <2>2. row[a].load \in Nat /\ Capacity[a] \in Nat
    BY PlacementAssumption DEF RoundInv, OfflineInv, Types, RowType
  <2>3. QED BY <2>1, <2>2 DEF AgentSlots
<1>2. QED BY <1>1, RoundInvariant, PTL

(* The row of an agent that one task of the round used is exact. *)
THEOREM LoneUserIsExact == Spec => []LoneUserExact
<1>1. RoundInv => LoneUserExact
  <2> SUFFICES ASSUME RoundInv, main = "loop", NEW a \in Agents, NEW t \in Tasks,
                      Users(a) = {t}
               PROVE  /\ row[a].load = 0
                      /\ job[t].outcome = "replaceable" => ~row[a].online
    BY DEF LoneUserExact
  <2>1. job[t].step = "off" BY DEF RoundInv, OfflineInv, Placed
  <2>2. job[t].stage \in {"enter", "leave"}
        /\ (job[t].stage = "enter" => job[t].outcome # "replaceable")
    BY <2>1 DEF RoundInv, Booked, Stepped
  <2>3. QED BY <2>1, <2>2 DEF RoundInv, Booked, Lone
<1>2. QED BY <1>1, RoundInvariant, PTL

(* A run stops over READY tasks only if none has a bundle it could use. *)
THEOREM StopsForAReason == Spec => []StopsOnlyInfeasible
<1>1. RoundInv => StopsOnlyInfeasible
  <2> SUFFICES ASSUME RoundInv, main = "idle", status # "FEASIBLE",
                      NEW t \in ready, NEW b \in Candidates(t)
               PROVE  Capacity[b.device] = 0
    BY DEF StopsOnlyInfeasible
  <2>1. plan = {} /\ Affordable(t) = {} BY DEF RoundInv, Booked, Tried
  <2>2. \A u \in Tasks : job[u].step = "off" BY DEF RoundInv, OfflineInv, Placed
  <2>3. b.agent \in Agents /\ b.device \in Devices BY DEF Candidates, Bundles
  <2>4. row[b.agent].load < Capacity[b.agent]
    BY <2>2, <2>3 DEF RoundInv, Booked, Counting
  <2>5. /\ row[b.agent].load \in Nat /\ Capacity[b.agent] \in Nat
        /\ Capacity[b.device] \in Nat
    BY <2>3, PlacementAssumption DEF RoundInv, OfflineInv, Types, RowType
  <2>6. /\ Cardinality({m \in plan : m.agent = b.agent}) = 0
        /\ Cardinality({m \in plan : m.device = b.device}) = 0
    <3>1. {m \in plan : m.agent = b.agent} = {} /\ {m \in plan : m.device = b.device} = {}
      BY <2>1
    <3>2. QED BY <3>1, FS_EmptySet
  <2>7. AgentLeft(b.agent) > 0
    BY <2>4, <2>5, <2>6 DEF AgentLeft, AgentSlots
  <2>8. ~(DeviceLeft(b.device) > 0) BY <2>1, <2>7 DEF Affordable
  <2>9. QED BY <2>5, <2>6, <2>8 DEF DeviceLeft
<1>2. QED BY <1>1, RoundInvariant, PTL
=============================================================================

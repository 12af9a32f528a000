------------------------ MODULE Orchestrator_proofs -------------------------
(***************************************************************************)
(* Theorems about Orchestrator for every DAG, number of workers, retry      *)
(* budget and choice of faults: the types, the DAG barrier, the release     *)
(* loops and the replans; that it implements DagRun: the releases, retries   *)
(* and replans of many threads look like single moves of one task, or like  *)
(* the invalidation of a task with everything built on it; and the attempts *)
(* of a task: none is left running by anyone, none beyond the budget begins, *)
(* and none succeeds on the evidence of another.                            *)
(***************************************************************************)
EXTENDS OrchestratorInv, TLAPS

-----------------------------------------------------------------------------
(* What the event-store commands store is a projection. *)

LEMMA MovedType ==
    ASSUME NEW v \in Projection, NEW s \in TaskState,
           s = "PAUSED" => v.state \in TaskState
    PROVE  Moved(v, s) \in Projection
<1> DEFINE from == IF s = "PAUSED" THEN v.state
                   ELSE IF v.state = "PAUSED" THEN None ELSE v.pausedFrom
           n == IF s = "RUNNING" /\ v.state # "PAUSED"
                THEN v.attempt + 1 ELSE v.attempt
<1>1. from \in TaskState \cup {None} BY DEF Projection
<1>2. n \in Nat BY DEF Projection
<1>3. Moved(v, s) = [v EXCEPT !.state = s, !.pausedFrom = from, !.attempt = n]
  BY DEF Moved, Projection
<1> HIDE DEF from, n
<1>4. QED BY <1>1, <1>2, <1>3 DEF Projection

LEMMA CommandType ==
    ASSUME NEW v \in Projection
    PROVE  /\ Assigned(v) \in Projection
           /\ WithResult(v) \in Projection
           /\ Recovered(v) \in Projection
           /\ Replanned(v) \in Projection
BY DEF Assigned, WithResult, Recovered, Replanned, Reset, Projection, TaskState,
       None, Absent

LEMMA BlankType == Blank \in Projection /\ Created \in Projection
BY DEF Blank, Created, Projection, TaskState, None, Absent

LEMMA IdleType == Idle \in Job
BY BlankType DEF Idle, Job, JobPc, None

(* One thread's record is replaced by a record of the right type. *)
LEMMA JobType ==
    ASSUME job \in [Threads -> Job], NEW j \in Threads, NEW r \in Job,
           job' = [job EXCEPT ![j] = r]
    PROVE  job' \in [Threads -> Job]
OBVIOUS

LEMMA ViewType ==
    ASSUME view \in [Tasks -> Projection], NEW t \in Tasks, NEW v \in Projection,
           Store(t, v)
    PROVE  view' \in [Tasks -> Projection]
BY DEF Store

LEMMA GoType ==
    ASSUME job \in [Threads -> Job], NEW j \in Threads, NEW pc \in JobPc, Go(j, pc)
    PROVE  job' \in [Threads -> Job]
BY DEF Go, Job

-----------------------------------------------------------------------------
(* Type correctness *)

LEMMA InitTypeOK == Init => TypeOK
BY BlankType, IdleType, ConfigAssumption DEF Init, TypeOK, MainPc

LEMMA SubmitTypeOK ==
    ASSUME TypeOK, NEW t \in Tasks, Submit(t)
    PROVE  TypeOK'
<1>1. CASE CreateTask(t)
  BY <1>1, BlankType, ViewType DEF TypeOK, CreateTask
<1>2. CASE PlanTask(t)
  <2>1. Moved(view[t], "PLANNED") \in Projection
    BY MovedType DEF TypeOK, TaskState
  <2>2. QED BY <1>2, <2>1, ViewType DEF TypeOK, PlanTask, MainPc
<1>3. CASE ReleaseEntry(t)
  <2>1. Moved(view[t], "READY") \in Projection
    BY MovedType DEF TypeOK, TaskState
  <2>2. QED BY <1>3, <2>1, ViewType DEF TypeOK, ReleaseEntry
<1>4. QED BY <1>1, <1>2, <1>3 DEF Submit

LEMMA CheckReadyTypeOK ==
    ASSUME TypeOK, NEW j \in Threads, NEW at, NEW next \in JobPc, NEW order,
           CheckReady(j, at, next, order)
    PROVE  TypeOK'
<1>1. PICK x \in First(job[j].todo, order) :
         IF Legal(view[x], "READY")
         THEN job' = [job EXCEPT ![j].pc = next, ![j].read = view[x]]
         ELSE Become(j, Idle)
  BY DEF CheckReady
<1>2. x \in Tasks /\ view[x] \in Projection
  BY <1>1 DEF First, TypeOK, Job
<1>3. job' \in [Threads -> Job]
  BY <1>1, <1>2, IdleType, JobType DEF TypeOK, Job, Become
<1>4. QED BY <1>3 DEF TypeOK, CheckReady

LEMMA WriteReadyTypeOK ==
    ASSUME TypeOK, NEW j \in Threads, NEW at, NEW next \in JobPc, NEW order,
           WriteReady(j, at, next, order)
    PROVE  TypeOK'
<1>1. PICK x \in First(job[j].todo, order) :
         /\ Store(x, Moved(job[j].read, "READY"))
         /\ job' = [job EXCEPT ![j].pc = next, ![j].todo = @ \ {x},
                               ![j].read = Blank]
  BY DEF WriteReady
<1>2. x \in Tasks /\ job[j] \in Job /\ job[j].read \in Projection
  BY <1>1 DEF First, TypeOK, Job
<1>3. Moved(job[j].read, "READY") \in Projection
  BY <1>2, MovedType DEF TaskState
<1>4. view' \in [Tasks -> Projection]
  BY <1>1, <1>2, <1>3, ViewType DEF TypeOK
<1>5. job' \in [Threads -> Job]
  BY <1>1, <1>2, BlankType DEF TypeOK, Job
<1>6. QED BY <1>4, <1>5 DEF TypeOK, WriteReady

LEMMA ReleaseTypeOK ==
    ASSUME TypeOK, NEW t \in Tasks, ReleaseDependents(t)
    PROVE  TypeOK'
<1> USE DEF JobPc
<1>1. t \in Threads BY DEF Threads
<1>2. CASE Snapshot(t)
  <2>1. Releasable \subseteq Tasks BY DEF Releasable, In
  <2>2. [job[t] EXCEPT !.pc = "releasing", !.todo = Releasable] \in Job
    BY <1>1, <2>1 DEF TypeOK, Job
  <2>3. job' = [job EXCEPT ![t] = [job[t] EXCEPT !.pc = "releasing", !.todo = Releasable]]
    BY <1>2 DEF Snapshot
  <2>4. job' \in [Threads -> Job]
    BY <1>1, <2>2, <2>3, JobType DEF TypeOK
  <2>5. QED BY <1>2, <2>4 DEF TypeOK, Snapshot
<1>3. CASE CheckReady(t, "releasing", "promoting", ListOrder)
  BY <1>1, <1>3, CheckReadyTypeOK
<1>4. CASE WriteReady(t, "promoting", "releasing", ListOrder)
  BY <1>1, <1>4, WriteReadyTypeOK
<1>5. CASE EndRelease(t)
  BY <1>1, <1>5, IdleType DEF EndRelease, Become, TypeOK
<1>6. QED BY <1>2, <1>3, <1>4, <1>5 DEF ReleaseDependents

(* A thread's execution ends in an error class. *)
LEMMA FailType ==
    ASSUME job \in [Threads -> Job], NEW t \in Threads, NEW class \in ErrorClass,
           job' = [job EXCEPT ![t].pc = "failed", ![t].class = class]
    PROVE  job' \in [Threads -> Job]
<1>1. [job[t] EXCEPT !.pc = "failed", !.class = class] \in Job
  BY DEF Job, JobPc
<1>2. job' = [job EXCEPT ![t] = [job[t] EXCEPT !.pc = "failed", !.class = class]]
  OBVIOUS
<1>3. QED BY <1>1, <1>2, JobType

LEMMA RaisedType ==
    ASSUME TypeOK, NEW t \in Tasks, NEW class \in ErrorClass, Raised(t, class)
    PROVE  job' \in [Threads -> Job]
BY FailType, IdleType, JobType DEF Raised, Become, TypeOK, Threads

LEMMA ProceedType ==
    ASSUME TypeOK, NEW t \in Tasks, NEW s \in TaskState \ {"PAUSED"}, NEW pc \in JobPc,
           Proceed(t, s, pc)
    PROVE  view' \in [Tasks -> Projection] /\ job' \in [Threads -> Job]
<1>1. t \in Threads /\ view[t] \in Projection /\ "RETRYABLE" \in ErrorClass
  BY DEF Threads, TypeOK, ErrorClass
<1>2. CASE Legal(view[t], s)
  BY <1>1, <1>2, MovedType, ViewType, GoType DEF Proceed, TypeOK
<1>3. CASE ~Legal(view[t], s)
  BY <1>1, <1>3, RaisedType DEF Proceed, TypeOK
<1>4. QED BY <1>2, <1>3

LEMMA ExecuteTypeOK ==
    ASSUME TypeOK, NEW t \in Tasks,
           Dequeue(t) \/ Assign(t) \/ Start(t) \/ FinishTools(t) \/ Succeed(t)
    PROVE  TypeOK'
<1> USE DEF JobPc, TaskState
<1>1. t \in Threads /\ view[t] \in Projection BY DEF Threads, TypeOK
<1>2. CASE Dequeue(t)
  BY <1>1, <1>2, GoType DEF Dequeue, TypeOK
<1>3. CASE Assign(t)
  <2>1. view' \in [Tasks -> Projection]
    BY <1>1, <1>3, CommandType, ViewType DEF Assign, TypeOK
  <2>2. job' \in [Threads -> Job]
    BY <1>1, <1>3, GoType, IdleType DEF Assign, Become, TypeOK
  <2>3. QED BY <1>3, <2>1, <2>2 DEF Assign, TypeOK
<1>4. CASE Start(t)
  <2>1. view' \in [Tasks -> Projection]
    BY <1>1, <1>4, MovedType, ViewType DEF Start, TypeOK
  <2>2. job' \in [Threads -> Job]
    BY <1>1, <1>4, GoType, IdleType DEF Start, Become, TypeOK
  <2>3. QED BY <1>4, <2>1, <2>2 DEF Start, TypeOK
<1>5. CASE FinishTools(t)
  BY <1>5, ProceedType DEF FinishTools, TypeOK
<1>6. CASE Succeed(t)
  BY <1>6, ProceedType DEF Succeed, TypeOK
<1>7. QED BY <1>2, <1>3, <1>4, <1>5, <1>6

LEMMA JudgeTypeOK ==
    ASSUME TypeOK, NEW t \in Tasks, Verify(t) \/ Raise(t)
    PROVE  TypeOK'
<1>1. t \in Threads /\ view[t] \in Projection BY DEF Threads, TypeOK
<1>2. Faults \subseteq ErrorClass BY ConfigAssumption
<1>3. CASE Verify(t)
  <2>1. view' \in [Tasks -> Projection]
    BY <1>1, <1>3, CommandType, ViewType DEF Verify, TypeOK
  <2>2. job' \in [Threads -> Job]
    <3>1. CASE Go(t, "passed") BY <1>1, <3>1, GoType DEF TypeOK, JobPc
    <3>2. CASE \E class \in Faults :
                  job' = [job EXCEPT ![t].pc = "failed", ![t].class = class]
      BY <1>1, <1>2, <3>2, FailType DEF TypeOK
    <3>3. QED BY <1>3, <3>1, <3>2 DEF Verify
  <2>3. QED BY <1>3, <2>1, <2>2 DEF Verify, TypeOK
<1>4. CASE Raise(t)
  <2>1. job' \in [Threads -> Job]
    BY <1>2, <1>4, RaisedType DEF Raise
  <2>2. QED BY <1>4, <2>1 DEF Raise, TypeOK
<1>5. QED BY <1>3, <1>4

(* What Replan does to the types, whichever thread runs it. *)
LEMMA ReplanTypeOK ==
    ASSUME TypeOK, NEW j \in Threads, NEW t \in Tasks, Replan(j, t)
    PROVE  view' = view /\ job' \in [Threads -> Job] /\ replans' \in Nat
<1>1. Impact(t) \subseteq Tasks BY DEF Impact, Affected
<1>2. [Idle EXCEPT !.pc = "resetting", !.todo = Impact(t), !.scope = Impact(t)] \in Job
  BY <1>1, IdleType DEF Job, JobPc
<1>3. job' \in [Threads -> Job]
  BY <1>2, JobType DEF Replan, Become, TypeOK
<1>4. QED BY <1>3 DEF Replan, TypeOK

LEMMA RecoverTypeOK ==
    ASSUME TypeOK, NEW t \in Tasks, Recover(t)
    PROVE  TypeOK'
<1>1. t \in Threads /\ view[t] \in Projection BY DEF Threads, TypeOK
<1>2. main' = main /\ rounds' = rounds BY DEF Recover
<1>3. CASE Retry(t)
  <2>1. view' \in [Tasks -> Projection]
    BY <1>1, <1>3, CommandType, MovedType, ViewType DEF Retry, TypeOK, TaskState
  <2>2. job' \in [Threads -> Job]
    BY <1>1, <1>3, IdleType DEF Retry, Become, TypeOK
  <2>3. QED BY <1>2, <1>3, <2>1, <2>2 DEF Retry, TypeOK
<1>4. CASE SafeStop(t)
  <2>1. Legal(view[t], "PAUSED") => view[t].state \in TaskState
    BY DEF Legal, Pausable, Forward, TaskState
  <2>2. view' \in [Tasks -> Projection]
    BY <1>1, <1>4, <2>1, MovedType, ViewType DEF SafeStop, TypeOK, TaskState
  <2>3. job' \in [Threads -> Job]
    BY <1>1, <1>4, IdleType DEF SafeStop, Become, TypeOK
  <2>4. QED BY <1>2, <1>4, <2>2, <2>3 DEF SafeStop, TypeOK
<1>5. CASE Replan(t, t)
  BY <1>1, <1>2, <1>5, ReplanTypeOK DEF TypeOK
<1>6. QED BY <1>3, <1>4, <1>5 DEF Recover

LEMMA ReplanTasksTypeOK ==
    ASSUME TypeOK, NEW j \in Threads, ReplanTasks(j)
    PROVE  TypeOK'
<1> USE DEF JobPc
<1>1. job[j] \in Job BY DEF TypeOK
<1>2. CASE ResetOne(j)
  <2>1. PICK x \in First(job[j].todo, IdOrder) :
          /\ Store(x, Replanned(view[x]))
          /\ job' = [job EXCEPT
                ![j].todo = @ \ {x},
                ![j].pc = IF job[j].todo = {x} THEN "refresh" ELSE "resetting"]
    BY <1>2 DEF ResetOne
  <2>2. x \in Tasks /\ view[x] \in Projection
    BY <1>1, <2>1 DEF First, TypeOK, Job
  <2>3. view' \in [Tasks -> Projection]
    BY <2>1, <2>2, CommandType, ViewType DEF TypeOK
  <2> DEFINE r == [job[j] EXCEPT
                     !.todo = @ \ {x},
                     !.pc = IF job[j].todo = {x} THEN "refresh" ELSE "resetting"]
  <2>4. r \in Job BY <1>1 DEF Job
  <2>5. job' = [job EXCEPT ![j] = r] BY <2>1
  <2>6. job' \in [Threads -> Job] BY <2>4, <2>5, JobType DEF TypeOK
  <2>7. QED BY <1>2, <2>3, <2>6 DEF ResetOne, TypeOK
<1>3. CASE Refresh(j)
  <2> DEFINE S == {x \in job[j].scope : /\ Parents[x] \cap job[j].scope = {}
                                        /\ \A p \in Parents[x] : Done(p)}
             r == [job[j] EXCEPT !.pc = "roots", !.todo = S]
  <2>1. S \subseteq Tasks BY <1>1 DEF Job
  <2> HIDE DEF S
  <2>2. r \in Job BY <1>1, <2>1 DEF Job
  <2>3. job' = [job EXCEPT ![j] = r] BY <1>3 DEF Refresh, S
  <2>4. job' \in [Threads -> Job] BY <2>2, <2>3, JobType DEF TypeOK
  <2>5. QED BY <1>3, <2>4 DEF Refresh, TypeOK
<1>4. CASE CheckReady(j, "roots", "rooting", IdOrder)
  BY <1>4, CheckReadyTypeOK
<1>5. CASE WriteReady(j, "rooting", "roots", IdOrder)
  BY <1>5, WriteReadyTypeOK
<1>6. CASE EndReplan(j)
  BY <1>6, IdleType DEF EndReplan, Become, TypeOK
<1>7. QED BY <1>2, <1>3, <1>4, <1>5, <1>6 DEF ReplanTasks

LEMMA ControlTypeOK ==
    ASSUME TypeOK, NEW t \in Tasks, Control(t)
    PROVE  TypeOK'
<1>1. view[t] \in Projection /\ Main \in Threads BY DEF Threads, TypeOK
<1>2. CASE InvalidateEvidence(t)
  BY <1>1, <1>2, ReplanTypeOK DEF InvalidateEvidence, TypeOK, MainPc
<1>3. CASE PauseTask(t)
  <2>1. view[t].state \in TaskState BY <1>3 DEF PauseTask, Pausable, TaskState
  <2>2. QED
    BY <1>1, <1>3, <2>1, MovedType, ViewType DEF PauseTask, TypeOK, TaskState
<1>4. CASE ResumeTask(t)
  <2>1. view[t].pausedFrom \in TaskState BY <1>1, <1>4 DEF ResumeTask, Projection
  <2>2. view[t].state \in TaskState BY <1>4 DEF ResumeTask, TaskState
  <2>3. QED BY <1>1, <1>4, <2>1, <2>2, MovedType, ViewType DEF ResumeTask, TypeOK
<1>5. QED BY <1>2, <1>3, <1>4 DEF Control

LEMMA CallerTypeOK ==
    ASSUME TypeOK, EndCreate \/ Call \/ Loop
    PROVE  TypeOK'
<1> USE ConfigAssumption DEF MainPc
<1>1. CASE \E S \in SUBSET Tasks : RunOnce(S)
  <2>1. PICK S \in SUBSET Tasks : RunOnce(S) BY <1>1
  <2>2. [Idle EXCEPT !.pc = "queued"] \in Job BY IdleType DEF Job, JobPc
  <2>3. job' \in [Threads -> Job] BY <2>1, <2>2 DEF RunOnce, TypeOK
  <2>4. rounds' \in 0 .. MaxRounds BY <2>1 DEF RunOnce, TypeOK
  <2>5. QED BY <2>1, <2>3, <2>4 DEF RunOnce, TypeOK
<1>2. CASE EndCreate \/ Call \/ Return \/ NoProgress \/ EndRound \/ EndInvalidate
  BY <1>2 DEF TypeOK, EndCreate, Call, Return, NoProgress, EndRound, EndInvalidate
<1>3. QED BY <1>1, <1>2 DEF Loop

LEMMA NextTypeOK == TypeOK /\ [Next]_vars => TypeOK'
<1>1. SUFFICES ASSUME TypeOK, [Next]_vars PROVE TypeOK'
  OBVIOUS
<1>2. CASE UNCHANGED vars BY <1>1, <1>2 DEF vars, TypeOK
<1>3. ASSUME NEW t \in Tasks, Worker(t) PROVE TypeOK'
  BY <1>1, <1>3, ExecuteTypeOK, JudgeTypeOK, ReleaseTypeOK, RecoverTypeOK
     DEF Worker
<1>4. QED
  BY <1>1, <1>2, <1>3, SubmitTypeOK, ControlTypeOK, ReplanTasksTypeOK,
     CallerTypeOK DEF Next

(* Every reachable state is well typed, in particular every projection a    *)
(* command stores and every list a release or replan loop works through.    *)
THEOREM TypeCorrect == Spec => []TypeOK
BY InitTypeOK, NextTypeOK, PTL DEF Spec

-----------------------------------------------------------------------------
(* What the state machine's moves do to the stage of a task. *)

(* A legal step of an execution starts from a started, unfinished task. *)
LEMMA ExecutionMove ==
    ASSUME NEW v \in Projection, NEW s \in {"RUNNING", "VERIFYING", "SUCCEEDED"},
           Legal(v, s)
    PROVE  /\ Started(v) /\ v.state # "SUCCEEDED"
           /\ Moved(v, s).state = s
BY DEF Legal, Forward, Pausable, Started, Stage, Moved, Projection

LEMMA PauseMove ==
    ASSUME NEW v \in Projection, Legal(v, "PAUSED")
    PROVE  /\ v.state # "SUCCEEDED"
           /\ Moved(v, "PAUSED").state = "PAUSED"
           /\ Started(Moved(v, "PAUSED")) => Started(v)
BY DEF Legal, Forward, Pausable, Started, Stage, Moved, Projection

LEMMA FailMove ==
    ASSUME NEW v \in Projection, Legal(v, "FAILED")
    PROVE  /\ v.state # "SUCCEEDED"
           /\ Moved(v, "FAILED").state = "FAILED"
           /\ ~Started(Moved(v, "FAILED"))
BY DEF Legal, Forward, Failable, Pausable, Started, Stage, Moved, Projection, TaskState

LEMMA ReadyMove ==
    ASSUME NEW v \in Projection
    PROVE  Moved(v, "READY").state = "READY"
BY DEF Moved, Projection

LEMMA ResetMove ==
    ASSUME NEW v \in Projection
    PROVE  /\ Recovered(v).state = "READY"
           /\ Replanned(v).state = "PLANNED" /\ ~Started(Replanned(v))
           /\ Assigned(v).state = v.state /\ WithResult(v).state = v.state
           /\ Started(Assigned(v)) => Started(v)
           /\ Started(WithResult(v)) => Started(v)
BY DEF Recovered, Replanned, Reset, Assigned, WithResult, Started, Stage, Projection

LEMMA DoneStarted == ASSUME NEW t \in Tasks, Done(t) PROVE Started(view[t])
BY DEF Done, Started, Stage

-----------------------------------------------------------------------------
(* The effect of a step's two assignments. *)

LEMMA ViewEffect ==
    ASSUME TypeOK, NEW t \in Tasks, NEW v, Store(t, v)
    PROVE  view'[t] = v /\ \A u \in Tasks \ {t} : view'[u] = view[u]
BY DEF TypeOK, Store

LEMMA JobEffect ==
    ASSUME TypeOK, NEW j \in Threads, NEW r, job' = [job EXCEPT ![j] = r]
    PROVE  job'[j] = r /\ \A i \in Threads \ {j} : job'[i] = job[i]
BY DEF TypeOK

LEMMA GoEffect ==
    ASSUME TypeOK, NEW j \in Threads, NEW pc, Go(j, pc)
    PROVE  /\ job'[j].pc = pc
           /\ job'[j].todo = job[j].todo /\ job'[j].scope = job[j].scope
           /\ \A i \in Threads \ {j} : job'[i] = job[i]
BY DEF TypeOK, Go, Job

LEMMA IdleEffect ==
    ASSUME TypeOK, NEW j \in Threads, Become(j, Idle)
    PROVE  job'[j].pc = "off" /\ \A i \in Threads \ {j} : job'[i] = job[i]
BY DEF TypeOK, Become, Idle

-----------------------------------------------------------------------------
(* The affected set of a task *)

LEMMA AffectedClosed ==
    ASSUME NEW t \in Tasks
    PROVE  t \in Affected(t) /\ ChildClosed(Affected(t))
BY DagAssumption DEF Affected, ChildClosed

(* Nothing that depends on an unfinished task has started. *)
LEMMA AffectedUnstarted ==
    ASSUME TypeOK, Barrier, At(Main, "off"), NEW t \in Tasks, ~Done(t)
    PROVE  \A u \in Affected(t) \ {t} : ~Started(view[u])
<1> DEFINE S == {t} \cup {u \in Tasks : ~Started(view[u])}
<1>1. ChildClosed(S)
  <2>1. SUFFICES ASSUME NEW c \in Tasks, NEW p \in Parents[c] \cap S, Started(view[c])
                 PROVE  FALSE
    BY DEF ChildClosed
  <2>2. p \in Tasks BY DagAssumption
  <2>3. ~Exempt(c) BY DEF Exempt, At
  <2>4. Done(p) BY <2>1, <2>3 DEF Barrier
  <2>5. QED BY <2>2, <2>4, DoneStarted
<1>2. Affected(t) \subseteq S BY <1>1 DEF Affected
<1>3. QED BY <1>2

-----------------------------------------------------------------------------
(* A worker's step that writes its own task at most. *)

LocalView(t) ==
    /\ \A u \in Tasks \ {t} : view'[u] = view[u]
    /\ Started(view'[t]) => Started(view[t])
    /\ Done(t) => Done(t)'
    /\ Done(t)' => Done(t) \/ At(t, "passed")

LocalJob(t) ==
    /\ \A i \in Threads \ {t} : job'[i] = job[i]
    /\ job'[t].pc \in Executing => job[t].pc \in Executing
    /\ job'[t].pc \in {"queued", "accept", "assigned"} => view'[t].state = "READY"
    /\ job'[t].pc = "running" => view'[t].state = "RUNNING"
    /\ job'[t].pc \in {"verify", "passed"} => view'[t].state = "VERIFYING"
    /\ job'[t].pc = "failed" => view'[t].state \in {"RUNNING", "VERIFYING"}
    /\ job'[t].pc \in Replanning => ~Done(t)'
    /\ job'[t].pc \in {"resetting", "refresh"} =>
          job'[t].todo \cup job'[t].scope \subseteq Affected(t)

LocalRelease(t) ==
    job'[t].pc \in Releasing =>
        \A x \in job'[t].todo : /\ ~Done(x) /\ job[x].pc \notin Executing
                                /\ \A p \in Parents[x] : Done(p)

LocalStep(t) ==
    /\ job[t].pc # "off" /\ main' = main
    /\ LocalView(t) /\ LocalJob(t) /\ LocalRelease(t)

LEMMA AffectedStable == ASSUME NEW t \in Tasks PROVE Affected(t)' = Affected(t)
BY DEF Affected, ChildClosed

(* A worker's local step preserves the invariant. *)
LEMMA LocalStepInductive ==
    ASSUME Inductive, TypeOK', NEW t \in Tasks, LocalStep(t)
    PROVE  Inductive'
<1> USE DEF At
<1>1. /\ main = "round" /\ job[Main].pc = "off" /\ job'[Main] = job[Main]
      /\ \A u \in Tasks \ {t} : view'[u] = view[u] /\ job'[u] = job[u]
  BY DagAssumption DEF Inductive, LocalStep, LocalView, LocalJob, Quiet, Threads
<1>2. \A u \in Tasks : Done(u) => Done(u)'
  BY <1>1 DEF LocalStep, LocalView, Done
<1>3. \A u \in Tasks : Done(u)' => Done(u) \/ job[u].pc \in Executing
  BY <1>1 DEF LocalStep, LocalView, Done, Executing
<1>4. Quiet'
  BY <1>1 DEF Quiet, LocalStep
<1>5. StatesMatch'
  BY <1>1 DEF Inductive, StatesMatch, LocalStep, LocalJob, Done
<1>6. Barrier'
  <2>1. SUFFICES ASSUME NEW u \in Tasks, Started(view'[u]), NEW p \in Parents[u]
                 PROVE  Done(p)'
    BY DEF Barrier
  <2>2. Started(view[u]) BY <1>1, <2>1 DEF LocalStep, LocalView
  <2>3. ~Exempt(u) BY <1>1 DEF Exempt
  <2>4. p \in Tasks BY DagAssumption
  <2>5. QED BY <1>2, <2>2, <2>3, <2>4 DEF Inductive, Barrier
<1>7. ReleaseStillDue' /\ ReleasePending'
  <2>1. SUFFICES ASSUME NEW j \in Threads, job'[j].pc \in Releasing,
                        NEW x \in job'[j].todo
                 PROVE  /\ ~Done(x)' /\ job'[x].pc \notin Executing
                        /\ \A p \in Parents[x] : Done(p)'
    BY DEF ReleaseStillDue, ReleasePending, Releasing
  <2>2. x \in Tasks /\ Parents[x] \subseteq Tasks
    BY DagAssumption DEF Inductive, TypeOK, Job
  <2>3. /\ ~Done(x) /\ job[x].pc \notin Executing
        /\ \A p \in Parents[x] : Done(p)
    <3>1. CASE j = t BY <2>1, <3>1 DEF LocalStep, LocalRelease
    <3>2. CASE j # t
      <4>1. job'[j] = job[j] BY <3>2 DEF LocalStep, LocalJob
      <4>2. QED
        BY <2>1, <4>1 DEF Inductive, ReleaseStillDue, ReleasePending, Releasing
    <3>3. QED BY <3>1, <3>2
  <2>4. job'[x].pc \notin Executing
    BY <1>1, <2>2, <2>3 DEF LocalStep, LocalJob
  <2>5. QED BY <1>2, <1>3, <2>2, <2>3, <2>4
<1>8. WorkerReplan'
  BY <1>1, AffectedStable DEF Inductive, WorkerReplan, LocalStep, LocalJob
<1>9. CallerReplan'
  BY <1>1 DEF CallerReplan
<1>10. QED BY <1>4, <1>5, <1>6, <1>7, <1>8, <1>9 DEF Inductive

-----------------------------------------------------------------------------
(* Every step of an execution is such a local step. *)

(* While no crash has cut a replan short, a worker finds its task where it  *)
(* left it: no transition of its own is illegal, and whatever raises is     *)
(* recovered.                                                               *)
LEMMA FinishToolsOwn ==
    ASSUME StatesMatch, NEW t \in Tasks, FinishTools(t)
    PROVE  /\ At(t, "running") /\ Legal(view[t], "VERIFYING")
           /\ Store(t, Moved(view[t], "VERIFYING")) /\ Go(t, "verify")
           /\ UNCHANGED <<main, rounds, replans>>
<1>1. view[t].state = "RUNNING" BY DEF FinishTools, StatesMatch, At
<1>2. Legal(view[t], "VERIFYING") BY <1>1 DEF Legal, Forward
<1>3. QED BY <1>2 DEF FinishTools, Proceed

LEMMA SucceedOwn ==
    ASSUME StatesMatch, NEW t \in Tasks, Succeed(t)
    PROVE  /\ At(t, "passed") /\ Legal(view[t], "SUCCEEDED")
           /\ Store(t, Moved(view[t], "SUCCEEDED")) /\ Go(t, "release")
           /\ UNCHANGED <<main, rounds, replans>>
<1>1. view[t].state = "VERIFYING" BY DEF Succeed, StatesMatch, At
<1>2. Legal(view[t], "SUCCEEDED") BY <1>1 DEF Legal, Forward
<1>3. QED BY <1>2 DEF Succeed, Proceed

LEMMA RaiseOwn ==
    ASSUME StatesMatch, NEW t \in Tasks, Raise(t)
    PROVE  /\ job[t].pc \in {"running", "verify", "passed"}
           /\ \E class \in Faults :
                 job' = [job EXCEPT ![t].pc = "failed", ![t].class = class]
           /\ UNCHANGED <<view, main, rounds, replans>>
<1>1. view[t].state \in {"RUNNING", "VERIFYING"} BY DEF Raise, StatesMatch
<1>2. QED BY <1>1 DEF Raise, Raised

LEMMA RetryOwn ==
    ASSUME StatesMatch, NEW t \in Tasks, At(t, "failed"), Retry(t)
    PROVE  /\ RetryAllowed(t) => Store(t, Recovered(view[t]))
           /\ ~RetryAllowed(t) => /\ Legal(view[t], "FAILED")
                                  /\ Store(t, Moved(view[t], "FAILED"))
           /\ Become(t, Idle)
           /\ UNCHANGED replans
<1>1. view[t].state \in {"RUNNING", "VERIFYING"} BY DEF StatesMatch, At
<1>2. view[t].state \in Recoverable /\ Legal(view[t], "FAILED")
  BY <1>1 DEF Recoverable, Legal, Failable, TaskState
<1>3. QED BY <1>2 DEF Retry

LEMMA ExecuteLocal ==
    ASSUME Inductive, NEW t \in Tasks,
           Dequeue(t) \/ Assign(t) \/ Start(t) \/ FinishTools(t) \/ Succeed(t)
    PROVE  LocalStep(t)
<1> USE DEF At, LocalStep, LocalView, LocalJob, LocalRelease, Executing, Releasing,
            Replanning, Done
<1>1. /\ t \in Threads /\ TypeOK /\ StatesMatch
      /\ view[t] \in Projection
  BY DEF Inductive, TypeOK, Threads
<1>2. CASE Dequeue(t)
  BY <1>1, <1>2, GoEffect DEF Dequeue, StatesMatch
<1>3. CASE Assign(t)
  <2>1. view[t].state = "READY" BY <1>1, <1>3 DEF Assign, StatesMatch
  <2>2. Store(t, Assigned(view[t])) /\ Go(t, "assigned")
    BY <1>3, <2>1 DEF Assign
  <2>3. QED BY <1>1, <1>3, <2>1, <2>2, GoEffect, ViewEffect, ResetMove DEF Assign
<1>4. CASE Start(t)
  <2>1. CASE Legal(view[t], "RUNNING")
    BY <1>1, <1>4, <2>1, GoEffect, ViewEffect, ExecutionMove DEF Start
  <2>2. CASE ~Legal(view[t], "RUNNING")
    BY <1>1, <1>4, <2>2, IdleEffect DEF Start
  <2>3. QED BY <2>1, <2>2
<1>5. CASE FinishTools(t)
  BY <1>1, <1>5, FinishToolsOwn, GoEffect, ViewEffect, ExecutionMove
<1>6. CASE Succeed(t)
  BY <1>1, <1>6, SucceedOwn, GoEffect, ViewEffect, ExecutionMove
<1>7. QED BY <1>2, <1>3, <1>4, <1>5, <1>6

LEMMA FailEffect ==
    ASSUME TypeOK, NEW t \in Threads, NEW class,
           job' = [job EXCEPT ![t].pc = "failed", ![t].class = class]
    PROVE  job'[t].pc = "failed" /\ \A i \in Threads \ {t} : job'[i] = job[i]
<1>1. job' = [job EXCEPT ![t] = [job[t] EXCEPT !.pc = "failed", !.class = class]]
  OBVIOUS
<1>2. job[t] \in Job BY DEF TypeOK
<1>3. [job[t] EXCEPT !.pc = "failed", !.class = class].pc = "failed"
  BY <1>2 DEF Job
<1>4. QED BY <1>1, <1>3, JobEffect

LEMMA JudgeLocal ==
    ASSUME Inductive, NEW t \in Tasks, Verify(t) \/ Raise(t)
    PROVE  LocalStep(t)
<1> USE DEF At, LocalStep, LocalView, LocalJob, LocalRelease, Executing, Releasing,
            Replanning, Done
<1>1. /\ t \in Threads /\ TypeOK /\ StatesMatch
      /\ view[t] \in Projection
  BY DEF Inductive, TypeOK, Threads
<1>2. CASE Verify(t)
  <2>1. view[t].state = "VERIFYING" BY <1>1, <1>2 DEF Verify, StatesMatch
  <2>2. /\ view'[t].state = "VERIFYING"
        /\ \A u \in Tasks \ {t} : view'[u] = view[u]
        /\ Started(view'[t]) => Started(view[t])
    BY <1>1, <1>2, <2>1, ViewEffect, ResetMove DEF Verify
  <2>3. job'[t].pc \in {"passed", "failed"} /\ \A i \in Threads \ {t} : job'[i] = job[i]
    BY <1>1, <1>2, GoEffect, FailEffect DEF Verify
  <2>4. QED BY <1>2, <2>1, <2>2, <2>3 DEF Verify
<1>3. CASE Raise(t)
  <2>1. job'[t].pc = "failed" /\ \A i \in Threads \ {t} : job'[i] = job[i]
    BY <1>1, <1>3, RaiseOwn, FailEffect
  <2>2. view[t].state \in {"RUNNING", "VERIFYING"}
    BY <1>1, <1>3 DEF Raise, StatesMatch
  <2>3. QED BY <1>1, <1>3, <2>1, <2>2, RaiseOwn
<1>4. QED BY <1>2, <1>3

LEMMA ReplanEffect ==
    ASSUME TypeOK, NEW j \in Threads, NEW t \in Tasks, Replan(j, t)
    PROVE  /\ view' = view
           /\ job'[j].pc = "resetting"
           /\ job'[j].todo = Impact(t) /\ job'[j].scope = Impact(t)
           /\ \A i \in Threads \ {j} : job'[i] = job[i]
<1> DEFINE r == [Idle EXCEPT !.pc = "resetting", !.todo = Impact(t), !.scope = Impact(t)]
<1>1. r.pc = "resetting" /\ r.todo = Impact(t) /\ r.scope = Impact(t)
  BY DEF Idle
<1>2. job' = [job EXCEPT ![j] = r] /\ view' = view BY DEF Replan, Become
<1> HIDE DEF r
<1>3. QED BY <1>1, <1>2, JobEffect

LEMMA RecoverLocal ==
    ASSUME Inductive, NEW t \in Tasks, Recover(t)
    PROVE  LocalStep(t)
<1> USE DEF At, LocalStep, LocalView, LocalJob, LocalRelease, Executing, Releasing,
            Replanning, Done
<1>1. /\ t \in Threads /\ TypeOK /\ StatesMatch
      /\ view[t] \in Projection
  BY DEF Inductive, TypeOK, Threads
<1>2. view[t].state \in {"RUNNING", "VERIFYING"} /\ Started(view[t])
  BY <1>1 DEF Recover, StatesMatch, Started, Stage
<1>3. job[t].pc = "failed" /\ main' = main BY DEF Recover
<1>4. CASE Retry(t)
  <2>1. CASE RetryAllowed(t)
    BY <1>1, <1>2, <1>3, <1>4, <2>1, RetryOwn, IdleEffect, ViewEffect, ResetMove
  <2>2. CASE ~RetryAllowed(t)
    BY <1>1, <1>2, <1>3, <1>4, <2>2, RetryOwn, IdleEffect, ViewEffect, FailMove
  <2>3. QED BY <2>1, <2>2
<1>5. CASE SafeStop(t)
  <2>1. CASE Legal(view[t], "PAUSED")
    BY <1>1, <1>2, <1>3, <1>5, <2>1, IdleEffect, ViewEffect, PauseMove DEF SafeStop
  <2>2. CASE ~Legal(view[t], "PAUSED")
    BY <1>1, <1>2, <1>3, <1>5, <2>2, IdleEffect DEF SafeStop
  <2>3. QED BY <2>1, <2>2
<1>6. CASE Replan(t, t)
  BY <1>1, <1>2, <1>3, <1>6, ReplanEffect DEF Impact
<1>7. QED BY <1>4, <1>5, <1>6 DEF Recover

-----------------------------------------------------------------------------
(* The loops of _release_dependents and replan_tasks *)

(* The first half of a transition to READY writes nothing: the thread keeps *)
(* its list or gives up.                                                    *)
LEMMA CheckReadyEffect ==
    ASSUME TypeOK, NEW j \in Threads, NEW at, NEW next, NEW order,
           CheckReady(j, at, next, order)
    PROVE  /\ job[j].pc = at /\ main' = main /\ view' = view
           /\ \A i \in Threads \ {j} : job'[i] = job[i]
           /\ \/ job'[j].pc = "off"
              \/ job'[j].pc = next /\ job'[j].todo = job[j].todo
                 /\ job'[j].scope = job[j].scope
<1>1. PICK x \in First(job[j].todo, order) :
         \/ job' = [job EXCEPT ![j].pc = next, ![j].read = view[x]]
         \/ Become(j, Idle)
  BY DEF CheckReady
<1>2. CASE Become(j, Idle)
  BY <1>2, IdleEffect DEF CheckReady, At
<1>3. CASE job' = [job EXCEPT ![j].pc = next, ![j].read = view[x]]
  <2> DEFINE r == [job[j] EXCEPT !.pc = next, !.read = view[x]]
  <2>1. job[j] \in Job BY DEF TypeOK
  <2>2. r.pc = next /\ r.todo = job[j].todo /\ r.scope = job[j].scope
    BY <2>1 DEF Job
  <2>3. job' = [job EXCEPT ![j] = r] BY <1>3
  <2> HIDE DEF r
  <2>4. job'[j] = r /\ \A i \in Threads \ {j} : job'[i] = job[i]
    BY <2>3, JobEffect
  <2>5. QED BY <2>2, <2>4 DEF CheckReady, At
<1>4. QED BY <1>1, <1>2, <1>3

LEMMA RefreshEffect ==
    ASSUME TypeOK, NEW j \in Threads, Refresh(j)
    PROVE  /\ job'[j].pc = "roots" /\ view' = view /\ main' = main
           /\ \A i \in Threads \ {j} : job'[i] = job[i]
           /\ job'[j].todo = {x \in job[j].scope :
                                 /\ Parents[x] \cap job[j].scope = {}
                                 /\ \A p \in Parents[x] : Done(p)}
<1> DEFINE S == {x \in job[j].scope : /\ Parents[x] \cap job[j].scope = {}
                                      /\ \A p \in Parents[x] : Done(p)}
           r == [job[j] EXCEPT !.pc = "roots", !.todo = S]
<1> HIDE DEF S
<1>1. job[j] \in Job BY DEF TypeOK
<1>2. r.pc = "roots" /\ r.todo = S BY <1>1 DEF Job
<1>3. job' = [job EXCEPT ![j] = r] BY DEF Refresh, S
<1> HIDE DEF r
<1>4. job'[j] = r /\ \A i \in Threads \ {j} : job'[i] = job[i]
  BY <1>3, JobEffect
<1>5. QED BY <1>2, <1>4 DEF Refresh, S

LEMMA SnapshotEffect ==
    ASSUME TypeOK, NEW t \in Threads, Snapshot(t)
    PROVE  /\ job'[t].pc = "releasing" /\ job'[t].todo = Releasable
           /\ view' = view /\ main' = main
           /\ \A i \in Threads \ {t} : job'[i] = job[i]
<1> DEFINE r == [job[t] EXCEPT !.pc = "releasing", !.todo = Releasable]
<1>1. job[t] \in Job BY DEF TypeOK
<1>2. r.pc = "releasing" /\ r.todo = Releasable BY <1>1 DEF Job
<1>3. job' = [job EXCEPT ![t] = r] BY DEF Snapshot
<1> HIDE DEF r
<1>4. job'[t] = r /\ \A i \in Threads \ {t} : job'[i] = job[i]
  BY <1>3, JobEffect
<1>5. QED BY <1>2, <1>4 DEF Snapshot

(* A worker's read-only steps are local steps. *)
LEMMA ReadLocal ==
    ASSUME Inductive, NEW t \in Tasks,
           \/ Snapshot(t) \/ EndRelease(t) \/ Refresh(t) \/ EndReplan(t)
           \/ CheckReady(t, "releasing", "promoting", ListOrder)
           \/ CheckReady(t, "roots", "rooting", IdOrder)
    PROVE  LocalStep(t)
<1> USE DEF At, LocalStep, LocalView, LocalJob, LocalRelease, Executing, Releasing,
            Replanning, Done
<1>1. /\ t \in Threads /\ TypeOK /\ StatesMatch /\ ReleasePending /\ ReleaseStillDue
      /\ WorkerReplan /\ Barrier
  BY DEF Inductive, Threads
<1>2. CASE Snapshot(t)
  <2>1. \A x \in Releasable : /\ ~Done(x) /\ job[x].pc \notin Executing
                              /\ \A p \in Parents[x] : Done(p)
    BY <1>1 DEF Releasable, In, StatesMatch
  <2>2. QED BY <1>1, <1>2, <2>1, SnapshotEffect DEF Snapshot
<1>3. CASE EndRelease(t)
  BY <1>1, <1>3, IdleEffect DEF EndRelease
<1>4. CASE Refresh(t)
  <2>1. /\ job'[t].pc = "roots" /\ view' = view /\ main' = main
        /\ \A i \in Threads \ {t} : job'[i] = job[i]
        /\ \A x \in job'[t].todo : x \in job[t].scope /\ \A p \in Parents[x] : Done(p)
    BY <1>1, <1>4, RefreshEffect
  <2>2. job[t].pc = "refresh" /\ job[t].scope \subseteq Affected(t) /\ ~Done(t)
    BY <1>1, <1>4 DEF Refresh, WorkerReplan, StatesMatch
  <2>3. At(Main, "off") BY <1>1, <2>2 DEF Inductive, Quiet
  <2>4. \A x \in job[t].scope : x \in Tasks /\ (x # t => ~Started(view[x]))
    BY <1>1, <2>2, <2>3, AffectedUnstarted DEF Affected
  <2>5. \A x \in job[t].scope : ~Done(x) /\ job[x].pc \notin Executing
    BY <1>1, <2>2, <2>4 DEF StatesMatch, Started, Stage
  <2>6. QED BY <2>1, <2>2, <2>5
<1>5. CASE EndReplan(t)
  BY <1>1, <1>5, IdleEffect DEF EndReplan
<1>6. ASSUME job[t].pc \in {"releasing", "roots"},
             \/ CheckReady(t, "releasing", "promoting", ListOrder)
             \/ CheckReady(t, "roots", "rooting", IdOrder)
      PROVE  LocalStep(t)
  BY <1>1, <1>6, CheckReadyEffect DEF ReleasePending, ReleaseStillDue, StatesMatch
<1>7. QED BY <1>2, <1>3, <1>4, <1>5, <1>6 DEF CheckReady

(* The second half of a transition to READY writes a task nobody executes   *)
(* and whose dependencies are all SUCCEEDED.                                *)
LEMMA WriteReadyInductive ==
    ASSUME Inductive, TypeOK', NEW j \in Threads,
           NEW at, NEW next, NEW order, WriteReady(j, at, next, order),
           \/ at = "promoting" /\ next = "releasing"
           \/ at = "rooting" /\ next = "roots"
    PROVE  Inductive'
<1> USE DEF At
<1>1. PICK x \in First(job[j].todo, order) :
         /\ Store(x, Moved(job[j].read, "READY"))
         /\ job' = [job EXCEPT ![j].pc = next, ![j].todo = @ \ {x}, ![j].read = Blank]
  BY DEF WriteReady
<1>2. /\ TypeOK /\ job[j] \in Job /\ job[j].read \in Projection
      /\ job[j].pc = at /\ x \in job[j].todo /\ x \in Tasks /\ main' = main
      /\ \A t \in Tasks : t \in Threads
  BY <1>1 DEF Inductive, TypeOK, WriteReady, First, Job, Threads
<1>3. /\ view'[x].state = "READY"
      /\ \A u \in Tasks \ {x} : view'[u] = view[u]
  BY <1>1, <1>2, ReadyMove, ViewEffect
<1>4. /\ job'[j].pc = next /\ job'[j].todo \subseteq job[j].todo
      /\ \A i \in Threads \ {j} : job'[i] = job[i]
  <2> DEFINE r == [job[j] EXCEPT !.pc = next, !.todo = @ \ {x}, !.read = Blank]
  <2>1. r.pc = next /\ r.todo = job[j].todo \ {x} BY <1>2 DEF Job
  <2>2. job' = [job EXCEPT ![j] = r] BY <1>1
  <2> HIDE DEF r
  <2>3. job'[j] = r /\ \A i \in Threads \ {j} : job'[i] = job[i]
    BY <1>2, <2>2, JobEffect
  <2>4. QED BY <2>1, <2>3
<1>5. /\ ~Done(x) /\ job[x].pc \notin Executing
      /\ \A p \in Parents[x] : Done(p)
  BY <1>2 DEF Inductive, ReleasePending, ReleaseStillDue, Releasing
<1>6. \A u \in Tasks : Done(u)' <=> Done(u)
  BY <1>3, <1>5 DEF Done
<1>7. Quiet'
  BY <1>2, <1>4, DagAssumption DEF Inductive, Quiet, Threads
<1>8. job[Main].pc \notin {"resetting", "refresh"} /\ job'[Main].pc \notin {"resetting", "refresh"}
  BY <1>2, <1>4, DagAssumption DEF Inductive, Quiet, Threads
<1>9. StatesMatch'
  <2>1. SUFFICES ASSUME NEW t \in Tasks
                 PROVE  /\ job'[t].pc \in Executing =>
                             view'[t] = view[t] /\ job'[t] = job[t]
                        /\ job'[t].pc \in Replanning => ~Done(t)'
    BY DEF StatesMatch, Inductive, Executing
  <2>2. CASE t = j
    BY <1>2, <1>4, <1>6, <2>2 DEF Inductive, StatesMatch, Executing, Replanning
  <2>3. CASE t # j
    BY <1>2, <1>3, <1>4, <1>5, <1>6, <2>3 DEF Inductive, StatesMatch
  <2>4. QED BY <2>2, <2>3
<1>10. Barrier'
  <2>1. SUFFICES ASSUME NEW u \in Tasks, Started(view'[u]), NEW p \in Parents[u]
                 PROVE  Done(p)'
    BY DEF Barrier
  <2>2. p \in Tasks BY DagAssumption
  <2>3. CASE u = x BY <1>5, <1>6, <2>2, <2>3
  <2>4. CASE u # x
    BY <1>3, <1>6, <1>8, <2>1, <2>2, <2>4 DEF Inductive, Barrier, Exempt
  <2>5. QED BY <2>3, <2>4
<1>11. ReleaseStillDue' /\ ReleasePending'
  <2>1. SUFFICES ASSUME NEW i \in Threads, job'[i].pc \in Releasing,
                        NEW y \in job'[i].todo
                 PROVE  /\ ~Done(y)' /\ job'[y].pc \notin Executing
                        /\ \A p \in Parents[y] : Done(p)'
    BY DEF ReleaseStillDue, ReleasePending, Releasing
  <2>2. job[i].pc \in Releasing /\ y \in job[i].todo
    BY <1>2, <1>4, <2>1 DEF Releasing
  <2>3. y \in Tasks /\ Parents[y] \subseteq Tasks
    BY <2>2, DagAssumption DEF Inductive, TypeOK, Job
  <2>4. /\ ~Done(y) /\ job[y].pc \notin Executing /\ \A p \in Parents[y] : Done(p)
    BY <2>2 DEF Inductive, ReleaseStillDue, ReleasePending, Releasing
  <2>5. job'[y].pc \notin Executing
    BY <1>2, <1>4, <2>3, <2>4 DEF Executing
  <2>6. QED BY <1>6, <2>3, <2>4, <2>5
<1>12. WorkerReplan'
  BY <1>2, <1>4, AffectedStable DEF Inductive, WorkerReplan
<1>13. CallerReplan'
  BY <1>8 DEF CallerReplan
<1>14. QED BY <1>7, <1>9, <1>10, <1>11, <1>12, <1>13 DEF Inductive

(* The effect of resetting one task. *)
LEMMA ResetEffect ==
    ASSUME TypeOK, NEW j \in Threads, ResetOne(j)
    PROVE  \E x \in job[j].todo \cap Tasks :
              /\ view'[x].state = "PLANNED" /\ ~Started(view'[x])
              /\ \A u \in Tasks \ {x} : view'[u] = view[u]
              /\ \A i \in Threads \ {j} : job'[i] = job[i]
              /\ job'[j].todo = job[j].todo \ {x} /\ job'[j].scope = job[j].scope
              /\ \/ job'[j].pc = "resetting"
                 \/ job'[j].pc = "refresh" /\ job'[j].todo = {}
              /\ main' = main /\ job[j].pc = "resetting"
<1>1. PICK x \in First(job[j].todo, IdOrder) :
         /\ Store(x, Replanned(view[x]))
         /\ job' = [job EXCEPT
               ![j].todo = @ \ {x},
               ![j].pc = IF job[j].todo = {x} THEN "refresh" ELSE "resetting"]
  BY DEF ResetOne
<1>2. job[j] \in Job /\ x \in job[j].todo /\ x \in Tasks /\ view[x] \in Projection
  BY <1>1 DEF TypeOK, First, Job
<1>3. /\ view'[x].state = "PLANNED" /\ ~Started(view'[x])
      /\ \A u \in Tasks \ {x} : view'[u] = view[u]
  BY <1>1, <1>2, ViewEffect, ResetMove
<1> DEFINE pc == IF job[j].todo = {x} THEN "refresh" ELSE "resetting"
           r == [job[j] EXCEPT !.todo = @ \ {x}, !.pc = pc]
<1>4. /\ r.todo = job[j].todo \ {x} /\ r.scope = job[j].scope
      /\ r.pc = pc
  BY <1>2 DEF Job
<1>5. job' = [job EXCEPT ![j] = r] BY <1>1
<1> HIDE DEF r
<1>6. job'[j] = r /\ \A i \in Threads \ {j} : job'[i] = job[i]
  BY <1>5, JobEffect
<1>7. QED BY <1>2, <1>3, <1>4, <1>6 DEF ResetOne, At

(* A worker resets its own unfinished task or one that has not started, so  *)
(* nothing that is SUCCEEDED or executing is touched.                       *)
LEMMA WorkerResetInductive ==
    ASSUME Inductive, TypeOK', NEW t \in Tasks, ResetOne(t)
    PROVE  Inductive'
<1> USE DEF At
<1>1. TypeOK /\ t \in Threads BY DEF Inductive, Threads
<1>2. PICK x \in job[t].todo \cap Tasks :
        /\ view'[x].state = "PLANNED" /\ ~Started(view'[x])
        /\ \A u \in Tasks \ {x} : view'[u] = view[u]
        /\ \A i \in Threads \ {t} : job'[i] = job[i]
        /\ job'[t].todo = job[t].todo \ {x} /\ job'[t].scope = job[t].scope
        /\ \/ job'[t].pc = "resetting"
           \/ job'[t].pc = "refresh" /\ job'[t].todo = {}
        /\ main' = main /\ job[t].pc = "resetting"
  BY <1>1, ResetEffect
<1>3. main = "round" /\ job[Main].pc = "off" /\ job'[Main] = job[Main]
  BY <1>2, DagAssumption DEF Inductive, Quiet, Threads
<1>4. ~Done(t) /\ job[t].todo \cup job[t].scope \subseteq Affected(t)
  BY <1>2 DEF Inductive, StatesMatch, Replanning, WorkerReplan
<1>5. \A u \in Affected(t) \ {t} : ~Started(view[u])
  BY <1>1, <1>3, <1>4, AffectedUnstarted DEF Inductive
<1>6. ~Done(x) /\ (x # t => job[x].pc \notin Executing /\ ~Started(view[x]))
  BY <1>2, <1>4, <1>5, DoneStarted DEF Inductive, StatesMatch, Executing, Started, Stage
<1>7. \A u \in Tasks : Done(u)' <=> Done(u)
  BY <1>2, <1>6 DEF Done
<1>8. Quiet'
  BY <1>2, <1>3 DEF Quiet
<1>9. StatesMatch'
  <2>1. SUFFICES ASSUME NEW u \in Tasks
                 PROVE  /\ job'[u].pc \in Executing =>
                             view'[u] = view[u] /\ job'[u] = job[u]
                        /\ job'[u].pc \in Replanning => ~Done(u)'
    BY DEF StatesMatch, Inductive, Executing
  <2>2. CASE u = t
    BY <1>2, <1>4, <1>7, <2>2 DEF Executing
  <2>3. CASE u # t
    BY <1>2, <1>6, <1>7, <2>3 DEF Inductive, StatesMatch, Threads
  <2>4. QED BY <2>2, <2>3
<1>10. Barrier'
  <2>1. SUFFICES ASSUME NEW u \in Tasks, Started(view'[u]), NEW p \in Parents[u]
                 PROVE  Done(p)'
    BY DEF Barrier
  <2>2. p \in Tasks /\ Started(view[u]) BY <1>2, <2>1, DagAssumption
  <2>3. QED BY <1>3, <1>7, <2>2 DEF Inductive, Barrier, Exempt
<1>11. ReleaseStillDue' /\ ReleasePending'
  <2>1. SUFFICES ASSUME NEW i \in Threads, job'[i].pc \in Releasing,
                        NEW y \in job'[i].todo
                 PROVE  /\ ~Done(y)' /\ job'[y].pc \notin Executing
                        /\ \A p \in Parents[y] : Done(p)'
    BY DEF ReleaseStillDue, ReleasePending, Releasing
  <2>2. i # t /\ job'[i] = job[i] BY <1>2, <2>1 DEF Releasing
  <2>3. y \in Tasks /\ Parents[y] \subseteq Tasks
    BY <2>1, <2>2, DagAssumption DEF Inductive, TypeOK, Job
  <2>4. /\ ~Done(y) /\ job[y].pc \notin Executing /\ \A p \in Parents[y] : Done(p)
    BY <2>1, <2>2 DEF Inductive, ReleaseStillDue, ReleasePending, Releasing
  <2>5. job'[y].pc \notin Executing
    BY <1>2, <2>3, <2>4 DEF Executing, Threads
  <2>6. QED BY <1>7, <2>3, <2>4, <2>5
<1>12. WorkerReplan'
  BY <1>2, <1>4, AffectedStable DEF Inductive, WorkerReplan, Threads
<1>13. CallerReplan'
  BY <1>3 DEF CallerReplan
<1>14. QED BY <1>8, <1>9, <1>10, <1>11, <1>12, <1>13 DEF Inductive

(* The caller resets its scope while no worker runs. *)
LEMMA CallerResetInductive ==
    ASSUME Inductive, TypeOK', ResetOne(Main)
    PROVE  Inductive'
<1> USE DEF At
<1>1. TypeOK /\ Main \in Threads BY DEF Inductive, Threads
<1>2. PICK x \in job[Main].todo \cap Tasks :
        /\ view'[x].state = "PLANNED" /\ ~Started(view'[x])
        /\ \A u \in Tasks \ {x} : view'[u] = view[u]
        /\ \A i \in Threads \ {Main} : job'[i] = job[i]
        /\ job'[Main].todo = job[Main].todo \ {x} /\ job'[Main].scope = job[Main].scope
        /\ \/ job'[Main].pc = "resetting"
           \/ job'[Main].pc = "refresh" /\ job'[Main].todo = {}
        /\ main' = main /\ job[Main].pc = "resetting"
  BY <1>1, ResetEffect
<1>3. \A t \in Tasks : t \in Threads /\ t # Main /\ job[t].pc = "off" /\ job'[t] = job[t]
  BY <1>2, DagAssumption DEF Inductive, Quiet, Threads
<1>4. main = "replan" BY <1>2 DEF Inductive, Quiet
<1>5. /\ \A u \in job[Main].scope \ job[Main].todo : ~Started(view[u])
      /\ \A c \in Tasks \ job[Main].scope :
            Parents[c] \cap job[Main].scope # {} => ~Started(view[c])
      /\ job[Main].todo \subseteq job[Main].scope
  BY <1>2 DEF Inductive, CallerReplan
<1>6. Quiet' BY <1>2, <1>3, <1>4 DEF Quiet
<1>7. StatesMatch' BY <1>3 DEF StatesMatch, Replanning
<1>8. Barrier'
  <2>1. SUFFICES ASSUME NEW u \in Tasks, Started(view'[u]), ~Exempt(u)',
                        NEW p \in Parents[u]
                 PROVE  Done(p)'
    BY DEF Barrier
  <2>2. p \in Tasks BY DagAssumption
  <2>3. u # x /\ Started(view[u]) BY <1>2, <2>1
  <2>4. u \notin job[Main].todo BY <1>2, <2>1, <2>3 DEF Exempt
  <2>5. Done(p) BY <2>3, <2>4 DEF Inductive, Barrier, Exempt
  <2>6. p # x
    BY <1>2, <1>5, <2>1, <2>3, <2>4
  <2>7. QED BY <1>2, <2>2, <2>5, <2>6 DEF Done
<1>9. ReleaseStillDue' /\ ReleasePending'
  <2>1. \A i \in Threads : job'[i].pc \notin Releasing
    BY <1>2, <1>3 DEF Releasing, Threads
  <2>2. QED BY <2>1 DEF ReleaseStillDue, ReleasePending, Releasing
<1>10. WorkerReplan' BY <1>3 DEF WorkerReplan
<1>11. CallerReplan'
  BY <1>2, <1>5, <1>1 DEF CallerReplan, TypeOK, Job
<1>12. QED BY <1>6, <1>7, <1>8, <1>9, <1>10, <1>11 DEF Inductive

(* The read-only steps of the caller's replan. *)
LEMMA CallerReadInductive ==
    ASSUME Inductive, TypeOK',
           \/ Refresh(Main) \/ EndReplan(Main)
           \/ CheckReady(Main, "roots", "rooting", IdOrder)
    PROVE  Inductive'
<1> USE DEF At
<1>1. TypeOK /\ Main \in Threads BY DEF Inductive, Threads
<1>2. /\ job[Main].pc \in {"refresh", "roots"}
      /\ view' = view /\ main' = main
      /\ \A i \in Threads \ {Main} : job'[i] = job[i]
      /\ job'[Main].pc \in {"roots", "rooting", "off"}
  <2>1. CASE Refresh(Main)
    BY <1>1, <2>1, RefreshEffect DEF Refresh
  <2>2. CASE EndReplan(Main)
    BY <1>1, <2>2, IdleEffect DEF EndReplan
  <2>3. CASE CheckReady(Main, "roots", "rooting", IdOrder)
    BY <1>1, <2>3, CheckReadyEffect
  <2>4. QED BY <2>1, <2>2, <2>3
<1>3. \A t \in Tasks : t \in Threads /\ t # Main /\ job[t].pc = "off" /\ job'[t] = job[t]
  BY <1>2, DagAssumption DEF Inductive, Quiet, Threads
<1>4. job'[Main].pc \in Releasing =>
        \A x \in job'[Main].todo : ~Done(x) /\ \A p \in Parents[x] : Done(p)
  <2>1. CASE Refresh(Main)
    <3>1. job[Main].pc = "refresh" BY <2>1 DEF Refresh
    <3>2. \A x \in job[Main].scope : x \in Tasks /\ ~Started(view[x])
      BY <1>1, <3>1 DEF Inductive, CallerReplan, TypeOK, Job
    <3>3. \A x \in job'[Main].todo : x \in job[Main].scope /\ \A p \in Parents[x] : Done(p)
      BY <1>1, <2>1, RefreshEffect
    <3>4. QED BY <3>2, <3>3, DoneStarted
  <2>2. CASE EndReplan(Main)
    BY <1>1, <2>2, IdleEffect DEF EndReplan, Releasing
  <2>3. CASE CheckReady(Main, "roots", "rooting", IdOrder)
    BY <1>1, <2>3, CheckReadyEffect
       DEF Inductive, ReleasePending, ReleaseStillDue, Releasing
  <2>4. QED BY <2>1, <2>2, <2>3
<1>5. Quiet' BY <1>2, <1>3 DEF Inductive, Quiet
<1>6. StatesMatch' BY <1>3 DEF StatesMatch, Replanning
<1>7. Barrier' BY <1>2 DEF Inductive, Barrier, Exempt, Done
<1>8. ReleaseStillDue' /\ ReleasePending'
  <2>1. SUFFICES ASSUME NEW j \in Threads, job'[j].pc \in Releasing,
                        NEW x \in job'[j].todo
                 PROVE  /\ ~Done(x)' /\ job'[x].pc \notin Executing
                        /\ \A p \in Parents[x] : Done(p)'
    BY DEF ReleaseStillDue, ReleasePending, Releasing
  <2>2. j = Main BY <1>3, <2>1 DEF Threads, Releasing
  <2>3. x \in Tasks BY <2>1 DEF TypeOK, Job
  <2>4. QED BY <1>2, <1>3, <1>4, <2>1, <2>2, <2>3 DEF Done, Executing
<1>9. WorkerReplan' BY <1>3 DEF WorkerReplan
<1>10. CallerReplan' BY <1>2 DEF CallerReplan
<1>11. QED BY <1>5, <1>6, <1>7, <1>8, <1>9, <1>10 DEF Inductive

-----------------------------------------------------------------------------
(* The steps of the caller while no thread works on a task *)

(* A step that writes one task and runs no thread. *)
LEMMA SubmitInductive ==
    ASSUME Inductive, TypeOK', NEW t \in Tasks, NEW v, Store(t, v), job' = job,
           main \in {"create", "entry", "idle"}, main' \in {"create", "entry", "idle"},
           Done(t) => v.state = "SUCCEEDED",
           Started(v) => Started(view[t]) \/ Parents[t] = {}
    PROVE  Inductive'
<1> USE DEF At
<1>1. \A j \in Threads : job[j].pc = "off"
  BY DEF Inductive, Quiet, Threads
<1>2. Main \in Threads /\ \A u \in Tasks : u \in Threads BY DEF Threads
<1>3. view'[t] = v /\ \A u \in Tasks \ {t} : view'[u] = view[u]
  BY ViewEffect DEF Inductive
<1>4. Barrier'
  <2>1. SUFFICES ASSUME NEW u \in Tasks, Started(view'[u]), NEW p \in Parents[u]
                 PROVE  Done(p)'
    BY DEF Barrier
  <2>2. p \in Tasks /\ Started(view[u]) BY <1>3, <2>1, DagAssumption
  <2>3. Done(p) BY <1>1, <1>2, <2>2 DEF Inductive, Barrier, Exempt
  <2>4. QED BY <1>3, <2>2, <2>3 DEF Done
<1>5. Quiet' /\ StatesMatch' /\ ReleaseStillDue' /\ ReleasePending'
      /\ WorkerReplan' /\ CallerReplan'
  BY <1>1, <1>2 DEF Quiet, StatesMatch, ReleaseStillDue, ReleasePending, WorkerReplan,
     CallerReplan, Releasing, Replanning
<1>6. QED BY <1>4, <1>5 DEF Inductive

LEMMA PlannedMove ==
    ASSUME NEW v \in Projection
    PROVE  /\ Moved(v, "PLANNED").state = "PLANNED" /\ ~Started(Moved(v, "PLANNED"))
           /\ ~Started(Created)
BY DEF Moved, Projection, Started, Stage, Created, Blank, Absent

LEMMA CreateInductive ==
    ASSUME Inductive, TypeOK', NEW t \in Tasks, Submit(t)
    PROVE  Inductive'
<1>1. view[t] \in Projection BY DEF Inductive, TypeOK
<1>2. CASE CreateTask(t)
  BY <1>1, <1>2, PlannedMove, SubmitInductive DEF CreateTask, Done, Absent
<1>3. CASE PlanTask(t)
  BY <1>1, <1>3, PlannedMove, SubmitInductive DEF PlanTask, Done
<1>4. CASE ReleaseEntry(t)
  BY <1>1, <1>4, SubmitInductive DEF ReleaseEntry, Done
<1>5. QED BY <1>2, <1>3, <1>4 DEF Submit

LEMMA InvalidateInductive ==
    ASSUME Inductive, TypeOK', NEW t \in Tasks, InvalidateEvidence(t)
    PROVE  Inductive'
<1> USE DEF At
<1>1. TypeOK /\ Main \in Threads BY DEF Inductive, Threads
<1>2. /\ view' = view /\ main' = "replan"
      /\ job'[Main].pc = "resetting"
      /\ job'[Main].todo = Impact(t) /\ job'[Main].scope = Impact(t)
      /\ \A i \in Threads \ {Main} : job'[i] = job[i]
  BY <1>1, ReplanEffect DEF InvalidateEvidence
<1>3. \A u \in Tasks : u \in Threads /\ u # Main /\ job[u].pc = "off" /\ job'[u] = job[u]
  BY <1>2, DagAssumption DEF Inductive, Quiet, Threads, InvalidateEvidence
<1>4. job[Main].pc = "off" BY DEF Inductive, Quiet, InvalidateEvidence
<1>5. \A c \in Tasks \ Impact(t) : Parents[c] \cap Impact(t) # {} => ~Started(view[c])
  BY AffectedClosed DEF Impact, ChildClosed, In, Started, Stage, Absent
<1>6. Barrier'
  BY <1>2, <1>4 DEF Inductive, Barrier, Exempt, Done
<1>7. Quiet' /\ StatesMatch' /\ WorkerReplan'
  BY <1>2, <1>3 DEF Quiet, StatesMatch, WorkerReplan, Replanning
<1>8. ReleaseStillDue' /\ ReleasePending'
  BY <1>2, <1>3 DEF ReleaseStillDue, ReleasePending, Threads, Releasing
<1>9. CallerReplan'
  BY <1>2, <1>5 DEF CallerReplan
<1>10. QED BY <1>6, <1>7, <1>8, <1>9 DEF Inductive

LEMMA ControlInductive ==
    ASSUME Inductive, TypeOK', NEW t \in Tasks, Control(t)
    PROVE  Inductive'
<1>1. view[t] \in Projection BY DEF Inductive, TypeOK
<1>2. CASE InvalidateEvidence(t)
  BY <1>2, InvalidateInductive
<1>3. CASE PauseTask(t)
  <2>1. Legal(view[t], "PAUSED") BY <1>3 DEF PauseTask, Legal
  <2>2. QED BY <1>1, <1>3, <2>1, PauseMove, SubmitInductive DEF PauseTask, Done
<1>4. CASE ResumeTask(t)
  <2>1. Started(Moved(view[t], view[t].pausedFrom)) => Started(view[t])
    BY <1>1, <1>4 DEF ResumeTask, Moved, Projection, Started, Stage
  <2>2. QED BY <1>4, <2>1, SubmitInductive DEF ResumeTask, Done
<1>5. QED BY <1>2, <1>3, <1>4 DEF Control

LEMMA CallerInductive ==
    ASSUME Inductive, TypeOK', EndCreate \/ Call \/ Loop
    PROVE  Inductive'
<1> USE DEF At
<1>1. TypeOK /\ Main \in Threads /\ Main \notin Tasks /\ \A t \in Tasks : t \in Threads
  BY DagAssumption DEF Inductive, Threads
<1>2. ASSUME NEW S \in SUBSET Tasks, RunOnce(S) PROVE Inductive'
  <2>1. /\ view' = view /\ main = "loop" /\ main' = "round"
        /\ job' = [j \in Threads |-> IF j \in S THEN [Idle EXCEPT !.pc = "queued"]
                                              ELSE job[j]]
        /\ \A t \in S : view[t].state = "READY"
    BY <1>2 DEF RunOnce, In
  <2>2. \A j \in Threads : job[j].pc = "off"
    BY <2>1 DEF Inductive, Quiet, Threads
  <2>3. [Idle EXCEPT !.pc = "queued"].pc = "queued" BY DEF Idle
  <2>4. /\ \A t \in Tasks : job'[t].pc = IF t \in S THEN "queued" ELSE "off"
        /\ job'[Main].pc = "off"
    BY <1>1, <1>2, <2>1, <2>2, <2>3
  <2>5. Quiet' /\ StatesMatch' /\ WorkerReplan' /\ CallerReplan'
    BY <2>1, <2>4 DEF Quiet, StatesMatch, WorkerReplan, CallerReplan, Replanning
  <2>6. ReleaseStillDue' /\ ReleasePending'
    BY <2>4 DEF ReleaseStillDue, ReleasePending, Threads, Releasing
  <2>7. Barrier'
    BY <1>1, <2>1, <2>2 DEF Inductive, Barrier, Exempt, Done
  <2>8. QED BY <2>5, <2>6, <2>7 DEF Inductive
<1>3. CASE EndCreate \/ Call \/ Return \/ NoProgress \/ EndRound \/ EndInvalidate
  <2>1. /\ view' = view /\ job' = job
        /\ \A j \in Threads : job[j].pc = "off"
    BY <1>1, <1>3 DEF EndCreate, Call, Return, NoProgress, EndRound, EndInvalidate,
       Inductive, Quiet, Threads
  <2>2. Quiet' BY <1>1, <2>1 DEF Quiet
  <2>3. StatesMatch' /\ Barrier' /\ ReleaseStillDue' /\ ReleasePending'
        /\ WorkerReplan' /\ CallerReplan'
    BY <1>1, <2>1 DEF Inductive, StatesMatch, Barrier, ReleaseStillDue, ReleasePending,
       WorkerReplan, CallerReplan, Exempt, Done, Releasing, Replanning
  <2>4. QED BY <2>2, <2>3 DEF Inductive
<1>4. QED BY <1>2, <1>3 DEF Loop

-----------------------------------------------------------------------------
(* The theorems *)

LEMMA InitInductive == Init => Inductive
<1>1. SUFFICES ASSUME Init PROVE Inductive OBVIOUS
<1>2. TypeOK BY <1>1, InitTypeOK
<1>3. Main \in Threads /\ \A t \in Tasks : t \in Threads BY DEF Threads
<1>4. /\ \A t \in Tasks : ~Started(view[t])
      /\ \A j \in Threads : job[j].pc = "off"
  BY <1>1 DEF Init, Blank, Idle, Started, Stage, Absent
<1>5. Barrier BY <1>4 DEF Barrier
<1>6. Quiet /\ StatesMatch /\ ReleaseStillDue /\ ReleasePending /\ WorkerReplan
      /\ CallerReplan
  BY <1>3, <1>4 DEF Quiet, StatesMatch, ReleaseStillDue, ReleasePending, WorkerReplan,
     CallerReplan, At, Releasing, Replanning
<1>7. QED BY <1>2, <1>5, <1>6 DEF Inductive

LEMMA NextInductive == Inductive /\ [Next]_vars => Inductive'
<1>1. SUFFICES ASSUME Inductive, [Next]_vars PROVE Inductive'
  OBVIOUS
<1>2. TypeOK' BY <1>1, NextTypeOK DEF Inductive
<1>3. CASE UNCHANGED vars
  BY <1>1, <1>3 DEF vars, Inductive, TypeOK, Quiet, StatesMatch, Barrier, Exempt,
     ReleaseStillDue, ReleasePending, WorkerReplan, CallerReplan, Done, At, Affected,
     ChildClosed
<1>4. ASSUME NEW t \in Tasks, Worker(t) PROVE Inductive'
  <2>1. CASE WriteReady(t, "promoting", "releasing", ListOrder)
    BY <1>1, <1>2, <2>1, WriteReadyInductive DEF Threads
  <2>2. CASE ~WriteReady(t, "promoting", "releasing", ListOrder)
    <3>1. LocalStep(t)
      BY <1>1, <1>4, <2>2, ExecuteLocal, JudgeLocal, RecoverLocal, ReadLocal
         DEF Worker, ReleaseDependents
    <3>2. QED BY <1>1, <1>2, <3>1, LocalStepInductive
  <2>3. QED BY <2>1, <2>2
<1>5. ASSUME NEW j \in Threads, ReplanTasks(j) PROVE Inductive'
  <2>1. CASE WriteReady(j, "rooting", "roots", IdOrder)
    BY <1>1, <1>2, <2>1, WriteReadyInductive
  <2>2. CASE j = Main
    BY <1>1, <1>2, <1>5, <2>1, <2>2, CallerResetInductive, CallerReadInductive
       DEF ReplanTasks
  <2>3. CASE j \in Tasks
    BY <1>1, <1>2, <1>5, <2>1, <2>3, WorkerResetInductive, ReadLocal,
       LocalStepInductive DEF ReplanTasks
  <2>4. QED BY <2>2, <2>3 DEF Threads
<1>6. ASSUME NEW t \in Tasks, Submit(t) \/ Control(t) PROVE Inductive'
  BY <1>1, <1>2, <1>6, CreateInductive, ControlInductive
<1>7. QED
  BY <1>1, <1>2, <1>3, <1>4, <1>5, <1>6, CallerInductive DEF Next

(* The strengthening holds in every reachable state. *)
THEOREM InductiveInvariant == Spec => []Inductive
BY InitInductive, NextInductive, PTL DEF Spec

(* The DAG barrier: whatever workers, retries and replans do, a task is      *)
(* READY, executing or SUCCEEDED only while all its dependencies are         *)
(* SUCCEEDED, except for tasks a replan in progress has still to reset.      *)
THEOREM BarrierHolds == Spec => []DependencyBarrier
<1>1. Inductive => DependencyBarrier
  BY DEF Inductive, Barrier, Exempt, DependencyBarrier, Pending, Threads
<1>2. QED BY <1>1, InductiveInvariant, PTL

(* No worker can invalidate what a release loop of another thread has read   *)
(* from the store, although the loop reads once and writes task by task.     *)
THEOREM ReleaseIsNeverStale == Spec => []ReleaseStillDue
<1>1. Inductive => ReleaseStillDue BY DEF Inductive
<1>2. QED BY <1>1, InductiveInvariant, PTL

(* A worker that replans in the middle of a round resets no task that has    *)
(* started, except its own failed one.                                      *)
THEOREM ReplanIsConfined == Spec => []ReplanSparesOthers
<1>1. Inductive => ReplanSparesOthers
  <2>1. SUFFICES ASSUME Inductive, NEW j \in Tasks, At(j, "resetting"),
                        NEW x \in job[j].todo \ {j}
                 PROVE  ~Started(view[x])
    BY DEF ReplanSparesOthers
  <2>2. At(Main, "off") BY <2>1 DEF Inductive, Quiet, At
  <2>3. ~Done(j) /\ x \in Affected(j) \ {j}
    BY <2>1 DEF Inductive, StatesMatch, Replanning, WorkerReplan, At
  <2>4. QED BY <2>1, <2>2, <2>3, AffectedUnstarted DEF Inductive
<1>2. QED BY <1>1, InductiveInvariant, PTL

-----------------------------------------------------------------------------
(* Who may be pending *)

(* What is affected was reached through something affected. *)
LEMMA AffectedReached ==
    ASSUME NEW k \in Tasks, NEW x \in Affected(k), x # k
    PROVE  Parents[x] \cap Affected(k) # {}
<1> DEFINE S == Affected(k) \ {x}
<1>1. SUFFICES ASSUME Parents[x] \cap Affected(k) = {} PROVE FALSE
  OBVIOUS
<1>2. k \in Affected(k) /\ ChildClosed(Affected(k)) BY AffectedClosed
<1>3. ChildClosed(S) BY <1>1, <1>2 DEF ChildClosed
<1>4. S \in SUBSET Tasks /\ k \in S BY <1>2 DEF Affected
<1>5. x \in S BY <1>3, <1>4 DEF Affected
<1>6. QED BY <1>5

(* What a worker has still to reset has not started, but for its own task. *)
LEMMA PendingShape ==
    ASSUME Inductive, ~At(Main, "resetting"), NEW x \in Pending
    PROVE  \E k \in Tasks : /\ At(k, "resetting") /\ x \in job[k].todo /\ x \in Affected(k)
                            /\ ~Done(k) /\ (x # k => ~Started(view[x]))
<1>1. PICK k \in Threads : At(k, "resetting") /\ x \in job[k].todo
  BY DEF Pending
<1>2. k \in Tasks BY <1>1 DEF Threads
<1>3. At(Main, "off") BY <1>1, <1>2 DEF Inductive, Quiet, At
<1>4. ~Done(k) /\ x \in Affected(k)
  BY <1>1, <1>2 DEF Inductive, StatesMatch, WorkerReplan, Replanning, At
<1>5. x # k => ~Started(view[x])
  BY <1>2, <1>3, <1>4, AffectedUnstarted DEF Inductive
<1>6. QED BY <1>1, <1>2, <1>4, <1>5

LEMMA DoneNotPending ==
    ASSUME Inductive, ~At(Main, "resetting"), NEW t \in Tasks, Done(t)
    PROVE  t \notin Pending
BY PendingShape, DoneStarted

LEMMA ExecutingNotPending ==
    ASSUME Inductive, NEW t \in Tasks, job[t].pc \in Executing
    PROVE  /\ Started(view[t]) /\ ~Done(t)
           /\ t \notin Pending /\ At(Main, "off")
<1>1. Started(view[t]) /\ ~Done(t)
  BY DEF Inductive, StatesMatch, Executing, Started, Stage, Done
<1>2. At(Main, "off") BY DEF Inductive, Quiet, Executing, At
<1>3. ~At(t, "resetting") BY DEF Executing, At
<1>4. QED BY <1>1, <1>2, <1>3, PendingShape DEF At

(* No thread has begun, or is done with, resetting: nothing changes pending. *)
LEMMA PendingKept ==
    ASSUME NEW j \in Threads, job[j].pc # "resetting", job'[j].pc # "resetting",
           \A i \in Threads \ {j} : job'[i] = job[i]
    PROVE  Pending' = Pending
BY DEF Pending, At, Threads

-----------------------------------------------------------------------------
(* The steps of one execution *)

ExecuteStep(t) ==
    /\ job[t].pc \in Executing
    /\ job'[t].pc \notin Releasing \cup {"resetting", "refresh"}
    /\ \A i \in Threads \ {t} : job'[i] = job[i]
    /\ \A u \in Tasks \ {t} : view'[u] = view[u]

LEMMA ExecuteSteps ==
    ASSUME Inductive, NEW t \in Tasks,
           \/ Dequeue(t) \/ Assign(t) \/ Start(t) \/ FinishTools(t) \/ Verify(t)
           \/ Succeed(t) \/ Raise(t)
           \/ At(t, "failed") /\ (Retry(t) \/ SafeStop(t))
    PROVE  ExecuteStep(t)
<1> USE DEF ExecuteStep, Executing, Releasing, At
<1>1. t \in Threads /\ TypeOK /\ StatesMatch BY DEF Inductive, Threads
<1>2. CASE Dequeue(t) BY <1>1, <1>2, GoEffect DEF Dequeue
<1>3. CASE Assign(t)
  BY <1>1, <1>3, GoEffect, IdleEffect, ViewEffect DEF Assign
<1>4. CASE Start(t)
  BY <1>1, <1>4, GoEffect, IdleEffect, ViewEffect DEF Start
<1>5. CASE FinishTools(t) \/ Succeed(t)
  BY <1>1, <1>5, FinishToolsOwn, SucceedOwn, GoEffect, ViewEffect
<1>6. CASE Verify(t)
  BY <1>1, <1>6, GoEffect, FailEffect, ViewEffect DEF Verify
<1>7. CASE Raise(t)
  BY <1>1, <1>7, RaiseOwn, FailEffect
<1>8. CASE At(t, "failed") /\ (Retry(t) \/ SafeStop(t))
  BY <1>1, <1>8, IdleEffect, ViewEffect DEF Retry, SafeStop
<1>9. QED BY <1>2, <1>3, <1>4, <1>5, <1>6, <1>7, <1>8

(* The write of a transition to READY. *)
LEMMA WriteReadyEffect ==
    ASSUME TypeOK, NEW j \in Threads, NEW at, NEW next, NEW order,
           WriteReady(j, at, next, order)
    PROVE  \E x \in job[j].todo \cap Tasks :
              /\ view'[x] = Moved(job[j].read, "READY") /\ view'[x].state = "READY"
              /\ \A u \in Tasks \ {x} : view'[u] = view[u]
              /\ job[j].pc = at /\ job'[j].pc = next
              /\ job'[j].todo = job[j].todo \ {x}
              /\ \A i \in Threads \ {j} : job'[i] = job[i]
<1>1. PICK x \in First(job[j].todo, order) :
         /\ Store(x, Moved(job[j].read, "READY"))
         /\ job' = [job EXCEPT ![j].pc = next, ![j].todo = @ \ {x}, ![j].read = Blank]
  BY DEF WriteReady
<1>2. job[j] \in Job /\ job[j].read \in Projection /\ x \in job[j].todo /\ x \in Tasks
  BY <1>1 DEF TypeOK, First, Job
<1>3. view'[x] = Moved(job[j].read, "READY") /\ \A u \in Tasks \ {x} : view'[u] = view[u]
  BY <1>1, <1>2, ViewEffect
<1> DEFINE r == [job[j] EXCEPT !.pc = next, !.todo = @ \ {x}, !.read = Blank]
<1>4. r.pc = next /\ r.todo = job[j].todo \ {x} BY <1>2 DEF Job
<1>5. job' = [job EXCEPT ![j] = r] BY <1>1
<1> HIDE DEF r
<1>6. job'[j] = r /\ \A i \in Threads \ {j} : job'[i] = job[i]
  BY <1>5, JobEffect
<1>7. QED BY <1>2, <1>3, <1>4, <1>6, ReadyMove DEF WriteReady, At

-----------------------------------------------------------------------------
(* Loops work on waiting tasks only *)

LEMMA ExecuteKeepsLoops ==
    ASSUME Inductive, LoopsOnWaiting, NEW t \in Tasks, ExecuteStep(t)
    PROVE  LoopsOnWaiting'
<1> USE DEF At
<1>1. /\ t \in Threads /\ TypeOK /\ Started(view[t]) /\ ~Done(t) /\ job[Main].pc = "off"
      /\ Main \in Threads /\ Main # t
  BY ExecutingNotPending, DagAssumption DEF Inductive, Threads, ExecuteStep
<1>2. ASSUME NEW j \in Threads, job'[j].pc \in Releasing, NEW x \in job'[j].todo
      PROVE  view'[x].state \in Waiting
  <2>1. j # t /\ job'[j] = job[j] BY <1>2 DEF ExecuteStep
  <2>2. x \in Tasks /\ x # t
    BY <1>1, <1>2, <2>1 DEF Inductive, ReleasePending, ExecuteStep, TypeOK, Job
  <2>3. QED BY <1>2, <2>1, <2>2 DEF LoopsOnWaiting, ExecuteStep
<1>3. ASSUME NEW j \in Threads, job'[j].pc \in {"resetting", "refresh"}
      PROVE  /\ \A x \in job'[j].scope \ job'[j].todo : view'[x].state \in Waiting
             /\ job'[j].pc = "refresh" => job'[j].todo = {}
             /\ j \in Tasks /\ j # t /\ job'[j] = job[j] /\ view'[j] = view[j]
  <2>1. j # t /\ job'[j] = job[j] BY <1>3 DEF ExecuteStep
  <2>2. j \in Tasks BY <1>1, <1>3, <2>1 DEF Threads
  <2>3. job[j].scope \subseteq Affected(j) /\ ~Done(j)
    BY <1>3, <2>1, <2>2 DEF Inductive, WorkerReplan, StatesMatch, Replanning
  <2>4. t \notin job[j].scope
    BY <1>1, <2>1, <2>2, <2>3, AffectedUnstarted DEF Inductive
  <2>5. job[j].scope \subseteq Tasks BY <1>1 DEF TypeOK, Job
  <2>6. QED BY <1>3, <2>1, <2>2, <2>4, <2>5 DEF LoopsOnWaiting, ExecuteStep
<1>4. QED BY <1>2, <1>3, DagAssumption DEF LoopsOnWaiting, Threads

(* A thread begins the replan of an executing task, or the caller of any. *)
LEMMA ReplanKeepsLoops ==
    ASSUME Inductive, LoopsOnWaiting, NEW j \in Threads, NEW t \in Tasks, Replan(j, t),
           j \in Tasks => view[j].state \in {"RUNNING", "VERIFYING"}
    PROVE  LoopsOnWaiting'
BY ReplanEffect DEF Inductive, LoopsOnWaiting, At, Releasing, Threads

(* A step that writes no task, by a thread that keeps its list, gives it up, *)
(* or takes waiting tasks to release.                                       *)
LEMMA ReadKeepsLoops ==
    ASSUME LoopsOnWaiting, NEW j \in Threads, view' = view,
           \A i \in Threads \ {j} : job'[i] = job[i],
           job'[j].pc \notin {"resetting", "refresh"},
           job'[j].pc \in Releasing => \A x \in job'[j].todo : view[x].state \in Waiting
    PROVE  LoopsOnWaiting'
BY DEF LoopsOnWaiting, At, Threads

LEMMA LoopReads ==
    ASSUME Inductive, LoopsOnWaiting, NEW j \in Threads,
           \/ j \in Tasks /\ (Snapshot(j) \/ EndRelease(j))
           \/ Refresh(j) \/ EndReplan(j)
           \/ CheckReady(j, "releasing", "promoting", ListOrder)
           \/ CheckReady(j, "roots", "rooting", IdOrder)
    PROVE  LoopsOnWaiting'
<1> USE DEF At, Releasing
<1>1. TypeOK BY DEF Inductive
<1>2. CASE j \in Tasks /\ Snapshot(j)
  BY <1>1, <1>2, SnapshotEffect, ReadKeepsLoops DEF Snapshot, Releasable, In, Waiting
<1>3. CASE EndRelease(j) \/ EndReplan(j)
  BY <1>1, <1>3, IdleEffect, ReadKeepsLoops DEF EndRelease, EndReplan
<1>4. CASE Refresh(j)
  <2>1. /\ job'[j].pc = "roots" /\ view' = view
        /\ \A i \in Threads \ {j} : job'[i] = job[i]
        /\ \A x \in job'[j].todo : x \in job[j].scope
    BY <1>1, <1>4, RefreshEffect
  <2>2. \A x \in job[j].scope : view[x].state \in Waiting
    BY <1>4 DEF Refresh, LoopsOnWaiting
  <2>3. QED BY <2>1, <2>2, ReadKeepsLoops
<1>5. CASE \/ CheckReady(j, "releasing", "promoting", ListOrder)
           \/ CheckReady(j, "roots", "rooting", IdOrder)
  BY <1>1, <1>5, CheckReadyEffect, ReadKeepsLoops DEF LoopsOnWaiting
<1>6. QED BY <1>2, <1>3, <1>4, <1>5

LEMMA WriteReadyKeepsLoops ==
    ASSUME Inductive, LoopsOnWaiting, NEW j \in Threads, NEW at \in Releasing,
           NEW next \in Releasing, NEW order, WriteReady(j, at, next, order)
    PROVE  LoopsOnWaiting'
<1> USE DEF At, Waiting
<1>1. TypeOK BY DEF Inductive
<1>2. PICK x \in job[j].todo \cap Tasks :
        /\ view'[x].state = "READY"
        /\ \A u \in Tasks \ {x} : view'[u] = view[u]
        /\ job[j].pc = at /\ job'[j].pc = next
        /\ job'[j].todo = job[j].todo \ {x}
        /\ \A i \in Threads \ {j} : job'[i] = job[i]
  BY <1>1, WriteReadyEffect
<1>3. view[x].state \in Waiting BY <1>2 DEF LoopsOnWaiting
<1>4. \A u \in Tasks : view[u].state \in Waiting => view'[u].state \in Waiting
  BY <1>2
<1>5. ASSUME NEW i \in Threads
      PROVE  /\ job'[i].pc \in Releasing =>
                   \A y \in job'[i].todo : view'[y].state \in Waiting
             /\ job'[i].pc \in {"resetting", "refresh"} =>
                   \A y \in job'[i].scope \ job'[i].todo : view'[y].state \in Waiting
             /\ job'[i].pc = "refresh" => job'[i].todo = {}
  <2>1. job[i].todo \subseteq Tasks /\ job[i].scope \subseteq Tasks
    BY <1>1 DEF TypeOK, Job
  <2>2. CASE i = j BY <1>2, <1>4, <2>1, <2>2 DEF LoopsOnWaiting, Releasing
  <2>3. CASE i # j BY <1>2, <1>4, <2>1, <2>3 DEF LoopsOnWaiting
  <2>4. QED BY <2>2, <2>3
<1>6. ASSUME NEW t \in Tasks, job'[t].pc = "resetting", t \in job'[t].todo
      PROVE  view'[t].state \in {"RUNNING", "VERIFYING"}
  <2>1. t # j /\ job'[t] = job[t] BY <1>2, <1>6 DEF Threads, Releasing
  <2>2. view[t].state \in {"RUNNING", "VERIFYING"}
    BY <1>6, <2>1 DEF LoopsOnWaiting
  <2>3. QED BY <1>2, <1>3, <2>2
<1>7. QED BY <1>5, <1>6 DEF LoopsOnWaiting

LEMMA ResetKeepsLoops ==
    ASSUME Inductive, LoopsOnWaiting, NEW j \in Threads, ResetOne(j)
    PROVE  LoopsOnWaiting'
<1> USE DEF At, Waiting
<1>1. TypeOK BY DEF Inductive
<1>2. PICK x \in job[j].todo \cap Tasks :
        /\ view'[x].state = "PLANNED" /\ ~Started(view'[x])
        /\ \A u \in Tasks \ {x} : view'[u] = view[u]
        /\ \A i \in Threads \ {j} : job'[i] = job[i]
        /\ job'[j].todo = job[j].todo \ {x} /\ job'[j].scope = job[j].scope
        /\ \/ job'[j].pc = "resetting"
           \/ job'[j].pc = "refresh" /\ job'[j].todo = {}
        /\ main' = main /\ job[j].pc = "resetting"
  BY <1>1, ResetEffect
<1>3. \A u \in Tasks : view[u].state \in Waiting => view'[u].state \in Waiting
  BY <1>2
<1>4. ASSUME NEW i \in Threads
      PROVE  /\ job'[i].pc \in Releasing =>
                   \A y \in job'[i].todo : view'[y].state \in Waiting
             /\ job'[i].pc \in {"resetting", "refresh"} =>
                   \A y \in job'[i].scope \ job'[i].todo : view'[y].state \in Waiting
             /\ job'[i].pc = "refresh" => job'[i].todo = {}
  <2>1. job[i].todo \subseteq Tasks /\ job[i].scope \subseteq Tasks
    BY <1>1 DEF TypeOK, Job
  <2>2. CASE i = j BY <1>2, <1>3, <2>1, <2>2 DEF LoopsOnWaiting, Releasing
  <2>3. CASE i # j BY <1>2, <1>3, <2>1, <2>3 DEF LoopsOnWaiting
  <2>4. QED BY <2>2, <2>3
<1>5. ASSUME NEW t \in Tasks, job'[t].pc = "resetting", t \in job'[t].todo
      PROVE  view'[t].state \in {"RUNNING", "VERIFYING"}
  <2>1. t \in Threads /\ job[t].pc = "resetting" /\ t \in job[t].todo /\ (t = j => x # t)
    BY <1>2, <1>5 DEF Threads
  <2>2. view[t].state \in {"RUNNING", "VERIFYING"} BY <2>1 DEF LoopsOnWaiting
  <2>3. x # t
    <3>1. CASE j = t BY <2>1, <3>1
    <3>2. CASE j # t
      <4>1. ~At(Main, "resetting") /\ j \in Tasks
        BY <1>2, <2>1, DagAssumption DEF Inductive, Quiet, Threads
      <4>2. At(Main, "off") BY <4>1, <2>1 DEF Inductive, Quiet
      <4>3. ~Done(j) /\ x \in Affected(j)
        BY <1>2, <4>1 DEF Inductive, StatesMatch, Replanning, WorkerReplan
      <4>4. x # j => ~Started(view[x])
        BY <4>1, <4>2, <4>3, AffectedUnstarted DEF Inductive
      <4>5. QED BY <2>2, <3>2, <4>4 DEF Started, Stage
    <3>3. QED BY <3>1, <3>2
  <2>4. QED BY <1>2, <2>2, <2>3
<1>6. QED BY <1>4, <1>5 DEF LoopsOnWaiting

LEMMA QuietLoops ==
    ASSUME \A j \in Threads : job'[j].pc \in {"off", "queued"}
    PROVE  LoopsOnWaiting'
BY DEF LoopsOnWaiting, At, Releasing, Threads

(* Between rounds a step that is not a replan's runs no loop. *)
LEMMA CallerQuiet ==
    ASSUME Inductive,
           \/ EndCreate \/ Call \/ Loop
           \/ \E t \in Tasks : Submit(t) \/ PauseTask(t) \/ ResumeTask(t)
    PROVE  /\ \A j \in Threads : job[j].pc = "off" /\ job'[j].pc \in {"off", "queued"}
           /\ ~(\E t \in Tasks : Submit(t) \/ PauseTask(t) \/ ResumeTask(t))
                 => view' = view
<1> USE DEF At
<1>1. CASE \E S \in SUBSET Tasks : RunOnce(S)
  <2>1. \A j \in Threads : job[j].pc = "off"
    BY <1>1 DEF RunOnce, Inductive, Quiet, Threads
  <2>2. QED BY <1>1, <2>1 DEF RunOnce, Idle
<1>2. CASE EndCreate \/ Call \/ Return \/ NoProgress \/ EndRound \/ EndInvalidate
  BY <1>2 DEF EndCreate, Call, Return, NoProgress, EndRound, EndInvalidate,
     Inductive, Quiet, Threads
<1>3. CASE \E t \in Tasks : Submit(t) \/ PauseTask(t) \/ ResumeTask(t)
  BY <1>3 DEF Submit, CreateTask, PlanTask, ReleaseEntry, PauseTask, ResumeTask,
     Inductive, Quiet, Threads
<1>4. QED BY <1>1, <1>2, <1>3 DEF Loop

LEMMA NextLoops == Inductive /\ LoopsOnWaiting /\ [Next]_vars => LoopsOnWaiting'
<1>1. SUFFICES ASSUME Inductive, LoopsOnWaiting, [Next]_vars PROVE LoopsOnWaiting'
  OBVIOUS
<1>2. CASE UNCHANGED vars BY <1>1, <1>2 DEF vars, LoopsOnWaiting, At
<1>3. ASSUME NEW t \in Tasks, Worker(t) PROVE LoopsOnWaiting'
  <2>1. t \in Threads /\ TypeOK BY <1>1 DEF Inductive, Threads
  <2>2. CASE ReleaseDependents(t)
    BY <1>1, <2>1, <2>2, LoopReads, WriteReadyKeepsLoops DEF ReleaseDependents, Releasing
  <2>3. CASE Recover(t) /\ Replan(t, t)
    BY <1>1, <2>1, <2>3, ReplanKeepsLoops DEF Recover, At, Inductive, StatesMatch
  <2>4. CASE ExecuteStep(t)
    BY <1>1, <2>4, ExecuteKeepsLoops
  <2>5. QED BY <1>1, <1>3, <2>2, <2>3, <2>4, ExecuteSteps DEF Worker, Recover
<1>4. ASSUME NEW j \in Threads, ReplanTasks(j) PROVE LoopsOnWaiting'
  BY <1>1, <1>4, LoopReads, WriteReadyKeepsLoops, ResetKeepsLoops
     DEF ReplanTasks, Releasing
<1>5. ASSUME NEW t \in Tasks, InvalidateEvidence(t) PROVE LoopsOnWaiting'
  BY <1>1, <1>5, ReplanKeepsLoops, DagAssumption DEF InvalidateEvidence, Threads
<1>6. CASE \/ EndCreate \/ Call \/ Loop
           \/ \E t \in Tasks : Submit(t) \/ PauseTask(t) \/ ResumeTask(t)
  BY <1>1, <1>6, CallerQuiet, QuietLoops
<1>7. QED BY <1>1, <1>2, <1>3, <1>4, <1>5, <1>6 DEF Next, Control

LEMMA LoopsInvariant == Spec => []LoopsOnWaiting
<1>1. Init => LoopsOnWaiting
  BY DEF Init, Idle, LoopsOnWaiting, At, Releasing, Threads
<1>2. QED BY <1>1, NextLoops, InductiveInvariant, PTL DEF Spec

-----------------------------------------------------------------------------
(* The refinement mapping *)

AbstractStage == [t \in Tasks |-> Phase(t)]

Mapped == Abstract!Next \/ AbstractStage' = AbstractStage

LEMMA Stutters ==
    ASSUME \A t \in Tasks : /\ t \in Pending' <=> t \in Pending
                            /\ Stage(view'[t]) = Stage(view[t])
    PROVE  Mapped
BY DEF Mapped, AbstractStage, Phase

(* A step that writes one task is a move of that task. *)
LEMMA OneMoves ==
    ASSUME NEW t \in Tasks, Pending' = Pending,
           \A u \in Tasks \ {t} : view'[u] = view[u]
    PROVE  Abstract!Move(t, Phase(t), Phase(t)')
<1>1. \A u \in Tasks \ {t} : Phase(u)' = Phase(u) BY DEF Phase
<1>2. QED BY <1>1 DEF Abstract!Move

(* A paused task keeps its stage, and goes on from it. *)
LEMMA PauseKeepsStage ==
    ASSUME NEW v \in Projection, v.state \in Pausable
    PROVE  Stage(Moved(v, "PAUSED")) = Stage(v)
<1>1. Moved(v, "PAUSED").state = "PAUSED" /\ Moved(v, "PAUSED").pausedFrom = v.state
  BY DEF Moved, Projection
<1>2. QED BY <1>1 DEF Stage, Pausable

LEMMA ResumeKeepsStage ==
    ASSUME NEW v \in Projection, v.state = "PAUSED"
    PROVE  Stage(Moved(v, v.pausedFrom)) = Stage(v)
<1>1. CASE v.pausedFrom = "PAUSED"
  <2>1. /\ Moved(v, v.pausedFrom).state = "PAUSED"
        /\ Moved(v, v.pausedFrom).pausedFrom = "PAUSED"
    BY <1>1 DEF Moved, Projection
  <2>2. QED BY <1>1, <2>1 DEF Stage
<1>2. CASE v.pausedFrom # "PAUSED"
  <2>1. Moved(v, v.pausedFrom).state = v.pausedFrom
    BY DEF Moved, Projection
  <2>2. QED BY <1>2, <2>1 DEF Stage
<1>3. QED BY <1>1, <1>2

LEMMA ExecuteMapped ==
    ASSUME Inductive, NEW t \in Tasks, ExecuteStep(t),
           \/ Dequeue(t) \/ Assign(t) \/ Start(t) \/ FinishTools(t) \/ Verify(t)
           \/ Succeed(t) \/ Raise(t)
           \/ At(t, "failed") /\ (Retry(t) \/ SafeStop(t))
    PROVE  Mapped
<1> USE DEF At
<1>1. t \in Threads /\ TypeOK /\ view[t] \in Projection /\ t \notin Pending
  BY ExecutingNotPending DEF Inductive, Threads, TypeOK, ExecuteStep
<1>2. Pending' = Pending
  BY <1>1, PendingKept DEF ExecuteStep, Executing
<1>3. Abstract!Move(t, Phase(t), Phase(t)') BY <1>2, OneMoves DEF ExecuteStep
<1>4. CASE Stage(view'[t]) = Stage(view[t])
  BY <1>2, <1>4, Stutters DEF ExecuteStep
<1>5. CASE Start(t) /\ Legal(view[t], "RUNNING")
  <2>1. Stage(view[t]) = "READY" /\ Stage(view'[t]) = "RUNNING"
    BY <1>1, <1>5, ViewEffect, ExecutionMove DEF Start, Inductive, StatesMatch, Stage
  <2>2. Phase(t) = "enabled" /\ Phase(t)' = "running"
    BY <1>1, <1>2, <2>1 DEF Phase
  <2>3. QED BY <1>3, <2>2 DEF Mapped, Abstract!Next, Abstract!Begin
<1>6. CASE FinishTools(t)
  <2>1. Stage(view[t]) = "RUNNING" /\ Stage(view'[t]) = "VERIFYING"
    <3>1. view[t].state = "RUNNING"
      BY <1>6 DEF FinishTools, Inductive, StatesMatch
    <3>2. QED
      BY <1>1, <1>6, <3>1, FinishToolsOwn, ViewEffect, ExecutionMove DEF Inductive, Stage
  <2>2. Phase(t) = "running" /\ Phase(t)' = "running"
    BY <1>1, <1>2, <2>1 DEF Phase
  <2>3. AbstractStage' = AbstractStage
    BY <1>2, <2>2 DEF AbstractStage, Phase, ExecuteStep
  <2>4. QED BY <2>3 DEF Mapped
<1>7. CASE Succeed(t)
  <2>1. Stage(view[t]) = "VERIFYING" /\ Stage(view'[t]) = "SUCCEEDED"
    <3>1. view[t].state = "VERIFYING"
      BY <1>7 DEF Succeed, Inductive, StatesMatch
    <3>2. QED
      BY <1>1, <1>7, <3>1, SucceedOwn, ViewEffect, ExecutionMove DEF Inductive, Stage
  <2>2. Phase(t) = "running" /\ Phase(t)' = "done"
    BY <1>1, <1>2, <2>1 DEF Phase
  <2>3. QED BY <1>3, <2>2 DEF Mapped, Abstract!Next, Abstract!Finish
<1>8. CASE At(t, "failed") /\ Retry(t)
  <2>1. Stage(view[t]) \in {"RUNNING", "VERIFYING"}
    BY <1>8 DEF Inductive, StatesMatch, Stage
  <2>2. Stage(view'[t]) \in {"READY", "FAILED"}
    BY <1>1, <1>8, RetryOwn, ViewEffect, ResetMove, FailMove DEF Inductive, Stage
  <2>3. Phase(t) = "running" /\ Phase(t)' \in {"enabled", "failed"}
    BY <1>1, <1>2, <2>1, <2>2 DEF Phase
  <2>4. QED
    BY <1>3, <2>3 DEF Mapped, Abstract!Next, Abstract!Yield, Abstract!Fail
<1>9. CASE At(t, "failed") /\ SafeStop(t)
  <2>1. Stage(view'[t]) = Stage(view[t])
    <3>1. view[t].state \in Pausable
      BY <1>9 DEF Inductive, StatesMatch, Pausable
    <3>2. QED BY <1>1, <1>9, <3>1, ViewEffect, PauseKeepsStage DEF SafeStop
  <2>2. QED BY <1>4, <2>1
<1>10. CASE \/ Dequeue(t) \/ Assign(t) \/ Raise(t) \/ Verify(t)
            \/ Start(t) /\ ~Legal(view[t], "RUNNING")
  <2>1. Stage(view'[t]) = Stage(view[t])
    BY <1>1, <1>10, ViewEffect DEF Dequeue, Assign, Raise, Verify, Start, Stage,
       Assigned, WithResult, Projection
  <2>2. QED BY <1>4, <2>1
<1>11. QED BY <1>5, <1>6, <1>7, <1>8, <1>9, <1>10

(* The task a loop releases is pending in no replan: what it depends on is   *)
(* done, and what a replan has affected depends on something that is not.    *)
LEMMA ReleasedNotPending ==
    ASSUME Inductive, LoopsOnWaiting, NEW j \in Threads, job[j].pc \in Releasing,
           NEW x \in job[j].todo
    PROVE  x \notin Pending /\ ~At(Main, "resetting")
<1> USE DEF At
<1>1. ~At(Main, "resetting")
  BY DEF Inductive, Quiet, Threads, Releasing
<1>2. /\ x \in Tasks /\ view[x].state \in Waiting
      /\ \A p \in Parents[x] : Done(p) /\ p \in Tasks
  BY DagAssumption DEF Inductive, TypeOK, Job, LoopsOnWaiting, ReleaseStillDue, Releasing
<1>3. SUFFICES ASSUME NEW k \in Tasks, job[k].pc = "resetting", x \in job[k].todo,
                      x \in Affected(k), ~Done(k)
               PROVE  FALSE
  BY <1>1, PendingShape
<1>4. x # k BY <1>2, <1>3 DEF LoopsOnWaiting, Waiting
<1>5. PICK p \in Parents[x] : p \in Affected(k) BY <1>3, <1>4, AffectedReached
<1>6. job[Main].pc = "off" BY <1>3 DEF Inductive, Quiet
<1>7. p = k
  BY <1>2, <1>3, <1>5, <1>6, AffectedUnstarted, DoneStarted DEF Inductive
<1>8. QED BY <1>2, <1>3, <1>7

LEMMA WriteReadyMapped ==
    ASSUME Inductive, LoopsOnWaiting, NEW j \in Threads, NEW at \in Releasing,
           NEW next \in Releasing, NEW order, WriteReady(j, at, next, order)
    PROVE  Mapped
<1>1. TypeOK BY DEF Inductive
<1>2. PICK x \in job[j].todo \cap Tasks :
        /\ view'[x].state = "READY"
        /\ \A u \in Tasks \ {x} : view'[u] = view[u]
        /\ job[j].pc = at /\ job'[j].pc = next
        /\ job'[j].todo = job[j].todo \ {x}
        /\ \A i \in Threads \ {j} : job'[i] = job[i]
  BY <1>1, WriteReadyEffect
<1>3. x \notin Pending /\ ~At(Main, "resetting") BY <1>2, ReleasedNotPending
<1>4. Pending' = Pending BY <1>2, PendingKept DEF Releasing
<1>5. Abstract!Move(x, Phase(x), Phase(x)') BY <1>2, <1>4, OneMoves
<1>6. Phase(x)' = "enabled" BY <1>2, <1>3, <1>4 DEF Phase, Stage
<1>7. view[x].state \in Waiting BY <1>2 DEF LoopsOnWaiting
<1>8. CASE view[x].state = "READY"
  BY <1>2, <1>4, <1>8, Stutters DEF Stage
<1>9. CASE view[x].state = "PLANNED"
  <2>1. Phase(x) = "waiting" BY <1>3, <1>9 DEF Phase, Stage
  <2>2. \A p \in Parents[x] : p \in Tasks /\ Phase(p) = "done"
    <3>1. SUFFICES ASSUME NEW p \in Parents[x] PROVE p \in Tasks /\ Phase(p) = "done"
      OBVIOUS
    <3>2. p \in Tasks /\ Done(p)
      BY <1>2, DagAssumption DEF Inductive, ReleaseStillDue, Releasing
    <3>3. p \notin Pending BY <1>3, <3>2, DoneNotPending
    <3>4. QED BY <3>2, <3>3 DEF Phase, Done, Stage
  <2>3. Abstract!Enable(x) BY <1>5, <1>6, <2>1, <2>2 DEF Abstract!Enable
  <2>4. QED BY <2>3 DEF Mapped, Abstract!Next
<1>10. QED BY <1>7, <1>8, <1>9 DEF Waiting

(* A replan invalidates all it affects when it begins. *)
LEMMA ReplanMapped ==
    ASSUME Inductive, NEW j \in Threads, NEW t \in Tasks, Replan(j, t),
           ~At(j, "resetting")
    PROVE  Mapped
<1> DEFINE S == Affected(t)
<1>1. /\ view' = view /\ job'[j].pc = "resetting" /\ job'[j].todo = Impact(t)
      /\ \A i \in Threads \ {j} : job'[i] = job[i]
  BY ReplanEffect DEF Inductive
<1>2. Pending' = Pending \cup Impact(t) BY <1>1 DEF Pending, At
<1>3. S \in SUBSET Tasks /\ ChildClosed(S) BY AffectedClosed DEF Affected
<1>4. ASSUME NEW u \in Tasks
      PROVE  Phase(u)' = IF u \in S THEN "waiting" ELSE Phase(u)
  <2>1. CASE u \in Impact(t) BY <1>1, <1>2, <2>1 DEF Phase, Impact
  <2>2. CASE u \in S /\ u \notin Impact(t)
    <3>1. Stage(view'[u]) = Absent BY <1>1, <2>2 DEF Impact, In, Stage, Absent
    <3>2. QED BY <2>2, <3>1 DEF Phase, Absent
  <2>3. CASE u \notin S BY <1>1, <1>2, <2>3 DEF Phase, Impact
  <2>4. QED BY <2>1, <2>2, <2>3
<1>5. Abstract!Invalidate(S) BY <1>3, <1>4 DEF Abstract!Invalidate, ChildClosed
<1>6. QED BY <1>3, <1>5 DEF Mapped, Abstract!Next

(* Resetting a task one by one is nothing new: it was invalidated before. *)
LEMMA ResetMapped ==
    ASSUME Inductive, NEW j \in Threads, ResetOne(j)
    PROVE  Mapped
<1>1. PICK x \in job[j].todo \cap Tasks :
        /\ view'[x].state = "PLANNED" /\ ~Started(view'[x])
        /\ \A u \in Tasks \ {x} : view'[u] = view[u]
        /\ \A i \in Threads \ {j} : job'[i] = job[i]
        /\ job'[j].todo = job[j].todo \ {x} /\ job'[j].scope = job[j].scope
        /\ \/ job'[j].pc = "resetting"
           \/ job'[j].pc = "refresh" /\ job'[j].todo = {}
        /\ main' = main /\ job[j].pc = "resetting"
  BY ResetEffect DEF Inductive
<1>2. \A u \in Tasks \ {x} : u \in Pending' <=> u \in Pending
  BY <1>1 DEF Pending, At
<1>3. x \in Pending BY <1>1 DEF Pending, At
<1>4. Phase(x) = "waiting" /\ Phase(x)' = "waiting"
  BY <1>1, <1>3 DEF Phase, Stage
<1>5. \A u \in Tasks : Phase(u)' = Phase(u) BY <1>1, <1>2, <1>4 DEF Phase
<1>6. QED BY <1>5 DEF Mapped, AbstractStage

(* Steps that write no task and neither begin nor end a replan. *)
LEMMA ReadMapped ==
    ASSUME Inductive, NEW j \in Threads,
           \/ j \in Tasks /\ (Snapshot(j) \/ EndRelease(j))
           \/ Refresh(j) \/ EndReplan(j)
           \/ CheckReady(j, "releasing", "promoting", ListOrder)
           \/ CheckReady(j, "roots", "rooting", IdOrder)
    PROVE  Mapped
<1> USE DEF At
<1>1. TypeOK BY DEF Inductive
<1>2. /\ view' = view /\ job[j].pc # "resetting" /\ job'[j].pc # "resetting"
      /\ \A i \in Threads \ {j} : job'[i] = job[i]
  <2>1. CASE j \in Tasks /\ Snapshot(j)
    BY <1>1, <2>1, SnapshotEffect DEF Snapshot
  <2>2. CASE EndRelease(j) \/ EndReplan(j)
    BY <1>1, <2>2, IdleEffect DEF EndRelease, EndReplan
  <2>3. CASE Refresh(j) BY <1>1, <2>3, RefreshEffect DEF Refresh
  <2>4. CASE \/ CheckReady(j, "releasing", "promoting", ListOrder)
             \/ CheckReady(j, "roots", "rooting", IdOrder)
    BY <1>1, <2>4, CheckReadyEffect
  <2>5. QED BY <2>1, <2>2, <2>3, <2>4
<1>3. Pending' = Pending BY <1>2, PendingKept
<1>4. QED BY <1>2, <1>3, Stutters

LEMMA CallerMapped ==
    ASSUME Inductive,
           \/ EndCreate \/ Call \/ Loop
           \/ \E t \in Tasks : Submit(t) \/ PauseTask(t) \/ ResumeTask(t)
    PROVE  Mapped
<1>1. Pending = {} /\ Pending' = {} BY CallerQuiet DEF Pending, At
<1>2. CASE ~\E t \in Tasks : Submit(t) \/ PauseTask(t) \/ ResumeTask(t)
  BY <1>1, <1>2, CallerQuiet, Stutters
<1>3. ASSUME NEW t \in Tasks, Submit(t) \/ PauseTask(t) \/ ResumeTask(t)
      PROVE  Mapped
  <2>1. TypeOK /\ view[t] \in Projection BY DEF Inductive, TypeOK
  <2>2. CASE ReleaseEntry(t)
    <3>1. view'[t].state = "READY" /\ \A u \in Tasks \ {t} : view'[u] = view[u]
      BY <2>1, <2>2, ViewEffect, ReadyMove DEF ReleaseEntry
    <3>2. Phase(t) = "waiting" /\ Phase(t)' = "enabled"
      BY <1>1, <2>2, <3>1 DEF ReleaseEntry, Phase, Stage
    <3>3. Abstract!Enable(t)
      BY <1>1, <2>2, <3>1, <3>2, OneMoves DEF ReleaseEntry, Abstract!Enable
    <3>4. QED BY <3>3 DEF Mapped, Abstract!Next
  <2>3. CASE CreateTask(t) \/ PlanTask(t)
    <3>1. /\ Stage(view[t]) \in {Absent, "CREATED"} /\ Stage(view'[t]) \in {"CREATED", "PLANNED"}
          /\ \A u \in Tasks \ {t} : view'[u] = view[u]
      BY <2>1, <2>3, ViewEffect, PlannedMove DEF CreateTask, PlanTask, Stage, Created, Blank,
         Absent
    <3>2. \A u \in Tasks : Phase(u)' = Phase(u)
      BY <1>1, <3>1 DEF Phase, Absent
    <3>3. QED BY <3>2 DEF Mapped, AbstractStage
  <2>4. CASE PauseTask(t) \/ ResumeTask(t)
    <3>1. /\ Stage(view'[t]) = Stage(view[t])
          /\ \A u \in Tasks \ {t} : view'[u] = view[u]
      BY <2>1, <2>4, ViewEffect, PauseKeepsStage, ResumeKeepsStage
         DEF PauseTask, ResumeTask
    <3>2. QED BY <1>1, <3>1, Stutters
  <2>5. QED BY <1>3, <2>2, <2>3, <2>4 DEF Submit
<1>4. QED BY <1>2, <1>3

LEMMA NextMapped == Inductive /\ LoopsOnWaiting /\ [Next]_vars => [Abstract!Next]_AbstractStage
<1>1. SUFFICES ASSUME Inductive, LoopsOnWaiting, [Next]_vars PROVE Mapped
  BY DEF Mapped
<1>2. CASE UNCHANGED vars
  BY <1>1, <1>2, Stutters DEF vars, Pending, At
<1>3. ASSUME NEW t \in Tasks, Worker(t) PROVE Mapped
  <2>1. t \in Threads BY DEF Threads
  <2>2. CASE ReleaseDependents(t)
    BY <1>1, <2>1, <2>2, ReadMapped, WriteReadyMapped DEF ReleaseDependents, Releasing
  <2>3. CASE Recover(t) /\ Replan(t, t)
    BY <1>1, <2>1, <2>3, ReplanMapped DEF Recover, At
  <2>4. QED
    BY <1>1, <1>3, <2>2, <2>3, ExecuteSteps, ExecuteMapped DEF Worker, Recover
<1>4. ASSUME NEW j \in Threads, ReplanTasks(j) PROVE Mapped
  BY <1>1, <1>4, ReadMapped, WriteReadyMapped, ResetMapped DEF ReplanTasks, Releasing
<1>5. ASSUME NEW t \in Tasks, InvalidateEvidence(t) PROVE Mapped
  <2>1. Main \in Threads /\ ~At(Main, "resetting")
    BY <1>1, <1>5 DEF InvalidateEvidence, Inductive, Quiet, Threads, At
  <2>2. QED BY <1>1, <1>5, <2>1, ReplanMapped DEF InvalidateEvidence
<1>6. CASE \/ EndCreate \/ Call \/ Loop
           \/ \E t \in Tasks : Submit(t) \/ PauseTask(t) \/ ResumeTask(t)
  BY <1>1, <1>6, CallerMapped
<1>7. QED BY <1>1, <1>2, <1>3, <1>4, <1>5, <1>6 DEF Next, Control

LEMMA InitMapped == Init => Abstract!Init
<1>1. SUFFICES ASSUME Init, NEW t \in Tasks PROVE Phase(t) = "waiting"
  BY DEF Abstract!Init
<1>2. \A j \in Threads : ~At(j, "resetting") BY <1>1 DEF Init, Idle, At
<1>3. t \notin Pending BY <1>2 DEF Pending
<1>4. Stage(view[t]) = Absent BY <1>1 DEF Init, Stage, Blank, Absent
<1>5. QED BY <1>3, <1>4 DEF Phase, Absent

(* A run keeps the promise of DagRun: however the threads interleave, a task *)
(* is enabled only on top of finished work, executed before it is done, and  *)
(* replans and invalidated evidence withdraw whole closed sets of tasks.     *)
THEOREM Refines == Spec => ImplementsDagRun
BY InitMapped, NextMapped, LoopsInvariant, InductiveInvariant, PTL
   DEF Spec, ImplementsDagRun, Abstract!Spec, AbstractStage

-----------------------------------------------------------------------------
(* What the commands do to the record they read *)

LEMMA SoundBlank == Sound(Blank) /\ Sound(Created)
BY DEF Sound, Blank, Created, Stage, Absent, None, NotBegun

(* A record written by a reset. *)
LEMMA SoundReset ==
    ASSUME NEW v \in Projection
    PROVE  /\ Sound(Recovered(v)) /\ Sound(Replanned(v))
           /\ Recovered(v).attempt = v.attempt /\ Replanned(v).attempt = v.attempt
           /\ Recovered(v).state = "READY" /\ Replanned(v).state = "PLANNED"
BY DEF Recovered, Replanned, Reset, Sound, Stage, Projection, None, NotBegun

(* A release, from a record that may be released. *)
LEMMA SoundRelease ==
    ASSUME NEW v \in Projection, Sound(v), Stage(v) \in NotBegun
    PROVE  /\ Sound(Moved(v, "READY")) /\ Moved(v, "READY").attempt = v.attempt
           /\ Sound(Moved(v, "PLANNED")) /\ Moved(v, "PLANNED").attempt = v.attempt
BY DEF Moved, Sound, Stage, Projection, NotBegun, Pausable, None, Absent

LEMMA SoundStart ==
    ASSUME NEW v \in Projection, Sound(v), v.state = "READY"
    PROVE  /\ Sound(Moved(v, "RUNNING")) /\ Moved(v, "RUNNING").attempt = v.attempt + 1
           /\ Moved(v, "RUNNING").state = "RUNNING"
<1>1. /\ Moved(v, "RUNNING").state = "RUNNING"
      /\ Moved(v, "RUNNING").pausedFrom = v.pausedFrom
      /\ Moved(v, "RUNNING").attempt = v.attempt + 1
      /\ Moved(v, "RUNNING").evidence = {}
  BY DEF Moved, Sound, Stage, Projection, NotBegun
<1>2. QED BY <1>1 DEF Sound, Stage, NotBegun, Absent

(* A task goes on, fails or succeeds with the evidence it has. *)
LEMMA SoundOn ==
    ASSUME NEW v \in Projection, Sound(v), v.state \in {"RUNNING", "VERIFYING"},
           NEW s \in {"VERIFYING", "FAILED", "SUCCEEDED"},
           s = "SUCCEEDED" => v.evidence = {v.attempt}
    PROVE  /\ Sound(Moved(v, s)) /\ Moved(v, s).attempt = v.attempt
           /\ Moved(v, s).evidence = v.evidence /\ Moved(v, s).state = s
<1>1. /\ Moved(v, s).state = s /\ Moved(v, s).pausedFrom = v.pausedFrom
      /\ Moved(v, s).attempt = v.attempt /\ Moved(v, s).evidence = v.evidence
  BY DEF Moved, Projection
<1>2. QED BY <1>1 DEF Sound, Stage, NotBegun, Absent

LEMMA SoundResult ==
    ASSUME NEW v \in Projection, Sound(v), v.state = "VERIFYING"
    PROVE  /\ Sound(WithResult(v)) /\ WithResult(v).evidence = {v.attempt}
           /\ WithResult(v).attempt = v.attempt /\ WithResult(v).state = "VERIFYING"
<1>1. /\ WithResult(v).state = "VERIFYING" /\ WithResult(v).pausedFrom = v.pausedFrom
      /\ WithResult(v).attempt = v.attempt /\ WithResult(v).evidence = {v.attempt}
  BY DEF WithResult, Sound, Projection
<1>2. QED BY <1>1 DEF Sound, Stage, NotBegun, Absent

LEMMA SoundAssign ==
    ASSUME NEW v \in Projection, Sound(v)
    PROVE  /\ Sound(Assigned(v)) /\ Stage(Assigned(v)) = Stage(v)
           /\ Assigned(v).attempt = v.attempt /\ Assigned(v).state = v.state
BY DEF Assigned, Sound, Stage, Projection

LEMMA SoundPause ==
    ASSUME NEW v \in Projection, Sound(v), v.state \in Pausable
    PROVE  /\ Sound(Moved(v, "PAUSED")) /\ Moved(v, "PAUSED").attempt = v.attempt
           /\ Moved(v, "PAUSED").state = "PAUSED"
<1>1. /\ Moved(v, "PAUSED").state = "PAUSED" /\ Moved(v, "PAUSED").pausedFrom = v.state
      /\ Moved(v, "PAUSED").attempt = v.attempt /\ Moved(v, "PAUSED").evidence = v.evidence
  BY DEF Moved, Projection
<1>2. QED BY <1>1 DEF Sound, Stage, Pausable

LEMMA SoundResume ==
    ASSUME NEW v \in Projection, Sound(v), v.state = "PAUSED", v.pausedFrom # None
    PROVE  /\ Sound(Moved(v, v.pausedFrom)) /\ Moved(v, v.pausedFrom).attempt = v.attempt
<1> DEFINE w == Moved(v, v.pausedFrom)
<1>1. v.pausedFrom \in Pausable BY DEF Sound
<1>2. /\ w.state = v.pausedFrom /\ w.pausedFrom = None
      /\ w.attempt = v.attempt /\ w.evidence = v.evidence
  BY <1>1 DEF Moved, Projection, Pausable
<1> HIDE DEF w
<1>3. Sound(w) BY <1>1, <1>2 DEF Sound, Stage, Pausable, None
<1>4. QED BY <1>2, <1>3 DEF w

(* A projection a transition to READY accepts has not begun its attempt. *)
LEMMA ReadyFromNotBegun ==
    ASSUME NEW v \in Projection, Legal(v, "READY")
    PROVE  Stage(v) \in NotBegun
BY DEF Legal, Forward, Pausable, Stage, NotBegun

-----------------------------------------------------------------------------
(* The effects of the loops on the records *)

LEMMA ResetStores ==
    ASSUME TypeOK, NEW j \in Threads, ResetOne(j)
    PROVE  \E x \in job[j].todo \cap Tasks :
              /\ view'[x] = Replanned(view[x])
              /\ \A u \in Tasks \ {x} : view'[u] = view[u]
              /\ \A i \in Threads \ {j} : job'[i] = job[i]
              /\ job'[j].todo = job[j].todo \ {x}
              /\ job'[j].pc = IF job[j].todo = {x} THEN "refresh" ELSE "resetting"
              /\ job[j].pc = "resetting" /\ replans' = replans
<1>1. PICK x \in First(job[j].todo, IdOrder) :
         /\ Store(x, Replanned(view[x]))
         /\ job' = [job EXCEPT
               ![j].todo = @ \ {x},
               ![j].pc = IF job[j].todo = {x} THEN "refresh" ELSE "resetting"]
  BY DEF ResetOne
<1>2. job[j] \in Job /\ x \in job[j].todo /\ x \in Tasks
  BY <1>1 DEF TypeOK, First, Job
<1>3. view'[x] = Replanned(view[x]) /\ \A u \in Tasks \ {x} : view'[u] = view[u]
  BY <1>1, <1>2, ViewEffect
<1> DEFINE pc == IF job[j].todo = {x} THEN "refresh" ELSE "resetting"
           r == [job[j] EXCEPT !.todo = @ \ {x}, !.pc = pc]
<1>4. r.todo = job[j].todo \ {x} /\ r.pc = pc BY <1>2 DEF Job
<1>5. job' = [job EXCEPT ![j] = r] BY <1>1
<1> HIDE DEF r
<1>6. job'[j] = r /\ \A i \in Threads \ {j} : job'[i] = job[i]
  BY <1>5, JobEffect
<1>7. QED BY <1>2, <1>3, <1>4, <1>6 DEF ResetOne, At

LEMMA CheckReadyReads ==
    ASSUME TypeOK, NEW j \in Threads, NEW at, NEW next, NEW order,
           CheckReady(j, at, next, order), job'[j].pc # "off"
    PROVE  \E x \in Tasks : Legal(view[x], "READY") /\ job'[j].read = view[x]
<1>1. PICK x \in First(job[j].todo, order) :
         IF Legal(view[x], "READY")
         THEN job' = [job EXCEPT ![j].pc = next, ![j].read = view[x]]
         ELSE Become(j, Idle)
  BY DEF CheckReady
<1>2. job[j] \in Job /\ x \in Tasks BY <1>1 DEF TypeOK, First, Job
<1>3. Legal(view[x], "READY") BY <1>1, IdleEffect
<1> DEFINE r == [job[j] EXCEPT !.pc = next, !.read = view[x]]
<1>4. r.read = view[x] BY <1>2 DEF Job
<1>5. job' = [job EXCEPT ![j] = r] BY <1>1, <1>3
<1> HIDE DEF r
<1>6. job'[j] = r BY <1>5, JobEffect
<1>7. QED BY <1>2, <1>3, <1>4, <1>6

-----------------------------------------------------------------------------
(* The three invariants, task by task and thread by thread *)

Tended(t) == \/ job[t].pc \in {"running", "verify", "passed", "failed"}
             \/ At(t, "resetting") /\ t \in job[t].todo

GoodTask(t) ==
    /\ Sound(view[t])
    /\ At(t, "passed") => view[t].evidence = {view[t].attempt}
    /\ view[t].attempt <= MaxRetries + 1 + replans
    /\ Stage(view[t]) \in NotBegun => OneLeft(view[t])
    /\ ~ManualControl /\ view[t].state \in {"RUNNING", "VERIFYING"} => Tended(t)

GoodRead(j) ==
    job[j].pc \in {"promoting", "rooting"} =>
        Sound(job[j].read) /\ Stage(job[j].read) \in NotBegun /\ OneLeft(job[j].read)

GoodReset(j) == At(j, "resetting") => \A x \in job[j].todo : OneLeft(view[x])

Good == /\ \A t \in Tasks : GoodTask(t)
        /\ \A j \in Threads : GoodRead(j) /\ GoodReset(j)

LEMMA GoodIsAll == Good <=> Attended /\ CleanSlate /\ AttemptLeft
<1>1. (\A t \in Tasks : ~ManualControl /\ view[t].state \in {"RUNNING", "VERIFYING"}
                              => Tended(t)) <=> Attended
  BY DEF Attended, Tended, In
<1>2. Good => CleanSlate /\ AttemptLeft
  BY DEF Good, GoodTask, GoodRead, GoodReset, CleanSlate, AttemptLeft
<1>3. Good => Attended BY <1>1 DEF Good, GoodTask
<1>4. ASSUME Attended, CleanSlate, AttemptLeft PROVE Good
  <2>1. \A t \in Tasks : GoodTask(t)
    BY <1>1, <1>4 DEF GoodTask, CleanSlate, AttemptLeft
  <2>2. \A j \in Threads : GoodRead(j) /\ GoodReset(j)
    BY <1>4 DEF GoodRead, GoodReset, CleanSlate, AttemptLeft
  <2>3. QED BY <2>1, <2>2 DEF Good
<1>5. QED BY <1>2, <1>3, <1>4

(* Replans only become more. *)
LEMMA Grows ==
    ASSUME TypeOK, TypeOK', replans' = replans \/ replans' = replans + 1,
           NEW n \in Nat
    PROVE  /\ n <= MaxRetries + replans => n <= MaxRetries + replans'
           /\ n <= MaxRetries + 1 + replans => n <= MaxRetries + 1 + replans'
<1>1. MaxRetries \in Nat BY ConfigAssumption
<1>2. replans \in Nat /\ replans' \in Nat BY DEF TypeOK
<1>3. \A m, a, b \in Nat : a <= b =>
          (n <= m + a => n <= m + b) /\ (n <= m + 1 + a => n <= m + 1 + b)
  OBVIOUS
<1>4. replans <= replans' BY <1>2
<1>5. QED BY <1>1, <1>2, <1>3, <1>4

LEMMA TaskKept ==
    ASSUME TypeOK, TypeOK', NEW t \in Tasks, GoodTask(t),
           view'[t] = view[t], job'[t] = job[t],
           replans' = replans \/ replans' = replans + 1
    PROVE  GoodTask(t)'
<1>1. view[t].attempt \in Nat BY DEF TypeOK, Projection
<1>2. QED BY <1>1, Grows DEF GoodTask, Tended, OneLeft, At

LEMMA ReadKept ==
    ASSUME TypeOK, TypeOK', NEW j \in Threads, GoodRead(j), job'[j] = job[j],
           replans' = replans \/ replans' = replans + 1
    PROVE  GoodRead(j)'
<1>1. job[j].read.attempt \in Nat BY DEF TypeOK, Job, Projection
<1>2. QED BY <1>1, Grows DEF GoodRead, OneLeft

LEMMA ResetKept ==
    ASSUME TypeOK, TypeOK', NEW j \in Threads, GoodReset(j), job'[j] = job[j],
           replans' = replans \/ replans' = replans + 1,
           At(j, "resetting") =>
               \A x \in job[j].todo : view'[x] = view[x] \/ OneLeft(view[x])'
    PROVE  GoodReset(j)'
<1>1. \A x \in job[j].todo : view[x].attempt \in Nat BY DEF TypeOK, Job, Projection
<1>2. QED BY <1>1, Grows DEF GoodReset, OneLeft, At

(* A step of thread j that writes the task x, or none. *)
LEMMA StepKeepsGood ==
    ASSUME Inductive, Inductive', Good, NEW j \in Threads, NEW x,
           \A u \in Tasks \ {x} : view'[u] = view[u],
           \A i \in Threads \ {j} : job'[i] = job[i],
           replans' = replans \/ replans' = replans + 1,
           j \in Tasks => GoodTask(j)', x \in Tasks => GoodTask(x)',
           GoodRead(j)', GoodReset(j)',
           x \in Tasks => OneLeft(view[x])' \/ x \notin Pending
    PROVE  Good'
<1>1. TypeOK /\ TypeOK' BY DEF Inductive
<1>2. ASSUME NEW t \in Tasks PROVE GoodTask(t)'
  BY <1>1, <1>2, TaskKept DEF Good, Threads
<1>3. ASSUME NEW i \in Threads PROVE GoodRead(i)' /\ GoodReset(i)'
  <2>1. CASE i = j BY <2>1
  <2>2. CASE i # j
    <3>1. At(i, "resetting") =>
              \A y \in job[i].todo : view'[y] = view[y] \/ OneLeft(view[y])'
      BY <1>1 DEF Pending, TypeOK, Job
    <3>2. QED BY <1>1, <2>2, <3>1, ReadKept, ResetKept DEF Good
  <2>3. QED BY <2>1, <2>2
<1>4. QED BY <1>2, <1>3 DEF Good

-----------------------------------------------------------------------------
(* Each step *)

LEMMA ExecuteGood ==
    ASSUME Inductive, Inductive', Good, NEW t \in Tasks, ExecuteStep(t),
           \/ Dequeue(t) \/ Assign(t) \/ Start(t) \/ FinishTools(t) \/ Verify(t)
           \/ Succeed(t) \/ Raise(t)
           \/ At(t, "failed") /\ (Retry(t) \/ SafeStop(t))
    PROVE  Good'
<1> USE DEF At
<1>1. /\ t \in Threads /\ TypeOK /\ view[t] \in Projection /\ t \notin Pending
      /\ view[t].attempt \in Nat /\ replans \in Nat /\ MaxRetries \in Nat
      /\ Sound(view[t]) /\ GoodTask(t) /\ StatesMatch
  BY ExecutingNotPending, ConfigAssumption
     DEF Inductive, Threads, TypeOK, ExecuteStep, Good, GoodTask, Projection
<1>2. replans' = replans
  BY DEF Dequeue, Assign, Start, FinishTools, Verify, Succeed, Raise, Retry, SafeStop
<1>3. SUFFICES GoodTask(t)'
  BY <1>1, <1>2, StepKeepsGood
     DEF ExecuteStep, GoodRead, GoodReset, Releasing
<1>4. CASE Dequeue(t)
  BY <1>1, <1>2, <1>4, GoEffect
     DEF Dequeue, GoodTask, StatesMatch, Tended, OneLeft, Executing
<1>5. CASE Assign(t)
  <2>1. view[t].state = "READY" BY <1>1, <1>5 DEF Assign, StatesMatch
  <2>2. view'[t] = Assigned(view[t]) /\ job'[t].pc = "assigned"
    BY <1>1, <1>5, <2>1, ViewEffect, GoEffect DEF Assign
  <2>3. QED BY <1>1, <1>2, <2>1, <2>2, SoundAssign DEF GoodTask, OneLeft
<1>6. CASE Start(t)
  <2>1. view[t].state = "READY" /\ Stage(view[t]) \in NotBegun
    BY <1>1, <1>6 DEF Start, StatesMatch, Stage, NotBegun
  <2>2. Legal(view[t], "RUNNING") BY <2>1 DEF Legal, Forward
  <2>3. view'[t] = Moved(view[t], "RUNNING") /\ job'[t].pc = "running"
    BY <1>1, <1>6, <2>2, ViewEffect, GoEffect DEF Start
  <2>4. view[t].attempt + 1 <= MaxRetries + 1 + replans
    BY <1>1, <2>1 DEF GoodTask, OneLeft
  <2>5. view'[t].attempt <= MaxRetries + 1 + replans'
    BY <1>1, <1>2, <2>1, <2>3, <2>4, SoundStart
  <2>6. Sound(view'[t]) /\ Stage(view'[t]) \notin NotBegun
    BY <1>1, <2>1, <2>3, SoundStart DEF Stage, NotBegun, Absent
  <2>7. QED BY <2>3, <2>5, <2>6 DEF GoodTask, Tended
<1>7. CASE FinishTools(t)
  <2>1. view[t].state = "RUNNING" BY <1>1, <1>7 DEF FinishTools, StatesMatch
  <2>2. view'[t] = Moved(view[t], "VERIFYING") /\ job'[t].pc = "verify"
    BY <1>1, <1>7, FinishToolsOwn, ViewEffect, GoEffect
  <2>3. /\ Sound(view'[t]) /\ view'[t].attempt = view[t].attempt
        /\ view'[t].state = "VERIFYING"
    BY <1>1, <2>1, <2>2, SoundOn
  <2>4. Stage(view'[t]) \notin NotBegun BY <2>3 DEF Stage, NotBegun, Absent
  <2>5. QED BY <1>1, <1>2, <2>2, <2>3, <2>4 DEF GoodTask, Tended
<1>8. CASE Verify(t)
  <2>1. view[t].state = "VERIFYING" BY <1>1, <1>8 DEF Verify, StatesMatch
  <2>2. view'[t] = WithResult(view[t]) /\ job'[t].pc \in {"passed", "failed"}
    BY <1>1, <1>8, ViewEffect, GoEffect, FailEffect DEF Verify
  <2>3. /\ Sound(view'[t]) /\ view'[t].attempt = view[t].attempt
        /\ view'[t].state = "VERIFYING" /\ view'[t].evidence = {view'[t].attempt}
    BY <1>1, <2>1, <2>2, SoundResult
  <2>4. Stage(view'[t]) \notin NotBegun BY <2>3 DEF Stage, NotBegun, Absent
  <2>5. QED BY <1>1, <1>2, <2>2, <2>3, <2>4 DEF GoodTask, Tended
<1>9. CASE Succeed(t)
  <2>1. view[t].state = "VERIFYING" /\ view[t].evidence = {view[t].attempt}
    BY <1>1, <1>9 DEF Succeed, StatesMatch, GoodTask
  <2>2. view'[t] = Moved(view[t], "SUCCEEDED") /\ job'[t].pc = "release"
    BY <1>1, <1>9, SucceedOwn, ViewEffect, GoEffect
  <2>3. /\ Sound(view'[t]) /\ view'[t].attempt = view[t].attempt
        /\ view'[t].state = "SUCCEEDED"
    BY <1>1, <2>1, <2>2, SoundOn
  <2>4. Stage(view'[t]) \notin NotBegun BY <2>3 DEF Stage, NotBegun, Absent
  <2>5. QED BY <1>1, <1>2, <2>2, <2>3, <2>4 DEF GoodTask
<1>10. CASE Raise(t)
  BY <1>1, <1>2, <1>10, RaiseOwn, FailEffect DEF GoodTask, Tended, OneLeft
<1>11. CASE At(t, "failed") /\ Retry(t)
  <2>1. view[t].state \in {"RUNNING", "VERIFYING"} /\ job'[t].pc = "off"
    BY <1>1, <1>11, IdleEffect DEF StatesMatch, Retry
  <2>2. CASE RetryAllowed(t)
    <3>1. view'[t] = Recovered(view[t]) /\ view[t].attempt <= MaxRetries
      BY <1>1, <1>11, <2>2, RetryOwn, ViewEffect DEF RetryAllowed
    <3>2. /\ Sound(view'[t]) /\ view'[t].attempt = view[t].attempt
          /\ view'[t].state = "READY"
      BY <1>1, <3>1, SoundReset
    <3>3. QED BY <1>1, <1>2, <2>1, <3>1, <3>2 DEF GoodTask, OneLeft
  <2>3. CASE ~RetryAllowed(t)
    <3>1. view'[t] = Moved(view[t], "FAILED")
      BY <1>1, <1>11, <2>3, RetryOwn, ViewEffect
    <3>2. /\ Sound(view'[t]) /\ view'[t].attempt = view[t].attempt
          /\ view'[t].state = "FAILED"
      BY <1>1, <2>1, <3>1, SoundOn
    <3>3. Stage(view'[t]) \notin NotBegun BY <3>2 DEF Stage, NotBegun, Absent
    <3>4. QED BY <1>1, <1>2, <2>1, <3>2, <3>3 DEF GoodTask
  <2>4. QED BY <2>2, <2>3
<1>12. CASE At(t, "failed") /\ SafeStop(t)
  <2>1. /\ view[t].state \in {"RUNNING", "VERIFYING"} /\ job'[t].pc = "off"
        /\ view[t].state \in Pausable
    BY <1>1, <1>12, IdleEffect DEF StatesMatch, SafeStop, Pausable
  <2>2. view'[t] = Moved(view[t], "PAUSED")
    BY <1>1, <1>12, <2>1, ViewEffect DEF SafeStop, Legal
  <2>3. /\ Sound(view'[t]) /\ view'[t].attempt = view[t].attempt
        /\ view'[t].state = "PAUSED" /\ Stage(view'[t]) = Stage(view[t])
    BY <1>1, <2>1, <2>2, SoundPause, PauseKeepsStage
  <2>4. QED BY <1>1, <1>2, <2>1, <2>3 DEF GoodTask, OneLeft
<1>13. QED BY <1>4, <1>5, <1>6, <1>7, <1>8, <1>9, <1>10, <1>11, <1>12

(* A replan is begun by the worker of the task, or by the caller. *)
LEMMA ReplanGood ==
    ASSUME Inductive, Inductive', Good, NEW j \in Threads, NEW t \in Tasks, Replan(j, t),
           j \in Tasks => j = t /\ ~Done(t) /\ view[t].state # Absent
    PROVE  Good'
<1>1. TypeOK /\ TypeOK' BY DEF Inductive
<1>2. /\ view' = view /\ job'[j].pc = "resetting" /\ job'[j].todo = Impact(t)
      /\ \A i \in Threads \ {j} : job'[i] = job[i]
      /\ replans' = replans + 1
  BY <1>1, ReplanEffect DEF Replan
<1>3. GoodRead(j)' BY <1>2 DEF GoodRead
<1>4. \A x \in Tasks : OneLeft(view[x])'
  BY <1>1, <1>2, ConfigAssumption DEF Good, GoodTask, OneLeft, TypeOK, Projection
<1>5. GoodReset(j)'
  BY <1>2, <1>4 DEF GoodReset, Impact, Affected
<1>6. ASSUME j \in Tasks PROVE GoodTask(j)'
  <2>1. j \in Impact(t)
    BY <1>6, AffectedClosed DEF Impact, In
  <2>2. view[j].attempt <= MaxRetries + 1 + replans'
    BY <1>1, <1>2, <1>6, Grows DEF Good, GoodTask, TypeOK, Projection
  <2>3. QED
    BY <1>2, <1>4, <1>6, <2>1, <2>2 DEF Good, GoodTask, Tended, At
<1>7. QED BY <1>2, <1>3, <1>4, <1>5, <1>6, StepKeepsGood

LEMMA ReadGood ==
    ASSUME Inductive, Inductive', Good, NEW j \in Threads,
           \/ j \in Tasks /\ (Snapshot(j) \/ EndRelease(j))
           \/ Refresh(j) \/ EndReplan(j)
           \/ CheckReady(j, "releasing", "promoting", ListOrder)
           \/ CheckReady(j, "roots", "rooting", IdOrder)
    PROVE  Good'
<1> USE DEF At
<1>1. TypeOK /\ TypeOK' BY DEF Inductive
<1>2. /\ view' = view /\ replans' = replans
      /\ job[j].pc \in {"release", "releasing", "refresh", "roots"}
      /\ job'[j].pc \in {"releasing", "promoting", "roots", "rooting", "off"}
      /\ \A i \in Threads \ {j} : job'[i] = job[i]
  <2>1. CASE j \in Tasks /\ Snapshot(j)
    BY <1>1, <2>1, SnapshotEffect DEF Snapshot
  <2>2. CASE EndRelease(j) \/ EndReplan(j)
    BY <1>1, <2>2, IdleEffect DEF EndRelease, EndReplan
  <2>3. CASE Refresh(j) BY <1>1, <2>3, RefreshEffect DEF Refresh
  <2>4. CASE \/ CheckReady(j, "releasing", "promoting", ListOrder)
             \/ CheckReady(j, "roots", "rooting", IdOrder)
    <3>1. replans' = replans BY <2>4 DEF CheckReady
    <3>2. QED BY <1>1, <2>4, <3>1, CheckReadyEffect
  <2>5. QED BY <2>1, <2>2, <2>3, <2>4
<1>3. GoodReset(j)' BY <1>2 DEF GoodReset
<1>4. GoodRead(j)'
  <2>1. SUFFICES ASSUME job'[j].pc \in {"promoting", "rooting"}
                 PROVE  \E x \in Tasks : Legal(view[x], "READY") /\ job'[j].read = view[x]
    BY <1>1, <1>2, ReadyFromNotBegun
       DEF Good, GoodTask, GoodRead, OneLeft, TypeOK
  <2>2. CASE Refresh(j) BY <1>1, <2>1, <2>2, RefreshEffect
  <2>3. CASE j \in Tasks /\ Snapshot(j) BY <1>1, <2>1, <2>3, SnapshotEffect
  <2>4. CASE EndRelease(j) \/ EndReplan(j)
    BY <1>1, <2>1, <2>4, IdleEffect DEF EndRelease, EndReplan
  <2>5. CASE \/ CheckReady(j, "releasing", "promoting", ListOrder)
             \/ CheckReady(j, "roots", "rooting", IdOrder)
    BY <1>1, <2>1, <2>5, CheckReadyReads
  <2>6. QED BY <2>2, <2>3, <2>4, <2>5
<1>5. ASSUME j \in Tasks PROVE GoodTask(j)'
  <2>1. GoodTask(j) /\ ~Tended(j) BY <1>2, <1>5 DEF Good, Tended
  <2>2. view'[j] = view[j] /\ job'[j].pc # "passed" BY <1>2
  <2>3. QED BY <1>2, <2>1, <2>2 DEF GoodTask, OneLeft
<1>6. Main \notin Tasks BY DagAssumption
<1>7. \A u \in Tasks \ {Main} : view'[u] = view[u] BY <1>2
<1>8. QED BY <1>2, <1>3, <1>4, <1>5, <1>6, <1>7, StepKeepsGood

LEMMA WriteReadyGood ==
    ASSUME Inductive, Inductive', Good, NEW j \in Threads,
           NEW at, NEW next, NEW order, WriteReady(j, at, next, order),
           \/ at = "promoting" /\ next = "releasing"
           \/ at = "rooting" /\ next = "roots"
    PROVE  Good'
<1> USE DEF At
<1>1. TypeOK /\ TypeOK' BY DEF Inductive
<1>2. PICK x \in job[j].todo \cap Tasks :
        /\ view'[x] = Moved(job[j].read, "READY") /\ view'[x].state = "READY"
        /\ \A u \in Tasks \ {x} : view'[u] = view[u]
        /\ job[j].pc = at /\ job'[j].pc = next
        /\ job'[j].todo = job[j].todo \ {x}
        /\ \A i \in Threads \ {j} : job'[i] = job[i]
  BY <1>1, WriteReadyEffect
<1>3. replans' = replans BY DEF WriteReady
<1>4. /\ job[j].read \in Projection /\ Sound(job[j].read) /\ OneLeft(job[j].read)
      /\ Stage(job[j].read) \in NotBegun
  BY <1>1, <1>2 DEF Good, GoodRead, TypeOK, Job
<1>5. /\ Sound(view'[x]) /\ OneLeft(view[x])'
      /\ view'[x].attempt <= MaxRetries + 1 + replans'
  <2>1. Sound(view'[x]) /\ view'[x].attempt = job[j].read.attempt
    BY <1>2, <1>4, SoundRelease
  <2>2. job[j].read.attempt \in Nat BY <1>4 DEF Projection
  <2>3. QED BY <1>1, <1>3, <1>4, <2>1, <2>2, ConfigAssumption DEF OneLeft, TypeOK
<1>6. GoodTask(x)'
  <2>1. ~At(x, "passed")' BY <1>2 DEF Inductive, StatesMatch
  <2>2. QED BY <1>2, <1>5, <2>1 DEF GoodTask
<1>7. j \in Tasks => GoodTask(j)'
  <2>1. SUFFICES ASSUME j \in Tasks, j # x PROVE GoodTask(j)' BY <1>6
  <2>2. view'[j] = view[j] BY <1>2, <2>1
  <2>3. QED BY <1>2, <1>3, <2>1, <2>2 DEF Good, GoodTask, OneLeft, Tended
<1>8. GoodRead(j)' /\ GoodReset(j)' BY <1>2 DEF GoodRead, GoodReset
<1>9. QED BY <1>2, <1>3, <1>5, <1>6, <1>7, <1>8, StepKeepsGood

LEMMA ResetGood ==
    ASSUME Inductive, Inductive', Good, NEW j \in Threads, ResetOne(j)
    PROVE  Good'
<1> USE DEF At
<1>1. TypeOK /\ TypeOK' BY DEF Inductive
<1>2. PICK x \in job[j].todo \cap Tasks :
        /\ view'[x] = Replanned(view[x])
        /\ \A u \in Tasks \ {x} : view'[u] = view[u]
        /\ \A i \in Threads \ {j} : job'[i] = job[i]
        /\ job'[j].todo = job[j].todo \ {x}
        /\ job'[j].pc = IF job[j].todo = {x} THEN "refresh" ELSE "resetting"
        /\ job[j].pc = "resetting" /\ replans' = replans
  BY <1>1, ResetStores
<1>3. view[x] \in Projection /\ OneLeft(view[x]) BY <1>1, <1>2 DEF Good, GoodReset, TypeOK
<1>4. /\ Sound(view'[x]) /\ OneLeft(view[x])' /\ view'[x].state = "PLANNED"
      /\ view'[x].attempt = view[x].attempt
  BY <1>2, <1>3, SoundReset DEF OneLeft
<1>5. GoodTask(x)'
  <2>1. ~At(x, "passed")' BY <1>4 DEF Inductive, StatesMatch
  <2>2. view'[x].attempt <= MaxRetries + 1 + replans'
    BY <1>1, <1>3, <1>4, <1>2, ConfigAssumption DEF OneLeft, TypeOK, Projection
  <2>3. QED BY <1>4, <2>1, <2>2 DEF GoodTask
<1>6. j \in Tasks => GoodTask(j)'
  <2>1. SUFFICES ASSUME j \in Tasks, j # x PROVE GoodTask(j)' BY <1>5
  <2>2. view'[j] = view[j] BY <1>2, <2>1
  <2>3. Tended(j) => Tended(j)' BY <1>2, <2>1 DEF Tended
  <2>4. job'[j].pc # "passed" BY <1>2
  <2>5. QED BY <1>2, <2>1, <2>2, <2>3, <2>4 DEF Good, GoodTask, OneLeft
<1>7. GoodRead(j)' BY <1>2 DEF GoodRead
<1>8. GoodReset(j)'
  BY <1>1, <1>2 DEF Good, GoodReset, OneLeft, TypeOK, Job
<1>9. QED BY <1>2, <1>4, <1>5, <1>6, <1>7, <1>8, StepKeepsGood

(* While no thread works, nothing is RUNNING or VERIFYING but by an operator. *)
LEMMA NoneRunning ==
    ASSUME Good, \A j \in Threads : job[j].pc = "off", ~ManualControl, NEW t \in Tasks
    PROVE  view[t].state \notin {"RUNNING", "VERIFYING"}
BY DEF Good, GoodTask, Tended, At, Threads

LEMMA CallerGood ==
    ASSUME Inductive, Inductive', Good,
           \/ EndCreate \/ Call \/ Loop
           \/ \E t \in Tasks : Submit(t) \/ PauseTask(t) \/ ResumeTask(t)
    PROVE  Good'
<1>1. \A j \in Threads : job[j].pc = "off" /\ job'[j].pc \in {"off", "queued"}
  BY CallerQuiet
<1>2. \A j \in Threads : GoodRead(j)' /\ GoodReset(j)'
  BY <1>1 DEF GoodRead, GoodReset, At
<1>3. replans' = replans
  BY DEF EndCreate, Call, Loop, Return, NoProgress, EndRound, EndInvalidate, RunOnce,
     Submit, CreateTask, PlanTask, ReleaseEntry, PauseTask, ResumeTask
<1>4. ASSUME NEW u \in Tasks, view'[u] = view[u] PROVE GoodTask(u)'
  BY <1>1, <1>3, <1>4, NoneRunning DEF Good, GoodTask, OneLeft, At, Threads
<1>5. CASE ~\E t \in Tasks : Submit(t) \/ PauseTask(t) \/ ResumeTask(t)
  BY <1>2, <1>4, <1>5, CallerQuiet DEF Good
<1>6. ASSUME NEW t \in Tasks, Submit(t) \/ PauseTask(t) \/ ResumeTask(t)
      PROVE  Good'
  <2>1. TypeOK /\ view[t] \in Projection /\ Sound(view[t]) /\ GoodTask(t)
        /\ view[t].attempt \in Nat /\ replans \in Nat /\ MaxRetries \in Nat
    BY ConfigAssumption DEF Inductive, TypeOK, Good, GoodTask, Projection
  <2>2. ~At(t, "passed")' BY <1>1 DEF Threads, At
  <2>3. CASE CreateTask(t)
    <3>1. view'[t] = Created /\ \A u \in Tasks \ {t} : view'[u] = view[u]
      BY <2>1, <2>3, ViewEffect DEF CreateTask
    <3>2. Created.attempt = 0 /\ Created.state = "CREATED" BY DEF Created, Blank
    <3>3. GoodTask(t)' BY <1>3, <2>1, <2>2, <3>1, <3>2, SoundBlank DEF GoodTask, OneLeft
    <3>4. QED BY <1>2, <1>4, <3>1, <3>3 DEF Good
  <2>4. CASE PlanTask(t) \/ ReleaseEntry(t)
    <3>1. PICK s \in {"PLANNED", "READY"} : view'[t] = Moved(view[t], s)
                                         /\ \A u \in Tasks \ {t} : view'[u] = view[u]
      BY <2>1, <2>4, ViewEffect DEF PlanTask, ReleaseEntry
    <3>2. Stage(view[t]) \in NotBegun
      BY <2>4 DEF PlanTask, ReleaseEntry, Stage, NotBegun
    <3>3. /\ Sound(view'[t]) /\ view'[t].attempt = view[t].attempt
          /\ view'[t].state = s
      BY <2>1, <3>1, <3>2, SoundRelease, PlannedMove, ReadyMove
    <3>4. GoodTask(t)' BY <1>3, <2>1, <2>2, <3>2, <3>3 DEF GoodTask, OneLeft
    <3>5. QED BY <1>2, <1>4, <3>1, <3>4 DEF Good
  <2>5. CASE PauseTask(t)
    <3>1. view'[t] = Moved(view[t], "PAUSED") /\ \A u \in Tasks \ {t} : view'[u] = view[u]
      BY <2>1, <2>5, ViewEffect DEF PauseTask
    <3>2. /\ Sound(view'[t]) /\ view'[t].attempt = view[t].attempt
          /\ Stage(view'[t]) = Stage(view[t]) /\ ManualControl
      BY <2>1, <2>5, <3>1, SoundPause, PauseKeepsStage DEF PauseTask
    <3>3. GoodTask(t)' BY <1>3, <2>1, <2>2, <3>2 DEF GoodTask, OneLeft
    <3>4. QED BY <1>2, <1>4, <3>1, <3>3 DEF Good
  <2>6. CASE ResumeTask(t)
    <3>1. /\ view'[t] = Moved(view[t], view[t].pausedFrom)
          /\ \A u \in Tasks \ {t} : view'[u] = view[u]
      BY <2>1, <2>6, ViewEffect DEF ResumeTask
    <3>2. /\ Sound(view'[t]) /\ view'[t].attempt = view[t].attempt
          /\ Stage(view'[t]) = Stage(view[t]) /\ ManualControl
      BY <2>1, <2>6, <3>1, SoundResume, ResumeKeepsStage DEF ResumeTask
    <3>3. GoodTask(t)' BY <1>3, <2>1, <2>2, <3>2 DEF GoodTask, OneLeft
    <3>4. QED BY <1>2, <1>4, <3>1, <3>3 DEF Good
  <2>7. QED BY <1>6, <2>3, <2>4, <2>5, <2>6 DEF Submit
<1>7. QED BY <1>5, <1>6

-----------------------------------------------------------------------------
(* The theorems *)

LEMMA NextGood == Inductive /\ Inductive' /\ Good /\ [Next]_vars => Good'
<1>1. SUFFICES ASSUME Inductive, Inductive', Good, [Next]_vars PROVE Good'
  OBVIOUS
<1>2. CASE UNCHANGED vars
  BY <1>1, <1>2 DEF vars, Good, GoodTask, GoodRead, GoodReset, OneLeft, Tended, At
<1>3. ASSUME NEW t \in Tasks, Worker(t) PROVE Good'
  <2>1. t \in Threads BY DEF Threads
  <2>2. CASE ReleaseDependents(t)
    BY <1>1, <2>1, <2>2, ReadGood, WriteReadyGood DEF ReleaseDependents
  <2>3. CASE Recover(t) /\ Replan(t, t)
    <3>1. ~Done(t) /\ view[t].state # Absent
      BY <1>1, <2>3 DEF Recover, At, Inductive, StatesMatch, Done, Absent
    <3>2. QED BY <1>1, <2>1, <2>3, <3>1, ReplanGood
  <2>4. CASE ~ReleaseDependents(t) /\ ~(Recover(t) /\ Replan(t, t))
    <3>1. \/ Dequeue(t) \/ Assign(t) \/ Start(t) \/ FinishTools(t) \/ Verify(t)
          \/ Succeed(t) \/ Raise(t)
          \/ At(t, "failed") /\ (Retry(t) \/ SafeStop(t))
      BY <1>3, <2>4 DEF Worker, Recover
    <3>2. QED BY <1>1, <3>1, ExecuteSteps, ExecuteGood
  <2>5. QED BY <2>2, <2>3, <2>4
<1>4. ASSUME NEW j \in Threads, ReplanTasks(j) PROVE Good'
  BY <1>1, <1>4, ReadGood, WriteReadyGood, ResetGood DEF ReplanTasks
<1>5. ASSUME NEW t \in Tasks, InvalidateEvidence(t) PROVE Good'
  BY <1>1, <1>5, ReplanGood, DagAssumption DEF InvalidateEvidence, Threads
<1>6. CASE \/ EndCreate \/ Call \/ Loop
           \/ \E t \in Tasks : Submit(t) \/ PauseTask(t) \/ ResumeTask(t)
  BY <1>1, <1>6, CallerGood
<1>7. QED BY <1>1, <1>2, <1>3, <1>4, <1>5, <1>6 DEF Next, Control

LEMMA InitGood == Init => Good
<1>1. SUFFICES ASSUME Init PROVE Good OBVIOUS
<1>2. \A j \in Threads : GoodRead(j) /\ GoodReset(j)
  BY <1>1 DEF Init, Idle, GoodRead, GoodReset, At
<1>3. ASSUME NEW t \in Tasks PROVE GoodTask(t)
  <2>1. view[t] = Blank /\ job[t].pc = "off" /\ replans = 0 /\ MaxRetries \in Nat
    BY <1>1, ConfigAssumption DEF Init, Idle, Threads
  <2>2. Blank.attempt = 0 /\ Blank.state = Absent BY DEF Blank
  <2>3. QED BY <2>1, <2>2, SoundBlank DEF GoodTask, OneLeft, At, Absent
<1>4. QED BY <1>2, <1>3 DEF Good

(* The strengthening holds in every reachable state. *)
THEOREM StrengtheningHolds == Spec => []Strengthening
<1>1. Spec => []Good
  BY InitGood, NextGood, InductiveInvariant, PTL DEF Spec
<1>2. Good => Attended /\ CleanSlate /\ AttemptLeft BY GoodIsAll
<1>3. Inductive /\ LoopsOnWaiting /\ Attended /\ CleanSlate /\ AttemptLeft => Strengthening
  BY DEF Strengthening
<1>4. QED BY <1>1, <1>2, <1>3, InductiveInvariant, LoopsInvariant, PTL

(* Whatever fails, raises or replans in a round, no task is left RUNNING or  *)
(* VERIFYING once its workers are joined: _recover_or_fail always settles it *)
(* (there is no sweep that would pick it up later).                         *)
THEOREM NobodyIsOrphaned == Spec => []NoOrphan
<1>1. Strengthening => NoOrphan
  <2>1. SUFFICES ASSUME Strengthening, ~ManualControl, main # "round",
                        NEW t \in In("RUNNING") \cup In("VERIFYING")
                 PROVE  FALSE
    BY DEF NoOrphan
  <2>2. job[t].pc = "off" BY <2>1 DEF Strengthening, Inductive, Quiet, At, In
  <2>3. QED BY <2>1, <2>2 DEF Strengthening, Attended, At
<1>2. QED BY <1>1, StrengtheningHolds, PTL

(* A task never succeeds on evidence of an earlier attempt, although retries *)
(* and replans keep the record and release loops rewrite what they have read *)
(* a step earlier.                                                          *)
THEOREM EvidenceIsOwn == Spec => []OwnEvidence
<1>1. Strengthening => OwnEvidence
  BY DEF Strengthening, CleanSlate, Sound, OwnEvidence, Done
<1>2. QED BY <1>1, StrengtheningHolds, PTL

(* No interleaving of retries and replans gives a task more attempts than    *)
(* max_task_retries allows, plus one for each local replan of the run.       *)
THEOREM AttemptsAreBounded == Spec => []AttemptBudget
<1>1. Strengthening => AttemptBudget
  BY DEF Strengthening, AttemptLeft, AttemptBudget
<1>2. QED BY <1>1, StrengtheningHolds, PTL
=============================================================================

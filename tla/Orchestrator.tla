---------------------------- MODULE Orchestrator ----------------------------
(***************************************************************************)
(* One run of a task DAG: creation, scheduling rounds, the worker threads   *)
(* of a round, and recovery (service.py, orchestrator.py,                   *)
(* recovery/engine.py), without process crashes (RunRecovery adds them).    *)
(*                                                                         *)
(* The database is shared: every read and every append_bundle is one atomic *)
(* step, and nothing else is, so a command that reads a projection and then *)
(* writes it is two steps wherever another thread may write the same task.  *)
(* A task is executed by at most one thread of a round, which is named by   *)
(* the task; the thread of the caller is named Main.                        *)
(***************************************************************************)
EXTENDS TaskStates, FiniteSets

CONSTANTS
    Tasks,          \* the task ids of the run
    Parents,        \* depends_on
    ListOrder,      \* rank of a task in list_tasks: (-priority, task_id)
    IdOrder,        \* rank of a task in sorted(task_ids)
    Main,           \* the thread that calls the service
    MaxRetries,     \* max_task_retries
    MaxConcurrency, \* max_concurrency
    MaxRounds,      \* max_rounds of one run_until_blocked call
    Faults,         \* the error classes executions can end with
    ToolRaises,     \* may planning, a tool or a verifier raise?
    Starved,        \* may a round find no feasible candidate, or a round hook stop?
    ManualControl,  \* does an operator pause and resume tasks between rounds?
    MaxReplans      \* bound of the model: local replans in the whole run

ErrorClass == {"RETRYABLE", "REPLACEABLE", "ROLLBACK_REQUIRED",
               "REPLAN_REQUIRED", "SAFE_STOP"}

ASSUME DagAssumption ==
    /\ Main \notin Tasks
    /\ Parents \in [Tasks -> SUBSET Tasks]
    /\ ListOrder \in [Tasks -> Nat] /\ IdOrder \in [Tasks -> Nat]

ASSUME ConfigAssumption ==
    /\ MaxRetries \in Nat /\ MaxRounds \in Nat /\ MaxReplans \in Nat
    /\ MaxConcurrency \in Nat \ {0}
    /\ Faults \subseteq ErrorClass
    /\ {ToolRaises, Starved, ManualControl} \subseteq BOOLEAN

VARIABLES
    view,     \* the stored projection of every task
    main,     \* where the caller's thread is
    rounds,   \* rounds made by the current run_until_blocked call
    job,      \* program counter and local variables of every thread
    replans   \* local replans begun so far

vars == <<view, main, rounds, job, replans>>

Threads == Tasks \cup {Main}

MainPc == {"create", "entry", "idle", "loop", "round", "replan"}

JobPc == {"off", "queued", "accept", "assigned", "running", "verify", "passed",
          "failed", "recover", "release", "releasing", "promoting",
          "resetting", "refresh", "roots", "rooting"}

(* todo: tasks a loop has still to visit; scope: the affected set of a replan; *)
(* read: the projection a transition has read and not yet written.             *)
Job == [pc : JobPc, todo : SUBSET Tasks, scope : SUBSET Tasks,
        class : ErrorClass \cup {None}, read : Projection]

Idle == [pc |-> "off", todo |-> {}, scope |-> {}, class |-> None, read |-> Blank]

Init ==
    /\ view = [t \in Tasks |-> Blank]
    /\ main = "create"
    /\ rounds = 0
    /\ job = [j \in Threads |-> Idle]
    /\ replans = 0

-----------------------------------------------------------------------------
(* Reading the store *)

In(s) == {t \in Tasks : view[t].state = s}

Done(t) == view[t].state = "SUCCEEDED"

(* Variant: one succeeded dependency is taken for all. *)
ReleasableByAny ==
    {t \in In("PLANNED") : Parents[t] # {} => \E p \in Parents[t] : Done(p)}

(* The PLANNED tasks whose every dependency succeeded. *)
Releasable == {t \in In("PLANNED") : \A p \in Parents[t] : Done(p)}

(* The least set that holds t and, with a task, the tasks that depend on it. *)
ChildClosed(S) == \A c \in Tasks : Parents[c] \cap S # {} => c \in S

Affected(t) == {u \in Tasks : \A S \in SUBSET Tasks :
                                 t \in S /\ ChildClosed(S) => u \in S}

First(S, order) == {x \in S : \A y \in S : order[x] <= order[y]}

Store(t, v) == view' = [view EXCEPT ![t] = v]

At(j, pc) == job[j].pc = pc

Go(j, pc) == job' = [job EXCEPT ![j].pc = pc]

Become(j, r) == job' = [job EXCEPT ![j] = r]

-----------------------------------------------------------------------------
(* create_run: each task is created and planned in turn, then the entry     *)
(* tasks are released.  A compiled plan lists tasks in dependency order.    *)

CreateTask(t) ==
    /\ main = "create"
    /\ view[t].state = Absent
    /\ In("CREATED") = {}
    /\ \A p \in Parents[t] : view[p].state # Absent
    /\ Store(t, Created)
    /\ UNCHANGED <<main, rounds, job, replans>>

PlanTask(t) ==
    /\ main = "create"
    /\ view[t].state = "CREATED"
    /\ Store(t, Moved(view[t], "PLANNED"))
    /\ main' = IF In(Absent) = {} THEN "entry" ELSE main
    /\ UNCHANGED <<rounds, job, replans>>

ReleaseEntry(t) ==
    /\ main = "entry"
    /\ view[t].state = "PLANNED" /\ Parents[t] = {}
    /\ Store(t, Moved(view[t], "READY"))
    /\ UNCHANGED <<main, rounds, job, replans>>

EndCreate ==
    /\ main = "entry"
    /\ \A t \in Tasks : Parents[t] = {} => view[t].state # "PLANNED"
    /\ main' = "idle"
    /\ UNCHANGED <<view, rounds, job, replans>>

-----------------------------------------------------------------------------
(* run_until_blocked and run_once, in the caller's thread *)

Call ==
    /\ main = "idle"
    /\ main' = "loop" /\ rounds' = 0
    /\ UNCHANGED <<view, job, replans>>

(* The loop ends: no READY task, or the round budget of the call is spent. *)
Return ==
    /\ main = "loop"
    /\ In("READY") = {} \/ rounds = MaxRounds
    /\ main' = "idle"
    /\ UNCHANGED <<view, rounds, job, replans>>

(* The scheduler finds no feasible candidate, so run_once reports no        *)
(* progress, or the round hook of run_plan asks to stop: the loop ends.     *)
NoProgress ==
    /\ Starved
    /\ main = "loop" /\ rounds < MaxRounds
    /\ In("READY") # {}
    /\ main' = "idle"
    /\ UNCHANGED <<view, rounds, job, replans>>

(* The scheduler assigns some READY tasks; each is submitted to the pool.   *)
RunOnce(S) ==
    /\ main = "loop" /\ rounds < MaxRounds
    /\ S # {} /\ S \subseteq In("READY")
    /\ main' = "round" /\ rounds' = rounds + 1
    /\ job' = [j \in Threads |-> IF j \in S THEN [Idle EXCEPT !.pc = "queued"]
                                           ELSE job[j]]
    /\ UNCHANGED <<view, replans>>

(* The pool has joined every worker of the round. *)
EndRound ==
    /\ main = "round"
    /\ \A t \in Tasks : At(t, "off")
    /\ main' = "loop"
    /\ UNCHANGED <<view, rounds, job, replans>>

-----------------------------------------------------------------------------
(* _execute_assignment, in the worker thread of task t *)

Busy == {t \in Tasks : job[t].pc \notin {"off", "queued"}}

Dequeue(t) ==
    /\ At(t, "queued")
    /\ Cardinality(Busy) < MaxConcurrency
    /\ Go(t, "accept")
    /\ UNCHANGED <<view, main, rounds, replans>>

(* EventStore.assign: only a READY task can be assigned; otherwise it       *)
(* raises, the task is not executing, and the thread ends.                  *)
Assign(t) ==
    /\ At(t, "accept")
    /\ IF view[t].state = "READY"
       THEN Store(t, Assigned(view[t])) /\ Go(t, "assigned")
       ELSE Become(t, Idle) /\ UNCHANGED view
    /\ UNCHANGED <<main, rounds, replans>>

Start(t) ==
    /\ At(t, "assigned")
    /\ IF Legal(view[t], "RUNNING")
       THEN Store(t, Moved(view[t], "RUNNING")) /\ Go(t, "running")
       ELSE Become(t, Idle) /\ UNCHANGED view
    /\ UNCHANGED <<main, rounds, replans>>

ReplanErrors == {"ROLLBACK_REQUIRED", "REPLAN_REQUIRED"}

(* Bound of the model: replans begun, and replans the failed ask for. *)
ReplanBudget ==
    replans + Cardinality({t \in Tasks : /\ At(t, "failed")
                                         /\ job[t].class \in ReplanErrors})
        < MaxReplans

(* The handler of an exception reads the task: if it still executes this is *)
(* a failure of that class, if not the thread ends.                         *)
Raised(t, class) ==
    IF view[t].state \in {"RUNNING", "VERIFYING"}
    THEN job' = [job EXCEPT ![t].pc = "failed", ![t].class = class]
    ELSE Become(t, Idle)

(* A transition of the own task.  It is illegal only if a replan of another *)
(* thread has reset the task meanwhile; IllegalTransition is RETRYABLE.     *)
Proceed(t, target, next) ==
    IF Legal(view[t], target)
    THEN Store(t, Moved(view[t], target)) /\ Go(t, next)
    ELSE Raised(t, "RETRYABLE") /\ UNCHANGED view

(* The agent has planned and every ToolCall has returned a result. *)
FinishTools(t) ==
    /\ At(t, "running")
    /\ Proceed(t, "VERIFYING", "verify")
    /\ UNCHANGED <<main, rounds, replans>>

(* The verifier has judged and record_result stores the evidence.  A failed *)
(* verification carries the result's error class, SAFE_STOP when it has     *)
(* none.                                                                    *)
Verify(t) ==
    /\ At(t, "verify")
    /\ Store(t, WithResult(view[t]))
    /\ \/ Go(t, "passed")
       \/ \E class \in Faults :
             /\ class \in ReplanErrors => ReplanBudget
             /\ job' = [job EXCEPT ![t].pc = "failed", ![t].class = class]
    /\ UNCHANGED <<main, rounds, replans>>

Succeed(t) ==
    /\ At(t, "passed")
    /\ Proceed(t, "SUCCEEDED", "release")
    /\ UNCHANGED <<main, rounds, replans>>

(* Variant: an exception after the success is recovered like any other. *)
RaiseAfterSuccess(t) ==
    /\ ToolRaises
    /\ job[t].pc \in {"running", "verify", "passed", "release"}
    /\ \E class \in {"RETRYABLE", "REPLACEABLE", "SAFE_STOP"} \cap Faults :
          job' = [job EXCEPT ![t].pc = "failed", ![t].class = class]
    /\ UNCHANGED <<view, main, rounds, replans>>

(* Planning, a tool or the verifier raises; _exception_class never asks for *)
(* a rollback or a replan.                                                  *)
Raise(t) ==
    /\ ToolRaises
    /\ job[t].pc \in {"running", "verify", "passed"}
    /\ \E class \in {"RETRYABLE", "REPLACEABLE", "SAFE_STOP"} \cap Faults : Raised(t, class)
    /\ UNCHANGED <<view, main, rounds, replans>>

-----------------------------------------------------------------------------
(* _release_dependents: one read of every task of the run, then a transition *)
(* (a read, a check and a write) for each task that read showed releasable.  *)

(* Variant: the tasks are read before the own success is stored. *)
SnapshotTooEarly(t) ==
    /\ At(t, "release")
    /\ job' = [job EXCEPT ![t].pc = "releasing",
                          ![t].todo = {x \in Releasable : t \notin Parents[x]}]
    /\ UNCHANGED <<view, main, rounds, replans>>

Snapshot(t) ==
    /\ At(t, "release")
    /\ job' = [job EXCEPT ![t].pc = "releasing", ![t].todo = Releasable]
    /\ UNCHANGED <<view, main, rounds, replans>>

(* The first half of transition(x, READY), x being the next task of the    *)
(* loop.  When x is no longer PLANNED the state machine raises, the handler *)
(* finds the thread's own task neither RUNNING nor VERIFYING, and the rest  *)
(* of the loop is abandoned.                                                *)
CheckReady(j, at, next, order) ==
    /\ At(j, at)
    /\ \E x \in First(job[j].todo, order) :
          IF Legal(view[x], "READY")
          THEN job' = [job EXCEPT ![j].pc = next, ![j].read = view[x]]
          ELSE Become(j, Idle)
    /\ UNCHANGED <<view, main, rounds, replans>>

(* The second half: the projection derived from what was read is stored. *)
WriteReady(j, at, next, order) ==
    /\ At(j, at)
    /\ \E x \in First(job[j].todo, order) :
          /\ Store(x, Moved(job[j].read, "READY"))
          /\ job' = [job EXCEPT ![j].pc = next, ![j].todo = @ \ {x},
                                ![j].read = Blank]
    /\ UNCHANGED <<main, rounds, replans>>

EndRelease(t) ==
    /\ At(t, "releasing") /\ job[t].todo = {}
    /\ Become(t, Idle)
    /\ UNCHANGED <<view, main, rounds, replans>>

ReleaseDependents(t) ==
    \/ Snapshot(t)
    \/ CheckReady(t, "releasing", "promoting", ListOrder)
    \/ WriteReady(t, "promoting", "releasing", ListOrder)
    \/ EndRelease(t)

-----------------------------------------------------------------------------
(* RecoveryEngine.plan and execute, then _recover_or_fail.  Only the thread *)
(* of t writes t here (a replan that a crash cut short aside), so one       *)
(* decision is one step up to its single write.                            *)

(* Variant: the retry budget is off by one. *)
OneRetryMore(t) == view[t].attempt <= MaxRetries + 1

RetryAllowed(t) == view[t].attempt <= MaxRetries

(* Variant: the safe stop is only recorded, the task stays where it is. *)
SafeStopInName(t) == Become(t, Idle) /\ UNCHANGED <<view, replans>>

SafeStop(t) ==
    /\ IF Legal(view[t], "PAUSED") THEN Store(t, Moved(view[t], "PAUSED"))
                                   ELSE UNCHANGED view
    /\ Become(t, Idle)
    /\ UNCHANGED replans

(* What is no longer RUNNING or VERIFYING cannot be recovered: the command   *)
(* raises, and the thread ends.                                            *)
Retry(t) ==
    /\ CASE RetryAllowed(t) /\ view[t].state \in Recoverable -> Store(t, Recovered(view[t]))
         [] ~RetryAllowed(t) /\ Legal(view[t], "FAILED") -> Store(t, Moved(view[t], "FAILED"))
         [] OTHER -> UNCHANGED view
    /\ Become(t, Idle)
    /\ UNCHANGED replans

(* Variants: the task alone, and everything there is. *)
ImpactWithoutDescendants(t) == {t}
ImpactOfTheRun(t) == Tasks \ (In(Absent) \ {t})

(* The impact subgraph of t is computed and its replan begins in thread j. *)
Impact(t) == Affected(t) \ In(Absent)

Replan(j, t) ==
    /\ replans' = replans + 1
    /\ Become(j, [Idle EXCEPT !.pc = "resetting", !.todo = Impact(t),
                              !.scope = Impact(t)])
    /\ UNCHANGED view

Recover(t) ==
    /\ At(t, "failed")
    /\ \/ job[t].class \in {"RETRYABLE", "REPLACEABLE"} /\ Retry(t)
       \/ job[t].class = "REPLAN_REQUIRED" /\ Replan(t, t)
       \/ \* the compensation tool succeeded
          job[t].class = "ROLLBACK_REQUIRED" /\ Replan(t, t)
       \/ \* no compensation tool is declared, or it failed
          job[t].class = "ROLLBACK_REQUIRED" /\ SafeStop(t)
       \/ job[t].class = "SAFE_STOP" /\ SafeStop(t)
    /\ UNCHANGED <<main, rounds>>

-----------------------------------------------------------------------------
(* EventStore.replan_tasks, in thread j: reset every affected task, reread, *)
(* then release the roots of the affected set.                              *)

ResetOne(j) ==
    /\ At(j, "resetting")
    /\ \E x \in First(job[j].todo, IdOrder) :
          /\ Store(x, Replanned(view[x]))
          /\ job' = [job EXCEPT
                ![j].todo = @ \ {x},
                ![j].pc = IF job[j].todo = {x} THEN "refresh" ELSE "resetting"]
    /\ UNCHANGED <<main, rounds, replans>>

(* The roots: no dependency inside the affected set, all of them succeeded. *)
Refresh(j) ==
    /\ At(j, "refresh")
    /\ job' = [job EXCEPT ![j].pc = "roots",
          ![j].todo = {x \in job[j].scope : /\ Parents[x] \cap job[j].scope = {}
                                           /\ \A p \in Parents[x] : Done(p)}]
    /\ UNCHANGED <<view, main, rounds, replans>>

EndReplan(j) ==
    /\ At(j, "roots") /\ job[j].todo = {}
    /\ Become(j, Idle)
    /\ UNCHANGED <<view, main, rounds, replans>>

ReplanTasks(j) ==
    \/ ResetOne(j)
    \/ Refresh(j)
    \/ CheckReady(j, "roots", "rooting", IdOrder)
    \/ WriteReady(j, "rooting", "roots", IdOrder)
    \/ EndReplan(j)

-----------------------------------------------------------------------------
(* The caller between two rounds *)

(* invalidate_evidence (a round hook of run_plan): the owner of a piece of   *)
(* evidence and everything that depends on it are replanned.                *)
InvalidateEvidence(t) ==
    /\ main = "loop"
    /\ view[t].evidence # {}
    /\ ReplanBudget
    /\ main' = "replan"
    /\ Replan(Main, t)
    /\ UNCHANGED rounds

EndInvalidate ==
    /\ main = "replan" /\ At(Main, "off")
    /\ main' = "loop"
    /\ UNCHANGED <<view, rounds, job, replans>>

PauseTask(t) ==
    /\ ManualControl /\ main = "idle"
    /\ view[t].state \in Pausable
    /\ Store(t, Moved(view[t], "PAUSED"))
    /\ UNCHANGED <<main, rounds, job, replans>>

(* Variant: a resumed task is simply made READY. *)
ResumeToReady(t) ==
    /\ ManualControl /\ main = "idle"
    /\ view[t].state = "PAUSED"
    /\ Store(t, Reset(view[t], "READY"))
    /\ UNCHANGED <<main, rounds, job, replans>>

ResumeTask(t) ==
    /\ ManualControl /\ main = "idle"
    /\ view[t].state = "PAUSED" /\ view[t].pausedFrom # None
    /\ Store(t, Moved(view[t], view[t].pausedFrom))
    /\ UNCHANGED <<main, rounds, job, replans>>

-----------------------------------------------------------------------------
Worker(t) ==
    \/ Dequeue(t) \/ Assign(t) \/ Start(t) \/ FinishTools(t) \/ Verify(t)
    \/ Succeed(t) \/ Raise(t) \/ ReleaseDependents(t) \/ Recover(t)

Submit(t) == CreateTask(t) \/ PlanTask(t) \/ ReleaseEntry(t)

Control(t) == InvalidateEvidence(t) \/ PauseTask(t) \/ ResumeTask(t)

Loop == Return \/ NoProgress \/ EndRound \/ EndInvalidate
           \/ \E S \in SUBSET Tasks : RunOnce(S)

Next ==
    \/ \E t \in Tasks : Submit(t) \/ Worker(t) \/ Control(t)
    \/ \E j \in Threads : ReplanTasks(j)
    \/ EndCreate \/ Call \/ Loop

Spec == Init /\ [][Next]_vars

(* Every thread runs: tool calls and model calls have timeouts, and the     *)
(* caller waits for nothing but its workers.  Calling again, invalidating   *)
(* evidence and pausing are up to others and carry no fairness.             *)
Fairness ==
    /\ \A t \in Tasks : WF_vars(Worker(t))
    /\ \A j \in Threads : WF_vars(ReplanTasks(j))
    /\ WF_vars(Loop)

FairSpec == Spec /\ Fairness

-----------------------------------------------------------------------------
(* Properties *)

(* Every variable holds a value of its type. *)
TypeOK ==
    /\ view \in [Tasks -> Projection]
    /\ main \in MainPc
    /\ rounds \in 0 .. MaxRounds
    /\ job \in [Threads -> Job]
    /\ replans \in Nat

(* The tasks a replan in progress has still to reset. *)
Pending == UNION {job[j].todo : j \in {i \in Threads : At(i, "resetting")}}

(* The DAG barrier of _execute_assignment: no task is READY, executing or    *)
(* SUCCEEDED (or paused there) unless everything it depends on is SUCCEEDED; *)
(* only a replan that has still to reset the task may be in between.        *)
DependencyBarrier ==
    \A t \in Tasks \ Pending :
        Started(view[t]) => \A p \in Parents[t] : Done(p)

(* What a release loop read is still true when it acts on it: every task it  *)
(* has still to release has all its dependencies SUCCEEDED, although other   *)
(* threads have failed, retried and replanned since.                        *)
ReleaseStillDue ==
    \A j \in Threads : job[j].pc \in {"releasing", "promoting", "roots", "rooting"} =>
        \A x \in job[j].todo : \A p \in Parents[x] : Done(p)

(* A replan begun by a worker while other workers execute never resets work *)
(* that has started, except the worker's own failed task.                   *)
ReplanSparesOthers ==
    \A j \in Tasks : At(j, "resetting") =>
        \A x \in job[j].todo \ {j} : ~Started(view[x])

(* Between rounds nothing is left RUNNING or VERIFYING: every execution that *)
(* began reached SUCCEEDED, FAILED, PAUSED or back to READY or PLANNED.      *)
NoOrphan ==
    ~ManualControl /\ main # "round" => In("RUNNING") \cup In("VERIFYING") = {}

(* A task that succeeded did so on evidence of its last attempt alone: a     *)
(* retry or a replan leaves nothing of an earlier attempt behind.           *)
OwnEvidence ==
    \A t \in Tasks : Done(t) => view[t].evidence = {view[t].attempt}

(* The retry budget: a task starts at most once, plus its retries, plus once *)
(* for each local replan of the run.                                        *)
AttemptBudget ==
    \A t \in Tasks : view[t].attempt <= MaxRetries + 1 + replans

(* Nothing releasable is left behind when a call returns because no task is  *)
(* READY ("downstream work still observes the DAG barrier").                *)
NothingLeftBehind == main = "idle" /\ In("READY") = {} => Releasable = {}

(* When no execution fails, the rounds of one call complete the whole DAG.  *)
AllSucceed == main = "loop" ~> \A t \in Tasks : Done(t)

(* The detailed run implements the promise of DagRun: a paused task stays    *)
(* where it was, and a replan invalidates its whole scope at once.          *)
Phase(t) ==
    LET s == Stage(view[t])
    IN  IF t \in Pending THEN "waiting"
        ELSE IF s = "READY" THEN "enabled"
        ELSE IF s \in {"RUNNING", "VERIFYING"} THEN "running"
        ELSE IF s = "SUCCEEDED" THEN "done"
        ELSE IF s = "FAILED" THEN "failed"
        ELSE "waiting"

Abstract == INSTANCE DagRun WITH stage <- [t \in Tasks |-> Phase(t)]

ImplementsDagRun == Abstract!Spec
=============================================================================

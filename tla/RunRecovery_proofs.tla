------------------------- MODULE RunRecovery_proofs -------------------------
(***************************************************************************)
(* A run that crashes and is resumed, for every DAG, number of workers,     *)
(* retry budget, choice of faults and number of crashes: no execution is    *)
(* left without an owner, and no crash adds an execution of a              *)
(* side-effecting task.                                                     *)
(***************************************************************************)
EXTENDS RunRecovery, Orchestrator_proofs, Integers, FiniteSetTheorems

-----------------------------------------------------------------------------
(* Counting the replans that have still to reset a task *)

LEMMA CountType ==
    ASSUME NEW x
    PROVE  /\ IsFiniteSet(Resetters(x)) /\ Cardinality(Resetters(x)) \in Nat
           /\ IsFiniteSet(Resetters(x)') /\ Cardinality(Resetters(x)') \in Nat
<1>1. IsFiniteSet(Threads)
  BY OrderAssumption, FS_AddElement DEF Threads
<1>2. Resetters(x) \subseteq Threads /\ Resetters(x)' \subseteq Threads
  BY DEF Resetters
<1>3. QED BY <1>1, <1>2, FS_Subset, FS_CardinalityType

(* A thread that begins a replan of x, or is done with resetting x. *)
LEMMA CountMoves ==
    ASSUME NEW x, NEW j
    PROVE  /\ j \notin Resetters(x) /\ Resetters(x)' = Resetters(x) \cup {j}
                => Cardinality(Resetters(x)') = Cardinality(Resetters(x)) + 1
           /\ j \in Resetters(x) /\ Resetters(x)' = Resetters(x) \ {j}
                => Cardinality(Resetters(x)') = Cardinality(Resetters(x)) - 1
BY CountType, FS_AddElement, FS_RemoveElement

(* Whom a step of thread j makes, or no longer makes, a resetter of x. *)
LEMMA ResettersOfStep ==
    ASSUME NEW j \in Threads, \A i \in Threads \ {j} : job'[i] = job[i], NEW x
    PROVE  /\ (j \in Resetters(x)') = (j \in Resetters(x)) => Resetters(x)' = Resetters(x)
           /\ j \in Resetters(x)' => Resetters(x)' = Resetters(x) \cup {j}
           /\ j \notin Resetters(x)' => Resetters(x)' = Resetters(x) \ {j}
BY DEF Resetters, At

-----------------------------------------------------------------------------
(* The invariant, task by task and thread by thread *)

Up == main \in MainPc

GoodWork(t) ==
    /\ Settled(t) >= 0
    /\ view[t].attempt <= Room(t) + 1
    /\ Stage(view[t]) \in NotBegun => view[t].attempt <= Room(t)
    /\ main \in {"down", "resume"} /\ (ManualControl \/ t \notin SideEffecting)
         => view[t].attempt <= Room(t)
    /\ ~ManualControl /\ view[t].state \in {"RUNNING", "VERIFYING"} => Owned(t)

GoodList(j) ==
    /\ At(j, "promoting") =>
          \A x \in First(job[j].todo, ListOrder) : job[j].read.attempt <= Room(x)
    /\ At(j, "rooting") =>
          \A x \in First(job[j].todo, IdOrder) : job[j].read.attempt <= Room(x)

AllGood == /\ \A t \in Tasks : GoodWork(t)
           /\ \A j \in Threads : GoodList(j)

Interrupted ==
    /\ main \notin {"down", "resume"} => resuming = {}
    /\ resuming \subseteq In("RUNNING") \cup In("VERIFYING")

LEMMA RInductiveParts ==
    RInductive <=> RTypeOK /\ Quiet /\ Interrupted /\ AllGood
<1>1. (\A t \in Tasks : ~ManualControl /\ view[t].state \in {"RUNNING", "VERIFYING"}
                              => Owned(t))
        <=> (~ManualControl => \A t \in In("RUNNING") \cup In("VERIFYING") : Owned(t))
  BY DEF In
<1>2. Owning /\ Budgeted <=> Interrupted /\ AllGood
  BY <1>1 DEF Owning, Budgeted, Interrupted, AllGood, GoodWork, GoodList
<1>3. QED BY <1>2 DEF RInductive

LEMMA RoomType ==
    ASSUME RTypeOK, RTypeOK', NEW x
    PROVE  /\ MaxRetries \in Nat /\ replans \in Nat /\ replans' \in Nat
           /\ Settled(x) \in Int /\ Room(x) \in Int /\ Reruns(x) \in Nat
           /\ Settled(x)' \in Int /\ Room(x)' \in Int /\ Reruns(x)' \in Nat
           /\ Room(x) = MaxRetries + Settled(x) + Reruns(x)
           /\ Room(x)' = MaxRetries + Settled(x)' + Reruns(x)'
<1>1. /\ MaxRetries \in Nat /\ replans \in Nat /\ replans' \in Nat
      /\ Reruns(x) \in Nat /\ Reruns(x)' \in Nat
  BY ConfigAssumption DEF RTypeOK, Reruns
<1>2. Settled(x) \in Int /\ Settled(x)' \in Int
  BY <1>1, CountType DEF Settled
<1>3. QED BY <1>1, <1>2 DEF Room

-----------------------------------------------------------------------------
(* The steps of a run happen while the process is up. *)

LEMMA NextIsUp ==
    ASSUME RTypeOK, Quiet, Next
    PROVE  Up
<1> USE DEF At
<1>1. SUFFICES ASSUME ~Up PROVE FALSE OBVIOUS
<1>2. /\ main \notin {"create", "entry", "idle", "loop", "round", "replan"}
      /\ \A j \in Threads : job[j].pc = "off"
  BY <1>1 DEF Up, MainPc, Quiet, Threads
<1>3. ASSUME NEW t \in Tasks, Worker(t) PROVE FALSE
  BY <1>2, <1>3 DEF Threads, Worker, Dequeue, Assign, Start, FinishTools, Verify,
     Succeed, Raise, Recover, ReleaseDependents, Snapshot, CheckReady, WriteReady,
     EndRelease
<1>4. ASSUME NEW j \in Threads, ReplanTasks(j) PROVE FALSE
  BY <1>2, <1>4 DEF ReplanTasks, ResetOne, Refresh, CheckReady, WriteReady, EndReplan
<1>5. ASSUME NEW t \in Tasks, Submit(t) \/ Control(t) PROVE FALSE
  BY <1>2, <1>5 DEF Submit, CreateTask, PlanTask, ReleaseEntry, Control,
     InvalidateEvidence, PauseTask, ResumeTask
<1>6. CASE EndCreate \/ Call \/ Loop
  BY <1>2, <1>6 DEF EndCreate, Call, Loop, Return, NoProgress, EndRound, EndInvalidate,
     RunOnce
<1>7. QED BY <1>3, <1>4, <1>5, <1>6 DEF Next

LEMMA RunTypes ==
    ASSUME RInductive, Run
    PROVE  /\ Up /\ Up' /\ TypeOK /\ TypeOK' /\ RTypeOK'
           /\ crashes' = crashes /\ resuming = {} /\ resuming' = {}
<1>1. Up BY NextIsUp DEF RInductive, Run
<1>2. TypeOK BY <1>1 DEF RInductive, RTypeOK, TypeOK, Up
<1>3. TypeOK' BY <1>2, NextTypeOK DEF Run
<1>4. crashes' = crashes /\ resuming' = resuming BY DEF Run
<1>5. resuming = {} BY <1>1 DEF RInductive, Owning, Up, MainPc
<1>6. QED BY <1>1, <1>2, <1>3, <1>4, <1>5 DEF RInductive, RTypeOK, TypeOK, Up

-----------------------------------------------------------------------------
(* Whose steps change what *)

(* A step of thread j, which is not idle, on its own record. *)
OfThread(j) ==
    /\ job[j].pc # "off" /\ main' = main
    /\ \A i \in Threads \ {j} : job'[i] = job[i]

(* A failed transition or a raise concerns the thread's own record only.    *)
LEMMA RaisedEffect ==
    ASSUME TypeOK, NEW t \in Tasks, NEW class, Raised(t, class)
    PROVE  /\ \/ job'[t].pc = "failed"
              \/ job'[t].pc = "off" /\ view[t].state \notin {"RUNNING", "VERIFYING"}
           /\ \A i \in Threads \ {t} : job'[i] = job[i]
BY FailEffect, IdleEffect DEF Raised, Threads

LEMMA ProceedEffect ==
    ASSUME TypeOK, NEW t \in Tasks, NEW s, NEW pc, Proceed(t, s, pc)
    PROVE  /\ \A i \in Threads \ {t} : job'[i] = job[i]
           /\ \A u \in Tasks \ {t} : view'[u] = view[u]
           /\ \/ view'[t] = Moved(view[t], s) /\ job'[t].pc = pc
              \/ /\ view'[t] = view[t]
                 /\ \/ job'[t].pc = "failed"
                    \/ job'[t].pc = "off" /\ view[t].state \notin {"RUNNING", "VERIFYING"}
<1>1. t \in Threads BY DEF Threads
<1>2. CASE Legal(view[t], s)
  BY <1>1, <1>2, ViewEffect, GoEffect DEF Proceed
<1>3. CASE ~Legal(view[t], s)
  BY <1>3, RaisedEffect DEF Proceed
<1>4. QED BY <1>2, <1>3

LEMMA WorkerOfThread ==
    ASSUME TypeOK, NEW t \in Tasks, Worker(t)
    PROVE  OfThread(t)
<1> USE DEF At, OfThread
<1>1. t \in Threads BY DEF Threads
<1>2. CASE Dequeue(t) \/ Assign(t) \/ Start(t) \/ FinishTools(t) \/ Succeed(t)
  BY <1>1, <1>2, GoEffect, IdleEffect, ProceedEffect
     DEF Dequeue, Assign, Start, FinishTools, Succeed
<1>3. CASE Verify(t) BY <1>1, <1>3, GoEffect, FailEffect DEF Verify
<1>4. CASE Raise(t) BY <1>1, <1>4, RaisedEffect DEF Raise
<1>5. CASE ReleaseDependents(t)
  <2>1. CASE Snapshot(t) BY <1>1, <2>1, SnapshotEffect DEF Snapshot
  <2>2. CASE CheckReady(t, "releasing", "promoting", ListOrder)
    BY <1>1, <2>2, CheckReadyEffect
  <2>3. CASE WriteReady(t, "promoting", "releasing", ListOrder)
    <3>1. main' = main BY <2>3 DEF WriteReady
    <3>2. QED BY <1>1, <2>3, <3>1, WriteReadyEffect
  <2>4. CASE EndRelease(t) BY <1>1, <2>4, IdleEffect DEF EndRelease
  <2>5. QED BY <1>5, <2>1, <2>2, <2>3, <2>4 DEF ReleaseDependents
<1>6. CASE Recover(t)
  <2>1. CASE Retry(t) \/ SafeStop(t)
    BY <1>1, <1>6, <2>1, IdleEffect DEF Recover, Retry, SafeStop
  <2>2. CASE Replan(t, t) BY <1>1, <1>6, <2>2, ReplanEffect DEF Recover
  <2>3. QED BY <1>6, <2>1, <2>2 DEF Recover
<1>7. QED BY <1>2, <1>3, <1>4, <1>5, <1>6 DEF Worker

LEMMA ReplannerOfThread ==
    ASSUME TypeOK, NEW j \in Threads, ReplanTasks(j)
    PROVE  OfThread(j)
<1> USE DEF At, OfThread
<1>1. CASE ResetOne(j)
  <2>1. main' = main BY <1>1 DEF ResetOne
  <2>2. QED BY <1>1, <2>1, ResetStores
<1>2. CASE Refresh(j) BY <1>2, RefreshEffect DEF Refresh
<1>3. CASE CheckReady(j, "roots", "rooting", IdOrder) BY <1>3, CheckReadyEffect
<1>4. CASE WriteReady(j, "rooting", "roots", IdOrder)
  <2>1. main' = main BY <1>4 DEF WriteReady
  <2>2. QED BY <1>4, <2>1, WriteReadyEffect
<1>5. CASE EndReplan(j) BY <1>5, IdleEffect DEF EndReplan
<1>6. QED BY <1>1, <1>2, <1>3, <1>4, <1>5 DEF ReplanTasks

(* The caller's steps, but for the start of its own replan, find no thread   *)
(* at work and leave every thread idle or queued.                           *)
CallerStep ==
    \/ EndCreate \/ Call \/ Loop
    \/ \E t \in Tasks : Submit(t) \/ PauseTask(t) \/ ResumeTask(t)

LEMMA CallerOfNone ==
    ASSUME TypeOK, Quiet, CallerStep
    PROVE  /\ \A j \in Threads : job[j].pc = "off" /\ job'[j].pc \in {"off", "queued"}
           /\ Quiet'
<1> USE DEF At
<1>1. Main \in Threads /\ Main \notin Tasks /\ \A t \in Tasks : t \in Threads
  BY DagAssumption DEF Threads
<1>2. ASSUME NEW S \in SUBSET Tasks, RunOnce(S)
      PROVE  /\ \A j \in Threads : job[j].pc = "off" /\ job'[j].pc \in {"off", "queued"}
             /\ Quiet'
  <2>1. \A j \in Threads : job[j].pc = "off"
    BY <1>2 DEF RunOnce, Quiet, Threads
  <2>2. [Idle EXCEPT !.pc = "queued"].pc = "queued" BY DEF Idle
  <2>3. \A j \in Threads : job'[j].pc = IF j \in S THEN "queued" ELSE "off"
    BY <1>2, <2>1, <2>2 DEF RunOnce
  <2>4. main' = "round" BY <1>2 DEF RunOnce
  <2>5. QED BY <1>1, <1>2, <2>1, <2>3, <2>4 DEF Quiet
<1>3. CASE Return \/ NoProgress \/ EndRound \/ EndInvalidate \/ EndCreate \/ Call
  BY <1>1, <1>3 DEF Return, NoProgress, EndRound, EndInvalidate, EndCreate, Call, Quiet,
     Threads
<1>4. ASSUME NEW t \in Tasks, Submit(t) \/ PauseTask(t) \/ ResumeTask(t)
      PROVE  /\ \A j \in Threads : job[j].pc = "off" /\ job'[j].pc \in {"off", "queued"}
             /\ Quiet'
  BY <1>1, <1>4 DEF Submit, CreateTask, PlanTask, ReleaseEntry, PauseTask, ResumeTask,
     Quiet, Threads
<1>5. QED BY <1>2, <1>3, <1>4 DEF CallerStep, Loop

LEMMA QuietNext ==
    ASSUME TypeOK, Quiet, Next
    PROVE  Quiet'
<1> USE DEF At
<1>1. Main \in Threads /\ Main \notin Tasks /\ \A t \in Tasks : t \in Threads
  BY DagAssumption DEF Threads
<1>2. ASSUME NEW j \in Threads, OfThread(j) PROVE Quiet'
  BY <1>1, <1>2 DEF OfThread, Quiet, Threads
<1>3. ASSUME NEW t \in Tasks, InvalidateEvidence(t) PROVE Quiet'
  <2>1. main = "loop" /\ main' = "replan" /\ \A i \in Threads \ {Main} : job'[i] = job[i]
    BY <1>1, <1>3, ReplanEffect DEF InvalidateEvidence
  <2>2. QED BY <1>1, <2>1 DEF Quiet
<1>4. QED
  BY <1>1, <1>2, <1>3, WorkerOfThread, ReplannerOfThread, CallerOfNone
     DEF Next, Control, CallerStep

-----------------------------------------------------------------------------
(* A step of thread j that writes the task x, or none *)

(* No step of the run takes a replan, a crash or a worker from a task: its   *)
(* room only grows.                                                         *)
LEMMA WorkKept ==
    ASSUME RTypeOK, RTypeOK', Up, Up', crashes' = crashes, NEW t \in Tasks, GoodWork(t),
           view'[t] = view[t], Settled(t)' >= Settled(t), Owned(t) => Owned(t)'
    PROVE  GoodWork(t)'
<1>1. /\ Settled(t) \in Int /\ Settled(t)' \in Int /\ Room(t) \in Int /\ Room(t)' \in Int
      /\ Room(t) = MaxRetries + Settled(t) + Reruns(t)
      /\ Room(t)' = MaxRetries + Settled(t)' + Reruns(t)
      /\ MaxRetries \in Nat /\ Reruns(t) \in Nat /\ view[t].attempt \in Nat
  BY RoomType DEF Reruns, RTypeOK, Projection
<1>2. Room(t)' >= Room(t) /\ Settled(t)' >= Settled(t) BY <1>1
<1>3. main' \notin {"down", "resume"} BY DEF Up, MainPc
<1> HIDE DEF GoodWork
<1>4. /\ Settled(t)' >= 0
      /\ view'[t].attempt <= Room(t)' + 1
      /\ Stage(view'[t]) \in NotBegun => view'[t].attempt <= Room(t)'
  BY <1>1, <1>2 DEF GoodWork
<1>5. ~ManualControl /\ view'[t].state \in {"RUNNING", "VERIFYING"} => Owned(t)'
  BY DEF GoodWork
<1>6. QED BY <1>3, <1>4, <1>5 DEF GoodWork

LEMMA ListKept ==
    ASSUME RTypeOK, RTypeOK', crashes' = crashes, NEW j \in Threads, GoodList(j),
           job'[j] = job[j], \A x \in Tasks : Settled(x)' >= Settled(x)
    PROVE  GoodList(j)'
<1>1. \A x \in Tasks : Room(x) \in Int /\ Room(x)' \in Int /\ Room(x)' >= Room(x)
  BY RoomType DEF Reruns
<1>2. job[j].todo \subseteq Tasks /\ job[j].read.attempt \in Nat
  BY DEF RTypeOK, Job, Projection
<1>3. \A x \in Tasks : job[j].read.attempt <= Room(x) => job[j].read.attempt <= Room(x)'
  BY <1>1, <1>2
<1>4. QED BY <1>2, <1>3 DEF GoodList, At, First

LEMMA StepKeeps ==
    ASSUME RTypeOK, RTypeOK', Up, Up', crashes' = crashes, AllGood,
           NEW j \in Threads, NEW x,
           \A u \in Tasks \ {x} : view'[u] = view[u],
           \A i \in Threads \ {j} : job'[i] = job[i],
           \A u \in Tasks : Settled(u)' >= Settled(u),
           j \in Tasks => GoodWork(j)', x \in Tasks => GoodWork(x)', GoodList(j)'
    PROVE  AllGood'
<1>1. ASSUME NEW t \in Tasks PROVE GoodWork(t)'
  <2>1. CASE t = j \/ t = x BY <2>1
  <2>2. CASE t # j /\ t # x
    <3>1. job'[t] = job[t] BY <2>2 DEF Threads
    <3>2. Owned(t) => Owned(t)' BY <3>1 DEF Owned, At, Up, MainPc
    <3>3. QED BY <2>2, <3>2, WorkKept DEF AllGood
  <2>3. QED BY <2>1, <2>2
<1>2. ASSUME NEW i \in Threads PROVE GoodList(i)'
  BY <1>2, ListKept DEF AllGood
<1>3. QED BY <1>1, <1>2 DEF AllGood

(* A thread that resets nothing, before and after, settles nothing. *)
LEMMA SettledKept ==
    ASSUME NEW j \in Threads, \A i \in Threads \ {j} : job'[i] = job[i],
           job[j].pc # "resetting", job'[j].pc # "resetting", replans' = replans, NEW x
    PROVE  Settled(x)' = Settled(x)
<1>1. j \notin Resetters(x) /\ j \notin Resetters(x)' BY DEF Resetters, At
<1>2. Resetters(x)' = Resetters(x) BY <1>1, ResettersOfStep
<1>3. QED BY <1>2 DEF Settled

-----------------------------------------------------------------------------
(* What the commands do to the attempts and the stage of a task *)

LEMMA MoveFacts ==
    ASSUME NEW v \in Projection, NEW s \in {"PLANNED", "READY", "VERIFYING", "SUCCEEDED", "FAILED"}
    PROVE  Moved(v, s).attempt = v.attempt /\ Moved(v, s).state = s /\ Stage(Moved(v, s)) = s
BY DEF Moved, Projection, Stage

LEMMA StartFacts ==
    ASSUME NEW v \in Projection, Legal(v, "RUNNING")
    PROVE  /\ Moved(v, "RUNNING").state = "RUNNING" /\ Stage(Moved(v, "RUNNING")) = "RUNNING"
           /\ \/ Moved(v, "RUNNING").attempt = v.attempt
              \/ v.state = "READY" /\ Moved(v, "RUNNING").attempt = v.attempt + 1
BY DEF Moved, Projection, Stage, Legal, Forward, Pausable

LEMMA PauseFacts ==
    ASSUME NEW v \in Projection
    PROVE  /\ Moved(v, "PAUSED").attempt = v.attempt /\ Moved(v, "PAUSED").state = "PAUSED"
           /\ Stage(Moved(v, "PAUSED")) = v.state
BY DEF Moved, Projection, Stage

LEMMA RecordFacts ==
    ASSUME NEW v \in Projection
    PROVE  /\ Assigned(v).attempt = v.attempt /\ Assigned(v).state = v.state
           /\ Stage(Assigned(v)) = Stage(v)
           /\ WithResult(v).attempt = v.attempt /\ WithResult(v).state = v.state
           /\ Stage(WithResult(v)) = Stage(v)
BY DEF Assigned, WithResult, Projection, Stage

(* The steps of an execution, and what settles a failure without a replan. *)
Executes(t) ==
    \/ Dequeue(t) \/ Assign(t) \/ Start(t) \/ FinishTools(t) \/ Verify(t)
    \/ Succeed(t) \/ Raise(t)
    \/ At(t, "failed") /\ (Retry(t) \/ SafeStop(t))

(* What such a step makes of its task. *)
Outcome(t) ==
    \/ /\ view'[t].attempt = view[t].attempt /\ view'[t].state = view[t].state
       /\ Stage(view'[t]) = Stage(view[t])
       /\ job[t].pc \in {"running", "verify", "passed", "failed"} =>
             \/ job'[t].pc \in {"running", "verify", "passed", "failed"}
             \/ view'[t].state \notin {"RUNNING", "VERIFYING"}
    \/ /\ view'[t].state = "RUNNING" /\ Stage(view'[t]) = "RUNNING"
       /\ job'[t].pc = "running"
       /\ \/ view'[t].attempt = view[t].attempt
          \/ view[t].state = "READY" /\ view'[t].attempt = view[t].attempt + 1
    \/ /\ view'[t].state = "VERIFYING" /\ Stage(view'[t]) = "VERIFYING"
       /\ job'[t].pc = "verify" /\ view'[t].attempt = view[t].attempt
    \/ /\ view'[t].state \in {"SUCCEEDED", "FAILED"} /\ Stage(view'[t]) = view'[t].state
       /\ view'[t].attempt = view[t].attempt
    \/ /\ view'[t].state = "READY" /\ view'[t].attempt = view[t].attempt
       /\ view[t].attempt <= MaxRetries
    \/ /\ view'[t].state = "PAUSED" /\ Stage(view'[t]) = view[t].state
       /\ view[t].state \in Pausable /\ view'[t].attempt = view[t].attempt

LEMMA ExecutesShape ==
    ASSUME TypeOK, NEW t \in Tasks, Executes(t)
    PROVE  /\ job[t].pc # "resetting"
           /\ job'[t].pc \notin {"resetting", "promoting", "rooting"}
           /\ \A i \in Threads \ {t} : job'[i] = job[i]
           /\ \A u \in Tasks \ {t} : view'[u] = view[u]
           /\ replans' = replans
           /\ Outcome(t)
<1> USE DEF At
<1>1. t \in Threads /\ view[t] \in Projection /\ view \in [Tasks -> Projection]
  BY DEF Threads, TypeOK
<1>2. CASE Dequeue(t)
  BY <1>1, <1>2, GoEffect DEF Dequeue, Outcome
<1>3. CASE Assign(t)
  <2>1. CASE view[t].state = "READY"
    <3>1. view'[t] = Assigned(view[t]) /\ job'[t].pc = "assigned"
      BY <1>1, <1>3, <2>1, ViewEffect, GoEffect DEF Assign
    <3>2. Outcome(t) BY <1>1, <1>3, <3>1, RecordFacts DEF Outcome, Assign
    <3>3. QED BY <1>1, <1>3, <2>1, <3>1, <3>2, ViewEffect, GoEffect DEF Assign
  <2>2. CASE view[t].state # "READY"
    BY <1>1, <1>3, <2>2, IdleEffect DEF Assign, Outcome
  <2>3. QED BY <2>1, <2>2
<1>4. CASE Start(t)
  <2>1. CASE Legal(view[t], "RUNNING")
    <3>1. view'[t] = Moved(view[t], "RUNNING") /\ job'[t].pc = "running"
      BY <1>1, <1>4, <2>1, ViewEffect, GoEffect DEF Start
    <3>2. Outcome(t) BY <1>1, <2>1, <3>1, StartFacts DEF Outcome
    <3>3. QED BY <1>1, <1>4, <2>1, <3>1, <3>2, ViewEffect, GoEffect DEF Start
  <2>2. CASE ~Legal(view[t], "RUNNING")
    BY <1>1, <1>4, <2>2, IdleEffect DEF Start, Outcome
  <2>3. QED BY <2>1, <2>2
<1>5. CASE FinishTools(t)
  <2>1. Proceed(t, "VERIFYING", "verify") BY <1>5 DEF FinishTools
  <2>2. Outcome(t) BY <1>1, <2>1, ProceedEffect, MoveFacts DEF Outcome
  <2>3. QED BY <1>5, <2>1, <2>2, ProceedEffect DEF FinishTools
<1>6. CASE Verify(t)
  <2>1. view'[t] = WithResult(view[t]) /\ \A u \in Tasks \ {t} : view'[u] = view[u]
    BY <1>1, <1>6, ViewEffect DEF Verify
  <2>2. job'[t].pc \in {"passed", "failed"} /\ \A i \in Threads \ {t} : job'[i] = job[i]
    BY <1>1, <1>6, GoEffect, FailEffect DEF Verify
  <2>3. Outcome(t) BY <1>1, <2>1, <2>2, RecordFacts DEF Outcome
  <2>4. QED BY <1>6, <2>1, <2>2, <2>3 DEF Verify
<1>7. CASE Succeed(t)
  <2>1. Proceed(t, "SUCCEEDED", "release") BY <1>7 DEF Succeed
  <2>2. Outcome(t) BY <1>1, <2>1, ProceedEffect, MoveFacts DEF Outcome
  <2>3. QED BY <1>7, <2>1, <2>2, ProceedEffect DEF Succeed
<1>8. CASE Raise(t)
  BY <1>1, <1>8, RaisedEffect DEF Raise, Outcome
<1>9. CASE At(t, "failed") /\ Retry(t)
  <2>1. job'[t].pc = "off" /\ \A i \in Threads \ {t} : job'[i] = job[i]
    BY <1>1, <1>9, IdleEffect DEF Retry
  <2>2. \A u \in Tasks \ {t} : view'[u] = view[u]
    BY <1>1, <1>9, ViewEffect DEF Retry
  <2>3. CASE RetryAllowed(t) /\ view[t].state \in Recoverable
    <3>1. view'[t] = Recovered(view[t]) BY <1>1, <1>9, <2>3, ViewEffect DEF Retry
    <3>2. Outcome(t) BY <1>1, <2>3, <3>1, SoundReset DEF Outcome, RetryAllowed
    <3>3. QED BY <1>9, <2>1, <2>2, <3>2 DEF Retry
  <2>4. CASE ~RetryAllowed(t) /\ Legal(view[t], "FAILED")
    <3>1. view'[t] = Moved(view[t], "FAILED") BY <1>1, <1>9, <2>4, ViewEffect DEF Retry
    <3>2. Outcome(t) BY <1>1, <3>1, MoveFacts DEF Outcome
    <3>3. QED BY <1>9, <2>1, <2>2, <3>2 DEF Retry
  <2>5. CASE /\ ~(RetryAllowed(t) /\ view[t].state \in Recoverable)
             /\ ~(~RetryAllowed(t) /\ Legal(view[t], "FAILED"))
    <3>1. view[t].state \notin {"RUNNING", "VERIFYING"}
      BY <2>5 DEF Recoverable, Legal, Failable, TaskState
    <3>2. view' = view BY <1>9, <2>5 DEF Retry
    <3>3. QED BY <1>9, <2>1, <3>1, <3>2 DEF Outcome, Retry
  <2>6. QED BY <2>3, <2>4, <2>5
<1>10. CASE At(t, "failed") /\ SafeStop(t)
  <2>1. /\ job'[t].pc = "off" /\ \A i \in Threads \ {t} : job'[i] = job[i]
        /\ replans' = replans
    BY <1>1, <1>10, IdleEffect DEF SafeStop
  <2>2. CASE Legal(view[t], "PAUSED")
    <3>1. view'[t] = Moved(view[t], "PAUSED") /\ \A u \in Tasks \ {t} : view'[u] = view[u]
      BY <1>1, <1>10, <2>2, ViewEffect DEF SafeStop
    <3>2. view[t].state \in Pausable BY <2>2 DEF Legal, Forward, Pausable
    <3>3. Outcome(t) BY <1>1, <3>1, <3>2, PauseFacts DEF Outcome
    <3>4. QED BY <1>10, <2>1, <3>1, <3>3
  <2>3. CASE ~Legal(view[t], "PAUSED")
    <3>1. view[t].state \notin {"RUNNING", "VERIFYING"} BY <2>3 DEF Legal, Pausable
    <3>2. view' = view BY <1>10, <2>3 DEF SafeStop
    <3>3. QED BY <1>10, <2>1, <3>1, <3>2 DEF Outcome
  <2>4. QED BY <2>2, <2>3
<1>11. QED BY <1>2, <1>3, <1>4, <1>5, <1>6, <1>7, <1>8, <1>9, <1>10 DEF Executes

(* What holds throughout a step of the run. *)
Running ==
    /\ RTypeOK /\ RTypeOK' /\ TypeOK /\ Quiet /\ Up /\ Up' /\ crashes' = crashes
    /\ AllGood

LEMMA ExecutesGood ==
    ASSUME Running, NEW t \in Tasks, Executes(t)
    PROVE  AllGood'
<1> USE DEF Running
<1>1. t \in Threads /\ GoodWork(t) BY DEF Threads, AllGood
<1>2. /\ job[t].pc # "resetting"
      /\ job'[t].pc \notin {"resetting", "promoting", "rooting"}
      /\ \A i \in Threads \ {t} : job'[i] = job[i]
      /\ \A u \in Tasks \ {t} : view'[u] = view[u]
      /\ replans' = replans
      /\ Outcome(t)
  BY ExecutesShape
<1>3. \A u \in Tasks : Settled(u)' = Settled(u) BY <1>1, <1>2, SettledKept
<1>4. /\ Room(t)' = Room(t) /\ Room(t) \in Int /\ Settled(t) \in Int
      /\ view[t].attempt \in Nat /\ view'[t].attempt \in Nat
      /\ MaxRetries \in Nat /\ Reruns(t) \in Nat
      /\ Room(t) = MaxRetries + Settled(t) + Reruns(t) /\ Settled(t) >= 0
  BY <1>1, <1>3, RoomType DEF Reruns, RTypeOK, Projection, GoodWork
<1>5. MaxRetries <= Room(t) BY <1>4
<1>6. ~ManualControl /\ view[t].state \in {"RUNNING", "VERIFYING"} =>
         job[t].pc \in {"running", "verify", "passed", "failed"}
  BY <1>1, <1>2 DEF GoodWork, Owned, At, Up, MainPc
<1>7. ~ManualControl /\ view'[t].state \in {"RUNNING", "VERIFYING"} =>
         job'[t].pc \in {"running", "verify", "passed", "failed"}
  BY <1>2, <1>6 DEF Outcome
<1>8. /\ view'[t].attempt <= Room(t) + 1
      /\ Stage(view'[t]) \in NotBegun => view'[t].attempt <= Room(t)
  <2>1. view[t].attempt <= Room(t) + 1 BY <1>1 DEF GoodWork
  <2>2. Stage(view[t]) \in NotBegun => view[t].attempt <= Room(t) BY <1>1 DEF GoodWork
  <2>3. view[t].state \in NotBegun => Stage(view[t]) = view[t].state
    BY DEF Stage, NotBegun, Absent
  <2>4. "READY" \in NotBegun /\ {"RUNNING", "VERIFYING", "SUCCEEDED", "FAILED"}
          \cap NotBegun = {}
    BY DEF NotBegun, Absent
  <2>5. CASE view'[t].state = "READY" /\ view'[t].attempt = view[t].attempt
             /\ view[t].attempt <= MaxRetries
    BY <1>4, <1>5, <2>5
  <2>6. CASE view[t].state = "READY" /\ view'[t].attempt = view[t].attempt + 1
             /\ Stage(view'[t]) = "RUNNING"
    BY <1>4, <2>2, <2>3, <2>4, <2>6
  <2>7. CASE /\ view'[t].attempt = view[t].attempt
             /\ \/ Stage(view'[t]) \in {"RUNNING", "VERIFYING", "SUCCEEDED", "FAILED"}
                \/ Stage(view'[t]) \in {Stage(view[t]), view[t].state}
    BY <1>4, <2>1, <2>2, <2>3, <2>4, <2>7
  <2>8. QED BY <1>2, <2>5, <2>6, <2>7 DEF Outcome
<1>9. GoodWork(t)'
  <2>1. main' \notin {"down", "resume"} BY DEF Up, MainPc
  <2>2. ~ManualControl /\ view'[t].state \in {"RUNNING", "VERIFYING"} => Owned(t)'
    BY <1>7 DEF Owned
  <2>3. Settled(t)' >= 0 BY <1>3, <1>4
  <2>4. QED BY <1>4, <1>8, <2>1, <2>2, <2>3 DEF GoodWork
<1>10. GoodList(t)' BY <1>2 DEF GoodList, At
<1>11. \A u \in Tasks : Settled(u)' >= Settled(u) BY <1>3, RoomType
<1>12. QED BY <1>1, <1>2, <1>9, <1>10, <1>11, StepKeeps

(* A replan of t begins in a thread that resets nothing yet. *)
LEMMA ReplanGrows ==
    ASSUME Running, NEW j \in Threads, NEW t \in Tasks, Replan(j, t),
           job[j].pc # "resetting", j \in Tasks => j = t
    PROVE  AllGood'
<1> USE DEF At, Running
<1>1. /\ view' = view /\ job'[j].pc = "resetting" /\ job'[j].todo = Impact(t)
      /\ \A i \in Threads \ {j} : job'[i] = job[i]
      /\ replans' = replans + 1
  BY ReplanEffect DEF Replan
<1>2. ASSUME NEW u \in Tasks PROVE Settled(u)' >= Settled(u)
  <2>1. j \notin Resetters(u) BY DEF Resetters
  <2>2. \/ Cardinality(Resetters(u)') = Cardinality(Resetters(u))
        \/ Cardinality(Resetters(u)') = Cardinality(Resetters(u)) + 1
    <3>1. CASE j \in Resetters(u)' BY <1>1, <2>1, <3>1, ResettersOfStep, CountMoves
    <3>2. CASE j \notin Resetters(u)' BY <1>1, <2>1, <3>2, ResettersOfStep
    <3>3. QED BY <3>1, <3>2
  <2>3. replans \in Nat /\ Cardinality(Resetters(u)) \in Nat
        /\ Cardinality(Resetters(u)') \in Nat
    BY CountType DEF RTypeOK
  <2>4. QED BY <1>1, <2>2, <2>3 DEF Settled
<1>3. ASSUME j \in Tasks PROVE GoodWork(j)'
  <2>1. Owned(j) => Owned(j)' \/ view[j].state \notin {"RUNNING", "VERIFYING"}
    <3>1. j \in Impact(t) \/ view[j].state = Absent
      BY <1>3, AffectedClosed DEF Impact, In
    <3>2. QED BY <1>1, <3>1 DEF Owned, Absent
  <2>2. CASE Owned(j) => Owned(j)' BY <1>1, <1>2, <1>3, <2>2, WorkKept DEF AllGood
  <2>3. CASE view[j].state \notin {"RUNNING", "VERIFYING"}
    <3>1. /\ Settled(j) \in Int /\ Settled(j)' \in Int
          /\ Room(j) \in Int /\ Room(j)' \in Int
          /\ Room(j) = MaxRetries + Settled(j) + Reruns(j)
          /\ Room(j)' = MaxRetries + Settled(j)' + Reruns(j)
          /\ MaxRetries \in Nat /\ Reruns(j) \in Nat /\ view[j].attempt \in Nat
      BY <1>3, RoomType DEF Reruns, RTypeOK, Projection
    <3>2. Room(j)' >= Room(j) /\ Settled(j)' >= Settled(j) BY <1>2, <1>3, <3>1
    <3>3. main' \notin {"down", "resume"} BY DEF Up, MainPc
    <3>4. GoodWork(j) BY <1>3 DEF AllGood
    <3>5. /\ Settled(j)' >= 0
          /\ view'[j].attempt <= Room(j)' + 1
          /\ Stage(view'[j]) \in NotBegun => view'[j].attempt <= Room(j)'
      BY <1>1, <3>1, <3>2, <3>4 DEF GoodWork
    <3>6. QED BY <1>1, <2>3, <3>3, <3>5 DEF GoodWork
  <2>4. QED BY <2>1, <2>2, <2>3
<1>4. GoodList(j)' BY <1>1 DEF GoodList
<1>5. Main \notin Tasks /\ \A u \in Tasks \ {Main} : view'[u] = view[u]
  BY <1>1, DagAssumption
<1>6. QED BY <1>1, <1>2, <1>3, <1>4, <1>5, StepKeeps

(* The task a loop reads is the task it then writes. *)
LEMMA FirstIsOne ==
    ASSUME NEW S \in SUBSET Tasks, NEW order \in {ListOrder, IdOrder},
           NEW x \in First(S, order), NEW y \in First(S, order)
    PROVE  x = y
<1>1. order[x] \in Nat /\ order[y] \in Nat BY DagAssumption DEF First
<1>2. order[x] <= order[y] /\ order[y] <= order[x] BY DEF First
<1>3. order[x] = order[y] BY <1>1, <1>2
<1>4. QED BY <1>3, OrderAssumption DEF First

LEMMA CheckReadyList ==
    ASSUME TypeOK, NEW j \in Threads, NEW at, NEW next, NEW order,
           CheckReady(j, at, next, order)
    PROVE  /\ replans' = replans
           /\ \/ job'[j].pc = "off"
              \/ \E x \in First(job[j].todo, order) :
                    /\ Legal(view[x], "READY") /\ job'[j].read = view[x]
                    /\ job'[j].todo = job[j].todo /\ job'[j].pc = next
<1>1. PICK x \in First(job[j].todo, order) :
         IF Legal(view[x], "READY")
         THEN job' = [job EXCEPT ![j].pc = next, ![j].read = view[x]]
         ELSE Become(j, Idle)
  BY DEF CheckReady
<1>2. replans' = replans BY DEF CheckReady
<1>3. CASE Become(j, Idle) BY <1>2, <1>3, IdleEffect
<1>4. CASE Legal(view[x], "READY")
  <2> DEFINE r == [job[j] EXCEPT !.pc = next, !.read = view[x]]
  <2>1. job[j] \in Job BY DEF TypeOK
  <2>2. r.pc = next /\ r.todo = job[j].todo /\ r.read = view[x] BY <2>1 DEF Job
  <2>3. job' = [job EXCEPT ![j] = r] BY <1>1, <1>4
  <2> HIDE DEF r
  <2>4. job'[j] = r BY <2>3, JobEffect
  <2>5. QED BY <1>1, <1>2, <1>4, <2>2, <2>4
<1>5. QED BY <1>1, <1>3, <1>4

Reads(j) ==
    \/ j \in Tasks /\ (Snapshot(j) \/ EndRelease(j))
    \/ Refresh(j) \/ EndReplan(j)
    \/ CheckReady(j, "releasing", "promoting", ListOrder)
    \/ CheckReady(j, "roots", "rooting", IdOrder)

LEMMA ReadsGood ==
    ASSUME Running, NEW j \in Threads, Reads(j)
    PROVE  AllGood'
<1> USE DEF At, Running
<1>1. /\ view' = view /\ replans' = replans
      /\ job[j].pc \in {"release", "releasing", "refresh", "roots"}
      /\ job'[j].pc \in {"releasing", "promoting", "roots", "rooting", "off"}
      /\ \A i \in Threads \ {j} : job'[i] = job[i]
  <2>1. CASE j \in Tasks /\ Snapshot(j) BY <2>1, SnapshotEffect DEF Snapshot
  <2>2. CASE EndRelease(j) \/ EndReplan(j)
    BY <2>2, IdleEffect DEF EndRelease, EndReplan
  <2>3. CASE Refresh(j) BY <2>3, RefreshEffect DEF Refresh
  <2>4. CASE \/ CheckReady(j, "releasing", "promoting", ListOrder)
             \/ CheckReady(j, "roots", "rooting", IdOrder)
    BY <2>4, CheckReadyEffect, CheckReadyList
  <2>5. QED BY <2>1, <2>2, <2>3, <2>4 DEF Reads
<1>2. \A u \in Tasks : Settled(u)' = Settled(u) BY <1>1, SettledKept
<1>3. \A u \in Tasks : Settled(u)' >= Settled(u) BY <1>2, RoomType
<1>4. j \in Tasks => GoodWork(j)'
  BY <1>1, <1>3, WorkKept DEF AllGood, Owned, Up, MainPc
<1>5. \A x \in Tasks : Legal(view[x], "READY") => view[x].attempt <= Room(x)'
  <2>1. \A x \in Tasks : view[x] \in Projection /\ Room(x)' = Room(x)
    BY <1>2, RoomType DEF RTypeOK, Reruns
  <2>2. QED BY <2>1, ReadyFromNotBegun DEF AllGood, GoodWork
<1>6. job[j].todo \subseteq Tasks BY DEF RTypeOK, Job
<1>7. ASSUME NEW order \in {ListOrder, IdOrder}, NEW next,
             NEW x \in First(job[j].todo, order), Legal(view[x], "READY"),
             job'[j].read = view[x], job'[j].todo = job[j].todo,
             NEW y \in First(job'[j].todo, order)
      PROVE  job'[j].read.attempt <= Room(y)'
  BY <1>5, <1>6, <1>7, FirstIsOne DEF First
<1>8. GoodList(j)'
  <2>1. CASE job'[j].pc \notin {"promoting", "rooting"} BY <2>1 DEF GoodList
  <2>2. CASE CheckReady(j, "releasing", "promoting", ListOrder)
    <3>1. CASE job'[j].pc = "off" BY <3>1 DEF GoodList
    <3>2. CASE job'[j].pc # "off"
      <4>1. PICK x \in First(job[j].todo, ListOrder) :
              /\ Legal(view[x], "READY") /\ job'[j].read = view[x]
              /\ job'[j].todo = job[j].todo /\ job'[j].pc = "promoting"
        BY <2>2, <3>2, CheckReadyList
      <4>2. QED BY <1>7, <4>1 DEF GoodList
    <3>3. QED BY <3>1, <3>2
  <2>3. CASE CheckReady(j, "roots", "rooting", IdOrder)
    <3>1. CASE job'[j].pc = "off" BY <3>1 DEF GoodList
    <3>2. CASE job'[j].pc # "off"
      <4>1. PICK x \in First(job[j].todo, IdOrder) :
              /\ Legal(view[x], "READY") /\ job'[j].read = view[x]
              /\ job'[j].todo = job[j].todo /\ job'[j].pc = "rooting"
        BY <2>3, <3>2, CheckReadyList
      <4>2. QED BY <1>7, <4>1 DEF GoodList
    <3>3. QED BY <3>1, <3>2
  <2>4. CASE /\ ~CheckReady(j, "releasing", "promoting", ListOrder)
             /\ ~CheckReady(j, "roots", "rooting", IdOrder)
    <3>1. job'[j].pc \in {"releasing", "roots", "off"}
      BY <2>4, SnapshotEffect, IdleEffect, RefreshEffect
         DEF Reads, EndRelease, EndReplan
    <3>2. QED BY <2>1, <3>1
  <2>5. QED BY <2>2, <2>3, <2>4
<1>9. Main \notin Tasks /\ \A u \in Tasks \ {Main} : view'[u] = view[u]
  BY <1>1, DagAssumption
<1>10. QED BY <1>1, <1>3, <1>4, <1>8, <1>9, StepKeeps

LEMMA WriteReadyWithin ==
    ASSUME Running, NEW j \in Threads, NEW at, NEW next, NEW order,
           WriteReady(j, at, next, order),
           \/ at = "promoting" /\ next = "releasing" /\ order = ListOrder
           \/ at = "rooting" /\ next = "roots" /\ order = IdOrder
    PROVE  AllGood'
<1> USE DEF At, Running
<1>1. PICK x \in First(job[j].todo, order) :
        /\ Store(x, Moved(job[j].read, "READY"))
        /\ job' = [job EXCEPT ![j].pc = next, ![j].todo = @ \ {x}, ![j].read = Blank]
  BY DEF WriteReady
<1>2. /\ x \in Tasks /\ job[j].read \in Projection /\ job[j] \in Job
      /\ job[j].pc = at /\ replans' = replans
  BY <1>1 DEF WriteReady, First, RTypeOK, Job
<1>3. /\ view'[x] = Moved(job[j].read, "READY")
      /\ \A u \in Tasks \ {x} : view'[u] = view[u]
  BY <1>1, <1>2, ViewEffect
<1>4. job'[j].pc = next /\ \A i \in Threads \ {j} : job'[i] = job[i]
  BY WriteReadyEffect
<1>5. \A u \in Tasks : Settled(u)' = Settled(u) BY <1>2, <1>4, SettledKept
<1>6. \A u \in Tasks : Settled(u)' >= Settled(u) BY <1>5, RoomType
<1>7. Room(x)' = Room(x) /\ Room(x) \in Int BY <1>2, <1>5, RoomType DEF Reruns
<1>8. job[j].read.attempt <= Room(x) /\ job[j].read.attempt \in Nat
  BY <1>1, <1>2 DEF AllGood, GoodList, Projection
<1>9. view'[x].attempt = job[j].read.attempt /\ view'[x].state = "READY"
  BY <1>2, <1>3, MoveFacts
<1>10. GoodWork(x)'
  <2>1. view'[x].attempt <= Room(x)' /\ view'[x].attempt <= Room(x)' + 1
    BY <1>7, <1>8, <1>9
  <2>2. Settled(x)' >= 0 BY <1>2, <1>5 DEF AllGood, GoodWork
  <2>3. QED BY <1>9, <2>1, <2>2 DEF GoodWork
<1>11. j \in Tasks /\ j # x => GoodWork(j)'
  BY <1>2, <1>3, <1>4, <1>6, WorkKept DEF AllGood, Owned, Up, MainPc
<1>12. GoodList(j)' BY <1>4 DEF GoodList
<1>13. QED BY <1>3, <1>4, <1>6, <1>10, <1>11, <1>12, StepKeeps

(* A reset settles one replan for its task. *)
LEMMA ResetSettles ==
    ASSUME Running, NEW j \in Threads, ResetOne(j)
    PROVE  AllGood'
<1> USE DEF At, Running
<1>1. PICK x \in job[j].todo \cap Tasks :
        /\ view'[x] = Replanned(view[x])
        /\ \A u \in Tasks \ {x} : view'[u] = view[u]
        /\ \A i \in Threads \ {j} : job'[i] = job[i]
        /\ job'[j].todo = job[j].todo \ {x}
        /\ job'[j].pc = IF job[j].todo = {x} THEN "refresh" ELSE "resetting"
        /\ job[j].pc = "resetting" /\ replans' = replans
  BY ResetStores
<1>2. j \in Resetters(x) /\ j \notin Resetters(x)' BY <1>1 DEF Resetters
<1>3. Cardinality(Resetters(x)') = Cardinality(Resetters(x)) - 1
  BY <1>1, <1>2, ResettersOfStep, CountMoves
<1>4. Settled(x)' = Settled(x) + 1
  <2>1. replans \in Nat /\ Cardinality(Resetters(x)) \in Nat BY CountType DEF RTypeOK
  <2>2. QED BY <1>1, <1>3, <2>1 DEF Settled
<1>5. ASSUME NEW u \in Tasks \ {x} PROVE Settled(u)' = Settled(u)
  <2>1. (j \in Resetters(u)') = (j \in Resetters(u)) BY <1>1 DEF Resetters
  <2>2. Resetters(u)' = Resetters(u) BY <1>1, <2>1, ResettersOfStep
  <2>3. QED BY <1>1, <2>2 DEF Settled
<1>6. \A u \in Tasks : Settled(u)' >= Settled(u)
  BY <1>4, <1>5, RoomType
<1>7. /\ view'[x].attempt = view[x].attempt /\ view'[x].state = "PLANNED"
      /\ view[x].attempt \in Nat
  BY <1>1, SoundReset DEF RTypeOK, Projection
<1>8. /\ Room(x)' = Room(x) + 1 /\ Room(x) \in Int
      /\ Settled(x) \in Int
  BY <1>4, RoomType DEF Reruns
<1>9. GoodWork(x)'
  <2>1. view[x].attempt <= Room(x) + 1 /\ Settled(x) >= 0 BY <1>1 DEF AllGood, GoodWork
  <2>2. /\ view'[x].attempt <= Room(x)' /\ view'[x].attempt <= Room(x)' + 1
        /\ Settled(x)' >= 0
    BY <1>4, <1>7, <1>8, <2>1
  <2>3. QED BY <1>7, <2>2 DEF GoodWork
<1>10. j \in Tasks /\ j # x => GoodWork(j)'
  <2>1. SUFFICES ASSUME j \in Tasks, j # x PROVE GoodWork(j)' OBVIOUS
  <2>2. Owned(j) => Owned(j)' BY <1>1, <2>1 DEF Owned, Up, MainPc
  <2>3. QED BY <1>1, <1>6, <2>1, <2>2, WorkKept DEF AllGood
<1>11. GoodList(j)' BY <1>1 DEF GoodList
<1>12. QED BY <1>1, <1>6, <1>9, <1>10, <1>11, StepKeeps

LEMMA CallerWithin ==
    ASSUME Running, CallerStep
    PROVE  AllGood'
<1> USE DEF Running
<1>1. \A j \in Threads : job[j].pc = "off" /\ job'[j].pc \in {"off", "queued"}
  BY CallerOfNone
<1>2. \A j \in Threads : GoodList(j)' BY <1>1 DEF GoodList, At
<1>3. replans' = replans
  BY DEF CallerStep, EndCreate, Call, Loop, Return, NoProgress, EndRound, EndInvalidate,
     RunOnce, Submit, CreateTask, PlanTask, ReleaseEntry, PauseTask, ResumeTask
<1>4. \A u \in Tasks : Resetters(u) = {} /\ Resetters(u)' = {}
  BY <1>1 DEF Resetters, At
<1>5. \A u \in Tasks : Settled(u)' = Settled(u) /\ Settled(u)' >= Settled(u)
  <2>1. \A u \in Tasks : Settled(u)' = Settled(u) BY <1>3, <1>4 DEF Settled
  <2>2. QED BY <2>1, RoomType
<1>6. ASSUME NEW u \in Tasks, view'[u] = view[u] PROVE GoodWork(u)'
  BY <1>1, <1>5, <1>6, WorkKept DEF AllGood, Owned, Up, MainPc, At, Threads
<1>7. CASE ~\E t \in Tasks : Submit(t) \/ PauseTask(t) \/ ResumeTask(t)
  <2>1. view' = view
    BY <1>7 DEF CallerStep, EndCreate, Call, Loop, Return, NoProgress, EndRound,
       EndInvalidate, RunOnce
  <2>2. QED BY <1>2, <1>6, <2>1 DEF AllGood
<1>8. ASSUME NEW t \in Tasks, Submit(t) \/ PauseTask(t) \/ ResumeTask(t)
      PROVE  AllGood'
  <2>1. /\ view[t] \in Projection /\ GoodWork(t) /\ view[t].attempt \in Nat
        /\ Room(t)' = Room(t) /\ Room(t) \in Int /\ Settled(t) \in Int
        /\ Settled(t)' >= 0 /\ MaxRetries \in Nat /\ Reruns(t) \in Nat
        /\ Room(t) = MaxRetries + Settled(t) + Reruns(t)
    BY <1>5, RoomType DEF AllGood, GoodWork, Reruns, RTypeOK, Projection
  <2>2. main' \notin {"down", "resume"} BY DEF Up, MainPc
  <2>3. SUFFICES ASSUME TRUE
                 PROVE  /\ \A u \in Tasks \ {t} : view'[u] = view[u]
                        /\ view'[t].attempt <= Room(t) + 1
                        /\ Stage(view'[t]) \in NotBegun => view'[t].attempt <= Room(t)
                        /\ ~ManualControl => view'[t].state \notin {"RUNNING", "VERIFYING"}
    <3>1. GoodWork(t)' BY <2>1, <2>2, <2>3 DEF GoodWork
    <3>2. QED BY <1>2, <1>6, <2>3, <3>1 DEF AllGood
  <2>4. CASE CreateTask(t)
    <3>1. view'[t] = Created /\ \A u \in Tasks \ {t} : view'[u] = view[u]
      BY <2>4, ViewEffect DEF CreateTask
    <3>2. Created.attempt = 0 /\ Created.state = "CREATED" BY DEF Created, Blank
    <3>3. 0 <= Room(t) BY <2>1, <1>5 DEF GoodWork
    <3>4. QED BY <2>1, <3>1, <3>2, <3>3
  <2>5. CASE PlanTask(t) \/ ReleaseEntry(t)
    <3>1. PICK s \in {"PLANNED", "READY"} : view'[t] = Moved(view[t], s)
                                         /\ \A u \in Tasks \ {t} : view'[u] = view[u]
      BY <2>5, ViewEffect DEF PlanTask, ReleaseEntry
    <3>2. Stage(view[t]) \in NotBegun
      BY <2>5 DEF PlanTask, ReleaseEntry, Stage, NotBegun
    <3>3. view'[t].attempt = view[t].attempt /\ view'[t].state = s
      BY <2>1, <3>1, MoveFacts
    <3>4. QED BY <2>1, <3>1, <3>2, <3>3 DEF GoodWork
  <2>6. CASE PauseTask(t)
    <3>1. view'[t] = Moved(view[t], "PAUSED") /\ \A u \in Tasks \ {t} : view'[u] = view[u]
      BY <2>6, ViewEffect DEF PauseTask
    <3>2. /\ view'[t].attempt = view[t].attempt /\ ManualControl
          /\ Stage(view'[t]) = Stage(view[t])
      BY <2>1, <2>6, <3>1, PauseFacts, PauseKeepsStage DEF PauseTask
    <3>3. QED BY <2>1, <3>1, <3>2 DEF GoodWork
  <2>7. CASE ResumeTask(t)
    <3>1. /\ view'[t] = Moved(view[t], view[t].pausedFrom)
          /\ \A u \in Tasks \ {t} : view'[u] = view[u]
      BY <2>7, ViewEffect DEF ResumeTask
    <3>2. /\ view'[t].attempt = view[t].attempt /\ ManualControl
          /\ Stage(view'[t]) = Stage(view[t])
      BY <2>1, <2>7, <3>1, ResumeKeepsStage DEF ResumeTask, Moved, Projection
    <3>3. QED BY <2>1, <3>1, <3>2 DEF GoodWork
  <2>8. QED BY <1>8, <2>4, <2>5, <2>6, <2>7 DEF Submit
<1>9. QED BY <1>7, <1>8

LEMMA RunGood ==
    ASSUME RInductive, Run
    PROVE  RInductive'
<1>1. /\ Up /\ Up' /\ TypeOK /\ TypeOK' /\ RTypeOK' /\ crashes' = crashes
      /\ resuming = {} /\ resuming' = {}
  BY RunTypes
<1>2. Next /\ RTypeOK /\ Quiet /\ AllGood BY RInductiveParts DEF Run
<1>3. Running BY <1>1, <1>2 DEF Running
<1>4. Quiet' BY <1>1, <1>2, QuietNext
<1>5. Interrupted' BY <1>1 DEF Interrupted
<1>6. ASSUME NEW t \in Tasks, Worker(t) PROVE AllGood'
  <2>1. t \in Threads BY DEF Threads
  <2>2. CASE ReleaseDependents(t)
    BY <1>3, <2>1, <2>2, ReadsGood, WriteReadyWithin DEF ReleaseDependents, Reads
  <2>3. CASE Recover(t) /\ Replan(t, t)
    BY <1>3, <2>1, <2>3, ReplanGrows DEF Recover, At
  <2>4. CASE ~ReleaseDependents(t) /\ ~(Recover(t) /\ Replan(t, t))
    <3>1. Executes(t) BY <1>6, <2>4 DEF Worker, Recover, Executes
    <3>2. QED BY <1>3, <3>1, ExecutesGood
  <2>5. QED BY <2>2, <2>3, <2>4
<1>7. ASSUME NEW j \in Threads, ReplanTasks(j) PROVE AllGood'
  BY <1>3, <1>7, ReadsGood, WriteReadyWithin, ResetSettles DEF ReplanTasks, Reads
<1>8. ASSUME NEW t \in Tasks, InvalidateEvidence(t) PROVE AllGood'
  <2>1. Main \in Threads /\ Main \notin Tasks BY DagAssumption DEF Threads
  <2>2. job[Main].pc = "off" BY <1>2, <1>8 DEF InvalidateEvidence, Quiet, At
  <2>3. QED BY <1>3, <1>8, <2>1, <2>2, ReplanGrows DEF InvalidateEvidence
<1>9. ASSUME CallerStep PROVE AllGood' BY <1>3, <1>9, CallerWithin
<1>10. AllGood'
  BY <1>2, <1>6, <1>7, <1>8, <1>9 DEF Next, Control, CallerStep
<1>11. RTypeOK' /\ Quiet' /\ Interrupted' /\ AllGood' BY <1>1, <1>4, <1>5, <1>10
<1>12. QED BY <1>11, RInductiveParts, PTL

-----------------------------------------------------------------------------
(* The steps of a crash and of the resume after it *)

(* A task that may be run again after a crash gains an attempt by it. *)
LEMMA CrashGood ==
    ASSUME RInductive, Crash
    PROVE  RInductive'
<1>1. RTypeOK /\ Quiet /\ AllGood BY RInductiveParts
<1>2. /\ main' = "down" /\ resuming' = {} /\ view' = view /\ replans' = replans
      /\ crashes' = crashes + 1 /\ rounds' = 0
      /\ \A j \in Threads : job'[j] = Idle
  BY DEF Crash
<1>3. RTypeOK'
  <2>1. job' \in [Threads -> Job] BY IdleType DEF Crash
  <2>2. 0 \in 0 .. MaxRounds BY ConfigAssumption
  <2>3. QED BY <1>1, <1>2, <2>1, <2>2 DEF RTypeOK
<1>4. \A j \in Threads : job'[j].pc = "off" BY <1>2 DEF Idle
<1>5. Quiet' BY <1>4 DEF Quiet, At, Threads
<1>6. Interrupted' BY <1>2 DEF Interrupted
<1>7. \A j \in Threads : GoodList(j)' BY <1>4 DEF GoodList, At
<1>8. ASSUME NEW t \in Tasks PROVE GoodWork(t)'
  <2>1. Resetters(t)' = {} BY <1>4 DEF Resetters, At
  <2>2. /\ Settled(t)' = replans /\ Settled(t) <= replans /\ replans \in Nat
        /\ Settled(t) \in Int
    <3>1. Cardinality(Resetters(t)') = 0 BY <2>1, FS_EmptySet
    <3>2. replans \in Nat /\ Cardinality(Resetters(t)) \in Nat
      BY <1>1, CountType DEF RTypeOK
    <3>3. Settled(t)' = replans BY <1>2, <3>1, <3>2 DEF Settled
    <3>4. QED BY <3>2, <3>3 DEF Settled
  <2>3. Reruns(t)' = IF ManualControl \/ t \notin SideEffecting THEN Reruns(t) + 1
                                                                ELSE Reruns(t)
    BY <1>2 DEF Reruns
  <2>4. /\ MaxRetries \in Nat /\ Reruns(t) \in Nat
        /\ Room(t) = MaxRetries + Settled(t) + Reruns(t)
        /\ Room(t)' = MaxRetries + Settled(t)' + Reruns(t)'
    BY <1>1, <1>3, RoomType
  <2>5. view[t].attempt \in Nat BY <1>1 DEF RTypeOK, Projection
  <2>6. /\ Room(t)' >= Room(t) /\ Room(t)' \in Int /\ Room(t) \in Int
        /\ ManualControl \/ t \notin SideEffecting => Room(t)' >= Room(t) + 1
    BY <2>2, <2>3, <2>4
  <2>7. /\ view[t].attempt <= Room(t) + 1
        /\ Stage(view[t]) \in NotBegun => view[t].attempt <= Room(t)
    BY <1>1 DEF AllGood, GoodWork
  <2>8. /\ Settled(t)' >= 0
        /\ view[t].attempt <= Room(t)' + 1
        /\ Stage(view[t]) \in NotBegun => view[t].attempt <= Room(t)'
        /\ ManualControl \/ t \notin SideEffecting => view[t].attempt <= Room(t)'
    BY <2>2, <2>5, <2>6, <2>7
  <2>9. Owned(t)' BY <1>2 DEF Owned
  <2>10. QED BY <1>2, <2>8, <2>9 DEF GoodWork
<1>9. RTypeOK' /\ Quiet' /\ Interrupted' /\ AllGood'
  BY <1>3, <1>5, <1>6, <1>7, <1>8 DEF AllGood
<1>10. QED BY <1>9, RInductiveParts, PTL

(* While nothing runs no thread resets anything, so no room changes. *)
LEMMA ResumeRooms ==
    ASSUME Resume \/ ResumeOne \/ EndResume, NEW t
    PROVE  Settled(t)' = Settled(t) /\ Room(t)' = Room(t)
<1>1. job' = job /\ replans' = replans /\ crashes' = crashes
  BY DEF Resume, ResumeOne, EndResume
<1>2. Resetters(t)' = Resetters(t) BY <1>1 DEF Resetters, At
<1>3. QED BY <1>1, <1>2 DEF Settled, Room, Reruns

LEMMA ResumeGood ==
    ASSUME RInductive, Resume \/ ResumeOne \/ EndResume
    PROVE  RInductive'
<1>1. RTypeOK /\ Quiet /\ Interrupted /\ AllGood BY RInductiveParts
<1>2. /\ main \in {"down", "resume"} /\ main' \in {"resume", "loop"}
      /\ job' = job /\ replans' = replans /\ crashes' = crashes
      /\ rounds' \in {0, rounds}
  BY DEF Resume, ResumeOne, EndResume
<1>3. \A j \in Threads : job[j].pc = "off" BY <1>1, <1>2 DEF Quiet, At, Threads
<1>4. Quiet' BY <1>2, <1>3 DEF Quiet, At, Threads
<1>5. \A j \in Threads : GoodList(j)' BY <1>2, <1>3 DEF GoodList, At
<1>6. 0 \in 0 .. MaxRounds BY ConfigAssumption
<1>7. ASSUME NEW t \in Tasks, view'[t] = view[t],
             ~ManualControl /\ view[t].state \in {"RUNNING", "VERIFYING"} => Owned(t)'
      PROVE  GoodWork(t)'
  BY <1>1, <1>2, <1>7, ResumeRooms DEF AllGood, GoodWork
<1>8. CASE Resume
  <2>1. /\ view' = view /\ main' = "resume"
        /\ resuming' = In("RUNNING") \cup In("VERIFYING")
    BY <1>8 DEF Resume
  <2>2. RTypeOK' BY <1>1, <1>2, <1>6, <2>1 DEF RTypeOK, In
  <2>3. Interrupted' BY <2>1 DEF Interrupted, In
  <2>4. \A t \in Tasks : GoodWork(t)' BY <1>7, <2>1 DEF Owned, In
  <2>5. RTypeOK' /\ Quiet' /\ Interrupted' /\ AllGood'
    BY <1>4, <1>5, <2>2, <2>3, <2>4 DEF AllGood
  <2>6. QED BY <2>5, RInductiveParts, PTL
<1>9. CASE ResumeOne
  <2> DEFINE next(t) == IF t \in SideEffecting THEN Moved(view[t], "PAUSED")
                                                ELSE Recovered(view[t])
  <2>1. PICK t \in First(resuming, ListOrder) :
          /\ Store(t, next(t))
          /\ resuming' = resuming \ {t}
    BY <1>9 DEF ResumeOne
  <2>2. main = "resume" /\ main' = "resume" BY <1>9 DEF ResumeOne
  <2>3. /\ t \in resuming /\ t \in Tasks /\ view[t] \in Projection
        /\ view[t].state \in {"RUNNING", "VERIFYING"}
    BY <1>1, <2>1 DEF First, RTypeOK, Interrupted, In
  <2>4. /\ next(t) \in Projection
        /\ t \in SideEffecting => /\ next(t).state = "PAUSED"
                                  /\ next(t).attempt = view[t].attempt
                                  /\ Stage(next(t)) \notin NotBegun
        /\ t \notin SideEffecting => /\ next(t).state = "READY"
                                     /\ next(t).attempt = view[t].attempt
    <3>1. CASE t \in SideEffecting
      BY <2>3, <3>1, MovedType, PauseFacts DEF TaskState, NotBegun, Absent
    <3>2. CASE t \notin SideEffecting
      BY <2>3, <3>2, CommandType, SoundReset
    <3>3. QED BY <3>1, <3>2
  <2>5. view'[t] = next(t) /\ \A u \in Tasks \ {t} : view'[u] = view[u]
    BY <1>1, <2>1, <2>3 DEF RTypeOK, Store
  <2> HIDE DEF next
  <2>6. view' \in [Tasks -> Projection] BY <1>1, <2>1, <2>3, <2>4 DEF RTypeOK, Store
  <2>7. RTypeOK' BY <1>1, <1>2, <1>6, <2>1, <2>2, <2>6 DEF RTypeOK
  <2>8. Interrupted' BY <1>1, <2>1, <2>2, <2>5 DEF Interrupted, In, RTypeOK
  <2>9. GoodWork(t)'
    <3>1. /\ Settled(t) >= 0 /\ view[t].attempt <= Room(t) + 1
          /\ ManualControl \/ t \notin SideEffecting => view[t].attempt <= Room(t)
      BY <1>1, <2>2, <2>3 DEF AllGood, GoodWork
    <3>2. Settled(t)' = Settled(t) /\ Room(t)' = Room(t) BY ResumeRooms
    <3>3. QED BY <2>3, <2>4, <2>5, <3>1, <3>2 DEF GoodWork, NotBegun
  <2>10. ASSUME NEW u \in Tasks \ {t} PROVE GoodWork(u)'
    <3>1. ~ManualControl /\ view[u].state \in {"RUNNING", "VERIFYING"} => Owned(u)
      BY <1>1 DEF AllGood, GoodWork
    <3>2. Owned(u) => Owned(u)' BY <1>2, <2>1, <2>2 DEF Owned, At
    <3>3. QED BY <1>7, <2>5, <3>1, <3>2
  <2>11. RTypeOK' /\ Quiet' /\ Interrupted' /\ AllGood'
    BY <1>4, <1>5, <2>7, <2>8, <2>9, <2>10 DEF AllGood
  <2>12. QED BY <2>11, RInductiveParts, PTL
<1>10. CASE EndResume
  <2>1. view' = view /\ main = "resume" /\ main' = "loop" /\ resuming = {} /\ resuming' = {}
    BY <1>10 DEF EndResume
  <2>2. RTypeOK' BY <1>1, <1>2, <1>6, <2>1 DEF RTypeOK, MainPc
  <2>3. Interrupted' BY <2>1 DEF Interrupted
  <2>4. ASSUME NEW t \in Tasks PROVE GoodWork(t)'
    <3>1. ~ManualControl /\ view[t].state \in {"RUNNING", "VERIFYING"} => Owned(t)
      BY <1>1, <2>4 DEF AllGood, GoodWork
    <3>2. Owned(t) => Owned(t)' BY <1>2, <2>1 DEF Owned, At
    <3>3. QED BY <1>7, <2>1, <2>4, <3>1, <3>2
  <2>5. RTypeOK' /\ Quiet' /\ Interrupted' /\ AllGood'
    BY <1>4, <1>5, <2>2, <2>3, <2>4 DEF AllGood
  <2>6. QED BY <2>5, RInductiveParts, PTL
<1>11. QED BY <1>8, <1>9, <1>10

-----------------------------------------------------------------------------
(* The theorems *)

LEMMA RInitInductive == RInit => RInductive
<1>1. SUFFICES ASSUME RInit PROVE RInductive OBVIOUS
<1>2. /\ view = [t \in Tasks |-> Blank] /\ main = "create" /\ crashes = 0
      /\ resuming = {} /\ replans = 0
      /\ job = [j \in Threads |-> Idle] /\ rounds = 0
  BY <1>1 DEF RInit, Init
<1>3. TypeOK BY <1>1, InitTypeOK DEF RInit
<1>4. RTypeOK BY <1>2, <1>3 DEF RTypeOK, TypeOK
<1>5. \A j \in Threads : job[j].pc = "off" BY <1>2 DEF Idle
<1>6. Quiet BY <1>5 DEF Quiet, At, Threads
<1>7. Interrupted BY <1>2 DEF Interrupted
<1>8. ASSUME NEW t \in Tasks PROVE GoodWork(t)
  <2>1. Resetters(t) = {} BY <1>5 DEF Resetters, At
  <2>2. Settled(t) = 0 BY <1>2, <2>1, FS_EmptySet DEF Settled
  <2>3. Room(t) = MaxRetries /\ MaxRetries \in Nat
    BY <1>2, <2>2, ConfigAssumption DEF Room, Reruns
  <2>4. view[t].attempt = 0 /\ view[t].state = Absent BY <1>2 DEF Blank
  <2>5. QED BY <1>2, <2>2, <2>3, <2>4 DEF GoodWork, Absent
<1>9. AllGood BY <1>5, <1>8 DEF AllGood, GoodList, At
<1>10. QED BY <1>4, <1>6, <1>7, <1>9, RInductiveParts

(* The strengthening survives every step of a run, and every crash between   *)
(* two of them.                                                             *)
THEOREM RecoveryInvariant == RSpec => []RInductive
<1>1. RInductive /\ UNCHANGED rvars => RInductive'
  BY DEF RInductive, rvars, vars, RTypeOK, Quiet, Owning, Owned, Budgeted, Settled,
     Room, Reruns, Resetters, At, In, First
<1>2. RInductive /\ [RNext]_rvars => RInductive'
  BY <1>1, RunGood, CrashGood, ResumeGood DEF RNext
<1>3. QED BY <1>2, RInitInductive, PTL DEF RSpec

(* After a crash resume_run settles every execution it interrupted before    *)
(* the run goes on: from then on a RUNNING or VERIFYING task is always one a *)
(* thread of this process works on, however often the process dies.          *)
THEOREM InterruptedAreSettled == RSpec => []ResumedOwnership
<1>1. RInductive => ResumedOwnership
  BY DEF RInductive, Owning, Owned, ResumedOwnership, At, In
<1>2. QED BY <1>1, RecoveryInvariant, PTL

(* No crash, in whatever replan or release it strikes, gives a task more     *)
(* executions than its retries, the replans of the run and, when its tool    *)
(* may be run twice, the crashes account for.                               *)
THEOREM ExecutionsAreBounded == RSpec => []ExecutionBudget
<1>1. RInductive => ExecutionBudget
  <2>1. SUFFICES ASSUME RInductive, NEW t \in Tasks
                 PROVE  view[t].attempt <= MaxRetries + 1 + replans + Reruns(t)
    BY DEF ExecutionBudget, Reruns
  <2>2. /\ view[t].attempt <= Room(t) + 1 /\ view[t].attempt \in Nat
        /\ Room(t) = MaxRetries + Settled(t) + Reruns(t)
        /\ Settled(t) = replans - Cardinality(Resetters(t))
    BY <2>1 DEF RInductive, RTypeOK, Projection, Budgeted, Room, Settled
  <2>3. /\ MaxRetries \in Nat /\ replans \in Nat /\ crashes \in Nat
        /\ Cardinality(Resetters(t)) \in Nat
    BY <2>1, CountType, ConfigAssumption DEF RInductive, RTypeOK
  <2>4. Reruns(t) \in Nat BY <2>3 DEF Reruns
  <2>5. QED BY <2>2, <2>3, <2>4
<1>2. QED BY <1>1, RecoveryInvariant, PTL
=============================================================================

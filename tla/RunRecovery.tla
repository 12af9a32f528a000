---------------------------- MODULE RunRecovery -----------------------------
(***************************************************************************)
(* A run whose process may die at any step and is resumed from the durable  *)
(* projections (service.py, resume_run).  A crash loses every thread, the   *)
(* round and the replan in progress; the stored projections survive.        *)
(***************************************************************************)
EXTENDS OrchestratorInv

CONSTANTS
    SideEffecting,  \* the tasks whose assigned tool is side-effecting
    MaxCrashes      \* bound of the model

ASSUME RecoveryAssumption ==
    SideEffecting \subseteq Tasks /\ MaxCrashes \in Nat

(* A run has finitely many tasks, and both of its orders are total: ties of  *)
(* priority are broken by the task id, which is unique in the run.          *)
ASSUME OrderAssumption ==
    /\ IsFiniteSet(Tasks)
    /\ \A t, u \in Tasks : ListOrder[t] = ListOrder[u] \/ IdOrder[t] = IdOrder[u] => t = u

VARIABLES
    crashes,   \* crashes so far
    resuming,  \* interrupted tasks resume_run has still to handle
    invalid    \* history: tasks a replan set out to reset that still carry
               \* their old projection

rvars == <<vars, crashes, resuming, invalid>>

RInit ==
    /\ Init
    /\ crashes = 0
    /\ resuming = {}
    /\ invalid = {}

Crash ==
    /\ main # "down"
    /\ crashes < MaxCrashes /\ crashes' = crashes + 1
    /\ main' = "down" /\ rounds' = 0
    /\ job' = [j \in Threads |-> Idle]
    /\ resuming' = {}
    /\ UNCHANGED <<view, replans, invalid>>

(* Variant: tasks that were being verified are not seen as interrupted. *)
ResumeOnlyRunning ==
    /\ main = "down"
    /\ main' = "resume"
    /\ resuming' = In("RUNNING")
    /\ UNCHANGED <<view, rounds, job, replans, crashes, invalid>>

(* resume_run reads the tasks of the run once. *)
Resume ==
    /\ main = "down"
    /\ main' = "resume"
    /\ resuming' = In("RUNNING") \cup In("VERIFYING")
    /\ UNCHANGED <<view, rounds, job, replans, crashes, invalid>>

(* Variant: every interrupted task is executed again. *)
ResumeBlindly ==
    /\ main = "resume"
    /\ \E t \in First(resuming, ListOrder) :
          /\ Store(t, Recovered(view[t]))
          /\ resuming' = resuming \ {t}
    /\ UNCHANGED <<main, rounds, job, replans, crashes, invalid>>

(* An interrupted side-effecting task is paused, any other returns to READY. *)
ResumeOne ==
    /\ main = "resume"
    /\ \E t \in First(resuming, ListOrder) :
          /\ Store(t, IF t \in SideEffecting THEN Moved(view[t], "PAUSED")
                                             ELSE Recovered(view[t]))
          /\ resuming' = resuming \ {t}
    /\ UNCHANGED <<main, rounds, job, replans, crashes, invalid>>

(* Variant: the resume waits for the paused tasks. *)
EndResumeUnpaused ==
    /\ main = "resume" /\ resuming = {} /\ In("PAUSED") = {}
    /\ main' = "loop" /\ rounds' = 0
    /\ UNCHANGED <<view, job, replans, crashes, resuming, invalid>>

(* Then run_until_blocked is called. *)
EndResume ==
    /\ main = "resume" /\ resuming = {}
    /\ main' = "loop" /\ rounds' = 0
    /\ UNCHANGED <<view, job, replans, crashes, resuming, invalid>>

(* The tasks still to reset by a replan that has stored its first reset. *)
HalfDone == UNION {job[j].todo : j \in {i \in Threads : /\ At(i, "resetting")
                                                        /\ job[i].todo # job[i].scope}}

(* A step of the run, which also keeps the history variable: a task stays   *)
(* invalid from the first reset of the replan until it is PLANNED itself.   *)
Run ==
    /\ Next
    /\ invalid' = {t \in Tasks : /\ t \in invalid \cup HalfDone'
                                 /\ view'[t].state # "PLANNED"}
    /\ UNCHANGED <<crashes, resuming>>

RNext == Run \/ Crash \/ Resume \/ ResumeOne \/ EndResume

RSpec == RInit /\ [][RNext]_rvars

RFairness ==
    /\ \A t \in Tasks : WF_rvars(Worker(t) /\ Run)
    /\ \A j \in Threads : WF_rvars(ReplanTasks(j) /\ Run)
    /\ WF_rvars(Loop /\ Run)
    /\ WF_rvars(Resume) /\ WF_rvars(ResumeOne) /\ WF_rvars(EndResume)

RFairSpec == RSpec /\ RFairness

-----------------------------------------------------------------------------
(* Properties *)

(* Once resume_run has handled the interrupted tasks, a RUNNING or VERIFYING *)
(* task is always one some thread of this process is executing.             *)
ResumedOwnership ==
    ~ManualControl /\ main \notin {"down", "resume"} =>
        \A t \in In("RUNNING") \cup In("VERIFYING") :
            job[t].pc \in {"running", "verify", "passed", "failed", "resetting"}

(* "This prevents duplicate writes/builds from being disguised as automatic *)
(* recovery": crashes and resumes never add an execution of a                *)
(* side-effecting task to its retries and replans, and add at most one for   *)
(* each crash to those of any other task.                                    *)
ExecutionBudget ==
    \A t \in Tasks :
        view[t].attempt <= MaxRetries + 1 + replans
                           + (IF t \in SideEffecting /\ ~ManualControl THEN 0 ELSE crashes)

(* Every call of run_until_blocked returns to its caller, and so does a run  *)
(* that crashed and is resumed, whatever is paused.                         *)
EveryCallReturns == main \in {"loop", "down"} ~> main = "idle"

(* "READY and PLANNED work can therefore continue immediately": when a       *)
(* resumed run stops because nothing is READY, no PLANNED task has its       *)
(* dependencies SUCCEEDED.  (Entry tasks, which a crash inside create_run    *)
(* leaves PLANNED, are not even counted.)                                   *)
ResumeContinues ==
    main = "idle" /\ crashes > 0 /\ In("READY") = {} =>
        \A t \in Releasable : Parents[t] = {}

(* "Reset every affected projection first, so descendants can never become  *)
(* READY while an affected predecessor still carries an old SUCCEEDED view." *)
NotReadyOnStale ==
    \A t \in In("READY") \ invalid : \A p \in Parents[t] \cap invalid : ~Done(p)

-----------------------------------------------------------------------------
(* What every step preserves, crashes included.  OrchestratorInv does not    *)
(* survive one: a replan cut short leaves READY tasks below reset ones.      *)

RTypeOK ==
    /\ view \in [Tasks -> Projection]
    /\ main \in MainPc \cup {"down", "resume"}
    /\ rounds \in 0 .. MaxRounds
    /\ job \in [Threads -> Job]
    /\ replans \in Nat /\ crashes \in Nat
    /\ resuming \subseteq Tasks

(* What is RUNNING or VERIFYING has a worker at it, or resume_run will find  *)
(* it or has found it.                                                      *)
Owned(t) ==
    \/ main = "down"
    \/ main = "resume" /\ t \in resuming
    \/ job[t].pc \in {"running", "verify", "passed", "failed"}
    \/ At(t, "resetting") /\ t \in job[t].todo

Owning ==
    /\ main \notin {"down", "resume"} => resuming = {}
    /\ resuming \subseteq In("RUNNING") \cup In("VERIFYING")
    /\ ~ManualControl =>
          \A t \in In("RUNNING") \cup In("VERIFYING") : Owned(t)

(* What crashes may add to the attempts of a task. *)
Reruns(t) == IF t \in SideEffecting /\ ~ManualControl THEN 0 ELSE crashes

(* The replans that have still to reset x. *)
Resetters(x) == {j \in Threads : At(j, "resetting") /\ x \in job[j].todo}

(* The replans begun that do not have x to reset any more, and the attempts  *)
(* after which x may still begin another one.                               *)
Settled(x) == replans - Cardinality(Resetters(x))
Room(x)    == MaxRetries + Settled(x) + Reruns(x)

(* A task has begun at most one attempt beyond its room, and none if it has  *)
(* not begun, is about to be released, or can be recovered by resume_run.    *)
Budgeted ==
    /\ \A t \in Tasks :
          /\ Settled(t) >= 0
          /\ view[t].attempt <= Room(t) + 1
          /\ Stage(view[t]) \in NotBegun => view[t].attempt <= Room(t)
          /\ main \in {"down", "resume"} /\ (ManualControl \/ t \notin SideEffecting)
                => view[t].attempt <= Room(t)
    /\ \A j \in Threads :
          /\ At(j, "promoting") =>
                \A x \in First(job[j].todo, ListOrder) : job[j].read.attempt <= Room(x)
          /\ At(j, "rooting") =>
                \A x \in First(job[j].todo, IdOrder) : job[j].read.attempt <= Room(x)

RInductive == RTypeOK /\ Quiet /\ Owning /\ Budgeted
=============================================================================

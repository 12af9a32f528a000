--------------------------- MODULE OrchestratorInv --------------------------
(***************************************************************************)
(* The strengthening of Orchestrator's barrier that every step preserves.   *)
(* It says who may write which task: a worker's own thread while the task   *)
(* executes, a release or replan loop only tasks that nobody executes.      *)
(***************************************************************************)
EXTENDS Orchestrator

Executing  == {"queued", "accept", "assigned", "running", "verify", "passed", "failed"}
Releasing  == {"releasing", "promoting", "roots", "rooting"}
Replanning == {"resetting", "refresh", "roots", "rooting"}

(* Workers run in a round only, the caller's own replan between rounds only. *)
Quiet ==
    /\ main # "round" => \A t \in Tasks : At(t, "off")
    /\ main # "replan" => At(Main, "off")

(* Where a worker is tells the stored state of its task. *)
StatesMatch ==
    \A t \in Tasks :
        /\ job[t].pc \in {"queued", "accept", "assigned"} => view[t].state = "READY"
        /\ job[t].pc = "running" => view[t].state = "RUNNING"
        /\ job[t].pc \in {"verify", "passed"} => view[t].state = "VERIFYING"
        /\ job[t].pc = "failed" => view[t].state \in {"RUNNING", "VERIFYING"}
        /\ job[t].pc \in Replanning => ~Done(t)

(* The barrier, with the one exemption a replan of the caller needs. *)
Exempt(t) == At(Main, "resetting") /\ t \in job[Main].todo

Barrier ==
    \A t \in Tasks : Started(view[t]) /\ ~Exempt(t) => \A p \in Parents[t] : Done(p)

(* A task that a loop has still to release is not executed by anyone. *)
ReleasePending ==
    \A j \in Threads : job[j].pc \in Releasing =>
        \A x \in job[j].todo : ~Done(x) /\ job[x].pc \notin Executing

(* A worker replans what depends on its own task, nothing else. *)
WorkerReplan ==
    \A t \in Tasks : job[t].pc \in {"resetting", "refresh"} =>
        job[t].todo \cup job[t].scope \subseteq Affected(t)

(* The caller's replan: what it has reset is not started, and neither is     *)
(* anything outside its scope that depends on it.                           *)
CallerReplan ==
    job[Main].pc \in {"resetting", "refresh"} =>
        /\ At(Main, "refresh") => job[Main].todo = {}
        /\ \A x \in job[Main].scope \ job[Main].todo : ~Started(view[x])
        /\ \A c \in Tasks \ job[Main].scope :
              Parents[c] \cap job[Main].scope # {} => ~Started(view[c])
        /\ job[Main].todo \subseteq job[Main].scope

Inductive ==
    /\ TypeOK /\ Quiet /\ StatesMatch /\ Barrier /\ ReleaseStillDue
    /\ ReleasePending /\ WorkerReplan /\ CallerReplan
-----------------------------------------------------------------------------
(* What more is true of the threads and of the attempts of a task, for the   *)
(* promises that follow from Inductive.                                      *)

Waiting  == {"PLANNED", "READY"}
NotBegun == {Absent, "CREATED", "PLANNED", "READY"}

(* What a release loop has still to release waits, and so does what a replan *)
(* has reset; a worker's own task executes until its replan resets it.       *)
LoopsOnWaiting ==
    /\ \A j \in Threads :
          /\ job[j].pc \in Releasing =>
                \A x \in job[j].todo : view[x].state \in Waiting
          /\ job[j].pc \in {"resetting", "refresh"} =>
                \A x \in job[j].scope \ job[j].todo : view[x].state \in Waiting
          /\ At(j, "refresh") => job[j].todo = {}
    /\ \A t \in Tasks : At(t, "resetting") /\ t \in job[t].todo =>
          view[t].state \in {"RUNNING", "VERIFYING"}

(* Without an operator what is RUNNING or VERIFYING has a worker at it. *)
Attended ==
    ~ManualControl => \A t \in In("RUNNING") \cup In("VERIFYING") :
        \/ job[t].pc \in {"running", "verify", "passed", "failed"}
        \/ At(t, "resetting") /\ t \in job[t].todo

(* A record holds evidence of its current attempt only, none before that has *)
(* begun, and is paused only from where a pause is legal.                   *)
Sound(v) ==
    /\ v.pausedFrom \in Pausable \cup {None}
    /\ v.evidence \subseteq {v.attempt}
    /\ Stage(v) \in NotBegun => v.evidence = {}
    /\ v.state = "SUCCEEDED" => v.evidence = {v.attempt}

CleanSlate ==
    /\ \A t \in Tasks :
          /\ Sound(view[t])
          /\ At(t, "passed") => view[t].evidence = {view[t].attempt}
    /\ \A j \in Threads : job[j].pc \in {"promoting", "rooting"} =>
          Sound(job[j].read) /\ Stage(job[j].read) \in NotBegun

(* A task that may begin an attempt has one left. *)
OneLeft(v) == v.attempt <= MaxRetries + replans

AttemptLeft ==
    /\ \A t \in Tasks :
          /\ view[t].attempt <= MaxRetries + 1 + replans
          /\ Stage(view[t]) \in NotBegun => OneLeft(view[t])
    /\ \A j \in Threads :
          /\ job[j].pc \in {"promoting", "rooting"} => OneLeft(job[j].read)
          /\ At(j, "resetting") => \A x \in job[j].todo : OneLeft(view[x])

(* All that the promises of a run follow from. *)
Strengthening == Inductive /\ LoopsOnWaiting /\ Attended /\ CleanSlate /\ AttemptLeft
=============================================================================

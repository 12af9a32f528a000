------------------------------ MODULE Control ------------------------------
(***************************************************************************)
(* The console's control plane (apps/console/backend/control.py): jobs as   *)
(* child processes of the server, the history it reloads after a restart,   *)
(* and the file mailbox through which a running child gets live faults at   *)
(* its round boundaries (integration/live_faults.py).                       *)
(*                                                                         *)
(* Every request handler holds the lock of the control plane, except where  *)
(* the comments say so.                                                     *)
(***************************************************************************)
EXTENDS Naturals, FiniteSets

CONSTANTS
    JobIds,       \* bound of the model: the jobs ever started
    KindOf,       \* the kind each of them is started as
    RequestIds,   \* bound of the model: the injections ever requested
    FaultOf,      \* the fault each of them asks for
    MaxRounds,    \* max_rounds of a run
    MaxRestarts   \* bound of the model: crashes of the server

JobKinds == {"task", "scenario", "experiment"}
ActiveStates == {"QUEUED", "RUNNING", "STOPPING"}
Killed == "-15"

ASSUME ControlAssumption ==
    /\ KindOf \in [JobIds -> JobKinds]
    /\ FaultOf \in [RequestIds -> {"requirement_change", "other"}]
    /\ MaxRounds \in Nat /\ MaxRestarts \in Nat

VARIABLES
    jobs,      \* _jobs: the status of every job, "NONE" before its start
    handles,   \* _processes: the jobs whose child the server can poll
    history,   \* jobs.json
    child,     \* the process of a job: "none", "running" or how it exited
    round,     \* what the child is doing: its run, its round and its hook
    asked,     \* the jobs an operator has asked to stop
    chosen,    \* start_fault between the look for a running job and enqueue
    mailbox,   \* the files of the mailbox: <<job, request, state>>
    injected,  \* the FAULT_INJECTED events in the event stores, as requests
    restarts

controlVars == <<jobs, handles, history, child, round, asked, chosen,
                 mailbox, injected, restarts>>

NoHook == [phase |-> "work", nr |-> 0, request |-> "none", hooked |-> TRUE]

ControlInit ==
    /\ jobs = [j \in JobIds |-> "NONE"]
    /\ handles = {}
    /\ history = jobs
    /\ child = [j \in JobIds |-> "none"]
    /\ round = [j \in JobIds |-> NoHook]
    /\ asked = {} /\ chosen = {}
    /\ mailbox = {}
    /\ injected = {}
    /\ restarts = 0

Running(j) == child[j] = "running"

-----------------------------------------------------------------------------
(* Jobs *)

(* Variant: whatever ends while it is STOPPING was stopped. *)
StoppedAnyhow(j) ==
    IF jobs[j] = "STOPPING" THEN "STOPPED"
    ELSE IF child[j] = "0" THEN "SUCCEEDED" ELSE "FAILED"

(* _refresh_processes: the status a job gets from the exit of its child.    *)
StatusOf(j) ==
    IF child[j] = "0" THEN "SUCCEEDED"
    ELSE IF child[j] \in {Killed, "1"} /\ jobs[j] = "STOPPING" THEN "STOPPED"
    ELSE "FAILED"

Refreshed ==
    [j \in JobIds |-> IF j \in handles /\ ~Running(j) THEN StatusOf(j) ELSE jobs[j]]

Alive == {j \in handles : Running(j)}

(* status, jobs, log_tail and every other handler start with it. *)
Refresh ==
    /\ handles # Alive
    /\ jobs' = Refreshed /\ handles' = Alive /\ history' = jobs'
    /\ UNCHANGED <<child, round, asked, chosen, mailbox, injected, restarts>>

(* _start: refuses while a job is active; persists it QUEUED; the child runs *)
(* before the status is RUNNING.  The lock is held to the end.               *)
Queue(j) ==
    /\ jobs[j] = "NONE"
    /\ \A i \in JobIds : Refreshed[i] \notin ActiveStates
    /\ \A i \in JobIds : jobs[i] # "QUEUED"
    /\ jobs' = [Refreshed EXCEPT ![j] = "QUEUED"]
    /\ handles' = Alive /\ history' = jobs'
    /\ UNCHANGED <<child, round, asked, chosen, mailbox, injected, restarts>>

Popen(j) ==
    /\ jobs[j] = "QUEUED" /\ child[j] = "none"
    /\ \/ child' = [child EXCEPT ![j] = "running"] /\ UNCHANGED <<jobs, history>>
       \/ /\ jobs' = [jobs EXCEPT ![j] = "FAILED_TO_START"] /\ history' = jobs'
          /\ UNCHANGED child
    /\ UNCHANGED <<handles, round, asked, chosen, mailbox, injected, restarts>>

StartedAs(j) ==
    /\ jobs[j] = "QUEUED" /\ child[j] # "none"
    /\ jobs' = [jobs EXCEPT ![j] = "RUNNING"] /\ history' = jobs'
    /\ handles' = handles \cup {j}
    /\ UNCHANGED <<child, round, asked, chosen, mailbox, injected, restarts>>

Unlocked == \A j \in JobIds : jobs[j] # "QUEUED"

(* stop: STOPPING, then SIGTERM, which the child may outrun. *)
Stop(j) ==
    /\ Unlocked /\ j \in Alive
    /\ jobs' = [Refreshed EXCEPT ![j] = "STOPPING"] /\ history' = jobs'
    /\ handles' = Alive
    /\ asked' = asked \cup {j}
    /\ UNCHANGED <<child, round, chosen, mailbox, injected, restarts>>

(* The child dies of the signal, or of itself. *)
Terminated(j) ==
    /\ Running(j) /\ j \in asked
    /\ child' = [child EXCEPT ![j] = Killed]
    /\ UNCHANGED <<jobs, handles, history, round, asked, chosen, mailbox,
                   injected, restarts>>

Fails(j) ==
    /\ Running(j)
    /\ child' = [child EXCEPT ![j] = "1"]
    /\ UNCHANGED <<jobs, handles, history, round, asked, chosen, mailbox,
                   injected, restarts>>

(* The server dies, and its children may outlive it; a new one reloads the   *)
(* history, where what was active is INTERRUPTED.                            *)
Restart(survivors) ==
    /\ restarts < MaxRestarts /\ restarts' = restarts + 1
    /\ jobs' = [j \in JobIds |-> IF history[j] \in ActiveStates THEN "INTERRUPTED" ELSE history[j]]
    /\ handles' = {} /\ chosen' = {}
    /\ child' = [j \in JobIds |-> IF Running(j) /\ j \notin survivors THEN Killed ELSE child[j]]
    /\ UNCHANGED <<history, round, asked, mailbox, injected>>

-----------------------------------------------------------------------------
(* Injections *)

(* start_fault finds the running job under the lock; a scenario refuses a    *)
(* changed requirement.                                                      *)
Choose(q, j) ==
    /\ Unlocked
    /\ \A m \in mailbox \cup chosen : m[2] # q
    /\ Refreshed[j] = "RUNNING" /\ KindOf[j] \in {"task", "scenario"}
    /\ ~(FaultOf[q] = "requirement_change" /\ KindOf[j] = "scenario")
    /\ jobs' = Refreshed /\ handles' = Alive /\ history' = jobs'
    /\ chosen' = chosen \cup {<<j, q>>}
    /\ UNCHANGED <<child, round, asked, mailbox, injected, restarts>>

(* ... and, without the lock, enqueues the request for it. *)
Enqueue(q, j) ==
    /\ <<j, q>> \in chosen
    /\ chosen' = chosen \ {<<j, q>>}
    /\ mailbox' = mailbox \cup {<<j, q, "pending">>}
    /\ UNCHANGED <<jobs, handles, history, child, round, asked, injected, restarts>>

Turn(j, r) == round' = [round EXCEPT ![j] = r]

(* A round of the run ends; only a run with the hook looks at the mailbox.   *)
FinishRound(j) ==
    /\ Running(j) /\ round[j].phase = "work" /\ round[j].nr < MaxRounds
    /\ Turn(j, [round[j] EXCEPT !.nr = @ + 1,
                                !.phase = IF round[j].hooked /\ KindOf[j] # "experiment"
                                          THEN "hook" ELSE "work"])
    /\ UNCHANGED <<jobs, handles, history, child, asked, chosen, mailbox,
                   injected, restarts>>

(* next_pending; names sort by second, so requests of one second come in any *)
(* order.                                                                    *)
Pending(j) == {q \in RequestIds : <<j, q, "pending">> \in mailbox}

Hook(j) ==
    /\ Running(j) /\ round[j].phase = "hook"
    /\ \/ Pending(j) = {} /\ Turn(j, [round[j] EXCEPT !.phase = "work"])
       \/ \E q \in Pending(j) : Turn(j, [round[j] EXCEPT !.phase = "apply", !.request = q])
    /\ UNCHANGED <<jobs, handles, history, child, asked, chosen, mailbox,
                   injected, restarts>>

(* Variant: acknowledged before it is applied. *)
ApplyLater(j) ==
    /\ Running(j) /\ round[j].phase = "apply"
    /\ \E p \in {"applied", "failed"} : Turn(j, [round[j] EXCEPT !.phase = p])
    /\ UNCHANGED <<jobs, handles, history, child, asked, chosen, mailbox,
                   injected, restarts>>

(* apply_live_fault: the event is appended, and what follows it may raise;   *)
(* or it raises before (no evidence yet, no agent, no requirement).          *)
Apply(j) ==
    /\ Running(j) /\ round[j].phase = "apply"
    /\ \/ /\ injected' = injected \cup {<<round[j].request, round[j].nr>>}
          /\ \E p \in {"applied", "failed"} : Turn(j, [round[j] EXCEPT !.phase = p])
       \/ Turn(j, [round[j] EXCEPT !.phase = "failed"]) /\ UNCHANGED injected
    /\ UNCHANGED <<jobs, handles, history, child, asked, chosen, mailbox, restarts>>

(* acknowledge: the answer takes its place ... *)
Acknowledge(j) ==
    /\ Running(j) /\ round[j].phase \in {"applied", "failed"}
    /\ mailbox' = mailbox \cup {<<j, round[j].request, round[j].phase>>}
    /\ Turn(j, [round[j] EXCEPT !.phase = IF @ = "applied" /\ FaultOf[round[j].request]
                                                              = "requirement_change"
                                          THEN "unlink_stop" ELSE "unlink"])
    /\ UNCHANGED <<jobs, handles, history, child, asked, chosen, injected, restarts>>

(* ... and the request goes.  A changed requirement ends the run; the child  *)
(* compiles the new goal and runs it without the hook.                       *)
Unlink(j) ==
    /\ Running(j) /\ round[j].phase \in {"unlink", "unlink_stop"}
    /\ mailbox' = mailbox \ {<<j, round[j].request, "pending">>}
    /\ Turn(j, IF round[j].phase = "unlink" THEN [round[j] EXCEPT !.phase = "work"]
               ELSE [NoHook EXCEPT !.hooked = FALSE])
    /\ UNCHANGED <<jobs, handles, history, child, asked, chosen, injected, restarts>>

(* No round is left to do. *)
Completes(j) ==
    /\ Running(j) /\ round[j].phase = "work"
    /\ child' = [child EXCEPT ![j] = "0"]
    /\ UNCHANGED <<jobs, handles, history, round, asked, chosen, mailbox,
                   injected, restarts>>

ControlNext ==
    \/ \E j \in JobIds :
          \/ Queue(j) \/ Popen(j) \/ StartedAs(j) \/ Stop(j) \/ Terminated(j)
          \/ Fails(j) \/ FinishRound(j) \/ Hook(j) \/ Apply(j) \/ Acknowledge(j)
          \/ Unlink(j) \/ Completes(j)
          \/ \E q \in RequestIds : Choose(q, j) \/ Enqueue(q, j)
    \/ Refresh
    \/ \E survivors \in SUBSET JobIds : Restart(survivors)

ControlSpec == ControlInit /\ [][ControlNext]_controlVars

-----------------------------------------------------------------------------
(* Properties *)

ControlTypeOK ==
    /\ \A j \in JobIds :
          /\ jobs[j] \in ActiveStates \cup {"NONE", "SUCCEEDED", "FAILED", "STOPPED",
                                      "FAILED_TO_START", "INTERRUPTED"}
          /\ child[j] \in {"none", "running", "0", "1", Killed}
          /\ round[j].nr \in 0 .. MaxRounds
    /\ handles \subseteq JobIds /\ asked \subseteq JobIds

(* "Progress/status derives from the child process": whatever the order of   *)
(* stop, exit and poll, a final status tells how the child ended, an active  *)
(* one has a child, and no two children share the workspace unless a server  *)
(* died and left one behind.                                                 *)
StatusIsChilds ==
    /\ \A j \in JobIds :
          /\ jobs[j] = "SUCCEEDED" => child[j] = "0"
          /\ jobs[j] = "STOPPED" => j \in asked /\ child[j] \in {"1", Killed}
          /\ jobs[j] = "FAILED" => child[j] \in {"1", Killed}
          /\ jobs[j] \in {"RUNNING", "STOPPING"} => j \in handles
          /\ jobs[j] = "FAILED_TO_START" => child[j] = "none"
    /\ restarts = 0 => Cardinality({j \in JobIds : Running(j)}) <= 1

(* "APPLIED: the round hook consumes the request and applies the             *)
(* authoritative injection": the acknowledgement is never ahead of the event *)
(* store, and no request is injected at two boundaries, wherever the child   *)
(* is killed.                                                                *)
AppliedOnce ==
    /\ \A m \in mailbox : m[3] = "applied" => \E i \in injected : i[1] = m[2]
    /\ \A i, k \in injected : i[1] = k[1] => i = k
=============================================================================

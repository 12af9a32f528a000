----------------------------- MODULE TaskStates -----------------------------
(***************************************************************************)
(* The task projection of the event store and the functions that rewrite   *)
(* it: the strict state machine (state_machine.py) and the projection each  *)
(* EventStore command appends (event_store.py).  Pure operators: a command  *)
(* reads one stored projection and, when its guard allows, stores the value *)
(* the operator returns.                                                    *)
(*                                                                         *)
(* A projection keeps what execution and recovery branch on: the state, the *)
(* state a pause came from, the attempt number, whether an assignment is    *)
(* recorded, and the attempts whose evidence it carries.                    *)
(***************************************************************************)
EXTENDS Naturals

TaskState == {"CREATED", "PLANNED", "READY", "RUNNING", "VERIFYING",
              "SUCCEEDED", "FAILED", "PAUSED"}

Absent == "ABSENT"      \* no projection stored yet
None   == "NONE"        \* Python's None in paused_from and error_class

Projection == [state      : TaskState \cup {Absent},
               pausedFrom : TaskState \cup {None},
               attempt    : Nat,
               assigned   : BOOLEAN,
               evidence   : SUBSET Nat]

Blank == [state |-> Absent, pausedFrom |-> None, attempt |-> 0,
          assigned |-> FALSE, evidence |-> {}]

-----------------------------------------------------------------------------
(* StateMachine *)

Pausable == {"PLANNED", "READY", "RUNNING", "VERIFYING"}
Failable == TaskState \ {"SUCCEEDED", "FAILED"}

Forward ==
    {<<"CREATED", "PLANNED">>, <<"PLANNED", "READY">>, <<"READY", "RUNNING">>,
     <<"RUNNING", "VERIFYING">>, <<"VERIFYING", "SUCCEEDED">>}
        \cup ({"PAUSED"} \X Pausable)

Legal(v, target) ==
    \/ target = "PAUSED" /\ v.state \in Pausable
    \/ target = "FAILED" /\ v.state \in Failable
    \/ /\ <<v.state, target>> \in Forward
       /\ v.state = "PAUSED" => target = v.pausedFrom

(* The projection EventStore.transition appends for a legal target.  Only a *)
(* start from READY counts as a new attempt; a resume does not.             *)
Moved(v, target) ==
    [v EXCEPT !.state = target,
              !.pausedFrom = IF target = "PAUSED" THEN v.state
                             ELSE IF v.state = "PAUSED" THEN None ELSE @,
              !.attempt = IF target = "RUNNING" /\ v.state # "PAUSED"
                          THEN @ + 1 ELSE @]

-----------------------------------------------------------------------------
(* The other EventStore commands that rewrite a projection *)

Created == [Blank EXCEPT !.state = "CREATED"]

Assigned(v) == [v EXCEPT !.assigned = TRUE]

WithResult(v) == [v EXCEPT !.evidence = @ \cup {v.attempt}]

Recoverable == {"RUNNING", "VERIFYING", "FAILED"}

(* Variant: a reset that forgets to drop the evidence of the failed attempt. *)
ResetKeepingEvidence(v, target) ==
    [v EXCEPT !.state = target, !.pausedFrom = None, !.assigned = FALSE]

Reset(v, target) ==
    [v EXCEPT !.state = target, !.pausedFrom = None,
              !.assigned = FALSE, !.evidence = {}]

Recovered(v) == Reset(v, "READY")

Replanned(v) == Reset(v, "PLANNED")

(* The state a task is in, or is paused in. *)
Stage(v) == IF v.state = "PAUSED" THEN v.pausedFrom ELSE v.state

Started(v) == Stage(v) \in {"READY", "RUNNING", "VERIFYING", "SUCCEEDED"}
=============================================================================

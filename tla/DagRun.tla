------------------------------- MODULE DagRun -------------------------------
(***************************************************************************)
(* What a run of a task DAG promises, whatever threads, retries and replans *)
(* do: a task is enabled only when everything it depends on is done, it is  *)
(* executed before it is done, and work is only ever invalidated together   *)
(* with everything that was built on it.                                    *)
(***************************************************************************)
CONSTANTS Tasks, Parents

VARIABLE stage

Stages == {"waiting", "enabled", "running", "done", "failed"}

Init == stage = [t \in Tasks |-> "waiting"]

Move(t, from, to) ==
    /\ stage[t] = from
    /\ stage' = [stage EXCEPT ![t] = to]

Enable(t) ==
    /\ \A p \in Parents[t] : stage[p] = "done"
    /\ Move(t, "waiting", "enabled")

Begin(t)  == Move(t, "enabled", "running")
Finish(t) == Move(t, "running", "done")
Yield(t)  == Move(t, "running", "enabled")
Fail(t)   == Move(t, "running", "failed")

Invalidate(S) ==
    /\ \A c \in Tasks : Parents[c] \cap S # {} => c \in S
    /\ stage' = [t \in Tasks |-> IF t \in S THEN "waiting" ELSE stage[t]]

Next ==
    \/ \E t \in Tasks : Enable(t) \/ Begin(t) \/ Finish(t) \/ Yield(t) \/ Fail(t)
    \/ \E S \in SUBSET Tasks : Invalidate(S)

Spec == Init /\ [][Next]_stage

(* Nothing is enabled, executing or done on top of work that is not done. *)
Barrier == \A t \in Tasks : stage[t] \in {"enabled", "running", "done"} =>
                               \A p \in Parents[t] : stage[p] = "done"
=============================================================================

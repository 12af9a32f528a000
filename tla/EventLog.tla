------------------------------ MODULE EventLog ------------------------------
(***************************************************************************)
(* The append-only log of a run: EventStore.append_event, create_run,        *)
(* create_task, save_snapshot and replay over a database (SQLite, memory or  *)
(* PostgreSQL: what differs between them is how they look a row up).         *)
(*                                                                         *)
(* A command of a thread is up to three database transactions: the check of  *)
(* its guard, the bundle (event, projection and outbox row together) and,    *)
(* when the sequence number is a multiple of the interval, a snapshot.       *)
(* Threads interleave between them, the process may die between them and a   *)
(* stored snapshot may be damaged.  replay is two transactions more.  The    *)
(* outbox and parent_event_id are left out: nothing in the system reads them.*)
(*                                                                         *)
(* The document of a projection is named by the event that carries it: two   *)
(* documents are the same only if one event wrote them.                     *)
(***************************************************************************)
EXTENDS Naturals, Sequences, FiniteSetsExt

CONSTANTS
    LogTasks,   \* the tasks of the run
    Writers,    \* the threads that append
    Interval,   \* snapshot_interval
    MaxEvents,  \* bound of the model: events in the log
    MaxMishaps  \* bound of the model: crashes and damaged snapshots

RunLevel == "run"   \* an event with no task_id

ASSUME EventLogAssumption ==
    /\ LogTasks # {} /\ RunLevel \notin LogTasks
    /\ Interval \in Nat \ {0} /\ MaxEvents \in Nat /\ MaxMishaps \in Nat

VARIABLES
    events,     \* execution_events: the row at i has sequence number i
    views,      \* task_node_views: the document of a task, 0 when it has no row
    stored,     \* execution_snapshots
    command,    \* the command each thread is in
    replaying,  \* a replay: between its transactions, or its answer and the row it met
    mishaps

eventLogVars == <<events, views, stored, command, replaying, mishaps>>

NoEvent == 0
AtRest == [step |-> "rest"]
NotReplaying == [step |-> "rest"]

EventLogInit ==
    /\ events = <<>> /\ views = [t \in LogTasks |-> NoEvent]
    /\ stored = {}
    /\ command = [w \in Writers |-> AtRest]
    /\ replaying = NotReplaying
    /\ mishaps = 0

(* The events of a task that carry its document. *)
Carriers(t) == {i \in DOMAIN events : events[i].task = t /\ events[i].carries}

-----------------------------------------------------------------------------
(* The commands of a thread *)

(* The caller creates the run and its tasks before it has other threads.     *)
Alone == \A w \in Writers : command[w] = AtRest

(* create_run refuses a run that has events; the others need the run.        *)
CreateRun(w) ==
    /\ Alone /\ events = <<>>
    /\ command' = [command EXCEPT ![w] =
                      [step |-> "bundle", task |-> RunLevel, carries |-> FALSE]]
    /\ UNCHANGED <<events, views, stored, replaying, mishaps>>

(* create_task refuses a task that has a row.                                *)
CreateTask(w, t) ==
    /\ Alone /\ events # <<>> /\ views[t] = NoEvent
    /\ command' = [command EXCEPT ![w] = [step |-> "bundle", task |-> t, carries |-> TRUE]]
    /\ UNCHANGED <<events, views, stored, replaying, mishaps>>

(* transition, assign, record_result, recover_task: require_task, then an    *)
(* event that carries the new document.                                     *)
UpdateTask(w, t) ==
    /\ command[w] = AtRest /\ views[t] # NoEvent
    /\ command' = [command EXCEPT ![w] = [step |-> "bundle", task |-> t, carries |-> TRUE]]
    /\ UNCHANGED <<events, views, stored, replaying, mishaps>>

(* An event of a task that only tells what happened.                         *)
Tell(w, t) ==
    /\ command[w] = AtRest /\ views[t] # NoEvent
    /\ command' = [command EXCEPT ![w] = [step |-> "bundle", task |-> t, carries |-> FALSE]]
    /\ UNCHANGED <<events, views, stored, replaying, mishaps>>

SnapshotDue(c, sequence) == c.carries /\ sequence % Interval = 0

(* append_bundle: event, projection and outbox row in one transaction.       *)
AppendBundle(w) ==
    LET c == command[w]  sequence == Len(events) + 1
    IN  /\ c.step = "bundle" /\ Len(events) < MaxEvents
        /\ events' = Append(events, [task |-> c.task, carries |-> c.carries])
        /\ views' = IF c.carries THEN [views EXCEPT ![c.task] = sequence] ELSE views
        /\ command' = [command EXCEPT ![w] =
                          IF SnapshotDue(c, sequence)
                          THEN [step |-> "snapshot", task |-> c.task, at |-> sequence]
                          ELSE AtRest]
        /\ UNCHANGED <<stored, replaying, mishaps>>

(* save_snapshot of the projection that was appended, under its sequence.    *)
SaveSnapshot(w) ==
    LET c == command[w]
    IN  /\ c.step = "snapshot"
        /\ stored' = stored \cup {[task |-> c.task, sequence |-> c.at,
                                   document |-> c.at, sound |-> TRUE]}
        /\ command' = [command EXCEPT ![w] = AtRest]
        /\ UNCHANGED <<events, views, replaying, mishaps>>

-----------------------------------------------------------------------------
(* replay *)

SnapshotsOf(t) == {s \in stored : s.task = t}

(* latest_snapshot: the greatest sequence number.                            *)
LatestSnapshot(t) ==
    CHOOSE s \in SnapshotsOf(t) : \A r \in SnapshotsOf(t) : r.sequence <= s.sequence

NoBase == [sequence |-> 0, document |-> NoEvent]

(* Variant: the checksum of a snapshot is not compared. *)
BaseUnchecked(t) ==
    IF SnapshotsOf(t) = {} THEN NoBase
    ELSE [sequence |-> LatestSnapshot(t).sequence, document |-> LatestSnapshot(t).document]

(* A snapshot whose checksum does not match is not used.                     *)
Base(t) ==
    IF SnapshotsOf(t) = {} \/ ~LatestSnapshot(t).sound THEN NoBase
    ELSE [sequence |-> LatestSnapshot(t).sequence, document |-> LatestSnapshot(t).document]

StartReplay(t) ==
    /\ replaying.step # "log"
    /\ replaying' = [step |-> "log", task |-> t, base |-> Base(t)]
    /\ UNCHANGED <<events, views, stored, command, mishaps>>

(* The last document of the log after the base, else that of the base; with  *)
(* neither replay raises.                                                   *)
Replay(t, base) ==
    LET later == {i \in Carriers(t) : i > base.sequence}
    IN  IF later = {} THEN base.document ELSE Max(later)

EndReplay ==
    LET t == replaying.task
    IN  /\ replaying.step = "log"
        /\ replaying' = [step |-> "told", got |-> Replay(t, replaying.base), stood |-> views[t]]
        /\ UNCHANGED <<events, views, stored, command, mishaps>>

-----------------------------------------------------------------------------
(* What may go wrong *)

(* The process dies: what threads were in is lost, what was committed stays. *)
LogCrash ==
    /\ mishaps < MaxMishaps /\ mishaps' = mishaps + 1
    /\ command' = [w \in Writers |-> AtRest] /\ replaying' = NotReplaying
    /\ UNCHANGED <<events, views, stored>>

(* The document of a stored snapshot no longer matches its checksum.         *)
Rot ==
    /\ mishaps < MaxMishaps /\ mishaps' = mishaps + 1
    /\ \E s \in stored :
          /\ s.sound
          /\ stored' = (stored \ {s}) \cup {[s EXCEPT !.sound = FALSE, !.document = NoEvent]}
    /\ UNCHANGED <<events, views, command, replaying>>

LogWriter(w) ==
    \/ CreateRun(w)
    \/ \E t \in LogTasks : CreateTask(w, t) \/ UpdateTask(w, t) \/ Tell(w, t)
    \/ AppendBundle(w) \/ SaveSnapshot(w)

EventLogNext ==
    \/ \E w \in Writers : LogWriter(w)
    \/ \E t \in LogTasks : StartReplay(t)
    \/ EndReplay
    \/ LogCrash
    \/ Rot

EventLogSpec == EventLogInit /\ [][EventLogNext]_eventLogVars

-----------------------------------------------------------------------------
(* Properties *)

(* Every variable holds a value of its type. *)
EventLogTypeOK ==
    /\ \A i \in DOMAIN events : events[i].task \in LogTasks \cup {RunLevel}
    /\ views \in [LogTasks -> 0 .. Len(events)]
    /\ \A s \in stored : s.task \in LogTasks /\ s.sequence \in DOMAIN events

(* "Append-only EventStore with event-first projections ... and replay":     *)
(* what replay returns is the projection that stands when it has read the    *)
(* log, whichever snapshots were saved late, out of order, not at all        *)
(* because the process died, or were damaged, and whatever was appended      *)
(* between its two reads.                                                   *)
ReplayIsProjection == replaying.step = "told" => replaying.got = replaying.stood
=============================================================================

----------------------------- MODULE Dashboard -----------------------------
(***************************************************************************)
(* The dashboard's projection of a run: MainChain._observe and               *)
(* observability/ on the side of the run, console_api/source.py on the side  *)
(* of the console, which is another process.                                *)
(*                                                                         *)
(* A capture reads the tasks and then the events of a store that workers go  *)
(* on writing to, builds a snapshot of both and writes three files: the run  *)
(* file, the pointer latest.json and the index.  A file is replaced whole by *)
(* a temporary one; where os.replace is refused because somebody reads the   *)
(* file, it is overwritten in place, or in the end not written at all, and   *)
(* the capture goes on.  The observe lock makes captures exclude each other; *)
(* nothing excludes the readers.  Any of them may be in the way of a write;  *)
(* one is followed here.  The run's process may crash between any two steps. *)
(***************************************************************************)
EXTENDS Naturals, Sequences, SequencesExt, FiniteSets

CONSTANTS
    ShownTasks,   \* the tasks of the run
    MaxLog,       \* bound of the model: state events in the store
    MaxCaptures,  \* bound of the model: captures before the last
    MaxRefusals   \* bound of the model: overwritings and writes that are given up

ASSUME DashboardAssumption ==
    /\ IsFiniteSet(ShownTasks) /\ ShownTasks # {}
    /\ {MaxLog, MaxCaptures, MaxRefusals} \subseteq Nat

VARIABLES
    board,        \* the status of every task in the EventStore
    stateLog,     \* its state events, as <<task, to>>
    capturing,    \* the capture that holds the observe lock
    files,        \* runs/<run>.json, latest.json and index.json
    givenUp,      \* (history) the writes that were given up, as <<file, capture>>
    runPhase,     \* run_plan: in its rounds, past them, returned, or crashed
    reader,       \* a request for /api/snapshot
    captures, refusals

dashboardVars == <<board, stateLog, capturing, files, givenUp, runPhase, reader,
                   captures, refusals>>

Shown == {"READY", "RUNNING", "VERIFYING", "SUCCEEDED", "FAILED"}
Files == {"run", "latest", "index"}

(* at: the capture a snapshot is of; events: how many it holds.  A torn file *)
(* does not parse.                                                          *)
NoSnapshot == [at |-> 0, tasks |-> <<>>, events |-> 0, status |-> "UNKNOWN"]
Garbled == [NoSnapshot EXCEPT !.status = "TORN"]
Parses(content) == content \notin {NoSnapshot, Garbled}

NoCapture == [step |-> "none", snapshot |-> NoSnapshot]
NotReading == [step |-> "idle", at |-> 0, seen |-> NoSnapshot]

(* create_run, with its events, precedes the first capture. *)
DashboardInit ==
    /\ board = [t \in ShownTasks |-> "READY"]
    /\ stateLog = SetToSeq({<<t, "READY">> : t \in ShownTasks})
    /\ capturing = NoCapture
    /\ files = [f \in Files |-> NoSnapshot]
    /\ givenUp = {}
    /\ runPhase = "rounds"
    /\ reader = NotReading
    /\ captures = 0 /\ refusals = 0

(* The moves of a task, the recovery of a failed one included. *)
Moves(status) ==
    CASE status = "READY" -> {"RUNNING"}
      [] status = "RUNNING" -> {"VERIFYING", "FAILED"}
      [] status = "VERIFYING" -> {"SUCCEEDED", "FAILED"}
      [] status = "FAILED" -> {"READY"}
      [] status = "SUCCEEDED" -> {}

(* A worker's transition: the projection and its event in one transaction.   *)
Transition(t) ==
    /\ runPhase = "rounds"
    /\ Len(stateLog) < MaxLog
    /\ \E to \in Moves(board[t]) :
          /\ board' = [board EXCEPT ![t] = to]
          /\ stateLog' = Append(stateLog, <<t, to>>)
    /\ UNCHANGED <<capturing, files, givenUp, runPhase, reader, captures, refusals>>

(* The rounds are over and their workers have returned. *)
LeaveRounds ==
    /\ runPhase = "rounds" /\ capturing = NoCapture
    /\ runPhase' = "closing"
    /\ UNCHANGED <<board, stateLog, capturing, files, givenUp, reader, captures, refusals>>

-----------------------------------------------------------------------------
(* _observe.  During the rounds whether the throttle lets a capture through  *)
(* depends on the time; the one of run_complete is forced.                  *)

Observing(step) == runPhase # "crashed" /\ capturing.step = step

ReadTasks ==
    /\ Observing("none")
    /\ \/ runPhase = "rounds" /\ captures < MaxCaptures
       \/ runPhase = "closing"
    /\ captures' = captures + 1
    /\ capturing' = [step |-> "tasks", snapshot |-> [NoSnapshot EXCEPT !.tasks = board]]
    /\ UNCHANGED <<board, stateLog, files, givenUp, runPhase, reader, refusals>>

(* build_dashboard_snapshot's verdict on the run. *)
RunStatus(tasks) ==
    LET in(s) == {t \in ShownTasks : tasks[t] = s}
    IN  IF in("SUCCEEDED") = ShownTasks THEN "SUCCEEDED"
        ELSE IF in("FAILED") # {} THEN "FAILED" ELSE "RUNNING"

Built(tasks, n) ==
    [step |-> "run",
     snapshot |-> [at |-> captures, tasks |-> tasks, events |-> n,
                   status |-> RunStatus(tasks)]]

(* Variant: the events are read before the tasks. *)
EventsFirst ==
    /\ Observing("tasks")
    /\ \E n \in Cardinality(ShownTasks) .. Len(stateLog) :
          capturing' = Built(capturing.snapshot.tasks, n)
    /\ UNCHANGED <<board, stateLog, files, givenUp, runPhase, reader, captures, refusals>>

ReadEvents ==
    /\ Observing("tasks")
    /\ capturing' = Built(capturing.snapshot.tasks, Len(stateLog))
    /\ UNCHANGED <<board, stateLog, files, givenUp, runPhase, reader, captures, refusals>>

-----------------------------------------------------------------------------
(* SnapshotStore.write: the body, the pointer, the index. *)

FileContent(f) ==
    IF f = "run" THEN capturing.snapshot ELSE [capturing.snapshot EXCEPT !.tasks = <<>>]

(* The next file, or the end of the capture. *)
Advance(f) ==
    /\ capturing' = CASE f = "run" -> [capturing EXCEPT !.step = "latest"]
                      [] f = "latest" -> [capturing EXCEPT !.step = "index"]
                      [] f = "index" -> NoCapture
    /\ runPhase' = IF f = "index" /\ runPhase = "closing" THEN "returned" ELSE runPhase
    /\ UNCHANGED <<board, stateLog, captures>>

(* _atomic_write gets through: os.replace, or all of the overwriting.  A      *)
(* reader that has the file open keeps what it opened.                      *)
WriteFile(f) ==
    /\ Observing(f)
    /\ files' = [files EXCEPT ![f] = FileContent(f)]
    /\ Advance(f)
    /\ UNCHANGED <<givenUp, reader, refusals>>

Refusal == refusals < MaxRefusals /\ refusals' = refusals + 1

(* The fifth PermissionError: path.write_text truncates the file, under the   *)
(* eyes of its readers, ...                                                 *)
Overwrite(f) ==
    /\ Observing(f) /\ Refusal /\ files[f] # Garbled
    /\ files' = [files EXCEPT ![f] = Garbled]
    /\ \E seen \in {reader.seen, Garbled} :
          reader' = IF f = "run" /\ reader.step = "body" THEN [reader EXCEPT !.seen = seen]
                    ELSE reader
    /\ UNCHANGED <<board, stateLog, capturing, givenUp, runPhase, captures>>

(* ... and an OSError, before or after it did, is swallowed. *)
SkipWrite(f) ==
    /\ Observing(f) /\ Refusal
    /\ givenUp' = givenUp \cup {<<f, captures>>}
    /\ Advance(f)
    /\ UNCHANGED <<files, reader>>

(* Any other error, such as a temporary file that cannot be written, ends the *)
(* capture: in a worker it is an error of its task, in run_complete the run's.*)
CaptureRaises ==
    /\ runPhase \in {"rounds", "closing"} /\ capturing.step # "none"
    /\ capturing' = NoCapture
    /\ runPhase' = IF runPhase = "closing" THEN "crashed" ELSE "rounds"
    /\ UNCHANGED <<board, stateLog, files, givenUp, reader, captures, refusals>>

(* The run's process dies, or an operator kills it. *)
RunCrash ==
    /\ runPhase \in {"rounds", "closing"}
    /\ runPhase' = "crashed"
    /\ capturing' = NoCapture
    /\ UNCHANGED <<board, stateLog, files, givenUp, reader, captures, refusals>>

-----------------------------------------------------------------------------
(* ConsoleDataSource.snapshot: the pointer, and then the file it names.  What *)
(* does not exist or does not parse is answered with None.                  *)

Reads(next) ==
    /\ reader' = next
    /\ UNCHANGED <<board, stateLog, capturing, files, givenUp, runPhase, captures,
                   refusals>>

FollowPointer ==
    /\ reader.step = "idle" /\ Parses(files["latest"])
    /\ Reads([NotReading EXCEPT !.step = "pointer", !.at = files["latest"].at])

OpenBody ==
    /\ reader.step = "pointer"
    /\ Reads([reader EXCEPT !.step = "body", !.seen = files["run"]])

ServeBody == reader.step = "body" /\ Reads(NotReading)

DashboardNext ==
    \/ \E t \in ShownTasks : Transition(t)
    \/ LeaveRounds \/ ReadTasks \/ ReadEvents
    \/ \E f \in Files : WriteFile(f) \/ Overwrite(f) \/ SkipWrite(f)
    \/ CaptureRaises \/ RunCrash
    \/ FollowPointer \/ OpenBody \/ ServeBody

DashboardSpec == DashboardInit /\ [][DashboardNext]_dashboardVars

-----------------------------------------------------------------------------

DashboardTypeOK ==
    /\ board \in [ShownTasks -> Shown]
    /\ stateLog \in Seq(ShownTasks \X Shown)
    /\ capturing.step \in {"none", "tasks"} \cup Files
    /\ DOMAIN files = Files /\ givenUp \subseteq Files \X Nat
    /\ runPhase \in {"rounds", "closing", "returned", "crashed"}
    /\ reader.step \in {"idle", "pointer", "body"}

(* The event a shown status rests on (_state_provenance). *)
Provenance(snapshot, t) ==
    {i \in 1 .. snapshot.events : stateLog[i] = <<t, snapshot.tasks[t]>>}

(* What the console shows is told by the record: although workers write      *)
(* between the two reads, every status in a body that parses has its event   *)
(* in the same body; a reader that followed the pointer, even across a crash *)
(* or an overwriting, holds a torn body or one at least as new, but where    *)
(* the body of that capture was given up; and a run that has returned left   *)
(* its last state in every file whose last write was not.                   *)
SnapshotTells ==
    /\ \A body \in {files["run"], reader.seen} :
          Parses(body) => \A t \in ShownTasks : Provenance(body, t) # {}
    /\ reader.step = "body" =>
          \/ reader.seen = Garbled \/ reader.seen.at >= reader.at
          \/ <<"run", reader.at>> \in givenUp
    /\ runPhase = "returned" =>
          \A f \in Files :
             \/ <<f, captures>> \in givenUp
             \/ /\ files[f].at = captures /\ files[f].status = RunStatus(board)
                /\ f = "run" => files[f].tasks = board
=============================================================================

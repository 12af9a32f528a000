------------------------------- MODULE Memory -------------------------------
(***************************************************************************)
(* Long-term memory of one run (memory_recovery/): records with their       *)
(* verification status and the evidence they cite, the secondary indexes of *)
(* the Redis repository, the vector index, working memory, snapshots, and   *)
(* the ContextPack a task's agent gets.                                     *)
(*                                                                         *)
(* An invalidation and a restore save their records one by one, and a save  *)
(* is several Redis commands: a process that dies between two saves leaves  *)
(* the operation half done, one that dies inside a save leaves its record   *)
(* out of every index.  The thread that runs the plan calls them, between   *)
(* rounds; the workers of a round only read, for the packs of their tasks.  *)
(***************************************************************************)
EXTENDS Naturals, FiniteSets, Sequences, FiniteSetsExt

CONSTANTS
    Records,     \* memory ids
    Evidence,    \* evidence ids
    Owner,       \* the task (node) a record was written for
    Kind,        \* what it is: a goal, a (hard) constraint or prohibition, any other
                 \* incompressible record ("kept"), a fact, an episode, ...
    Cites,       \* evidence_refs a record is created with
    DependsOn,   \* metadata depends_on_memory_ids
    Readers,     \* the tasks that ask for a context pack
    Upstream,    \* the tasks a reader depends on
    Similar,     \* records the query of a reader resembles
    RecallLimit, \* recall_limit
    VectorLimit, \* vector_candidate_limit
    MaxSnapshots, MaxCalls  \* bounds of the model

ASSUME MemoryAssumption ==
    /\ Cites \in [Records -> SUBSET Evidence]
    /\ DependsOn \in [Records -> SUBSET Records]
    /\ Kind \in [Records -> {"goal", "constraint", "kept", "fact", "episode", "success",
                            "procedure"}]
    /\ Upstream \in [Readers -> SUBSET {Owner[r] : r \in Records}]
    /\ Similar \in [Readers -> SUBSET Records]
    /\ "none" \notin Records
    /\ {RecallLimit, VectorLimit, MaxSnapshots, MaxCalls} \subseteq Nat

VARIABLES
    status,    \* verification_status of every record, ABSENT before its save
    refs,      \* evidence_refs
    wins,      \* success_count of a procedure
    found,     \* the records in the secondary indexes
    vectors,   \* the ids in the vector index
    op,        \* the invalidation or restore that is under way
    working,   \* the working states that were set, by reader
    pack,      \* the last context pack of a reader
    snapshots, \* the stored snapshots, oldest first
    invalid,   \* the evidence that has been invalidated
    excused,   \* (history) records somebody vouched for, wrote, or a crash left, after that
    restarted, \* (history) the vector index was lost and not rebuilt
    tears, served

memoryVars == <<status, refs, wins, found, vectors, op, working, pack, snapshots,
                invalid, excused, restarted, tears, served>>

Recallable == {"UNVERIFIED", "VERIFIED"}
Void == {"STALE", "REJECTED"}
MemoryStatus == Recallable \cup Void \cup {"ABSENT"}

NoPack == [goal |-> "none", constraints |-> {}, rest |-> {}, cites |-> {}]
NoState == [goal |-> "none", constraints |-> {}, cites |-> {}]

(* kind: what is under way; left: the records it still has to save before it *)
(* looks for dependents; roots: roots of invalidate_dependents; from: the   *)
(* snapshot it restores.                                                    *)
NoOp == [kind |-> "none", left |-> {}, roots |-> {}, from |-> 0]

MemoryInit ==
    /\ status = [r \in Records |-> "ABSENT"]
    /\ refs = [r \in Records |-> {}]
    /\ wins = [r \in Records |-> 0]
    /\ found = {} /\ vectors = {}
    /\ op = NoOp
    /\ working = [t \in {} |-> NoState]
    /\ pack = [t \in Readers |-> NoPack]
    /\ snapshots = <<>>
    /\ invalid = {} /\ excused = {} /\ restarted = FALSE
    /\ tears = 0 /\ served = 0

Present == {r \in Records : status[r] # "ABSENT"}
Valid == {r \in Records : status[r] \in Recallable}

-----------------------------------------------------------------------------
(* Writing *)

(* Additions, restores and crashes are not counted. *)
Count == served < MaxCalls /\ served' = served + 1

(* What rests on something void: its base is, or its evidence is. *)
Tainted(r, st, rf) ==
    \/ \E b \in DependsOn[r] : st[b] \in Void
    \/ rf[r] \cap invalid # {}
Undermined == {r \in Valid : Tainted(r, status, refs)}

(* An excuse lasts until an invalidation comes to what it excuses. *)
Unexcused(r) == excused \ {x \in Records : x = r \/ r \in DependsOn[x]}

(* A save puts the record, whole, into the indexes. *)
Save(r, to, cites) ==
    /\ status' = [status EXCEPT ![r] = to]
    /\ refs' = [refs EXCEPT ![r] = cites]
    /\ found' = found \cup {r}

(* ingest_goal_spec, add_fact, add_procedure and ingest_event.  An id is     *)
(* drawn for a new record, so one can only depend on records that are there.*)
AddRecord(r) ==
    /\ op = NoOp /\ status[r] = "ABSENT" /\ DependsOn[r] \subseteq Present
    /\ Save(r, IF Kind[r] = "success" THEN "VERIFIED" ELSE "UNVERIFIED", Cites[r])
    /\ vectors' = vectors \cup {r}
    /\ excused' = IF Tainted(r, status, refs') THEN excused \cup {r} ELSE excused
    /\ UNCHANGED <<wins, op, working, pack, snapshots, invalid, restarted, tears, served>>

(* verify_fact: VERIFIED whatever it was, with one more piece of evidence.  *)
VerifyFact(r, e) ==
    /\ op = NoOp /\ Count /\ r \in Present
    /\ Save(r, "VERIFIED", refs[r] \cup {e})
    /\ vectors' = vectors \cup {r}
    /\ excused' = excused \cup {r}
    /\ UNCHANGED <<wins, op, working, pack, snapshots, invalid, restarted, tears>>

(* record_outcome: the second success verifies the procedure. *)
RecordOutcome(r, succeeded) ==
    /\ op = NoOp /\ Count /\ r \in Present /\ Kind[r] = "procedure"
    /\ wins' = [wins EXCEPT ![r] = IF succeeded THEN Min({2, @ + 1}) ELSE @]
    /\ Save(r, IF succeeded /\ wins'[r] >= 2 THEN "VERIFIED" ELSE status[r], refs[r])
    /\ vectors' = vectors \cup {r}
    /\ excused' = IF succeeded /\ wins'[r] >= 2 THEN excused \cup {r} ELSE excused
    /\ UNCHANGED <<op, working, pack, snapshots, invalid, restarted, tears>>

-----------------------------------------------------------------------------
(* invalidation.py *)

(* invalidate_by_evidence: the records that cite it are read at once, ...    *)
InvalidateByEvidence(e) ==
    /\ op = NoOp /\ Count
    /\ LET citing == {r \in found : e \in refs[r]}
       IN  op' = [kind |-> "evidence", left |-> citing, roots |-> citing, from |-> 0]
    /\ invalid' = invalid \cup {e}
    /\ UNCHANGED <<status, refs, wins, found, vectors, working, pack, snapshots, excused,
                   restarted, tears>>

(* reject_memory: one record, ...                                           *)
RejectMemory(r) ==
    /\ op = NoOp /\ Count /\ r \in Present
    /\ op' = [kind |-> "reject", left |-> {r}, roots |-> {r}, from |-> 0]
    /\ UNCHANGED <<status, refs, wins, found, vectors, working, pack, snapshots, invalid,
                   excused, restarted, tears>>

(* ... each is saved, whatever its status was, ...                          *)
SaveInvalid(r) ==
    /\ op.kind \in {"evidence", "reject"} /\ r \in op.left
    /\ Save(r, IF op.kind = "reject" THEN "REJECTED" ELSE "STALE", refs[r])
    /\ op' = [op EXCEPT !.left = @ \ {r}]
    /\ excused' = Unexcused(r)
    /\ UNCHANGED <<wins, vectors, working, pack, snapshots, invalid, restarted, tears, served>>

(* ... then what depends on a root, found in all() and not void yet, is      *)
(* saved and becomes a root, ...                                            *)
Reached(roots) ==
    {r \in (found \cap Valid) \ roots : DependsOn[r] \cap roots # {}}

(* Variant: what was reached does not become a root. *)
SpreadOnce(r) ==
    /\ op.left = {} /\ r \in Reached(op.roots)
    /\ Save(r, "STALE", refs[r])
    /\ excused' = Unexcused(r)
    /\ UNCHANGED <<wins, vectors, op, working, pack, snapshots, invalid, restarted, tears,
                   served>>

Spread(r) ==
    /\ op.left = {} /\ r \in Reached(op.roots)
    /\ Save(r, "STALE", refs[r])
    /\ op' = [op EXCEPT !.roots = @ \cup {r}]
    /\ excused' = Unexcused(r)
    /\ UNCHANGED <<wins, vectors, working, pack, snapshots, invalid, restarted, tears, served>>

(* ... until a pass finds no more.  Last, what an evidence invalidated, or   *)
(* only the rejected record, leaves the vector index.                       *)
EndInvalidation ==
    /\ op.kind \in {"evidence", "reject"} /\ op.left = {} /\ Reached(op.roots) = {}
    /\ vectors' = vectors \ {r \in op.roots : op.kind = "evidence" \/ status[r] = "REJECTED"}
    /\ op' = NoOp
    /\ UNCHANGED <<status, refs, wins, found, working, pack, snapshots, invalid, excused,
                   restarted, tears, served>>

(* The process dies, also between two saves: what they have not reached is   *)
(* left as it is, and nothing resumes them.  The vector index was in the    *)
(* process; Redis keeps the records, the indexes and the working states.    *)
Dies ==
    /\ op' = NoOp
    /\ vectors' = {} /\ restarted' = TRUE
    /\ excused' = excused \cup Undermined
    /\ UNCHANGED <<status, refs, wins, working, pack, snapshots, invalid>>

Crash == Dies /\ UNCHANGED <<found, tears, served>>

(* ... or inside a save, between the srem of the old index entries and the   *)
(* sadd of the new ones, with the old or the new content stored.            *)
TearSave(r) ==
    /\ Count /\ tears' = tears + 1
    /\ r \in found
    /\ found' = found \ {r}
    /\ Dies

-----------------------------------------------------------------------------
(* snapshot.py *)

(* create_snapshot copies the records the run's index finds. *)
CreateSnapshot ==
    /\ op = NoOp /\ Count /\ Len(snapshots) < MaxSnapshots
    /\ snapshots' = Append(snapshots,
           [ids |-> found, status |-> status, refs |-> refs, wins |-> wins,
            working |-> working, sound |-> TRUE])
    /\ UNCHANGED <<status, refs, wins, found, vectors, op, working, pack, invalid, excused,
                   restarted, tears>>

(* The stored object is damaged: its checksum does not match any more. *)
Damage(i) ==
    /\ Count /\ snapshots[i].sound
    /\ snapshots' = [snapshots EXCEPT ![i].sound = FALSE]
    /\ UNCHANGED <<status, refs, wins, found, vectors, op, working, pack, invalid, excused,
                   restarted, tears>>

(* A damaged snapshot is replaced by the first other one that loads. *)
Loaded(i) ==
    IF snapshots[i].sound THEN {i}
    ELSE LET others == {j \in DOMAIN snapshots : snapshots[j].sound}
         IN  IF others = {} THEN {} ELSE {Min(others)}

(* restore_snapshot(apply=True) loads a snapshot, saves its records, one by  *)
(* one, over the present ones, ...                                          *)
RestoreSnapshot(i) ==
    /\ op = NoOp
    /\ \E j \in Loaded(i) :
          op' = [kind |-> "restore", left |-> snapshots[j].ids, roots |-> {}, from |-> j]
    /\ UNCHANGED <<status, refs, wins, found, vectors, working, pack, snapshots, invalid,
                   excused, restarted, tears, served>>

RestoreRecord(r) ==
    LET s == snapshots[op.from]
    IN  /\ op.kind = "restore" /\ r \in op.left
        /\ Save(r, s.status[r], s.refs[r])
        /\ wins' = [wins EXCEPT ![r] = s.wins[r]]
        /\ op' = [op EXCEPT !.left = @ \ {r}]
        /\ UNCHANGED <<vectors, working, pack, snapshots, invalid, excused, restarted, tears,
                       served>>

(* ... imports the working states it holds, and rebuilds the vector index.   *)
EndRestore ==
    LET old == snapshots[op.from].working
    IN  /\ op.kind = "restore" /\ op.left = {}
        /\ working' = [t \in DOMAIN old \cup DOMAIN working |->
                          IF t \in DOMAIN old THEN old[t] ELSE working[t]]
        /\ vectors' = found \cap Valid
        /\ restarted' = FALSE
        /\ excused' = excused \cup Undermined
        /\ op' = NoOp
        /\ UNCHANGED <<status, refs, wins, found, pack, snapshots, invalid, tears, served>>

-----------------------------------------------------------------------------
(* retriever.py and context_builder.py *)

Near(t) == {t} \cup Upstream[t]

(* The stages of retrieve: the neighbourhood of the task, its own records,   *)
(* and what the vector index offers, the void included; then the status     *)
(* filter.                                                                  *)
Offers(t) ==
    LET similar == vectors \cap Similar[t]
    IN  {o \in SUBSET similar :
            IF Cardinality(similar) <= VectorLimit THEN o = similar
            ELSE Cardinality(o) = VectorLimit}
Candidates(t, offer) == ({r \in found : Owner[r] \in Near(t)} \cup offer) \cap Valid

(* is_forced: a core tag, or not compressible.                              *)
Forced(candidates) == {r \in candidates : Kind[r] \in {"goal", "constraint", "kept"}}

(* Variant: forced records compete for the limit like the others. *)
RankedSelections(candidates) ==
    kSubset(Min({RecallLimit, Cardinality(candidates)}), candidates)

(* Forced records never compete; of the others the best ranked fill the rest *)
(* of the limit (the ranking is left open).                                 *)
Selections(candidates) ==
    LET rest == candidates \ Forced(candidates)
        room == IF RecallLimit > Cardinality(Forced(candidates))
                THEN RecallLimit - Cardinality(Forced(candidates)) ELSE 0
    IN  {Forced(candidates) \cup chosen :
            chosen \in kSubset(Min({room, Cardinality(rest)}), rest)}

WorkingState(t) == IF t \in DOMAIN working THEN working[t] ELSE NoState

(* build: the working state, then the selected records.  The goal of the     *)
(* working state wins over that of the records.  The item limits and the    *)
(* budget may take any other record, the incompressible ones included, and  *)
(* when those are gone the references to evidence; never goal or constraint.*)
Packs(state, selected) ==
    LET goals == {r \in selected : Kind[r] = "goal"}
        bound == {r \in selected : Kind[r] = "constraint"}
        cites == state.cites \cup UNION {refs[r] : r \in selected}
    IN  {p \in [goal : IF state.goal # "none" THEN {state.goal}
                       ELSE IF goals = {} THEN {"none"} ELSE goals,
                constraints : {state.constraints \cup bound},
                rest : SUBSET (selected \ (goals \cup bound)),
                cites : SUBSET cites] : p.rest # {} => p.cites = cites}

(* prepare_agent_context: build_context_pack, then set_working_state with    *)
(* the goal, the constraints and the evidence of the pack.                  *)
PrepareContext(t) ==
    /\ op = NoOp /\ Count
    /\ \E offer \in Offers(t) : \E selected \in Selections(Candidates(t, offer)) :
       \E p \in Packs(WorkingState(t), selected) :
          /\ pack' = [pack EXCEPT ![t] = p]
          /\ working' = [u \in {t} \cup DOMAIN working |->
                            IF u = t THEN [goal |-> p.goal, constraints |-> p.constraints,
                                           cites |-> p.cites]
                            ELSE working[u]]
    /\ UNCHANGED <<status, refs, wins, found, vectors, op, snapshots, invalid, excused,
                   restarted, tears>>

MemoryNext ==
    \/ \E r \in Records : \/ AddRecord(r) \/ RejectMemory(r) \/ TearSave(r)
                          \/ SaveInvalid(r) \/ Spread(r) \/ RestoreRecord(r)
                          \/ \E e \in Evidence : VerifyFact(r, e)
                          \/ \E ok \in BOOLEAN : RecordOutcome(r, ok)
    \/ \E e \in Evidence : InvalidateByEvidence(e)
    \/ EndInvalidation \/ Crash
    \/ CreateSnapshot
    \/ \E i \in DOMAIN snapshots : Damage(i) \/ RestoreSnapshot(i)
    \/ EndRestore
    \/ \E t \in Readers : PrepareContext(t)

MemorySpec == MemoryInit /\ [][MemoryNext]_memoryVars

-----------------------------------------------------------------------------
(* Properties *)

MemoryTypeOK ==
    /\ status \in [Records -> MemoryStatus]
    /\ refs \in [Records -> SUBSET Evidence]
    /\ wins \in [Records -> 0 .. 2]
    /\ found \subseteq Present /\ vectors \subseteq Present
    /\ op.kind \in {"none", "evidence", "reject", "restore"}
    /\ op.left \cup op.roots \subseteq Records
    /\ invalid \subseteq Evidence /\ excused \subseteq Records

(* "Evidence/fact invalidation and dependency propagation": once an          *)
(* invalidation has returned, what can be recalled rests on nothing invalid,*)
(* however long the chain of dependencies - unless it was verified, restored*)
(* or written after the invalidation, a crash cut the invalidation off, or  *)
(* one had hidden a record from the indexes.                                *)
ValidRestsOnValid == op = NoOp /\ tears = 0 => Undermined \subseteq excused

(* What a query of t must find: the records of its neighbourhood, and, since *)
(* the core is written for the run's goal and not for a task, those that    *)
(* resemble it while the vector index offers all of these.                  *)
Reachable(t) ==
    {r \in Valid :
        \/ Owner[r] \in Near(t) /\ tears = 0
        \/ /\ r \in Similar[t] /\ ~restarted /\ tears = 0
           /\ Cardinality(vectors \cap Similar[t]) <= VectorLimit}

(* "Safety-critical records never lose a competition for the recall limit",  *)
(* "goal + hard constraints + prohibitions [...] are intentionally retained":*)
(* whatever invalidations, restores and verifications went before, a pack   *)
(* holds a goal and every valid constraint that a query must find and those *)
(* of the packs before it, for any limit and budget.                        *)
CoreReachesPack ==
    [][\A t \in Readers : pack'[t] # pack[t] =>
          /\ \A r \in Reachable(t) : Kind[r] = "constraint" => r \in pack'[t].constraints
          /\ (\E r \in Reachable(t) : Kind[r] = "goal") => pack'[t].goal # "none"
          /\ WorkingState(t).constraints \subseteq pack'[t].constraints
          /\ WorkingState(t).goal \in {"none", pack'[t].goal}]_memoryVars
=============================================================================

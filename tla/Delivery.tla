------------------------------ MODULE Delivery ------------------------------
(***************************************************************************)
(* How an attempt gets the results of its parents: prepare_agent_context,   *)
(* on the worker thread of every task of a round, rebuilds the topology,    *)
(* offers one message per parent to the message gateway, drains the         *)
(* deferred ones and hands the rest to the agent (main_chain.py,            *)
(* message_topology/service.py and what it calls).  Nothing of the gateway  *)
(* is locked, so the threads interleave at every step below.                *)
(*                                                                         *)
(* A message waits in the deferred queue only while some thread prepares,   *)
(* far below its TTL of 300 s: the TTL never drops it.                       *)
(***************************************************************************)
EXTENDS Topology, FiniteSetsExt

CONSTANTS
    Receivers,   \* the tasks that are attempted
    Hosts,       \* the agents that may execute a task
    Proven,      \* tasks whose results carry evidence
    Long,        \* tasks whose messages exceed token_budget_per_message
    Low,         \* tasks of priority below 6: impact score below 0.6
    MaxQueue,    \* max_queue_size
    Tries,       \* attempts of a task, up to 1 + max_task_retries
    Redone       \* bound of the model: parents whose result is produced again

ASSUME DeliveryAssumption ==
    /\ Receivers \subseteq Jobs /\ Proven \subseteq Jobs
    /\ Hosts \in [Jobs -> SUBSET Members]
    /\ Long \subseteq Jobs /\ Low \subseteq Jobs
    /\ \A j \in Receivers : Parents[j] \cap Receivers = {}
    /\ Redone \subseteq Jobs \ Receivers
    /\ MaxQueue \in Nat /\ Tries \in [Receivers -> Nat]

VARIABLES
    version,    \* which result of a parent is the current one
    tries,      \* attempts of a task so far
    worker,     \* the thread that executes a task
    digest,     \* KnowledgeDigestStore: what a receiver knows for a task
    hashes,     \* SemanticDeduplicator: recent content hashes
    deferred,   \* DeferredMessageQueue
    given,      \* every item handed to an attempt of an agent at a task
    received,   \* ... whose agent has answered
    overlapped  \* two threads have prepared at the same time

deliveryVars == <<version, tries, worker, digest, hashes, deferred, given, received,
                  overlapped, edges, assigned>>

(* An item of a message.  The summary of the parent's result and the facts   *)
(* of the pack, which is another one at every attempt, are low impact; the   *)
(* evidence, and constraints, which travel like it, are critical.           *)
Summary(p) == [kind |-> "summary", of |-> p, v |-> version[p]]
Proof(p) == [kind |-> "evidence", of |-> p, v |-> version[p]]
Fact(j) == [kind |-> "fact", of |-> j, v |-> tries[j]]

Content(p, j) == {Summary(p), Fact(j)} \cup (IF p \in Proven THEN {Proof(p)} ELSE {})

Message(p, j, items) ==
    [from |-> assigned[p], to |-> assigned[j], task |-> j, items |-> items]

Resting == [pc |-> "idle", view |-> assigned, left |-> {}, msgs |-> {}, read |-> {},
            box |-> {}, pruned |-> {}]

(* The parents have run where they were assigned. *)
ParentsAssigned ==
    assigned \in {asg \in [Jobs -> Members \cup {Nobody}] :
                     \A j \in Jobs : IF j \in Receivers THEN asg[j] = Nobody
                                     ELSE asg[j] \in Hosts[j]}

GatewayInit ==
    /\ version = [j \in Jobs |-> 1]
    /\ tries = [j \in Receivers |-> 0]
    /\ worker = [j \in Receivers |-> Resting]
    /\ digest = [k \in Members \X Receivers |-> {}]
    /\ hashes = {} /\ deferred = {}
    /\ given = {} /\ received = {}
    /\ overlapped = FALSE

DeliveryInit == ParentsAssigned /\ edges = {} /\ GatewayInit

WorkerTo(j, w) == worker' = [worker EXCEPT ![j] = w]

Preparing(j) == worker[j].pc \notin {"idle", "call", "done"}

-----------------------------------------------------------------------------
(* The start of an attempt, on the agent the scheduler chose. *)
StartAttempt(j, a) ==
    /\ worker[j].pc = "idle" /\ tries[j] < Tries[j]
    /\ tries' = [tries EXCEPT ![j] = @ + 1]
    /\ assigned' = [assigned EXCEPT ![j] = a]
    /\ WorkerTo(j, [Resting EXCEPT !.pc = "look"])
    /\ overlapped' = (overlapped \/ \E k \in Receivers : Preparing(k))
    /\ UNCHANGED <<version, digest, hashes, deferred, given, received, edges>>

(* _sync_topology reads every task ... *)
Look(j) ==
    /\ worker[j].pc = "look"
    /\ WorkerTo(j, [worker[j] EXCEPT !.pc = "rebuild", !.view = assigned])
    /\ UNCHANGED <<version, tries, digest, hashes, deferred, given, received,
                   overlapped, edges, assigned>>

(* ... and rebuilds the graph for what it has read. *)
RebuildFor(j) ==
    /\ worker[j].pc = "rebuild"
    /\ edges' = Rebuilt(worker[j].view, Members, {}, {j})
    /\ WorkerTo(j, [worker[j] EXCEPT !.pc = "offer",
                                  !.left = {p \in Parents[j] : assigned[p] # assigned[j]}])
    /\ UNCHANGED <<version, tries, digest, hashes, deferred, given, received,
                   overlapped, assigned>>

-----------------------------------------------------------------------------
(* prepare_context *)

EdgeActive(m) ==
    \E e \in edges : KeyOfEdge(e) = <<m.from, m.to>> /\ m.task \in e.tasks

Known(m) == digest[<<m.to, m.task>>]

(* The summary of a message, or a piece of evidence by its id. *)
NameOf(i) == IF i.kind = "summary" THEN <<"summary">> ELSE <<i.kind, i.of>>

(* Variant: an item is known by its name, whatever it says now. *)
DeltaByName(m) ==
    [m EXCEPT !.items = {i \in @ : \A k \in Known(m) : NameOf(k) # NameOf(i)}]

(* DeltaBuilder.build: what the receiver does not know for this task.       *)
Delta(m) == [m EXCEPT !.items = @ \ Known(m)]

Critical(m) == m.task \in HighRisk \/ \E i \in m.items : i.kind = "evidence"

(* Variant: the length is looked at before the impact. *)
BudgetFirst(m) ==
    IF m.task \in Long THEN "DEFER" ELSE "SEND"

(* MessagePolicy.decide *)
Action(m) ==
    IF Critical(m) THEN "SEND"
    ELSE IF Cardinality(deferred) >= MaxQueue THEN "DROP"
    ELSE IF deferred # {} /\ m.task \in Low THEN "MERGE"
    ELSE IF m.task \in Long THEN "DEFER"
    ELSE "SEND"

Stream(m) == <<m.from, m.to, m.task>>

(* A newer item replaces the older one of its name. *)
Update(old, new) ==
    {i \in old : \A n \in new : NameOf(n) # NameOf(i)} \cup new

(* DeferredMessageQueue.defer merges into what waits in the same stream. *)
Deferring(m) ==
    LET waiting == {q \in deferred : Stream(q) = Stream(m)}
    IN  (deferred \ waiting) \cup
        {[m EXCEPT !.items = Update(UNION {q.items : q \in waiting}, m.items)]}

(* One parent's message.  It is sent at once, kept, or dropped: without an   *)
(* edge, when the receiver knows it, or as a duplicate.                      *)
Offer(j) ==
    /\ worker[j].pc = "offer"
    /\ \E p \in worker[j].left :
          LET m == Message(p, j, Content(p, j))
              d == Delta(m)
              rest == [worker[j] EXCEPT !.left = @ \ {p}]
              dropped == d.items = {} \/ d \in hashes
          IN  IF ~EdgeActive(m)
              THEN /\ WorkerTo(j, [rest EXCEPT !.pruned = @ \cup {p}])
                   /\ UNCHANGED deferred
              ELSE IF ~dropped /\ Action(d) = "SEND"
              THEN WorkerTo(j, [rest EXCEPT !.pc = "mark", !.msgs = {d}]) /\ UNCHANGED deferred
              ELSE /\ WorkerTo(j, rest)
                   /\ deferred' = IF ~dropped /\ Action(d) \in {"MERGE", "DEFER"}
                                  THEN Deferring(d) ELSE deferred
    /\ UNCHANGED <<version, tries, digest, hashes, given, received, overlapped,
                   edges, assigned>>

(* mark_delivered: the hash is recorded and the digest is read ...           *)
Mark(j) ==
    /\ worker[j].pc \in {"mark", "drain"}
    /\ \E m \in worker[j].msgs :
          /\ hashes' = hashes \cup {m}
          /\ WorkerTo(j, [worker[j] EXCEPT !.pc = IF @ = "mark" THEN "write" ELSE "rewrite",
                                        !.read = {[of |-> m, was |-> Known(m)]}])
    /\ UNCHANGED <<version, tries, digest, deferred, given, received, overlapped,
                   edges, assigned>>

(* ... and written; the message goes to the attempt of this thread.         *)
Write(j) ==
    /\ worker[j].pc \in {"write", "rewrite"}
    /\ \E r \in worker[j].read :
          LET m == r.of
          IN  /\ digest' = [digest EXCEPT ![<<m.to, m.task>>] = Update(r.was, m.items)]
              /\ WorkerTo(j, [worker[j] EXCEPT !.pc = IF @ = "write" THEN "offer" ELSE "drain",
                                            !.msgs = @ \ {m}, !.read = {},
                                            !.box = @ \cup {m}])
    /\ UNCHANGED <<version, tries, hashes, deferred, given, received, overlapped,
                   edges, assigned>>

(* drain_deferred: pop_all copies the queue ... *)
Take(j) ==
    /\ worker[j].pc = "offer" /\ worker[j].left = {}
    /\ WorkerTo(j, [worker[j] EXCEPT !.pc = "clear", !.msgs = deferred])
    /\ UNCHANGED <<version, tries, digest, hashes, deferred, given, received,
                   overlapped, edges, assigned>>

(* ... and clears it. *)
Clear(j) ==
    /\ worker[j].pc = "clear"
    /\ deferred' = {}
    /\ WorkerTo(j, [worker[j] EXCEPT !.pc = "drain"])
    /\ UNCHANGED <<version, tries, digest, hashes, given, received, overlapped,
                   edges, assigned>>

Items(m) == {<<m.to, m.task, i>> : i \in m.items}

(* The agent gets the context, with everything marked as delivered ... *)
HandOver(j) ==
    /\ worker[j].pc = "drain" /\ worker[j].msgs = {}
    /\ given' = given \cup UNION {Items(m) : m \in worker[j].box}
    /\ WorkerTo(j, [worker[j] EXCEPT !.pc = "call"])
    /\ UNCHANGED <<version, tries, digest, hashes, deferred, received, overlapped,
                   edges, assigned>>

(* ... and its plan arrives, or the call raises and the task is retried.    *)
CallAgent(j, ok) ==
    /\ worker[j].pc = "call"
    /\ received' = IF ok THEN received \cup UNION {Items(m) : m \in worker[j].box}
                   ELSE received
    /\ WorkerTo(j, [Resting EXCEPT !.pc = IF ok THEN "done" ELSE "idle"])
    /\ UNCHANGED <<version, tries, digest, hashes, deferred, given, overlapped,
                   edges, assigned>>

(* Between two rounds a local replan has produced a result again, so the     *)
(* tasks behind it run again too.                                            *)
Redo(p) ==
    /\ version[p] = 1
    /\ \A j \in Receivers : worker[j].pc \in {"idle", "done"}
    /\ version' = [version EXCEPT ![p] = @ + 1]
    /\ worker' = [j \in Receivers |-> IF p \in Parents[j] THEN Resting ELSE worker[j]]
    /\ UNCHANGED <<tries, digest, hashes, deferred, given, received, overlapped,
                   edges, assigned>>

(* Time passes between rounds: hashes expire (one that was looked up again   *)
(* stands behind newer ones and may outlive its time), holds are over.       *)
Elapse ==
    /\ \A j \in Receivers : worker[j].pc \in {"idle", "done"}
    /\ hashes' \in SUBSET hashes
    /\ edges' = {[e EXCEPT !.held = FALSE] : e \in edges}
    /\ UNCHANGED <<version, tries, worker, digest, deferred, given, received,
                   overlapped, assigned>>

DeliveryStep(j) ==
    \/ \E a \in Hosts[j] : StartAttempt(j, a)
    \/ Look(j) \/ RebuildFor(j) \/ Offer(j) \/ Mark(j) \/ Write(j)
    \/ Take(j) \/ Clear(j) \/ HandOver(j)
    \/ \E ok \in BOOLEAN : CallAgent(j, ok)

DeliveryNext ==
    \/ \E j \in Receivers : DeliveryStep(j)
    \/ \E p \in Redone : Redo(p)
    \/ Elapse

DeliverySpec == DeliveryInit /\ [][DeliveryNext]_deliveryVars

-----------------------------------------------------------------------------
(* Properties *)

DeliveryTypeOK ==
    /\ \A j \in Receivers : /\ worker[j].left \subseteq Jobs
                            /\ \A m \in worker[j].msgs \cup worker[j].box :
                                  m.to \in Members /\ m.task \in Receivers
    /\ \A k \in Members \X Receivers : \A i \in digest[k] : i.of \in Jobs
    /\ assigned \in [Jobs -> Members \cup {Nobody}]

(* What the attempt of j, about to call its agent, should know by now.      *)
Given(j, i) == <<assigned[j], j, i>> \in given

(* "critical_information": whatever the threads of a round do to each other, *)
(* an agent is not called before it was given the current evidence of every  *)
(* parent; only a rebuild that another thread based on older assignments can *)
(* prune the edge it needs.                                                  *)
CriticalReaches ==
    \A j \in Receivers : worker[j].pc = "call" =>
        \A p \in Parents[j] \cap Proven : assigned[p] # assigned[j] =>
            \/ Given(j, Proof(p))
            \/ p \in worker[j].pruned /\ overlapped

(* What merging leaves of a summary: a stream keeps the latest one, whichever *)
(* of the tasks that its sender has executed that is of.                    *)
Superseded(p, j) ==
    \E q \in Parents[j] \ {p} : assigned[q] = assigned[p] /\ Given(j, Summary(q))

(* One thread at a time, nothing is held back from an agent: deferred and    *)
(* merged messages are drained before it is called, what is dropped it was   *)
(* given before, and nothing meant for another attempt gets into its own.    *)
(* Only the summary of a parent may give way to that of another parent which *)
(* the same agent has executed.                                             *)
SerialHandoff ==
    \A j \in Receivers : worker[j].pc = "call" /\ ~overlapped =>
        /\ \A p \in Parents[j] : assigned[p] # assigned[j] =>
              \A i \in Content(p, j) : Given(j, i) \/ (i = Summary(p) /\ Superseded(p, j))
        /\ \A m \in worker[j].box : m.to = assigned[j] /\ m.task = j

(* "Stores only the context a receiver has actually accepted"                *)
(* (knowledge_digest.py): between attempts, the digest holds only what an    *)
(* agent has answered to.                                                    *)
KnownWasReceived ==
    \A k \in Members \X Receivers : \A i \in digest[k] :
        \/ <<k[1], k[2], i>> \in received
        \/ \E j \in Receivers : worker[j].pc \notin {"idle", "done"}
=============================================================================

-------------------------- MODULE Delivery_proofs --------------------------
(***************************************************************************)
(* What the topology and the gateway in front of it promise an attempt, for  *)
(* every number of agents and tasks, every dependency and every history of   *)
(* assignments: an edge from the agent of each parent, and the current        *)
(* evidence of each parent before the agent is called.                      *)
(***************************************************************************)
EXTENDS Delivery, Integers, FiniteSetTheorems, TLAPS

-----------------------------------------------------------------------------
(* What a rebuild keeps *)

(* There is an edge for this pair of agents that carries these tasks. *)
Carried(es, a, b, tasks) == \E e \in es : KeyOfEdge(e) = <<a, b>> /\ tasks \subseteq e.tasks

Wanted(cs, a, b, tasks) ==
    \E c \in cs : KeyOfEdge(c) = <<a, b>> /\ tasks \subseteq c.tasks /\ c.required

(* A dependency between two online agents is offered as a required edge. *)
LEMMA DependencyOffered ==
    ASSUME NEW asg, NEW on, NEW j \in Jobs, NEW p \in Parents[j], Nobody \notin on,
           asg[p] \in on, asg[j] \in on, asg[p] # asg[j]
    PROVE  Wanted(Offered(asg, on), asg[p], asg[j], {p, j})
<1> DEFINE d == <<p, j>>
           c == Edge(asg[d[1]], asg[d[2]], {d[1], d[2]}, TRUE, d[2] \in HighRisk)
<1>1. p \in Jobs BY TopologyAssumption
<1>2. d \in {x \in Jobs \X Jobs : /\ x[1] \in Parents[x[2]]
                                  /\ Nobody \notin {asg[x[1]], asg[x[2]]}
                                  /\ asg[x[1]] # asg[x[2]]}
  BY <1>1
<1>3. c \in DependencyCandidates(asg) BY <1>2 DEF DependencyCandidates
<1>4. /\ KeyOfEdge(c) = <<asg[p], asg[j]>> /\ {p, j} \subseteq c.tasks /\ c.required
      /\ Ends(c) \subseteq on
  BY DEF Edge, KeyOfEdge, Ends
<1> HIDE DEF c, d
<1>5. c \in Offered(asg, on) BY <1>3, <1>4 DEF Offered
<1>6. QED BY <1>4, <1>5 DEF Wanted

(* Merging the candidates of a pair loses no task and no requirement. *)
LEMMA MergedDemanded ==
    ASSUME NEW cs, NEW a, NEW b, NEW tasks, Wanted(cs, a, b, tasks)
    PROVE  Wanted(Merged(cs), a, b, tasks)
<1>1. PICK c \in cs : KeyOfEdge(c) = <<a, b>> /\ tasks \subseteq c.tasks /\ c.required
  BY DEF Wanted
<1> DEFINE k == <<a, b>>
           same(x) == {y \in cs : KeyOfEdge(y) = x}
           one(x) == Edge(x[1], x[2], UNION {y.tasks : y \in same(x)},
                          \E y \in same(x) : y.required, \E y \in same(x) : y.risk)
           m == one(k)
<1>2. Merged(cs) = {one(x) : x \in {KeyOfEdge(y) : y \in cs}} BY DEF Merged
<1>3. c \in same(k) BY <1>1
<1>4. c.tasks \subseteq UNION {y.tasks : y \in same(k)} BY <1>3
<1>5. \E y \in same(k) : y.required BY <1>1, <1>3
<1> HIDE DEF same
<1>6. KeyOfEdge(m) = <<a, b>> /\ tasks \subseteq m.tasks /\ m.required
  BY <1>1, <1>4, <1>5 DEF KeyOfEdge, Edge
<1> HIDE DEF one
<1>7. k \in {KeyOfEdge(y) : y \in cs} BY <1>1
<1>8. m \in Merged(cs) BY <1>2, <1>7
<1>9. QED BY <1>6, <1>8 DEF Wanted

(* Standing in for others adds to an edge and takes nothing from it. *)
LEMMA ProtectedDemanded ==
    ASSUME NEW cs, NEW a, NEW b, NEW tasks, Wanted(cs, a, b, tasks)
    PROVE  Wanted(Protected(cs), a, b, tasks)
<1> DEFINE by == Merged(cs)
           ways == {<<e, AlternatePath(e, by)>> : e \in {x \in by : x.required /\ x.risk}}
           backups == UNION {w[2] : w \in ways}
           with(c) == LET w == CHOOSE w \in ways : c \in w[2]
                      IN  Edge(c.source, c.target, c.tasks \cup w[1].tasks, TRUE, TRUE)
<1>1. PICK c \in by : KeyOfEdge(c) = <<a, b>> /\ tasks \subseteq c.tasks /\ c.required
  BY MergedDemanded DEF Wanted
<1>2. Protected(cs) = (by \ backups) \cup {with(x) : x \in backups} BY DEF Protected
<1> HIDE DEF by, ways, backups
<1>3. CASE c \notin backups BY <1>1, <1>2, <1>3 DEF Wanted
<1>4. CASE c \in backups
  <2>1. with(c) \in Protected(cs) BY <1>2, <1>4
  <2>2. KeyOfEdge(with(c)) = <<a, b>> /\ tasks \subseteq with(c).tasks /\ with(c).required
    BY <1>1 DEF KeyOfEdge, Edge
  <2> HIDE DEF with
  <2>3. QED BY <2>1, <2>2 DEF Wanted
<1>5. QED BY <1>3, <1>4

(* Of what changed, everything that is required is active after the rebuild. *)
LEMMA RebuiltCarries ==
    ASSUME NEW asg, NEW on, NEW agents, NEW changed, NEW j \in changed, NEW a, NEW b,
           NEW tasks, j \in tasks, Wanted(Offered(asg, on), a, b, tasks)
    PROVE  Carried(Rebuilt(asg, on, agents, changed), a, b, tasks)
<1> DEFINE cs == Protected(Offered(asg, on))
           wanted == Repaired(Selected(cs), cs)
           region == Scope(cs, agents, changed)
           inRegion(e) == edges = {} \/ Touches(e, region.agents, region.tasks)
           keys == {KeyOfEdge(e) : e \in {x \in edges \cup wanted : inRegion(x)}}
           new == {c \in wanted : KeyOfEdge(c) \in keys}
<1>0. Wanted(cs, a, b, tasks) BY ProtectedDemanded
<1> HIDE DEF cs
<1>1. PICK c \in cs : KeyOfEdge(c) = <<a, b>> /\ tasks \subseteq c.tasks /\ c.required
  BY <1>0 DEF Wanted
<1>2. c \in Selected(cs) BY <1>1 DEF Selected
<1>3. Selected(cs) \subseteq wanted BY DEF Repaired
<1>4. j \in region.tasks BY DEF Scope
<1>5. inRegion(c) BY <1>1, <1>4 DEF Touches
<1>6. Rebuilt(asg, on, agents, changed) =
         {Activated(x) : x \in new} \cup
         {e \in {x \in edges : Ends(x) \subseteq on} :
             /\ \A x \in new : KeyOfEdge(x) # KeyOfEdge(e)
             /\ KeyOfEdge(e) \in keys => ~Goes(e, on)}
  BY DEF Rebuilt, cs
<1> HIDE DEF wanted, region
<1>7. c \in wanted BY <1>2, <1>3
<1> HIDE DEF inRegion
<1>8. c \in new BY <1>5, <1>7
<1> HIDE DEF keys, new
<1>9. Activated(c) \in Rebuilt(asg, on, agents, changed) BY <1>6, <1>8
<1>10. KeyOfEdge(Activated(c)) = KeyOfEdge(c) /\ Activated(c).tasks = c.tasks
  BY DEF Activated, KeyOfEdge
<1>11. QED BY <1>1, <1>9, <1>10 DEF Carried

-----------------------------------------------------------------------------
(* The topology *)

Connected == online \subseteq Members /\ rebuilt \subseteq Jobs /\ DependencyCarried

LEMMA RebuildConnected ==
    ASSUME Connected, NEW agents, NEW tasks \in SUBSET Jobs, Rebuild(agents, tasks)
    PROVE  Connected'
<1>1. /\ edges' = Rebuilt(assigned, online, agents, tasks) /\ rebuilt' = tasks
      /\ UNCHANGED <<assigned, online>>
  BY DEF Rebuild
<1>2. ASSUME NEW j \in tasks, NEW p \in Parents[j], {assigned[p], assigned[j]} \subseteq online,
             assigned[p] # assigned[j]
      PROVE  Carried(edges', assigned[p], assigned[j], {p, j})
  <2>1. Nobody \notin online BY TopologyAssumption DEF Connected
  <2>2. Wanted(Offered(assigned, online), assigned[p], assigned[j], {p, j})
    BY <1>2, <2>1, DependencyOffered
  <2>3. QED BY <1>1, <2>2, RebuiltCarries
<1>3. QED BY <1>1, <1>2 DEF Connected, DependencyCarried, Carried

LEMMA NextConnected ==
    ASSUME Connected, [TopologyNext]_topologyVars
    PROVE  Connected'
<1>1. ASSUME rebuilt' = {}, online' \subseteq Members PROVE Connected'
  BY <1>1 DEF Connected, DependencyCarried
<1>2. ASSUME NEW j \in Jobs, NEW a \in Members \cup {Nobody}, Reassign(j, a) PROVE Connected'
  BY <1>1, <1>2 DEF Reassign, Change, Connected
<1>3. ASSUME NEW j \in Jobs, Rebuild({}, {j}) PROVE Connected' BY <1>3, RebuildConnected
<1>4. ASSUME NEW a \in Members, Flip(a) PROVE Connected'
  BY <1>1, <1>4 DEF Flip, Change, Connected
<1>5. ASSUME NEW a \in Members, Rebuild({a}, {}) PROVE Connected' BY <1>5, RebuildConnected
<1>6. ASSUME NEW d \in Demands, Demand(d) PROVE Connected'
  BY <1>1, <1>6 DEF Demand, Change, Connected
<1>7. CASE HoldEnds BY <1>1, <1>7 DEF HoldEnds, Connected
<1>8. CASE UNCHANGED topologyVars BY <1>8 DEF topologyVars, Connected, DependencyCarried
<1>9. QED BY <1>2, <1>3, <1>4, <1>5, <1>6, <1>7, <1>8 DEF TopologyNext

(* SparseTopologyManager.rebuild: however edges compete for the places of    *)
(* their agents, whatever stands in for whatever, and whichever agents come, *)
(* go or are assigned before it, a rebuild for a task leaves an edge that     *)
(* carries it from the agent of each of its parents.                        *)
THEOREM DependenciesAreCarried == TopologySpec => []DependencyCarried
<1>1. TopologyInit => Connected BY DEF TopologyInit, Connected, DependencyCarried
<1>2. Connected /\ [TopologyNext]_topologyVars => Connected' BY NextConnected
<1>3. Connected => DependencyCarried BY DEF Connected
<1>4. QED BY <1>1, <1>2, <1>3, PTL DEF TopologySpec
-----------------------------------------------------------------------------
(* The gateway *)

Pieces == [kind : {"summary", "fact", "evidence"}, of : Jobs, v : Nat]
Messages == [from : Members, to : Members, task : Receivers, items : SUBSET Pieces]

Gathering == {"offer", "mark", "write"}
Draining == {"clear", "drain", "rewrite"}
Stages == {"idle", "look", "rebuild", "call", "done"} \cup Gathering \cup Draining

Workers ==
    [pc : Stages, view : [Jobs -> Members \cup {Nobody}], left : SUBSET Jobs,
     msgs : SUBSET Messages, read : SUBSET [of : Messages, was : SUBSET Pieces],
     box : SUBSET Messages, pruned : SUBSET Jobs]

GatewayTyped ==
    /\ version \in [Jobs -> Nat] /\ tries \in [Receivers -> Nat]
    /\ worker \in [Receivers -> Workers]
    /\ digest \in [Members \X Receivers -> SUBSET Pieces]
    /\ hashes \subseteq Messages /\ deferred \subseteq Messages
    /\ overlapped \in BOOLEAN
    /\ assigned \in [Jobs -> Members \cup {Nobody}]
    /\ \A j \in Jobs \ Receivers : assigned[j] \in Members
    /\ \A j \in Receivers : worker[j].pc # "idle" => assigned[j] \in Members

Ordinary(m) == \A i \in m.items : i.kind # "evidence"

ForIt(m, j) == m.to = assigned[j] /\ m.task = j

(* What a worker holds at a step of prepare_agent_context. *)
Shaped(j) ==
    LET w == worker[j]
    IN  /\ w.left \cup w.pruned \subseteq Parents[j]
        /\ w.pc \in {"idle", "look", "rebuild", "done"} =>
              w.left = {} /\ w.pruned = {} /\ w.box = {}
        /\ w.pc \in Draining \cup {"call"} => w.left = {}
        /\ w.pc \notin {"mark", "write"} \cup Draining => w.msgs = {}
        /\ w.pc \in {"mark", "write"} => \E m \in w.msgs : w.msgs = {m} /\ ForIt(m, j)
        /\ w.pc \in Draining => \A m \in w.msgs : Ordinary(m)
        /\ w.pc \notin {"write", "rewrite"} => w.read = {}
        /\ \A r \in w.read : r.of \in w.msgs /\ \A x \in w.read : x = r
        /\ w.pc = "rebuild" => \A p \in Parents[j] \cup {j} : w.view[p] = assigned[p]
        /\ w.pc = "call" => \A m \in w.box : Items(m) \subseteq given

(* Every parent's message finds room in the queue. *)
Roomy == \A j \in Receivers : IsFiniteSet(Parents[j]) /\ Cardinality(Parents[j]) <= MaxQueue

(* What is accounted for: evidence always, everything while no two threads   *)
(* overlap.                                                                 *)
Tracked(i) == i.kind = "evidence" \/ (~overlapped /\ Roomy)

(* The attempt of j has i, or somebody there had it before. *)
Secured(a, j, i) ==
    <<a, j, i>> \in given \/ \E m \in worker[j].box : m.to = a /\ m.task = j /\ i \in m.items

(* Critical messages never wait, and a stream has one place in the queue. *)
Deferrable ==
    \A m \in deferred : Ordinary(m) /\ \A n \in deferred : Stream(m) = Stream(n) => m = n

(* What the digest and the hashes know, the agent has or is about to get. *)
DigestSecured ==
    \A a \in Members, j \in Receivers : \A i \in digest[<<a, j>>] : Tracked(i) => Secured(a, j, i)

ReadSecured ==
    \A j \in Receivers : \A r \in worker[j].read : \A i \in r.was :
        Tracked(i) => Secured(r.of.to, r.of.task, i)

HashesSecured ==
    \A m \in hashes : \A i \in m.items : Tracked(i) =>
        Secured(m.to, m.task, i) \/ \E r \in worker[m.task].read : r.of = m

(* A thread that prepares alone finds the queue empty, fills it for its own  *)
(* attempt only, and has the edges of its rebuild.                          *)
Undisturbed(j) ==
    LET w == worker[j]
    IN  /\ \A k \in Receivers : Preparing(j) /\ Preparing(k) => k = j
        /\ w.pruned = {} /\ \A p \in w.left : assigned[p] # assigned[j]
        /\ \A m \in w.box : ForIt(m, j)
        /\ w.pc \in {"look", "rebuild", "drain", "rewrite"} => deferred = {}
        /\ w.pc \in Draining => \A m \in w.msgs : ForIt(m, j)
        /\ w.pc \in Gathering =>
              /\ \A m \in deferred :
                    /\ ForIt(m, j) /\ \E q \in Parents[j] \ w.left : m.from = assigned[q]
                    /\ \A i \in m.items : i.kind = "summary" => assigned[i.of] = m.from
              /\ \A p \in Parents[j] : assigned[p] # assigned[j] =>
                    Carried(edges, assigned[p], assigned[j], {p, j})

Serial ==
    ~overlapped =>
        /\ \A j \in Receivers : Undisturbed(j)
        /\ (\A j \in Receivers : ~Preparing(j)) => deferred = {}

(* Where an item is on its way to the attempt of j. *)
Waiting(j) == worker[j].msgs \cup (IF worker[j].pc \in Gathering THEN deferred ELSE {})

Held(j, i) ==
    \/ Secured(assigned[j], j, i)
    \/ \E m \in Waiting(j) : ForIt(m, j) /\ i \in m.items

(* The summaries that a stream may keep in place of that of p. *)
Rivals(p, j) == {Summary(q) : q \in {x \in Parents[j] \ {p} : assigned[x] = assigned[p]}}

Accounted(j) ==
    worker[j].pc \in Gathering \cup Draining \cup {"call"} =>
        \A p \in Parents[j] : assigned[p] # assigned[j] =>
            \A i \in Content(p, j) : Tracked(i) =>
                \/ p \in worker[j].left \cup worker[j].pruned
                \/ Held(j, i)
                \/ i = Summary(p) /\ \E s \in Rivals(p, j) : Held(j, s)

Handed ==
    /\ GatewayTyped /\ (\A j \in Receivers : Shaped(j)) /\ Deferrable
    /\ DigestSecured /\ ReadSecured /\ HashesSecured /\ Serial
    /\ \A j \in Receivers : Accounted(j)

-----------------------------------------------------------------------------
(* The steps of a thread, field by field *)

LEMMA ParentFacts ==
    ASSUME NEW j \in Receivers
    PROVE  /\ j \in Jobs /\ Parents[j] \subseteq Jobs /\ Hosts[j] \subseteq Members
           /\ \A p \in Parents[j] : p \in Jobs \ Receivers /\ p # j
           /\ Nobody \notin Members
BY TopologyAssumption, DeliveryAssumption

LEMMA WorkerStep ==
    ASSUME worker \in [Receivers -> Workers], NEW j \in Receivers, NEW w, WorkerTo(j, w)
    PROVE  worker'[j] = w /\ \A k \in Receivers : k # j => worker'[k] = worker[k]
BY DEF WorkerTo

(* A step of this thread alone: what it holds next, and what stays. *)
Stays(j) == \A k \in Receivers : k # j => worker'[k] = worker[k]

LEMMA RestingFields ==
    Resting.left = {} /\ Resting.msgs = {} /\ Resting.read = {} /\ Resting.box = {}
    /\ Resting.pruned = {} /\ Resting.pc = "idle" /\ Resting.view = assigned
BY DEF Resting

LEMMA StartForm ==
    ASSUME GatewayTyped, NEW j \in Receivers, NEW a \in Hosts[j], StartAttempt(j, a)
    PROVE  /\ Stays(j) /\ worker[j].pc = "idle" /\ worker' \in [Receivers -> Workers]
           /\ worker'[j].pc = "look" /\ worker'[j].left = {} /\ worker'[j].msgs = {}
           /\ worker'[j].read = {} /\ worker'[j].box = {} /\ worker'[j].pruned = {}
           /\ assigned' \in [Jobs -> Members \cup {Nobody}] /\ assigned'[j] = a
           /\ \A p \in Jobs : p # j => assigned'[p] = assigned[p]
           /\ tries' \in [Receivers -> Nat]
           /\ \A k \in Receivers : k # j => tries'[k] = tries[k]
           /\ overlapped' = (overlapped \/ \E k \in Receivers : Preparing(k))
           /\ UNCHANGED <<version, digest, hashes, deferred, given, received, edges>>
<1>1. worker \in [Receivers -> Workers] /\ assigned \in [Jobs -> Members \cup {Nobody}]
      /\ tries \in [Receivers -> Nat]
  BY DEF GatewayTyped
<1>2. WorkerTo(j, [Resting EXCEPT !.pc = "look"]) BY DEF StartAttempt
<1>3. Stays(j) /\ worker'[j] = [Resting EXCEPT !.pc = "look"] BY <1>1, <1>2, WorkerStep DEF Stays
<1>4. /\ worker'[j].pc = "look" /\ worker'[j].left = {} /\ worker'[j].msgs = {}
      /\ worker'[j].read = {} /\ worker'[j].box = {} /\ worker'[j].pruned = {}
  BY <1>3 DEF Resting
<1>5. worker'[j] \in Workers BY <1>1, <1>3 DEF Resting, Workers, Stages
<1>6. worker' \in [Receivers -> Workers] BY <1>1, <1>2, <1>3, <1>5 DEF WorkerTo
<1>7. a \in Members /\ j \in Jobs BY ParentFacts
<1>8. /\ assigned' \in [Jobs -> Members \cup {Nobody}] /\ assigned'[j] = a
      /\ \A p \in Jobs : p # j => assigned'[p] = assigned[p]
  BY <1>1, <1>7 DEF StartAttempt
<1>9. /\ tries' \in [Receivers -> Nat]
      /\ \A k \in Receivers : k # j => tries'[k] = tries[k]
  BY <1>1 DEF StartAttempt
<1>10. QED BY <1>3, <1>4, <1>6, <1>8, <1>9 DEF StartAttempt

LEMMA LookForm ==
    ASSUME GatewayTyped, NEW j \in Receivers, Look(j)
    PROVE  /\ Stays(j) /\ worker[j].pc = "look" /\ worker' \in [Receivers -> Workers]
           /\ worker'[j].pc = "rebuild" /\ worker'[j].view = assigned
           /\ worker'[j].left = worker[j].left /\ worker'[j].msgs = worker[j].msgs
           /\ worker'[j].read = worker[j].read /\ worker'[j].box = worker[j].box
           /\ worker'[j].pruned = worker[j].pruned
           /\ UNCHANGED <<version, tries, digest, hashes, deferred, given, received,
                          overlapped, edges, assigned>>
<1>1. worker \in [Receivers -> Workers] /\ assigned \in [Jobs -> Members \cup {Nobody}]
  BY DEF GatewayTyped
<1> DEFINE w == [worker[j] EXCEPT !.pc = "rebuild", !.view = assigned]
<1>2. WorkerTo(j, w) BY DEF Look
<1>3. Stays(j) /\ worker'[j] = w BY <1>1, <1>2, WorkerStep DEF Stays
<1>4. worker[j] \in Workers BY <1>1
<1>5. /\ w \in Workers /\ w.pc = "rebuild" /\ w.view = assigned /\ w.left = worker[j].left
      /\ w.msgs = worker[j].msgs /\ w.read = worker[j].read /\ w.box = worker[j].box
      /\ w.pruned = worker[j].pruned
  BY <1>1, <1>4 DEF Workers, Stages
<1>6. worker' \in [Receivers -> Workers] BY <1>1, <1>2, <1>5 DEF WorkerTo
<1> HIDE DEF w
<1>7. QED BY <1>3, <1>5, <1>6 DEF Look

LEMMA RebuildForm ==
    ASSUME GatewayTyped, NEW j \in Receivers, RebuildFor(j)
    PROVE  /\ Stays(j) /\ worker[j].pc = "rebuild" /\ worker' \in [Receivers -> Workers]
           /\ worker'[j].pc = "offer"
           /\ worker'[j].left = {p \in Parents[j] : assigned[p] # assigned[j]}
           /\ worker'[j].msgs = worker[j].msgs
           /\ worker'[j].read = worker[j].read /\ worker'[j].box = worker[j].box
           /\ worker'[j].pruned = worker[j].pruned
           /\ edges' = Rebuilt(worker[j].view, Members, {}, {j})
           /\ UNCHANGED <<version, tries, digest, hashes, deferred, given, received,
                          overlapped, assigned>>
<1>1. worker \in [Receivers -> Workers] BY DEF GatewayTyped
<1> DEFINE left == {p \in Parents[j] : assigned[p] # assigned[j]}
           w == [worker[j] EXCEPT !.pc = "offer", !.left = left]
<1>2. WorkerTo(j, w) BY DEF RebuildFor
<1>3. Stays(j) /\ worker'[j] = w BY <1>1, <1>2, WorkerStep DEF Stays
<1>4. worker[j] \in Workers /\ left \subseteq Jobs BY <1>1, ParentFacts
<1> HIDE DEF left
<1>5. /\ w \in Workers /\ w.pc = "offer" /\ w.left = left
      /\ w.msgs = worker[j].msgs /\ w.read = worker[j].read /\ w.box = worker[j].box
      /\ w.pruned = worker[j].pruned
  BY <1>4 DEF Workers, Stages, Gathering
<1>6. worker' \in [Receivers -> Workers] BY <1>1, <1>2, <1>5 DEF WorkerTo
<1> HIDE DEF w
<1>7. QED BY <1>3, <1>5, <1>6 DEF RebuildFor, left

(* The message that is offered, and what its receiver does not know of it. *)
LEMMA DeltaForm ==
    ASSUME GatewayTyped, NEW j \in Receivers, NEW p \in Parents[j], worker[j].pc # "idle"
    PROVE  LET d == Delta(Message(p, j, Content(p, j)))
           IN  /\ d \in Messages /\ d.from = assigned[p] /\ ForIt(d, j)
               /\ d.items = Content(p, j) \ digest[<<assigned[j], j>>]
               /\ Content(p, j) \subseteq Pieces
<1> DEFINE m == Message(p, j, Content(p, j))
<1>1. p \in Jobs \ Receivers /\ j \in Jobs BY ParentFacts
<1>2. Content(p, j) \subseteq Pieces
  BY <1>1 DEF GatewayTyped, Content, Summary, Proof, Fact, Pieces
<1>3. assigned[p] \in Members /\ assigned[j] \in Members BY <1>1 DEF GatewayTyped
<1>4. m = [from |-> assigned[p], to |-> assigned[j], task |-> j, items |-> Content(p, j)]
  BY DEF Message
<1> HIDE DEF m
<1>5. Delta(m) = [from |-> assigned[p], to |-> assigned[j], task |-> j,
                  items |-> Content(p, j) \ digest[<<assigned[j], j>>]]
  BY <1>4 DEF Delta, Known
<1>6. QED BY <1>2, <1>3, <1>5 DEF Messages, ForIt, m

LEMMA OfferForm ==
    ASSUME GatewayTyped, NEW j \in Receivers, Offer(j), Shaped(j)
    PROVE  /\ Stays(j) /\ worker[j].pc = "offer" /\ worker' \in [Receivers -> Workers]
           /\ worker'[j].read = worker[j].read /\ worker'[j].box = worker[j].box
           /\ UNCHANGED <<version, tries, digest, hashes, given, received, overlapped,
                          edges, assigned>>
           /\ \E p \in worker[j].left :
                 LET m == Message(p, j, Content(p, j))
                     d == Delta(m)
                     dropped == d.items = {} \/ d \in hashes
                 IN  /\ worker'[j].left = worker[j].left \ {p}
                     /\ \/ /\ ~EdgeActive(m) /\ worker'[j].pc = "offer"
                           /\ worker'[j].msgs = worker[j].msgs
                           /\ worker'[j].pruned = worker[j].pruned \cup {p}
                           /\ deferred' = deferred
                        \/ /\ EdgeActive(m) /\ ~dropped /\ Action(d) = "SEND"
                           /\ worker'[j].pc = "mark" /\ worker'[j].msgs = {d}
                           /\ worker'[j].pruned = worker[j].pruned
                           /\ deferred' = deferred
                        \/ /\ EdgeActive(m) /\ (dropped \/ Action(d) # "SEND")
                           /\ worker'[j].pc = "offer" /\ worker'[j].msgs = worker[j].msgs
                           /\ worker'[j].pruned = worker[j].pruned
                           /\ deferred' = IF ~dropped /\ Action(d) \in {"MERGE", "DEFER"}
                                          THEN Deferring(d) ELSE deferred
<1>1. worker \in [Receivers -> Workers] /\ worker[j].pc = "offer" BY DEF GatewayTyped, Offer
<1>2. worker[j] \in Workers /\ worker[j].left \subseteq Parents[j] BY <1>1 DEF Shaped
<1> DEFINE m(p) == Message(p, j, Content(p, j))
           d(p) == Delta(m(p))
           rest(p) == [worker[j] EXCEPT !.left = @ \ {p}]
           dropped(p) == d(p).items = {} \/ d(p) \in hashes
           pruning(p) == [rest(p) EXCEPT !.pruned = @ \cup {p}]
           sending(p) == [rest(p) EXCEPT !.pc = "mark", !.msgs = {d(p)}]
<1>3. PICK p \in worker[j].left :
         \/ ~EdgeActive(m(p)) /\ WorkerTo(j, pruning(p)) /\ deferred' = deferred
         \/ /\ EdgeActive(m(p)) /\ ~dropped(p) /\ Action(d(p)) = "SEND"
            /\ WorkerTo(j, sending(p)) /\ deferred' = deferred
         \/ /\ EdgeActive(m(p)) /\ (dropped(p) \/ Action(d(p)) # "SEND")
            /\ WorkerTo(j, rest(p))
            /\ deferred' = IF ~dropped(p) /\ Action(d(p)) \in {"MERGE", "DEFER"}
                           THEN Deferring(d(p)) ELSE deferred
  BY DEF Offer
<1>4. d(p) \in Messages BY <1>1, <1>2, DeltaForm
<1>5. p \in Jobs BY <1>2, ParentFacts
<1> HIDE DEF d, m, dropped
<1>6. /\ rest(p) \in Workers /\ rest(p).left = worker[j].left \ {p} /\ rest(p).pc = "offer"
      /\ rest(p).msgs = worker[j].msgs /\ rest(p).pruned = worker[j].pruned
      /\ rest(p).read = worker[j].read /\ rest(p).box = worker[j].box
  BY <1>1, <1>2 DEF Workers
<1> HIDE DEF rest
<1>7. /\ pruning(p) \in Workers /\ pruning(p).left = worker[j].left \ {p}
      /\ pruning(p).pc = "offer" /\ pruning(p).msgs = worker[j].msgs
      /\ pruning(p).pruned = worker[j].pruned \cup {p}
      /\ pruning(p).read = worker[j].read /\ pruning(p).box = worker[j].box
  BY <1>5, <1>6 DEF Workers
<1>8. /\ sending(p) \in Workers /\ sending(p).left = worker[j].left \ {p}
      /\ sending(p).pc = "mark" /\ sending(p).msgs = {d(p)}
      /\ sending(p).pruned = worker[j].pruned
      /\ sending(p).read = worker[j].read /\ sending(p).box = worker[j].box
  BY <1>4, <1>6 DEF Workers, Stages, Gathering
<1> HIDE DEF pruning, sending
<1>9. PICK w \in {rest(p), pruning(p), sending(p)} : WorkerTo(j, w) BY <1>3
<1>10. w \in Workers /\ w.read = worker[j].read /\ w.box = worker[j].box BY <1>6, <1>7, <1>8, <1>9
<1>11. worker'[j] = w /\ Stays(j) BY <1>1, <1>9, WorkerStep DEF Stays
<1>12. worker' \in [Receivers -> Workers] BY <1>1, <1>9, <1>10 DEF WorkerTo
<1>13. UNCHANGED <<version, tries, digest, hashes, given, received, overlapped,
                   edges, assigned>>
  BY DEF Offer
<1>14. worker'[j].left = worker[j].left \ {p} BY <1>6, <1>7, <1>8, <1>9, <1>11
<1>15. CASE ~EdgeActive(m(p)) /\ WorkerTo(j, pruning(p)) /\ deferred' = deferred
  <2>1. worker'[j] = pruning(p) BY <1>1, <1>15, WorkerStep
  <2>2. QED BY <1>1, <1>7, <1>10, <1>11, <1>12, <1>13, <1>14, <1>15, <2>1 DEF m, d, dropped
<1>16. CASE /\ EdgeActive(m(p)) /\ ~dropped(p) /\ Action(d(p)) = "SEND"
            /\ WorkerTo(j, sending(p)) /\ deferred' = deferred
  <2>1. worker'[j] = sending(p) BY <1>1, <1>16, WorkerStep
  <2>2. QED BY <1>1, <1>8, <1>10, <1>11, <1>12, <1>13, <1>14, <1>16, <2>1 DEF m, d, dropped
<1>17. CASE /\ EdgeActive(m(p)) /\ (dropped(p) \/ Action(d(p)) # "SEND")
            /\ WorkerTo(j, rest(p))
            /\ deferred' = IF ~dropped(p) /\ Action(d(p)) \in {"MERGE", "DEFER"}
                           THEN Deferring(d(p)) ELSE deferred
  <2>1. worker'[j] = rest(p) BY <1>1, <1>17, WorkerStep
  <2>2. QED BY <1>1, <1>6, <1>10, <1>11, <1>12, <1>13, <1>14, <1>17, <2>1 DEF m, d, dropped
<1>18. QED BY <1>3, <1>15, <1>16, <1>17

LEMMA MarkForm ==
    ASSUME GatewayTyped, NEW j \in Receivers, Mark(j)
    PROVE  /\ Stays(j) /\ worker' \in [Receivers -> Workers]
           /\ worker'[j].left = worker[j].left /\ worker'[j].msgs = worker[j].msgs
           /\ worker'[j].box = worker[j].box /\ worker'[j].pruned = worker[j].pruned
           /\ \/ worker[j].pc = "mark" /\ worker'[j].pc = "write"
              \/ worker[j].pc = "drain" /\ worker'[j].pc = "rewrite"
           /\ \E m \in worker[j].msgs :
                 /\ m \in Messages /\ hashes' = hashes \cup {m}
                 /\ worker'[j].read = {[of |-> m, was |-> digest[<<m.to, m.task>>]]}
           /\ UNCHANGED <<version, tries, digest, deferred, given, received, overlapped,
                          edges, assigned>>
<1>1. worker \in [Receivers -> Workers] BY DEF GatewayTyped
<1> DEFINE pc == IF worker[j].pc = "mark" THEN "write" ELSE "rewrite"
           w(m) == [worker[j] EXCEPT !.pc = pc, !.read = {[of |-> m, was |-> Known(m)]}]
<1>2. PICK m \in worker[j].msgs : hashes' = hashes \cup {m} /\ WorkerTo(j, w(m))
  BY DEF Mark
<1>3. worker[j] \in Workers /\ m \in Messages BY <1>1, <1>2 DEF Workers
<1>4. Known(m) = digest[<<m.to, m.task>>] BY DEF Known
<1>5. Known(m) \in SUBSET Pieces BY <1>3, <1>4 DEF GatewayTyped, Messages
<1>6. [of |-> m, was |-> Known(m)] \in [of : Messages, was : SUBSET Pieces] BY <1>3, <1>5
<1>7. pc \in Stages BY DEF Stages, Gathering, Draining
<1>8. /\ w(m) \in Workers /\ w(m).pc = pc /\ w(m).read = {[of |-> m, was |-> Known(m)]}
      /\ w(m).left = worker[j].left /\ w(m).msgs = worker[j].msgs
      /\ w(m).box = worker[j].box /\ w(m).pruned = worker[j].pruned
  BY <1>3, <1>6, <1>7 DEF Workers
<1> HIDE DEF w
<1>9. worker'[j] = w(m) /\ Stays(j) BY <1>1, <1>2, WorkerStep DEF Stays
<1>10. worker' \in [Receivers -> Workers] BY <1>1, <1>2, <1>8 DEF WorkerTo
<1>11. \/ worker[j].pc = "mark" /\ worker'[j].pc = "write"
       \/ worker[j].pc = "drain" /\ worker'[j].pc = "rewrite"
  BY <1>8, <1>9 DEF Mark
<1>12. QED BY <1>2, <1>3, <1>4, <1>8, <1>9, <1>10, <1>11 DEF Mark

LEMMA WriteForm ==
    ASSUME GatewayTyped, NEW j \in Receivers, Write(j), Shaped(j)
    PROVE  /\ Stays(j) /\ worker' \in [Receivers -> Workers]
           /\ worker'[j].left = worker[j].left /\ worker'[j].read = {}
           /\ worker'[j].pruned = worker[j].pruned
           /\ \/ worker[j].pc = "write" /\ worker'[j].pc = "offer"
              \/ worker[j].pc = "rewrite" /\ worker'[j].pc = "drain"
           /\ \E r \in worker[j].read :
                 LET m == r.of
                 IN  /\ m \in Messages /\ m \in worker[j].msgs /\ r.was \in SUBSET Pieces
                     /\ worker'[j].msgs = worker[j].msgs \ {m}
                     /\ worker'[j].box = worker[j].box \cup {m}
                     /\ digest' = [digest EXCEPT ![<<m.to, m.task>>] = Update(r.was, m.items)]
           /\ UNCHANGED <<version, tries, hashes, deferred, given, received, overlapped,
                          edges, assigned>>
<1>1. worker \in [Receivers -> Workers] BY DEF GatewayTyped
<1> DEFINE pc == IF worker[j].pc = "write" THEN "offer" ELSE "drain"
           w(r) == [worker[j] EXCEPT !.pc = pc, !.msgs = @ \ {r.of}, !.read = {},
                                     !.box = @ \cup {r.of}]
<1>2. PICK r \in worker[j].read :
         /\ digest' = [digest EXCEPT ![<<r.of.to, r.of.task>>] = Update(r.was, r.of.items)]
         /\ WorkerTo(j, w(r))
  BY DEF Write
<1>3. worker[j] \in Workers BY <1>1
<1>4. r.of \in Messages /\ r.was \in SUBSET Pieces BY <1>2, <1>3 DEF Workers
<1>5. r.of \in worker[j].msgs BY <1>2 DEF Shaped
<1>6. pc \in Stages BY DEF Stages, Gathering, Draining
<1>7. /\ w(r) \in Workers /\ w(r).pc = pc /\ w(r).read = {}
      /\ w(r).left = worker[j].left /\ w(r).msgs = worker[j].msgs \ {r.of}
      /\ w(r).box = worker[j].box \cup {r.of} /\ w(r).pruned = worker[j].pruned
  BY <1>3, <1>4, <1>6 DEF Workers
<1> HIDE DEF w
<1>8. worker'[j] = w(r) /\ Stays(j) BY <1>1, <1>2, WorkerStep DEF Stays
<1>9. worker' \in [Receivers -> Workers] BY <1>1, <1>2, <1>7 DEF WorkerTo
<1>10. \/ worker[j].pc = "write" /\ worker'[j].pc = "offer"
       \/ worker[j].pc = "rewrite" /\ worker'[j].pc = "drain"
  BY <1>7, <1>8 DEF Write
<1>11. QED BY <1>2, <1>4, <1>5, <1>7, <1>8, <1>9, <1>10 DEF Write

LEMMA TakeForm ==
    ASSUME GatewayTyped, NEW j \in Receivers, Take(j)
    PROVE  /\ Stays(j) /\ worker' \in [Receivers -> Workers]
           /\ worker[j].pc = "offer" /\ worker[j].left = {}
           /\ worker'[j].pc = "clear" /\ worker'[j].msgs = deferred
           /\ worker'[j].left = worker[j].left /\ worker'[j].read = worker[j].read
           /\ worker'[j].box = worker[j].box /\ worker'[j].pruned = worker[j].pruned
           /\ UNCHANGED <<version, tries, digest, hashes, deferred, given, received,
                          overlapped, edges, assigned>>
<1>1. worker \in [Receivers -> Workers] BY DEF GatewayTyped
<1> DEFINE w == [worker[j] EXCEPT !.pc = "clear", !.msgs = deferred]
<1>2. WorkerTo(j, w) BY DEF Take
<1>3. Stays(j) /\ worker'[j] = w BY <1>1, <1>2, WorkerStep DEF Stays
<1>4. worker[j] \in Workers /\ deferred \in SUBSET Messages BY <1>1 DEF GatewayTyped
<1>5. /\ w \in Workers /\ w.pc = "clear" /\ w.msgs = deferred /\ w.left = worker[j].left
      /\ w.read = worker[j].read /\ w.box = worker[j].box /\ w.pruned = worker[j].pruned
  BY <1>4 DEF Workers, Stages, Draining
<1>6. worker' \in [Receivers -> Workers] BY <1>1, <1>2, <1>5 DEF WorkerTo
<1> HIDE DEF w
<1>7. QED BY <1>3, <1>5, <1>6 DEF Take

(* Clearing the queue and handing the context over change the step only. *)
LEMMA PcForm ==
    ASSUME GatewayTyped, NEW j \in Receivers, NEW pc \in Stages,
           WorkerTo(j, [worker[j] EXCEPT !.pc = pc])
    PROVE  /\ Stays(j) /\ worker' \in [Receivers -> Workers] /\ worker'[j].pc = pc
           /\ worker'[j].left = worker[j].left /\ worker'[j].msgs = worker[j].msgs
           /\ worker'[j].read = worker[j].read /\ worker'[j].box = worker[j].box
           /\ worker'[j].pruned = worker[j].pruned
<1>1. worker \in [Receivers -> Workers] BY DEF GatewayTyped
<1> DEFINE w == [worker[j] EXCEPT !.pc = pc]
<1>2. Stays(j) /\ worker'[j] = w BY <1>1, WorkerStep DEF Stays
<1>3. worker[j] \in Workers BY <1>1
<1>4. /\ w \in Workers /\ w.pc = pc /\ w.left = worker[j].left /\ w.msgs = worker[j].msgs
      /\ w.read = worker[j].read /\ w.box = worker[j].box /\ w.pruned = worker[j].pruned
  BY <1>3 DEF Workers
<1>5. worker' \in [Receivers -> Workers] BY <1>1, <1>4 DEF WorkerTo
<1> HIDE DEF w
<1>6. QED BY <1>2, <1>4, <1>5

LEMMA ClearForm ==
    ASSUME GatewayTyped, NEW j \in Receivers, Clear(j)
    PROVE  /\ Stays(j) /\ worker' \in [Receivers -> Workers]
           /\ worker[j].pc = "clear" /\ worker'[j].pc = "drain" /\ deferred' = {}
           /\ worker'[j].left = worker[j].left /\ worker'[j].msgs = worker[j].msgs
           /\ worker'[j].read = worker[j].read /\ worker'[j].box = worker[j].box
           /\ worker'[j].pruned = worker[j].pruned
           /\ UNCHANGED <<version, tries, digest, hashes, given, received, overlapped,
                          edges, assigned>>
<1>1. "drain" \in Stages BY DEF Stages, Draining
<1>2. WorkerTo(j, [worker[j] EXCEPT !.pc = "drain"]) BY DEF Clear
<1>3. QED BY <1>1, <1>2, PcForm DEF Clear

LEMMA HandForm ==
    ASSUME GatewayTyped, NEW j \in Receivers, HandOver(j)
    PROVE  /\ Stays(j) /\ worker' \in [Receivers -> Workers]
           /\ worker[j].pc = "drain" /\ worker[j].msgs = {} /\ worker'[j].pc = "call"
           /\ worker'[j].left = worker[j].left /\ worker'[j].msgs = worker[j].msgs
           /\ worker'[j].read = worker[j].read /\ worker'[j].box = worker[j].box
           /\ worker'[j].pruned = worker[j].pruned
           /\ given' = given \cup UNION {Items(m) : m \in worker[j].box}
           /\ UNCHANGED <<version, tries, digest, hashes, deferred, received, overlapped,
                          edges, assigned>>
<1>1. "call" \in Stages BY DEF Stages
<1>2. WorkerTo(j, [worker[j] EXCEPT !.pc = "call"]) BY DEF HandOver
<1>3. QED BY <1>1, <1>2, PcForm DEF HandOver

LEMMA CallForm ==
    ASSUME GatewayTyped, NEW j \in Receivers, NEW ok \in BOOLEAN, CallAgent(j, ok)
    PROVE  /\ Stays(j) /\ worker' \in [Receivers -> Workers]
           /\ worker[j].pc = "call" /\ worker'[j].pc \in {"idle", "done"}
           /\ worker'[j].left = {} /\ worker'[j].msgs = {} /\ worker'[j].read = {}
           /\ worker'[j].box = {} /\ worker'[j].pruned = {}
           /\ UNCHANGED <<version, tries, digest, hashes, deferred, given, overlapped,
                          edges, assigned>>
<1>1. worker \in [Receivers -> Workers] /\ assigned \in [Jobs -> Members \cup {Nobody}]
  BY DEF GatewayTyped
<1> DEFINE pc == IF ok THEN "done" ELSE "idle"
           w == [Resting EXCEPT !.pc = pc]
<1>2. WorkerTo(j, w) BY DEF CallAgent
<1>3. Stays(j) /\ worker'[j] = w BY <1>1, <1>2, WorkerStep DEF Stays
<1>4. pc \in Stages /\ pc \in {"idle", "done"} BY DEF Stages
<1>5. /\ w \in Workers /\ w.pc = pc /\ w.left = {} /\ w.msgs = {} /\ w.read = {}
      /\ w.box = {} /\ w.pruned = {}
  BY <1>1, <1>4 DEF Resting, Workers
<1>6. worker' \in [Receivers -> Workers] BY <1>1, <1>2, <1>5 DEF WorkerTo
<1> HIDE DEF w, pc
<1>7. QED BY <1>3, <1>4, <1>5, <1>6 DEF CallAgent

LEMMA RedoForm ==
    ASSUME GatewayTyped, NEW p \in Redone, Redo(p)
    PROVE  /\ worker' \in [Receivers -> Workers] /\ version' \in [Jobs -> Nat]
           /\ \A j \in Receivers :
                 /\ worker[j].pc \in {"idle", "done"}
                 /\ \/ worker'[j] = worker[j]
                    \/ /\ worker'[j].pc = "idle" /\ worker'[j].left = {}
                       /\ worker'[j].msgs = {} /\ worker'[j].read = {}
                       /\ worker'[j].box = {} /\ worker'[j].pruned = {}
           /\ UNCHANGED <<tries, digest, hashes, deferred, given, received, overlapped,
                          edges, assigned>>
<1>1. /\ worker \in [Receivers -> Workers] /\ assigned \in [Jobs -> Members \cup {Nobody}]
      /\ version \in [Jobs -> Nat]
  BY DEF GatewayTyped
<1>2. Resting \in Workers BY <1>1 DEF Resting, Workers, Stages
<1>3. worker' = [j \in Receivers |-> IF p \in Parents[j] THEN Resting ELSE worker[j]]
  BY DEF Redo
<1>4. worker' \in [Receivers -> Workers] BY <1>1, <1>2, <1>3
<1>5. \A j \in Receivers : worker'[j] = Resting \/ worker'[j] = worker[j] BY <1>3
<1>6. version' \in [Jobs -> Nat]
  <2>1. p \in Jobs BY DeliveryAssumption
  <2>2. version' = [version EXCEPT ![p] = version[p] + 1] BY DEF Redo
  <2>3. QED BY <1>1, <2>1, <2>2
<1>7. QED BY <1>4, <1>5, <1>6, RestingFields DEF Redo

-----------------------------------------------------------------------------
(* Types and shapes *)

LEMMA OfferTyped ==
    ASSUME GatewayTyped, NEW j \in Receivers, Offer(j), Shaped(j)
    PROVE  deferred' \subseteq Messages
<1>1. PICK p \in worker[j].left :
        LET d == Delta(Message(p, j, Content(p, j)))
        IN  deferred' = deferred \/ deferred' = Deferring(d)
  BY OfferForm
<1> DEFINE d == Delta(Message(p, j, Content(p, j)))
<1>2. p \in Parents[j] /\ worker[j].pc # "idle" BY OfferForm DEF Shaped
<1>3. d \in Messages BY <1>2, DeltaForm
<1> HIDE DEF d
<1>4. deferred \subseteq Messages BY DEF GatewayTyped
<1> DEFINE waiting == {x \in deferred : Stream(x) = Stream(d)}
           items == Update(UNION {q.items : q \in waiting}, d.items)
<1>5. items \subseteq Pieces BY <1>3, <1>4 DEF Update, Messages
<1>6. [d EXCEPT !.items = items] \in Messages
  <2> HIDE DEF items
  <2>1. QED BY <1>3, <1>5 DEF Messages
<1>7. Deferring(d) \subseteq deferred \cup {[d EXCEPT !.items = items]} BY DEF Deferring
<1> HIDE DEF items
<1>8. QED BY <1>1, <1>4, <1>6, <1>7 DEF d

LEMMA WriteTyped ==
    ASSUME GatewayTyped, NEW j \in Receivers, Write(j), Shaped(j)
    PROVE  digest' \in [Members \X Receivers -> SUBSET Pieces]
<1>1. PICK r \in worker[j].read :
        /\ r.of \in Messages /\ r.was \in SUBSET Pieces
        /\ digest' = [digest EXCEPT ![<<r.of.to, r.of.task>>] = Update(r.was, r.of.items)]
  BY WriteForm
<1>2. Update(r.was, r.of.items) \in SUBSET Pieces BY <1>1 DEF Update, Messages
<1>3. digest \in [Members \X Receivers -> SUBSET Pieces] BY DEF GatewayTyped
<1>4. QED BY <1>1, <1>2, <1>3

(* The assigned agent of a thread that moves stays a member. *)
LEMMA HostsTyped ==
    ASSUME GatewayTyped, assigned' = assigned, NEW j \in Receivers, Stays(j), worker[j].pc # "idle"
    PROVE  \A k \in Receivers : worker'[k].pc # "idle" => assigned'[k] \in Members
BY DEF GatewayTyped, Stays

LEMMA StepTyped ==
    ASSUME GatewayTyped, \A k \in Receivers : Shaped(k), NEW j \in Receivers, DeliveryStep(j)
    PROVE  GatewayTyped'
<1>1. ASSUME NEW a \in Hosts[j], StartAttempt(j, a) PROVE GatewayTyped'
  <2>1. a \in Members /\ j \in Receivers BY ParentFacts
  <2>2. /\ Stays(j) /\ worker' \in [Receivers -> Workers]
        /\ assigned' \in [Jobs -> Members \cup {Nobody}] /\ assigned'[j] = a
        /\ \A p \in Jobs : p # j => assigned'[p] = assigned[p]
        /\ tries' \in [Receivers -> Nat]
        /\ overlapped' = (overlapped \/ \E k \in Receivers : Preparing(k))
        /\ UNCHANGED <<version, digest, hashes, deferred, given, received, edges>>
    BY <1>1, StartForm
  <2>3. \A k \in Jobs \ Receivers : assigned'[k] \in Members BY <2>2 DEF GatewayTyped
  <2>4. \A k \in Receivers : worker'[k].pc # "idle" => assigned'[k] \in Members
    BY <2>1, <2>2, ParentFacts DEF GatewayTyped, Stays
  <2>5. overlapped' \in BOOLEAN BY <2>2 DEF GatewayTyped
  <2>6. QED BY <2>2, <2>3, <2>4, <2>5 DEF GatewayTyped
<1>2. CASE Look(j) BY <1>2, LookForm, HostsTyped DEF GatewayTyped
<1>3. CASE RebuildFor(j) BY <1>3, RebuildForm, HostsTyped DEF GatewayTyped
<1>4. CASE Offer(j)
  <2>1. /\ Stays(j) /\ worker[j].pc = "offer" /\ worker' \in [Receivers -> Workers]
        /\ UNCHANGED <<version, tries, digest, hashes, overlapped, assigned>>
    BY <1>4, OfferForm
  <2>2. QED BY <1>4, <2>1, OfferTyped, HostsTyped DEF GatewayTyped
<1>5. CASE Mark(j)
  <2>1. /\ Stays(j) /\ worker[j].pc # "idle" /\ worker' \in [Receivers -> Workers]
        /\ UNCHANGED <<version, tries, digest, deferred, overlapped, assigned>>
    BY <1>5, MarkForm
  <2>2. hashes' \subseteq Messages BY <1>5, MarkForm DEF GatewayTyped
  <2>3. QED BY <2>1, <2>2, HostsTyped DEF GatewayTyped
<1>6. CASE Write(j)
  <2>1. /\ Stays(j) /\ worker[j].pc # "idle" /\ worker' \in [Receivers -> Workers]
        /\ UNCHANGED <<version, tries, hashes, deferred, overlapped, assigned>>
    BY <1>6, WriteForm
  <2>2. QED BY <1>6, <2>1, WriteTyped, HostsTyped DEF GatewayTyped
<1>7. CASE Take(j) BY <1>7, TakeForm, HostsTyped DEF GatewayTyped
<1>8. CASE Clear(j) BY <1>8, ClearForm, HostsTyped DEF GatewayTyped
<1>9. CASE HandOver(j) BY <1>9, HandForm, HostsTyped DEF GatewayTyped
<1>10. ASSUME NEW ok \in BOOLEAN, CallAgent(j, ok) PROVE GatewayTyped'
  BY <1>10, CallForm, HostsTyped DEF GatewayTyped
<1>11. QED BY <1>1, <1>2, <1>3, <1>4, <1>5, <1>6, <1>7, <1>8, <1>9, <1>10 DEF DeliveryStep

LEMMA NextTyped ==
    ASSUME GatewayTyped, \A k \in Receivers : Shaped(k), [DeliveryNext]_deliveryVars
    PROVE  GatewayTyped'
<1>1. ASSUME NEW j \in Receivers, DeliveryStep(j) PROVE GatewayTyped' BY <1>1, StepTyped
<1>2. ASSUME NEW p \in Redone, Redo(p) PROVE GatewayTyped'
  <2>1. /\ worker' \in [Receivers -> Workers] /\ version' \in [Jobs -> Nat]
        /\ UNCHANGED <<tries, digest, hashes, deferred, overlapped, assigned>>
    BY <1>2, RedoForm
  <2>2. \A j \in Receivers : worker'[j].pc # "idle" => worker[j].pc # "idle"
    BY <1>2, RedoForm
  <2>3. QED BY <2>1, <2>2 DEF GatewayTyped
<1>3. CASE Elapse BY <1>3 DEF Elapse, GatewayTyped
<1>4. CASE UNCHANGED deliveryVars BY <1>4 DEF deliveryVars, GatewayTyped
<1>5. QED BY <1>1, <1>2, <1>3, <1>4 DEF DeliveryNext

(* A thread's shape depends on what it holds, on the assignments of its task *)
(* and of the parents, and on what was handed over.                         *)
LEMMA ShapeStays ==
    ASSUME NEW k \in Receivers, Shaped(k), worker'[k] = worker[k], given \subseteq given',
           \A p \in Parents[k] \cup {k} : assigned'[p] = assigned[p]
    PROVE  Shaped(k)'
BY DEF Shaped, ForIt

(* Nobody reassigns a parent, or the task of another thread. *)
LEMMA AssignmentsStay ==
    ASSUME GatewayTyped, NEW j \in Receivers, DeliveryStep(j), NEW k \in Receivers
    PROVE  /\ \A p \in Parents[k] : assigned'[p] = assigned[p]
           /\ k # j \/ worker[j].pc # "idle" => assigned'[k] = assigned[k]
           /\ version' = version /\ given \subseteq given' /\ Stays(j)
           /\ overlapped => overlapped'
           /\ k # j \/ worker[j].pc # "idle" => tries'[k] = tries[k]
<1>1. ASSUME NEW a \in Hosts[j], StartAttempt(j, a)
      PROVE  /\ \A p \in Parents[k] : assigned'[p] = assigned[p]
             /\ k # j \/ worker[j].pc # "idle" => assigned'[k] = assigned[k]
             /\ version' = version /\ given \subseteq given' /\ Stays(j)
             /\ overlapped => overlapped'
             /\ k # j \/ worker[j].pc # "idle" => tries'[k] = tries[k]
  <2>1. /\ Stays(j) /\ worker[j].pc = "idle"
        /\ \A p \in Jobs : p # j => assigned'[p] = assigned[p]
        /\ \A i \in Receivers : i # j => tries'[i] = tries[i]
        /\ overlapped' = (overlapped \/ \E i \in Receivers : Preparing(i))
        /\ version' = version /\ given' = given
    BY <1>1, StartForm
  <2>2. \A p \in Parents[k] : p \in Jobs /\ p # j BY ParentFacts
  <2>3. \A p \in Parents[k] : assigned'[p] = assigned[p] BY <2>1, <2>2
  <2>4. k # j => assigned'[k] = assigned[k] BY <2>1, ParentFacts
  <2>5. overlapped => overlapped' BY <2>1
  <2>6. QED BY <2>1, <2>3, <2>4, <2>5
<1>2. ASSUME UNCHANGED <<version, tries, assigned>>, given \subseteq given', Stays(j),
             overlapped' = overlapped
      PROVE  /\ \A p \in Parents[k] : assigned'[p] = assigned[p]
             /\ k # j \/ worker[j].pc # "idle" => assigned'[k] = assigned[k]
             /\ version' = version /\ given \subseteq given' /\ Stays(j)
             /\ overlapped => overlapped'
             /\ k # j \/ worker[j].pc # "idle" => tries'[k] = tries[k]
  BY <1>2
<1>3. CASE Look(j) BY <1>2, <1>3, LookForm
<1>4. CASE RebuildFor(j) BY <1>2, <1>4, RebuildForm
<1>5. CASE Offer(j)
  <2>1. UNCHANGED <<version, tries, assigned, given, overlapped>> BY <1>5 DEF Offer
  <2>2. \E w : WorkerTo(j, w) BY <1>5 DEF Offer
  <2>3. Stays(j) BY <2>2, WorkerStep DEF Stays, GatewayTyped
  <2>4. QED BY <1>2, <2>1, <2>3
<1>6. CASE Mark(j) BY <1>2, <1>6, MarkForm
<1>7. CASE Write(j)
  <2>1. UNCHANGED <<version, tries, assigned, given, overlapped>> BY <1>7 DEF Write
  <2>2. \E w : WorkerTo(j, w) BY <1>7 DEF Write
  <2>3. Stays(j) BY <2>2, WorkerStep DEF Stays, GatewayTyped
  <2>4. QED BY <1>2, <2>1, <2>3
<1>8. CASE Take(j) BY <1>2, <1>8, TakeForm
<1>9. CASE Clear(j) BY <1>2, <1>9, ClearForm
<1>10. CASE HandOver(j) BY <1>2, <1>10, HandForm
<1>11. ASSUME NEW ok \in BOOLEAN, CallAgent(j, ok)
       PROVE UNCHANGED <<version, tries, assigned, given, overlapped>> /\ Stays(j)
  BY <1>11, CallForm
<1>12. QED
  BY <1>1, <1>2, <1>3, <1>4, <1>5, <1>6, <1>7, <1>8, <1>9, <1>10, <1>11 DEF DeliveryStep

LEMMA OfferShaped ==
    ASSUME GatewayTyped, NEW j \in Receivers, Shaped(j), Offer(j)
    PROVE  Shaped(j)'
<1>1. PICK p \in worker[j].left :
        LET d == Delta(Message(p, j, Content(p, j)))
        IN  /\ worker'[j].left = worker[j].left \ {p}
            /\ worker'[j].pruned \subseteq worker[j].pruned \cup {p}
            /\ \/ worker'[j].pc = "offer" /\ worker'[j].msgs = worker[j].msgs
               \/ worker'[j].pc = "mark" /\ worker'[j].msgs = {d}
  BY OfferForm
<1> DEFINE d == Delta(Message(p, j, Content(p, j)))
<1>2. /\ worker[j].pc = "offer" /\ assigned' = assigned /\ worker'[j].read = worker[j].read
      /\ worker'[j].box = worker[j].box
  BY OfferForm
<1>3. /\ worker[j].left \cup worker[j].pruned \subseteq Parents[j] /\ worker[j].msgs = {}
      /\ worker[j].read = {}
  BY <1>2 DEF Shaped, Draining
<1>4. ForIt(d, j) BY <1>1, <1>2, <1>3, DeltaForm
<1> HIDE DEF d
<1>5. /\ worker'[j].left = worker[j].left \ {p}
      /\ worker'[j].pruned \subseteq worker[j].pruned \cup {p}
      /\ \/ worker'[j].pc = "offer" /\ worker'[j].msgs = {}
         \/ worker'[j].pc = "mark" /\ worker'[j].msgs = {d}
  BY <1>1, <1>3 DEF d
<1>6. worker'[j].left \cup worker'[j].pruned \subseteq Parents[j] BY <1>3, <1>5
<1>7. worker'[j].pc = "mark" => \E m \in worker'[j].msgs : worker'[j].msgs = {m} /\ ForIt(m, j)'
  BY <1>2, <1>4, <1>5 DEF ForIt
<1>8. QED BY <1>2, <1>3, <1>5, <1>6, <1>7 DEF Shaped, Draining

LEMMA MarkShaped ==
    ASSUME GatewayTyped, NEW j \in Receivers, Shaped(j), Mark(j)
    PROVE  Shaped(j)'
<1>1. PICK m \in worker[j].msgs :
        worker'[j].read = {[of |-> m, was |-> digest[<<m.to, m.task>>]]}
  BY MarkForm
<1>2. /\ worker'[j].left = worker[j].left /\ worker'[j].msgs = worker[j].msgs
      /\ worker'[j].box = worker[j].box /\ worker'[j].pruned = worker[j].pruned
      /\ \/ worker[j].pc = "mark" /\ worker'[j].pc = "write"
         \/ worker[j].pc = "drain" /\ worker'[j].pc = "rewrite"
      /\ assigned' = assigned
  BY MarkForm
<1>3. \A r \in worker'[j].read : r.of \in worker'[j].msgs /\ \A x \in worker'[j].read : x = r
  BY <1>1, <1>2
<1>4. QED BY <1>2, <1>3 DEF Shaped, Draining, ForIt, Ordinary

LEMMA WriteShaped ==
    ASSUME GatewayTyped, NEW j \in Receivers, Shaped(j), Write(j)
    PROVE  Shaped(j)'
<1>1. PICK r \in worker[j].read :
        r.of \in worker[j].msgs /\ worker'[j].msgs = worker[j].msgs \ {r.of}
  BY WriteForm
<1>2. /\ worker'[j].left = worker[j].left /\ worker'[j].read = {}
      /\ worker'[j].pruned = worker[j].pruned
      /\ \/ worker[j].pc = "write" /\ worker'[j].pc = "offer"
         \/ worker[j].pc = "rewrite" /\ worker'[j].pc = "drain"
      /\ assigned' = assigned
  BY WriteForm
<1>3. worker[j].pc = "write" => worker'[j].msgs = {} BY <1>1 DEF Shaped
<1>4. QED BY <1>1, <1>2, <1>3 DEF Shaped, Draining, ForIt, Ordinary

LEMMA StepShaped ==
    ASSUME GatewayTyped, Deferrable, NEW j \in Receivers, Shaped(j), DeliveryStep(j)
    PROVE  Shaped(j)'
<1>1. ASSUME NEW a \in Hosts[j], StartAttempt(j, a) PROVE Shaped(j)'
  BY <1>1, StartForm DEF Shaped, Draining
<1>2. CASE Look(j) BY <1>2, LookForm DEF Shaped, Draining
<1>3. CASE RebuildFor(j)
  <2>1. /\ worker[j].pc = "rebuild" /\ worker'[j].pc = "offer"
        /\ worker'[j].left = {p \in Parents[j] : assigned[p] # assigned[j]}
        /\ worker'[j].msgs = worker[j].msgs
        /\ worker'[j].read = worker[j].read /\ worker'[j].box = worker[j].box
        /\ worker'[j].pruned = worker[j].pruned
    BY <1>3, RebuildForm
  <2>2. worker'[j].left \subseteq Parents[j] BY <2>1
  <2>3. QED BY <2>1, <2>2 DEF Shaped, Draining
<1>4. CASE Offer(j) BY <1>4, OfferShaped
<1>5. CASE Mark(j) BY <1>5, MarkShaped
<1>6. CASE Write(j) BY <1>6, WriteShaped
<1>7. CASE Take(j) BY <1>7, TakeForm DEF Shaped, Draining, Deferrable, Ordinary
<1>8. CASE Clear(j) BY <1>8, ClearForm DEF Shaped, Draining, Ordinary
<1>9. CASE HandOver(j)
  <2>1. /\ worker[j].pc = "drain" /\ worker[j].msgs = {} /\ worker'[j].pc = "call"
        /\ worker'[j].left = worker[j].left /\ worker'[j].msgs = worker[j].msgs
        /\ worker'[j].read = worker[j].read /\ worker'[j].box = worker[j].box
        /\ worker'[j].pruned = worker[j].pruned
        /\ given' = given \cup UNION {Items(m) : m \in worker[j].box}
    BY <1>9, HandForm
  <2>2. \A m \in worker'[j].box : Items(m) \subseteq given' BY <2>1
  <2>3. QED BY <2>1, <2>2 DEF Shaped, Draining
<1>10. ASSUME NEW ok \in BOOLEAN, CallAgent(j, ok) PROVE Shaped(j)'
  BY <1>10, CallForm DEF Shaped, Draining
<1>11. QED BY <1>1, <1>2, <1>3, <1>4, <1>5, <1>6, <1>7, <1>8, <1>9, <1>10 DEF DeliveryStep

LEMMA NextShaped ==
    ASSUME GatewayTyped, Deferrable, \A k \in Receivers : Shaped(k), [DeliveryNext]_deliveryVars,
           NEW k \in Receivers
    PROVE  Shaped(k)'
<1>1. ASSUME NEW j \in Receivers, DeliveryStep(j) PROVE Shaped(k)'
  <2>1. CASE k = j BY <1>1, <2>1, StepShaped
  <2>2. CASE k # j BY <1>1, <2>2, AssignmentsStay, ShapeStays DEF Stays
  <2>3. QED BY <2>1, <2>2
<1>2. ASSUME NEW p \in Redone, Redo(p) PROVE Shaped(k)'
  <2>1. CASE worker'[k] = worker[k] BY <1>2, <2>1, RedoForm, ShapeStays
  <2>2. CASE worker'[k] # worker[k] BY <1>2, <2>2, RedoForm DEF Shaped, Draining
  <2>3. QED BY <2>1, <2>2
<1>3. CASE Elapse BY <1>3, ShapeStays DEF Elapse
<1>4. CASE UNCHANGED deliveryVars BY <1>4, ShapeStays DEF deliveryVars
<1>5. QED BY <1>1, <1>2, <1>3, <1>4 DEF DeliveryNext

-----------------------------------------------------------------------------
(* What an attempt has stays with it *)

(* Nothing in a box is lost but what the agent was given. *)
Retained ==
    /\ given \subseteq given' /\ (overlapped => overlapped')
    /\ \A k \in Receivers : \A m \in worker[k].box :
          m \in worker'[k].box \/ Items(m) \subseteq given'

LEMMA StepKeeps ==
    ASSUME GatewayTyped, \A k \in Receivers : Shaped(k), NEW j \in Receivers, DeliveryStep(j)
    PROVE  Retained
<1>1. /\ given \subseteq given' /\ Stays(j) /\ (overlapped => overlapped')
  BY AssignmentsStay
<1>2. \A m \in worker[j].box : m \in worker'[j].box \/ Items(m) \subseteq given'
  <2>1. ASSUME NEW a \in Hosts[j], StartAttempt(j, a) PROVE worker[j].box = {}
    BY <2>1, StartForm DEF Shaped
  <2>2. CASE Look(j) BY <2>2, LookForm
  <2>3. CASE RebuildFor(j) BY <2>3, RebuildForm
  <2>4. CASE Offer(j) BY <2>4, OfferForm
  <2>5. CASE Mark(j) BY <2>5, MarkForm
  <2>6. CASE Write(j)
    <3>1. \E m : worker'[j].box = worker[j].box \cup {m} BY <2>6, WriteForm
    <3>2. QED BY <3>1
  <2>7. CASE Take(j) BY <2>7, TakeForm
  <2>8. CASE Clear(j) BY <2>8, ClearForm
  <2>9. CASE HandOver(j) BY <2>9, HandForm
  <2>10. ASSUME NEW ok \in BOOLEAN, CallAgent(j, ok)
         PROVE  \A m \in worker[j].box : Items(m) \subseteq given'
    <3>1. worker[j].pc = "call" BY <2>10, CallForm
    <3>2. QED BY <1>1, <3>1 DEF Shaped
  <2>11. QED
    BY <2>1, <2>2, <2>3, <2>4, <2>5, <2>6, <2>7, <2>8, <2>9, <2>10 DEF DeliveryStep
<1>3. QED BY <1>1, <1>2 DEF Retained, Stays

LEMMA NextKeeps ==
    ASSUME GatewayTyped, \A k \in Receivers : Shaped(k), [DeliveryNext]_deliveryVars
    PROVE  Retained
<1>1. ASSUME NEW j \in Receivers, DeliveryStep(j) PROVE Retained BY <1>1, StepKeeps
<1>2. ASSUME NEW p \in Redone, Redo(p) PROVE Retained
  <2>1. /\ UNCHANGED <<given, overlapped>>
        /\ \A k \in Receivers : worker[k].pc \in {"idle", "done"}
    BY <1>2, RedoForm
  <2>2. \A k \in Receivers : worker[k].box = {} BY <2>1 DEF Shaped
  <2>3. QED BY <2>1, <2>2 DEF Retained
<1>3. CASE Elapse BY <1>3 DEF Elapse, Retained
<1>4. CASE UNCHANGED deliveryVars BY <1>4 DEF deliveryVars, Retained
<1>5. QED BY <1>1, <1>2, <1>3, <1>4 DEF DeliveryNext

LEMMA SecuredStays ==
    ASSUME Retained, NEW a, NEW j \in Receivers, NEW i, Secured(a, j, i)
    PROVE  Secured(a, j, i)'
<1>1. CASE <<a, j, i>> \in given BY <1>1 DEF Retained, Secured
<1>2. ASSUME NEW m \in worker[j].box, m.to = a, m.task = j, i \in m.items
      PROVE  Secured(a, j, i)'
  <2>1. <<a, j, i>> \in Items(m) BY <1>2 DEF Items
  <2>2. QED BY <1>2, <2>1 DEF Retained, Secured
<1>3. QED BY <1>1, <1>2 DEF Secured

LEMMA TrackedStays ==
    ASSUME Retained, NEW i, Tracked(i)'
    PROVE  Tracked(i)
BY DEF Retained, Tracked, Roomy

(* Whatever a thread has taken to deliver, and is accounted for, is its own. *)
LEMMA TakenIsOwn ==
    ASSUME Serial, NEW j \in Receivers, Shaped(j), NEW m \in worker[j].msgs, NEW i \in m.items,
           worker[j].pc \in {"mark", "write"} \cup Draining, Tracked(i)
    PROVE  ForIt(m, j)
<1>1. CASE worker[j].pc \in {"mark", "write"} BY <1>1 DEF Shaped
<1>2. CASE worker[j].pc \in Draining
  <2>1. Ordinary(m) BY <1>2 DEF Shaped
  <2>2. ~overlapped BY <2>1 DEF Ordinary, Tracked
  <2>3. QED BY <1>2, <2>2 DEF Serial, Undisturbed
<1>3. QED BY <1>1, <1>2

-----------------------------------------------------------------------------
(* The queue *)

(* What is deferred is ordinary. *)
LEMMA LateIsOrdinary ==
    ASSUME NEW d, Action(d) # "SEND"
    PROVE  Ordinary(d)
BY DEF Action, Critical, Ordinary

(* The queue after a message was deferred. *)
LEMMA DeferringForm ==
    ASSUME deferred \subseteq Messages, NEW d \in Messages
    PROVE  \E n \in Messages :
              LET waiting == {q \in deferred : Stream(q) = Stream(d)}
              IN  /\ Deferring(d) = (deferred \ waiting) \cup {n}
                  /\ n.from = d.from /\ n.to = d.to /\ n.task = d.task
                  /\ n.items = Update(UNION {q.items : q \in waiting}, d.items)
<1> DEFINE waiting == {q \in deferred : Stream(q) = Stream(d)}
           items == Update(UNION {q.items : q \in waiting}, d.items)
           n == [d EXCEPT !.items = items]
<1>1. items \subseteq Pieces BY DEF Update, Messages
<1>2. Deferring(d) = (deferred \ waiting) \cup {n} BY DEF Deferring
<1> HIDE DEF items
<1>3. n \in Messages /\ n.from = d.from /\ n.to = d.to /\ n.task = d.task /\ n.items = items
  BY <1>1 DEF Messages
<1> HIDE DEF n
<1>4. QED BY <1>2, <1>3 DEF items

LEMMA DeferringDeferrable ==
    ASSUME deferred \subseteq Messages, Deferrable, NEW d \in Messages, Ordinary(d),
           deferred' = Deferring(d)
    PROVE  Deferrable'
<1> DEFINE waiting == {q \in deferred : Stream(q) = Stream(d)}
<1>1. PICK n \in Messages :
        /\ Deferring(d) = (deferred \ waiting) \cup {n}
        /\ n.from = d.from /\ n.to = d.to /\ n.task = d.task
        /\ n.items = Update(UNION {q.items : q \in waiting}, d.items)
  BY DeferringForm
<1>2. Stream(n) = Stream(d) BY <1>1 DEF Stream
<1>3. Ordinary(n) BY <1>1 DEF Ordinary, Update, Deferrable
<1>4. \A m \in deferred' : Ordinary(m) BY <1>1, <1>3 DEF Deferrable
<1>5. ASSUME NEW x \in deferred', NEW y \in deferred', Stream(x) = Stream(y) PROVE x = y
  <2>1. CASE x \in deferred \ waiting /\ y \in deferred \ waiting
    BY <1>5, <2>1 DEF Deferrable
  <2>2. \A z \in deferred \ waiting : Stream(z) # Stream(n) BY <1>2
  <2>3. QED BY <1>1, <1>5, <2>1, <2>2
<1>6. QED BY <1>4, <1>5 DEF Deferrable, Ordinary, Stream

LEMMA StepDeferrable ==
    ASSUME GatewayTyped, Deferrable, \A k \in Receivers : Shaped(k), NEW j \in Receivers, DeliveryStep(j)
    PROVE  Deferrable'
<1>1. ASSUME deferred' = deferred PROVE Deferrable' BY <1>1 DEF Deferrable, Ordinary, Stream
<1>2. CASE Offer(j)
  <2>1. PICK p \in worker[j].left :
          LET d == Delta(Message(p, j, Content(p, j)))
          IN  \/ deferred' = deferred
              \/ Action(d) \in {"MERGE", "DEFER"} /\ deferred' = Deferring(d)
    BY <1>2, OfferForm
  <2> DEFINE d == Delta(Message(p, j, Content(p, j)))
  <2>2. p \in Parents[j] /\ worker[j].pc # "idle" BY <1>2, OfferForm DEF Shaped
  <2>3. d \in Messages BY <2>2, DeltaForm
  <2> HIDE DEF d
  <2>4. deferred' = deferred \/ (Action(d) \in {"MERGE", "DEFER"} /\ deferred' = Deferring(d))
    BY <2>1 DEF d
  <2>5. QED BY <1>1, <2>3, <2>4, LateIsOrdinary, DeferringDeferrable DEF GatewayTyped
<1>3. CASE Clear(j)
  <2>1. deferred' = {} BY <1>3, ClearForm
  <2>2. QED BY <2>1 DEF Deferrable
<1>4. CASE Look(j) \/ RebuildFor(j) \/ Mark(j) \/ Write(j) \/ Take(j) \/ HandOver(j)
  BY <1>1, <1>4 DEF Look, RebuildFor, Mark, Write, Take, HandOver
<1>5. ASSUME NEW a, StartAttempt(j, a) PROVE Deferrable' BY <1>1, <1>5 DEF StartAttempt
<1>6. ASSUME NEW ok, CallAgent(j, ok) PROVE Deferrable' BY <1>1, <1>6 DEF CallAgent
<1>7. QED BY <1>2, <1>3, <1>4, <1>5, <1>6 DEF DeliveryStep

LEMMA NextDeferrable ==
    ASSUME GatewayTyped, Deferrable, \A k \in Receivers : Shaped(k), [DeliveryNext]_deliveryVars
    PROVE  Deferrable'
<1>1. ASSUME deferred' = deferred PROVE Deferrable' BY <1>1 DEF Deferrable, Ordinary, Stream
<1>2. ASSUME NEW j \in Receivers, DeliveryStep(j) PROVE Deferrable' BY <1>2, StepDeferrable
<1>3. ASSUME NEW p, Redo(p) PROVE Deferrable' BY <1>1, <1>3 DEF Redo
<1>4. CASE Elapse BY <1>1, <1>4 DEF Elapse
<1>5. CASE UNCHANGED deliveryVars BY <1>1, <1>5 DEF deliveryVars
<1>6. QED BY <1>2, <1>3, <1>4, <1>5 DEF DeliveryNext

-----------------------------------------------------------------------------
(* What the digest and the hashes know *)

Reading(j) ==
    \A r \in worker[j].read : \A i \in r.was : Tracked(i) => Secured(r.of.to, r.of.task, i)

LEMMA ReadingStays ==
    ASSUME GatewayTyped, Retained, NEW k \in Receivers, Reading(k), worker'[k].read \subseteq worker[k].read
    PROVE  Reading(k)'
<1>1. ASSUME NEW r \in worker'[k].read, NEW i \in r.was, Tracked(i)'
      PROVE  Secured(r.of.to, r.of.task, i)'
  <2>1. r \in worker[k].read BY <1>1
  <2>2. worker[k] \in Workers BY DEF GatewayTyped
  <2>3. r.of.task \in Receivers BY <2>1, <2>2 DEF Workers, Messages
  <2>4. Secured(r.of.to, r.of.task, i) BY <1>1, <2>1, TrackedStays DEF Reading
  <2>5. QED BY <2>3, <2>4, SecuredStays
<1>2. QED BY <1>1 DEF Reading, Tracked, Roomy, Secured

LEMMA DigestStays ==
    ASSUME Retained, DigestSecured, digest' = digest
    PROVE  DigestSecured'
<1>1. ASSUME NEW a \in Members, NEW j \in Receivers, NEW i \in digest'[<<a, j>>], Tracked(i)'
      PROVE  Secured(a, j, i)'
  <2>1. Secured(a, j, i) BY <1>1, TrackedStays DEF DigestSecured
  <2>2. QED BY <2>1, SecuredStays
<1>2. QED BY <1>1 DEF DigestSecured, Tracked, Roomy, Secured

LEMMA HashesStay ==
    ASSUME GatewayTyped, Retained, HashesSecured, hashes' \subseteq hashes,
           \A k \in Receivers : worker[k].read \subseteq worker'[k].read
    PROVE  HashesSecured'
<1>1. ASSUME NEW m \in hashes', NEW i \in m.items, Tracked(i)'
      PROVE  Secured(m.to, m.task, i)' \/ \E r \in worker'[m.task].read : r.of = m
  <2>1. m \in hashes /\ m.task \in Receivers BY <1>1 DEF GatewayTyped, Messages
  <2>2. Secured(m.to, m.task, i) \/ \E r \in worker[m.task].read : r.of = m
    BY <1>1, <2>1, TrackedStays DEF HashesSecured
  <2>3. QED BY <2>1, <2>2, SecuredStays
<1>2. QED BY <1>1 DEF HashesSecured, Tracked, Roomy, Secured

KnownSecured == DigestSecured /\ (\A k \in Receivers : Reading(k)) /\ HashesSecured

LEMMA MarkKnown ==
    ASSUME GatewayTyped, \A k \in Receivers : Shaped(k), Serial, Retained, KnownSecured,
           NEW j \in Receivers, Mark(j)
    PROVE  KnownSecured'
<1>1. /\ Stays(j) /\ digest' = digest /\ worker'[j].box = worker[j].box
      /\ worker[j].pc \in {"mark"} \cup Draining
  BY MarkForm DEF Draining
<1>2. PICK m \in worker[j].msgs :
        /\ m \in Messages /\ hashes' = hashes \cup {m}
        /\ worker'[j].read = {[of |-> m, was |-> digest[<<m.to, m.task>>]]}
  BY MarkForm
<1>3. DigestSecured' BY <1>1, DigestStays DEF KnownSecured
<1>4. m.to \in Members /\ m.task \in Receivers BY <1>2 DEF Messages
<1>5. Reading(j)'
  <2>1. ASSUME NEW i \in digest[<<m.to, m.task>>], Tracked(i)' PROVE Secured(m.to, m.task, i)'
    <3>1. Secured(m.to, m.task, i)
      BY <1>4, <2>1, TrackedStays DEF KnownSecured, DigestSecured
    <3>2. QED BY <1>4, <3>1, SecuredStays
  <2>2. ASSUME NEW r \in worker'[j].read, NEW i \in r.was, Tracked(i)'
        PROVE  Secured(r.of.to, r.of.task, i)'
    <3>1. r = [of |-> m, was |-> digest[<<m.to, m.task>>]] BY <1>2, <2>2
    <3>2. r.of = m /\ r.was = digest[<<m.to, m.task>>] BY <3>1
    <3>3. QED BY <2>1, <2>2, <3>2
  <2>3. QED BY <2>2 DEF Reading, Tracked, Roomy, Secured
<1>6. ASSUME NEW k \in Receivers, k # j PROVE Reading(k)'
  BY <1>1, <1>6, ReadingStays DEF Stays, KnownSecured
<1>7. HashesSecured'
  <2>1. ASSUME NEW n \in hashes', NEW i \in n.items, Tracked(i)'
        PROVE  Secured(n.to, n.task, i)' \/ \E r \in worker'[n.task].read : r.of = n
    <3>1. CASE n = m
      <4>1. ForIt(m, j) BY <1>1, <1>2, <2>1, <3>1, TrackedStays, TakenIsOwn
      <4>2. m.task = j BY <4>1 DEF ForIt
      <4>3. PICK r \in worker'[j].read : r = [of |-> m, was |-> digest[<<m.to, m.task>>]]
        BY <1>2
      <4>4. r.of = n BY <3>1, <4>3
      <4>5. r \in worker'[n.task].read BY <3>1, <4>2
      <4>6. QED BY <4>4, <4>5
    <3>2. CASE n # m
      <4>1. n \in hashes BY <1>2, <3>2
      <4>2. n \in Messages BY <4>1 DEF GatewayTyped
      <4>3. n.task \in Receivers BY <4>2 DEF Messages
      <4>4. Secured(n.to, n.task, i) \/ \E r \in worker[n.task].read : r.of = n
        BY <2>1, <4>1, TrackedStays DEF KnownSecured, HashesSecured
      <4>5. worker[j].read = {}
        <5>1. worker[j].pc \in {"mark", "drain"} BY DEF Mark
        <5>2. QED BY <5>1 DEF Shaped
      <4>6. n.task # j \/ ~\E r \in worker[n.task].read : r.of = n BY <4>5
      <4>7. QED BY <1>1, <4>3, <4>4, <4>6, SecuredStays DEF Stays
    <3>3. QED BY <3>1, <3>2
  <2>2. QED BY <2>1 DEF HashesSecured, Tracked, Roomy, Secured
<1>8. QED BY <1>3, <1>5, <1>6, <1>7 DEF KnownSecured

LEMMA WriteKnown ==
    ASSUME GatewayTyped, \A k \in Receivers : Shaped(k), Serial, Retained, KnownSecured,
           NEW j \in Receivers, Write(j)
    PROVE  KnownSecured'
<1>1. /\ Stays(j) /\ hashes' = hashes /\ worker'[j].read = {}
      /\ worker[j].pc \in {"write"} \cup Draining
  BY WriteForm DEF Draining
<1>2. PICK r \in worker[j].read :
        /\ r.of \in Messages /\ r.of \in worker[j].msgs
        /\ worker'[j].box = worker[j].box \cup {r.of}
        /\ digest' = [digest EXCEPT ![<<r.of.to, r.of.task>>] = Update(r.was, r.of.items)]
  BY WriteForm
<1> DEFINE m == r.of
<1>3. m.to \in Members /\ m.task \in Receivers BY <1>2 DEF Messages
<1>4. ASSUME NEW i \in m.items, Tracked(i)' PROVE Secured(m.to, m.task, i)'
  <2>1. ForIt(m, j) BY <1>1, <1>2, <1>4, TrackedStays, TakenIsOwn
  <2>2. m.task = j /\ m \in worker'[j].box BY <1>2, <2>1 DEF ForIt
  <2>3. QED BY <1>4, <2>2 DEF Secured
<1>5. ASSUME NEW i \in r.was, Tracked(i)' PROVE Secured(m.to, m.task, i)'
  <2>1. Secured(m.to, m.task, i) BY <1>2, <1>5, TrackedStays DEF KnownSecured, Reading
  <2>2. QED BY <1>3, <2>1, SecuredStays
<1>6. DigestSecured'
  <2>1. ASSUME NEW a \in Members, NEW k \in Receivers, NEW i \in digest'[<<a, k>>], Tracked(i)'
        PROVE  Secured(a, k, i)'
    <3>1. digest \in [Members \X Receivers -> SUBSET Pieces] BY DEF GatewayTyped
    <3>2. CASE a = m.to /\ k = m.task
      <4>1. digest'[<<a, k>>] = Update(r.was, m.items) BY <1>2, <1>3, <3>1, <3>2
      <4>2. i \in r.was \/ i \in m.items BY <2>1, <4>1 DEF Update
      <4>3. QED BY <1>4, <1>5, <2>1, <3>2, <4>2
    <3>3. CASE ~(a = m.to /\ k = m.task)
      <4>1. <<a, k>> # <<m.to, m.task>> /\ <<a, k>> \in Members \X Receivers BY <3>3
      <4>2. digest'[<<a, k>>] = digest[<<a, k>>] BY <1>2, <3>1, <4>1
      <4>3. Secured(a, k, i) BY <2>1, <4>2, TrackedStays DEF KnownSecured, DigestSecured
      <4>4. QED BY <4>3, SecuredStays
    <3>4. QED BY <3>2, <3>3
  <2>2. QED BY <2>1 DEF DigestSecured, Tracked, Roomy, Secured
<1>7. ASSUME NEW k \in Receivers PROVE Reading(k)'
  <2>1. worker'[k].read \subseteq worker[k].read BY <1>1 DEF Stays
  <2>2. QED BY <2>1, ReadingStays DEF KnownSecured
<1>8. HashesSecured'
  <2>1. ASSUME NEW n \in hashes', NEW i \in n.items, Tracked(i)'
        PROVE  Secured(n.to, n.task, i)' \/ \E x \in worker'[n.task].read : x.of = n
    <3>1. n \in hashes BY <1>1
    <3>2. n \in Messages BY <3>1 DEF GatewayTyped
    <3>3. n.task \in Receivers BY <3>2 DEF Messages
    <3>4. CASE Secured(n.to, n.task, i) BY <3>3, <3>4, SecuredStays
    <3>5. ASSUME NEW x \in worker[n.task].read, x.of = n, n.task = j
          PROVE  Secured(n.to, n.task, i)'
      <4>1. x = r BY <1>2, <3>5 DEF Shaped
      <4>2. QED BY <1>4, <2>1, <3>5, <4>1
    <3>6. Secured(n.to, n.task, i) \/ \E x \in worker[n.task].read : x.of = n
      BY <2>1, <3>1, TrackedStays DEF KnownSecured, HashesSecured
    <3>7. n.task # j => worker'[n.task] = worker[n.task] BY <1>1, <3>3 DEF Stays
    <3>8. QED BY <3>4, <3>5, <3>6, <3>7
  <2>2. QED BY <2>1 DEF HashesSecured, Tracked, Roomy, Secured
<1>9. QED BY <1>6, <1>7, <1>8 DEF KnownSecured

LEMMA QuietKnown ==
    ASSUME GatewayTyped, Retained, KnownSecured, digest' = digest, hashes' \subseteq hashes,
           \A k \in Receivers : worker'[k].read = worker[k].read
    PROVE  KnownSecured'
<1>1. \A k \in Receivers : Reading(k)' BY ReadingStays DEF KnownSecured
<1>2. DigestSecured' BY DigestStays DEF KnownSecured
<1>3. HashesSecured' BY HashesStay DEF KnownSecured
<1>4. QED BY <1>1, <1>2, <1>3 DEF KnownSecured

LEMMA NextKnown ==
    ASSUME GatewayTyped, \A k \in Receivers : Shaped(k), Serial, KnownSecured,
           [DeliveryNext]_deliveryVars
    PROVE  KnownSecured'
<1>0. Retained BY NextKeeps
<1>1. ASSUME NEW j \in Receivers, DeliveryStep(j) PROVE KnownSecured'
  <2>0. ASSUME UNCHANGED <<digest, hashes>>, Stays(j), worker'[j].read = worker[j].read
        PROVE  KnownSecured'
    BY <1>0, <2>0, QuietKnown DEF Stays
  <2>1. ASSUME NEW a \in Hosts[j], StartAttempt(j, a) PROVE KnownSecured'
    <3>1. /\ UNCHANGED <<digest, hashes>> /\ Stays(j) /\ worker[j].pc = "idle"
          /\ worker'[j].read = {}
      BY <2>1, StartForm
    <3>2. worker[j].read = {} BY <3>1 DEF Shaped
    <3>3. QED BY <2>0, <3>1, <3>2
  <2>2. CASE Look(j) BY <2>0, <2>2, LookForm
  <2>3. CASE RebuildFor(j) BY <2>0, <2>3, RebuildForm
  <2>4. CASE Offer(j) BY <2>0, <2>4, OfferForm
  <2>5. CASE Mark(j) BY <1>0, <2>5, MarkKnown
  <2>6. CASE Write(j) BY <1>0, <2>6, WriteKnown
  <2>7. CASE Take(j) BY <2>0, <2>7, TakeForm
  <2>8. CASE Clear(j) BY <2>0, <2>8, ClearForm
  <2>9. CASE HandOver(j) BY <2>0, <2>9, HandForm
  <2>10. ASSUME NEW ok \in BOOLEAN, CallAgent(j, ok) PROVE KnownSecured'
    <3>1. /\ UNCHANGED <<digest, hashes>> /\ Stays(j) /\ worker[j].pc = "call"
          /\ worker'[j].read = {}
      BY <2>10, CallForm
    <3>2. worker[j].read = {} BY <3>1 DEF Shaped
    <3>3. QED BY <2>0, <3>1, <3>2
  <2>11. QED
    BY <1>1, <2>1, <2>2, <2>3, <2>4, <2>5, <2>6, <2>7, <2>8, <2>9, <2>10 DEF DeliveryStep
<1>2. ASSUME NEW p \in Redone, Redo(p) PROVE KnownSecured'
  <2>1. /\ UNCHANGED <<digest, hashes>>
        /\ \A k \in Receivers : /\ worker[k].pc \in {"idle", "done"}
                                /\ worker'[k] = worker[k] \/ worker'[k].read = {}
    BY <1>2, RedoForm
  <2>2. \A k \in Receivers : worker[k].read = {} BY <2>1 DEF Shaped
  <2>3. QED BY <1>0, <2>1, <2>2, QuietKnown
<1>3. CASE Elapse BY <1>0, <1>3, QuietKnown DEF Elapse
<1>4. CASE UNCHANGED deliveryVars BY <1>0, <1>4, QuietKnown DEF deliveryVars
<1>5. QED BY <1>1, <1>2, <1>3, <1>4 DEF DeliveryNext

-----------------------------------------------------------------------------
(* One thread at a time *)

(* A thread that does not prepare is undisturbed whatever goes on. *)
LEMMA AwayIsUndisturbed ==
    ASSUME NEW k \in Receivers, worker[k].pc \in {"idle", "call", "done"}, worker[k].pruned = {},
           worker[k].left = {}, \A m \in worker[k].box : ForIt(m, k)
    PROVE  Undisturbed(k)
BY DEF Undisturbed, Preparing, Gathering, Draining

LEMMA OthersUndisturbed ==
    ASSUME Serial, ~overlapped, \A k \in Receivers : Shaped(k), NEW j \in Receivers,
           Preparing(j), Stays(j), assigned' = assigned, NEW k \in Receivers, k # j
    PROVE  Undisturbed(k)'
<1>1. worker'[k] = worker[k] /\ Undisturbed(k) /\ Undisturbed(j) BY DEF Stays, Serial
<1>2. ~Preparing(k) BY <1>1 DEF Undisturbed
<1>3. worker'[k].pc \in {"idle", "call", "done"} BY <1>1, <1>2 DEF Preparing
<1>4. worker'[k].left = {} BY <1>1, <1>3 DEF Shaped
<1>5. worker'[k].pruned = {} /\ \A m \in worker'[k].box : ForIt(m, k)'
  BY <1>1 DEF Undisturbed, ForIt
<1>6. QED BY <1>3, <1>4, <1>5 DEF Undisturbed, ForIt, Preparing, Gathering, Draining

(* While j prepares nobody else does, before and after its step. *)
LEMMA AloneStays ==
    ASSUME Serial, ~overlapped, NEW j \in Receivers, Preparing(j), Stays(j)
    PROVE  \A k \in Receivers : Preparing(j)' /\ Preparing(k)' => k = j
BY DEF Serial, Undisturbed, Preparing, Stays

LEMMA RebuildUndisturbed ==
    ASSUME GatewayTyped, \A k \in Receivers : Shaped(k), Serial, ~overlapped, NEW j \in Receivers,
           RebuildFor(j)
    PROVE  Undisturbed(j)'
<1>1. /\ Stays(j) /\ worker[j].pc = "rebuild" /\ worker'[j].pc = "offer"
      /\ worker'[j].left = {p \in Parents[j] : assigned[p] # assigned[j]}
      /\ worker'[j].box = worker[j].box /\ worker'[j].pruned = worker[j].pruned
      /\ edges' = Rebuilt(worker[j].view, Members, {}, {j})
      /\ deferred' = deferred /\ assigned' = assigned
  BY RebuildForm
<1>2. Undisturbed(j) /\ Preparing(j) BY <1>1 DEF Serial, Preparing
<1>3. \A k \in Receivers : Preparing(j)' /\ Preparing(k)' => k = j BY <1>1, <1>2, AloneStays
<1>4. deferred' = {} /\ worker'[j].pruned = {} BY <1>1, <1>2 DEF Undisturbed
<1>5. \A m \in worker'[j].box : ForIt(m, j)' BY <1>1, <1>2 DEF Undisturbed, ForIt
<1>6. ASSUME NEW p \in Parents[j], assigned[p] # assigned[j]
      PROVE  Carried(edges', assigned[p], assigned[j], {p, j})
  <2> DEFINE view == worker[j].view
  <2>1. view[p] = assigned[p] /\ view[j] = assigned[j] BY <1>1 DEF Shaped
  <2>2. assigned[p] \in Members /\ assigned[j] \in Members
    BY <1>1, ParentFacts DEF GatewayTyped
  <2>3. j \in Jobs /\ Nobody \notin Members BY ParentFacts
  <2> HIDE DEF view
  <2>4. Wanted(Offered(view, Members), view[p], view[j], {p, j})
    BY <1>6, <2>1, <2>2, <2>3, DependencyOffered
  <2>5. Carried(Rebuilt(view, Members, {}, {j}), view[p], view[j], {p, j})
    BY <2>4, RebuiltCarries
  <2>6. QED BY <1>1, <2>1, <2>5 DEF view
<1>7. \A p \in worker'[j].left : assigned'[p] # assigned'[j] BY <1>1
<1>8. \A p \in Parents[j] : assigned'[p] # assigned'[j] =>
         Carried(edges', assigned'[p], assigned'[j], {p, j})
  BY <1>1, <1>6
<1>9. QED
  BY <1>1, <1>3, <1>4, <1>5, <1>7, <1>8 DEF Undisturbed, Draining, ForIt, Carried

(* The edge of a parent is there, so its message is never pruned. *)
LEMMA EdgeIsThere ==
    ASSUME GatewayTyped, NEW j \in Receivers, Undisturbed(j), Shaped(j), worker[j].pc = "offer",
           NEW p \in worker[j].left
    PROVE  EdgeActive(Message(p, j, Content(p, j)))
<1>1. p \in Parents[j] /\ assigned[p] # assigned[j] BY DEF Shaped, Undisturbed
<1>2. Carried(edges, assigned[p], assigned[j], {p, j})
  BY <1>1 DEF Undisturbed, Gathering
<1>3. PICK e \in edges : KeyOfEdge(e) = <<assigned[p], assigned[j]>> /\ {p, j} \subseteq e.tasks
  BY <1>2 DEF Carried
<1> DEFINE m == Message(p, j, Content(p, j))
<1>4. m.from = assigned[p] /\ m.to = assigned[j] /\ m.task = j BY DEF Message
<1> HIDE DEF m
<1>5. EdgeActive(m) BY <1>3, <1>4 DEF EdgeActive
<1>6. QED BY <1>5 DEF m

(* What is deferred for a task names the agents its summaries come from. *)
Signed(m, j, left) ==
    /\ ForIt(m, j) /\ \E q \in Parents[j] \ left : m.from = assigned[q]
    /\ \A i \in m.items : i.kind = "summary" => assigned[i.of] = m.from

LEMMA DeferringSigned ==
    ASSUME GatewayTyped, NEW j \in Receivers, NEW p \in Parents[j], worker[j].pc # "idle",
           NEW left, p \notin left, \A m \in deferred : Signed(m, j, left)
    PROVE  \A m \in Deferring(Delta(Message(p, j, Content(p, j)))) : Signed(m, j, left)
<1> DEFINE d == Delta(Message(p, j, Content(p, j)))
           waiting == {q \in deferred : Stream(q) = Stream(d)}
<1>1. d \in Messages /\ d.from = assigned[p] /\ ForIt(d, j) /\ d.items \subseteq Content(p, j)
  BY DeltaForm
<1> HIDE DEF d
<1>2. PICK n \in Messages :
        /\ Deferring(d) = (deferred \ waiting) \cup {n}
        /\ n.from = d.from /\ n.to = d.to /\ n.task = d.task
        /\ n.items = Update(UNION {q.items : q \in waiting}, d.items)
  BY <1>1, DeferringForm DEF GatewayTyped
<1>3. ForIt(n, j) /\ n.from = assigned[p] BY <1>1, <1>2 DEF ForIt
<1>4. ASSUME NEW i \in n.items, i.kind = "summary" PROVE assigned[i.of] = n.from
  <2>1. i \in d.items \/ \E q \in waiting : i \in q.items BY <1>2 DEF Update
  <2>2. CASE i \in d.items
    <3>1. i \in Content(p, j) BY <1>1, <2>2
    <3>2. i.of = p BY <1>4, <3>1 DEF Content, Summary, Fact, Proof
    <3>3. QED BY <1>3, <3>2
  <2>3. ASSUME NEW q \in waiting, i \in q.items PROVE assigned[i.of] = n.from
    <3>1. q.from = n.from BY <1>2 DEF Stream
    <3>2. QED BY <1>4, <2>3, <3>1 DEF Signed
  <2>4. QED BY <2>1, <2>2, <2>3
<1>5. Signed(n, j, left) BY <1>3, <1>4 DEF Signed
<1>6. \A m \in Deferring(d) : Signed(m, j, left) BY <1>2, <1>5
<1>7. QED BY <1>6 DEF d

LEMMA OfferUndisturbed ==
    ASSUME GatewayTyped, \A k \in Receivers : Shaped(k), Serial, ~overlapped, NEW j \in Receivers,
           Offer(j)
    PROVE  Undisturbed(j)'
<1>1. /\ Stays(j) /\ worker[j].pc = "offer" /\ worker'[j].box = worker[j].box
      /\ edges' = edges /\ assigned' = assigned
  BY OfferForm
<1>2. Undisturbed(j) /\ Preparing(j) BY <1>1 DEF Serial, Preparing
<1>3. \A k \in Receivers : Preparing(j)' /\ Preparing(k)' => k = j BY <1>1, <1>2, AloneStays
<1>4. PICK p \in worker[j].left :
        LET d == Delta(Message(p, j, Content(p, j)))
        IN  /\ worker'[j].left = worker[j].left \ {p}
            /\ \/ ~EdgeActive(Message(p, j, Content(p, j)))
               \/ /\ worker'[j].pc \in {"offer", "mark"}
                  /\ worker'[j].pruned = worker[j].pruned
                  /\ deferred' = deferred \/ deferred' = Deferring(d)
  BY OfferForm
<1> DEFINE d == Delta(Message(p, j, Content(p, j)))
           left == worker[j].left \ {p}
<1>5. EdgeActive(Message(p, j, Content(p, j))) BY <1>1, <1>2, EdgeIsThere
<1>6. /\ worker'[j].pc \in {"offer", "mark"} /\ worker'[j].pruned = {}
      /\ (deferred' = deferred \/ deferred' = Deferring(d)) /\ worker'[j].left = left
  BY <1>2, <1>4, <1>5 DEF Undisturbed
<1>7. \A m \in deferred : Signed(m, j, left)
  BY <1>1, <1>2 DEF Undisturbed, Signed, Gathering
<1>8. \A m \in Deferring(d) : Signed(m, j, left)
  <2>1. p \in Parents[j] /\ p \notin left BY DEF Shaped
  <2> HIDE DEF left
  <2>2. QED BY <1>1, <1>7, <2>1, DeferringSigned
<1> HIDE DEF d, left
<1>9. \A m \in deferred' : Signed(m, j, worker'[j].left) BY <1>6, <1>7, <1>8
<1>10. \A m \in deferred' :
          /\ ForIt(m, j)' /\ \E q \in Parents[j] \ worker'[j].left : m.from = assigned'[q]
          /\ \A i \in m.items : i.kind = "summary" => assigned'[i.of] = m.from
  BY <1>1, <1>9 DEF Signed, ForIt
<1>11. \A q \in worker'[j].left : assigned'[q] # assigned'[j]
  BY <1>1, <1>2, <1>4 DEF Undisturbed
<1>12. \A m \in worker'[j].box : ForIt(m, j)' BY <1>1, <1>2 DEF Undisturbed, ForIt
<1>13. \A q \in Parents[j] : assigned'[q] # assigned'[j] =>
          Carried(edges', assigned'[q], assigned'[j], {q, j})
  BY <1>1, <1>2 DEF Undisturbed, Gathering
<1>14. QED
  BY <1>3, <1>6, <1>10, <1>11, <1>12, <1>13 DEF Undisturbed, Draining, ForIt, Carried

LEMMA MarkUndisturbed ==
    ASSUME GatewayTyped, \A k \in Receivers : Shaped(k), Serial, ~overlapped, NEW j \in Receivers,
           Mark(j)
    PROVE  Undisturbed(j)'
<1>1. /\ Stays(j)
      /\ worker'[j].left = worker[j].left /\ worker'[j].msgs = worker[j].msgs
      /\ worker'[j].box = worker[j].box /\ worker'[j].pruned = worker[j].pruned
      /\ \/ worker[j].pc = "mark" /\ worker'[j].pc = "write"
         \/ worker[j].pc = "drain" /\ worker'[j].pc = "rewrite"
      /\ UNCHANGED <<deferred, edges, assigned>>
  BY MarkForm
<1>2. Undisturbed(j) /\ Preparing(j) BY <1>1 DEF Serial, Preparing
<1>3. \A k \in Receivers : Preparing(j)' /\ Preparing(k)' => k = j BY <1>1, <1>2, AloneStays
<1>4. QED BY <1>1, <1>2, <1>3 DEF Undisturbed, Gathering, Draining, ForIt, Carried

LEMMA WriteUndisturbed ==
    ASSUME GatewayTyped, \A k \in Receivers : Shaped(k), Serial, ~overlapped, NEW j \in Receivers,
           Write(j)
    PROVE  Undisturbed(j)'
<1>1. /\ Stays(j)
      /\ worker'[j].left = worker[j].left /\ worker'[j].pruned = worker[j].pruned
      /\ \/ worker[j].pc = "write" /\ worker'[j].pc = "offer"
         \/ worker[j].pc = "rewrite" /\ worker'[j].pc = "drain"
      /\ UNCHANGED <<deferred, edges, assigned>>
  BY WriteForm
<1>2. PICK m \in worker[j].msgs :
        worker'[j].msgs = worker[j].msgs \ {m} /\ worker'[j].box = worker[j].box \cup {m}
  BY WriteForm
<1>3. Undisturbed(j) /\ Preparing(j) BY <1>1 DEF Serial, Preparing
<1>4. \A k \in Receivers : Preparing(j)' /\ Preparing(k)' => k = j BY <1>1, <1>3, AloneStays
<1>5. ForIt(m, j)
  <2>1. CASE worker[j].pc = "write" BY <1>2, <2>1 DEF Shaped
  <2>2. CASE worker[j].pc = "rewrite" BY <1>2, <1>3, <2>2 DEF Undisturbed, Draining
  <2>3. QED BY <1>1, <2>1, <2>2
<1>6. \A n \in worker'[j].box : ForIt(n, j)' BY <1>1, <1>2, <1>3, <1>5 DEF Undisturbed, ForIt
<1>7. worker'[j].pc \in Draining => deferred' = {} /\ \A n \in worker'[j].msgs : ForIt(n, j)'
  BY <1>1, <1>2, <1>3 DEF Undisturbed, Draining, ForIt
<1>8. worker'[j].pc \in Gathering =>
        /\ worker[j].pc \in Gathering
        /\ worker'[j].pc \notin {"look", "rebuild"} \cup Draining
  BY <1>1 DEF Gathering, Draining
<1>9. QED
  BY <1>1, <1>3, <1>4, <1>6, <1>7, <1>8 DEF Undisturbed, Gathering, Draining, ForIt, Carried

LEMMA DrainUndisturbed ==
    ASSUME GatewayTyped, \A k \in Receivers : Shaped(k), Serial, ~overlapped, NEW j \in Receivers,
           Take(j) \/ Clear(j)
    PROVE  Undisturbed(j)'
<1>1. /\ Stays(j) /\ worker[j].pc \in {"offer", "clear"}
      /\ worker'[j].left = worker[j].left
      /\ worker'[j].box = worker[j].box /\ worker'[j].pruned = worker[j].pruned
      /\ \/ /\ worker[j].pc = "offer" /\ worker'[j].pc = "clear"
            /\ worker'[j].msgs = deferred
         \/ /\ worker[j].pc = "clear" /\ worker'[j].pc = "drain"
            /\ worker'[j].msgs = worker[j].msgs /\ deferred' = {}
      /\ UNCHANGED <<edges, assigned>>
  BY TakeForm, ClearForm
<1>2. Undisturbed(j) /\ Preparing(j) BY <1>1 DEF Serial, Preparing
<1>3. \A k \in Receivers : Preparing(j)' /\ Preparing(k)' => k = j BY <1>1, <1>2, AloneStays
<1>4. \A n \in worker'[j].msgs : ForIt(n, j)'
  BY <1>1, <1>2 DEF Undisturbed, Gathering, Draining, ForIt
<1>5. QED BY <1>1, <1>2, <1>3, <1>4 DEF Undisturbed, Gathering, Draining, ForIt

LEMMA PreparingUndisturbed ==
    ASSUME GatewayTyped, \A k \in Receivers : Shaped(k), Serial, ~overlapped, NEW j \in Receivers,
           DeliveryStep(j), Preparing(j)
    PROVE  Undisturbed(j)' /\ (worker'[j].pc = "call" => deferred' = {})
<1>0. Undisturbed(j) BY DEF Serial
<1>1. CASE Look(j)
  <2>1. /\ Stays(j) /\ worker[j].pc = "look" /\ worker'[j].pc = "rebuild"
        /\ worker'[j].left = worker[j].left /\ worker'[j].msgs = worker[j].msgs
        /\ worker'[j].box = worker[j].box /\ worker'[j].pruned = worker[j].pruned
        /\ UNCHANGED <<deferred, edges, assigned>>
    BY <1>1, LookForm
  <2>2. \A k \in Receivers : Preparing(j)' /\ Preparing(k)' => k = j BY <2>1, AloneStays
  <2>3. QED BY <1>0, <2>1, <2>2 DEF Undisturbed, Gathering, Draining, ForIt
<1>2. CASE RebuildFor(j) BY <1>2, RebuildUndisturbed, RebuildForm
<1>3. CASE Offer(j)
  <2>1. worker'[j].pc # "call" BY <1>3, OfferForm
  <2>2. QED BY <1>3, <2>1, OfferUndisturbed
<1>4. CASE Mark(j) BY <1>4, MarkUndisturbed, MarkForm
<1>5. CASE Write(j) BY <1>5, WriteUndisturbed, WriteForm
<1>6. CASE Take(j) BY <1>6, DrainUndisturbed, TakeForm
<1>7. CASE Clear(j) BY <1>7, DrainUndisturbed, ClearForm
<1>8. CASE HandOver(j)
  <2>1. /\ Stays(j) /\ worker[j].pc = "drain" /\ worker'[j].pc = "call"
        /\ worker'[j].left = worker[j].left
        /\ worker'[j].box = worker[j].box /\ worker'[j].pruned = worker[j].pruned
        /\ UNCHANGED <<deferred, edges, assigned>>
    BY <1>8, HandForm
  <2>2. deferred' = {} BY <1>0, <2>1 DEF Undisturbed
  <2>3. worker'[j].left = {} BY <2>1 DEF Shaped, Draining
  <2>4. worker'[j].pruned = {} /\ \A m \in worker'[j].box : ForIt(m, j)'
    BY <1>0, <2>1 DEF Undisturbed, ForIt
  <2>5. Undisturbed(j)'
    BY <2>1, <2>3, <2>4 DEF Undisturbed, Preparing, Gathering, Draining, ForIt
  <2>6. QED BY <2>2, <2>5
<1>9. ~\E a \in Hosts[j] : StartAttempt(j, a) BY DEF StartAttempt, Preparing
<1>10. ~\E ok \in BOOLEAN : CallAgent(j, ok) BY DEF CallAgent, Preparing
<1>11. QED
  BY <1>1, <1>2, <1>3, <1>4, <1>5, <1>6, <1>7, <1>8, <1>9, <1>10 DEF DeliveryStep

(* An attempt that starts alone finds the queue empty. *)
LEMMA StartSerial ==
    ASSUME GatewayTyped, \A k \in Receivers : Shaped(k), Serial, NEW j \in Receivers,
           NEW a \in Hosts[j], StartAttempt(j, a)
    PROVE  Serial'
<1>1. /\ Stays(j) /\ worker'[j].pc = "look" /\ worker'[j].left = {} /\ worker'[j].msgs = {}
      /\ worker'[j].box = {} /\ worker'[j].pruned = {}
      /\ \A p \in Jobs : p # j => assigned'[p] = assigned[p]
      /\ overlapped' = (overlapped \/ \E k \in Receivers : Preparing(k))
      /\ deferred' = deferred
  BY StartForm
<1>2. SUFFICES ASSUME ~overlapped'
               PROVE  /\ \A k \in Receivers : Undisturbed(k)'
                      /\ (\A k \in Receivers : ~Preparing(k)') => deferred' = {}
  BY DEF Serial, Undisturbed, ForIt, Preparing, Carried
<1>3. ~overlapped /\ \A k \in Receivers : ~Preparing(k) BY <1>1, <1>2
<1>4. deferred' = {} /\ \A k \in Receivers : Undisturbed(k) BY <1>1, <1>3 DEF Serial
<1>5. ASSUME NEW k \in Receivers, k # j PROVE Undisturbed(k)'
  <2>1. worker'[k] = worker[k] /\ assigned'[k] = assigned[k]
    BY <1>1, <1>5, ParentFacts DEF Stays
  <2>2. worker'[k].pc \in {"idle", "call", "done"} BY <1>3, <2>1 DEF Preparing
  <2>3. worker'[k].left = {} BY <2>1, <2>2 DEF Shaped
  <2>4. worker'[k].pruned = {} /\ \A m \in worker'[k].box : ForIt(m, k)'
    BY <1>4, <2>1 DEF Undisturbed, ForIt
  <2>5. QED BY <2>2, <2>3, <2>4 DEF Undisturbed, ForIt, Preparing, Gathering, Draining
<1>6. \A k \in Receivers : Preparing(j)' /\ Preparing(k)' => k = j
  BY <1>1, <1>3 DEF Preparing, Stays
<1>7. Undisturbed(j)'
  BY <1>1, <1>4, <1>6 DEF Undisturbed, ForIt, Gathering, Draining
<1>8. QED BY <1>4, <1>5, <1>7

LEMMA CallSerial ==
    ASSUME GatewayTyped, \A k \in Receivers : Shaped(k), Serial, NEW j \in Receivers,
           NEW ok \in BOOLEAN, CallAgent(j, ok)
    PROVE  Serial'
<1>1. /\ Stays(j) /\ worker[j].pc = "call" /\ worker'[j].pc \in {"idle", "done"}
      /\ worker'[j].left = {} /\ worker'[j].box = {} /\ worker'[j].pruned = {}
      /\ UNCHANGED <<deferred, overlapped, edges, assigned>>
  BY CallForm
<1>2. SUFFICES ASSUME ~overlapped
               PROVE  /\ \A k \in Receivers : Undisturbed(k)'
                      /\ (\A k \in Receivers : ~Preparing(k)') => deferred' = {}
  BY <1>1 DEF Serial, Undisturbed, ForIt, Preparing, Carried
<1>3. \A k \in Receivers : Preparing(k)' => Preparing(k) BY <1>1 DEF Preparing, Stays
<1>4. ASSUME NEW k \in Receivers, k # j PROVE Undisturbed(k)'
  <2>1. worker'[k] = worker[k] /\ Undisturbed(k) BY <1>1, <1>2, <1>4 DEF Stays, Serial
  <2>2. \A i \in Receivers : Preparing(k)' /\ Preparing(i)' => i = k
    BY <1>3, <2>1 DEF Undisturbed
  <2>3. QED BY <1>1, <2>1, <2>2 DEF Undisturbed, ForIt, Carried
<1>5. Undisturbed(j)'
  BY <1>1 DEF Undisturbed, Preparing, ForIt, Gathering, Draining
<1>6. (\A k \in Receivers : ~Preparing(k)') => \A k \in Receivers : ~Preparing(k)
  BY <1>1 DEF Preparing, Stays
<1>7. QED BY <1>1, <1>2, <1>4, <1>5, <1>6 DEF Serial

LEMMA StepSerial ==
    ASSUME GatewayTyped, \A k \in Receivers : Shaped(k), Serial, NEW j \in Receivers, DeliveryStep(j)
    PROVE  Serial'
<1>1. ASSUME NEW a \in Hosts[j], StartAttempt(j, a) PROVE Serial' BY <1>1, StartSerial
<1>2. ASSUME NEW ok \in BOOLEAN, CallAgent(j, ok) PROVE Serial' BY <1>2, CallSerial
<1>3. CASE Look(j) \/ RebuildFor(j) \/ Offer(j) \/ Mark(j) \/ Write(j) \/ Take(j)
           \/ Clear(j) \/ HandOver(j)
  <2>1. Preparing(j)
    BY <1>3 DEF Preparing, Look, RebuildFor, Offer, Mark, Write, Take, Clear, HandOver
  <2>2. UNCHANGED <<overlapped, assigned>>
    BY <1>3 DEF Look, RebuildFor, Offer, Mark, Write, Take, Clear, HandOver
  <2>3. Stays(j) BY AssignmentsStay
  <2>4. SUFFICES ASSUME ~overlapped
                 PROVE  /\ \A k \in Receivers : Undisturbed(k)'
                        /\ (\A k \in Receivers : ~Preparing(k)') => deferred' = {}
    BY <2>2 DEF Serial, Undisturbed, ForIt, Preparing, Carried
  <2>5. Undisturbed(j)' /\ (worker'[j].pc = "call" => deferred' = {})
    BY <2>1, <2>4, PreparingUndisturbed
  <2>6. \A k \in Receivers : Undisturbed(k)' BY <2>1, <2>2, <2>3, <2>4, <2>5, OthersUndisturbed
  <2>7. worker'[j].pc \notin {"idle", "done"}
    <3>1. worker'[j].pc \in {"rebuild"} \cup Gathering \cup Draining \cup {"call"}
      <4>1. CASE Look(j) BY <4>1, LookForm
      <4>2. CASE RebuildFor(j) BY <4>2, RebuildForm DEF Gathering
      <4>3. CASE Offer(j)
        <5>1. worker'[j].pc = "offer" \/ worker'[j].pc = "mark" BY <4>3, OfferForm
        <5>2. QED BY <5>1 DEF Gathering
      <4>4. CASE Mark(j) BY <4>4, MarkForm DEF Gathering, Draining
      <4>5. CASE Write(j) BY <4>5, WriteForm DEF Gathering, Draining
      <4>6. CASE Take(j) BY <4>6, TakeForm DEF Draining
      <4>7. CASE Clear(j) BY <4>7, ClearForm DEF Draining
      <4>8. CASE HandOver(j) BY <4>8, HandForm
      <4>9. QED BY <1>3, <4>1, <4>2, <4>3, <4>4, <4>5, <4>6, <4>7, <4>8
    <3>2. QED BY <3>1 DEF Gathering, Draining
  <2>8. QED BY <2>5, <2>6, <2>7 DEF Preparing
<1>4. QED BY <1>1, <1>2, <1>3 DEF DeliveryStep

LEMMA RestSerial ==
    ASSUME \A k \in Receivers : Shaped(k), Serial, UNCHANGED <<deferred, overlapped, assigned>>,
           \A k \in Receivers :
              /\ worker[k].pc \in {"idle", "done"} /\ worker'[k].pc \in {"idle", "done"}
              /\ worker'[k] = worker[k] \/
                    (worker'[k].left = {} /\ worker'[k].box = {} /\ worker'[k].pruned = {})
    PROVE  Serial'
<1>1. \A k \in Receivers : worker'[k].left = {} /\ worker'[k].box = {} /\ worker'[k].pruned = {}
  BY DEF Shaped
<1>2. \A k \in Receivers : ~Preparing(k) /\ ~Preparing(k)' BY DEF Preparing
<1>3. ~overlapped => deferred' = {} BY <1>2 DEF Serial
<1>4. \A k \in Receivers : Undisturbed(k)'
  BY <1>1, <1>2 DEF Undisturbed, Gathering, Draining
<1>5. QED BY <1>3, <1>4 DEF Serial, Undisturbed, ForIt, Preparing, Carried

LEMMA NextSerial ==
    ASSUME GatewayTyped, \A k \in Receivers : Shaped(k), Serial, [DeliveryNext]_deliveryVars
    PROVE  Serial'
<1>1. ASSUME NEW j \in Receivers, DeliveryStep(j) PROVE Serial' BY <1>1, StepSerial
<1>2. ASSUME NEW p \in Redone, Redo(p) PROVE Serial'
  <2>1. UNCHANGED <<deferred, overlapped, assigned>> BY <1>2, RedoForm
  <2>2. \A k \in Receivers :
           /\ worker[k].pc \in {"idle", "done"} /\ worker'[k].pc \in {"idle", "done"}
           /\ worker'[k] = worker[k] \/
                 (worker'[k].left = {} /\ worker'[k].box = {} /\ worker'[k].pruned = {})
    BY <1>2, RedoForm
  <2>3. QED BY <2>1, <2>2, RestSerial
<1>3. CASE Elapse BY <1>3, RestSerial DEF Elapse
<1>4. CASE UNCHANGED deliveryVars
  BY <1>4 DEF deliveryVars, Serial, Undisturbed, ForIt, Preparing, Carried
<1>5. QED BY <1>1, <1>2, <1>3, <1>4 DEF DeliveryNext

-----------------------------------------------------------------------------
(* On its way to an attempt *)

(* What another thread does takes nothing away that is accounted for. *)
LEMMA HeldStays ==
    ASSUME Deferrable, Serial, Retained, NEW j \in Receivers, Stays(j),
           NEW k \in Receivers, k # j, assigned'[k] = assigned[k],
           deferred' = deferred \/ Preparing(j), NEW i, Tracked(i)', Held(k, i)
    PROVE  Held(k, i)'
<1>1. worker'[k] = worker[k] BY DEF Stays
<1>2. CASE Secured(assigned[k], k, i) BY <1>2, SecuredStays DEF Held, Secured
<1>3. ASSUME NEW m \in Waiting(k), ForIt(m, k), i \in m.items PROVE Held(k, i)'
  <2>1. ForIt(m, k)' BY <1>3 DEF ForIt
  <2>2. CASE m \in worker[k].msgs BY <1>1, <1>3, <2>1, <2>2 DEF Held, Waiting
  <2>3. CASE worker[k].pc \in Gathering /\ m \in deferred
    <3>1. i.kind # "evidence" BY <1>3, <2>3 DEF Deferrable, Ordinary
    <3>2. ~overlapped BY <3>1, TrackedStays DEF Tracked
    <3>3. Preparing(k) BY <2>3 DEF Preparing, Gathering
    <3>4. deferred' = deferred BY <3>2, <3>3 DEF Serial, Undisturbed
    <3>5. m \in Waiting(k)' BY <1>1, <2>3, <3>4 DEF Waiting
    <3>6. QED BY <1>3, <2>1, <3>5 DEF Held
  <2>4. QED BY <1>3, <2>2, <2>3 DEF Waiting
<1>4. QED BY <1>2, <1>3 DEF Held

(* The parents' results and the facts of an attempt are what they were. *)
LEMMA ContentStays ==
    ASSUME NEW j \in Receivers, version' = version, tries'[j] = tries[j],
           \A x \in Parents[j] : assigned'[x] = assigned[x], NEW p \in Parents[j]
    PROVE  /\ Content(p, j)' = Content(p, j) /\ Summary(p)' = Summary(p)
           /\ Rivals(p, j)' = Rivals(p, j)
BY DEF Content, Summary, Proof, Fact, Rivals

Attending == Gathering \cup Draining \cup {"call"}

(* How the attempt of j gets an item of the message of p. *)
Reaching(p, j, i) ==
    \/ p \in worker[j].left \cup worker[j].pruned
    \/ Held(j, i)
    \/ i = Summary(p) /\ \E s \in Rivals(p, j) : Held(j, s)

LEMMA AccountedStays ==
    ASSUME NEW j \in Receivers, version' = version, tries'[j] = tries[j],
           \A p \in Parents[j] \cup {j} : assigned'[p] = assigned[p],
           ASSUME worker'[j].pc \in Attending, NEW p \in Parents[j], assigned[p] # assigned[j],
                  NEW i \in Content(p, j), Tracked(i)'
           PROVE  Reaching(p, j, i)'
    PROVE  Accounted(j)'
BY ContentStays DEF Accounted, Attending, Reaching

LEMMA OthersAccounted ==
    ASSUME GatewayTyped, Deferrable, Serial, Retained, NEW j \in Receivers, DeliveryStep(j),
           NEW k \in Receivers, k # j, Accounted(k)
    PROVE  Accounted(k)'
<1>1. /\ Stays(j) /\ version' = version /\ assigned'[k] = assigned[k] /\ tries'[k] = tries[k]
      /\ \A p \in Parents[k] : assigned'[p] = assigned[p]
  BY AssignmentsStay
<1>2. worker'[k] = worker[k] BY <1>1 DEF Stays
<1>3. deferred' = deferred \/ Preparing(j)
  BY DEF DeliveryStep, StartAttempt, Look, RebuildFor, Offer, Mark, Write, Take, Clear,
         HandOver, CallAgent, Preparing
<1>4. ASSUME worker'[k].pc \in Attending, NEW p \in Parents[k], assigned[p] # assigned[k],
             NEW i \in Content(p, k), Tracked(i)'
      PROVE  Reaching(p, k, i)'
  <2>1. /\ Summary(p)' = Summary(p) /\ Rivals(p, k)' = Rivals(p, k)
    BY <1>1, ContentStays
  <2>2. CASE p \in worker[k].left \cup worker[k].pruned BY <1>2, <2>2 DEF Reaching
  <2>3. CASE Held(k, i)
    <3>1. Held(k, i)' BY <1>1, <1>3, <1>4, <2>3, HeldStays
    <3>2. QED BY <3>1 DEF Reaching
  <2>4. ASSUME i = Summary(p), NEW s \in Rivals(p, k), Held(k, s) PROVE Reaching(p, k, i)'
    <3>1. i.kind = "summary" /\ s.kind = "summary" BY <2>4 DEF Summary, Rivals
    <3>2. Tracked(s)' BY <1>4, <3>1 DEF Tracked
    <3>3. Held(k, s)' BY <1>1, <1>3, <2>4, <3>2, HeldStays
    <3>4. i = Summary(p)' /\ s \in Rivals(p, k)' BY <2>1, <2>4
    <3>5. QED BY <3>3, <3>4 DEF Reaching
  <2>5. Tracked(i) BY <1>4, TrackedStays
  <2>6. QED BY <1>2, <1>4, <2>2, <2>3, <2>4, <2>5 DEF Accounted, Attending
<1>5. QED BY <1>1, <1>4, AccountedStays

(* A thread that moves its messages on keeps them for its attempt. *)
LEMMA HeldOn ==
    ASSUME Retained, NEW j \in Receivers, assigned'[j] = assigned[j],
           \A m \in Waiting(j) : m \in Waiting(j)' \/ m \in worker'[j].box, NEW i, Held(j, i)
    PROVE  Held(j, i)'
<1>1. CASE Secured(assigned[j], j, i) BY <1>1, SecuredStays DEF Held, Secured
<1>2. ASSUME NEW m \in Waiting(j), ForIt(m, j), i \in m.items PROVE Held(j, i)'
  <2>1. ForIt(m, j)' BY <1>2 DEF ForIt
  <2>2. CASE m \in Waiting(j)' BY <1>2, <2>1, <2>2 DEF Held
  <2>3. CASE m \in worker'[j].box BY <1>2, <2>1, <2>3 DEF Held, Secured, ForIt
  <2>4. QED BY <1>2, <2>2, <2>3
<1>3. QED BY <1>1, <1>2 DEF Held

LEMMA OnAccounted ==
    ASSUME Retained, NEW j \in Receivers, worker[j].pc \in Attending, Accounted(j),
           UNCHANGED <<version, tries, assigned>>,
           worker'[j].left = worker[j].left, worker'[j].pruned = worker[j].pruned,
           \A m \in Waiting(j) : m \in Waiting(j)' \/ m \in worker'[j].box
    PROVE  Accounted(j)'
<1>1. ASSUME NEW p \in Parents[j], assigned[p] # assigned[j], NEW i \in Content(p, j), Tracked(i)'
      PROVE  Reaching(p, j, i)'
  <2>1. Reaching(p, j, i) BY <1>1, TrackedStays DEF Accounted, Attending, Reaching
  <2>2. Summary(p)' = Summary(p) /\ Rivals(p, j)' = Rivals(p, j) BY ContentStays
  <2>3. CASE p \in worker[j].left \cup worker[j].pruned BY <2>3 DEF Reaching
  <2>4. CASE Held(j, i)
    <3>1. Held(j, i)' BY <2>4, HeldOn
    <3>2. QED BY <3>1 DEF Reaching
  <2>5. ASSUME i = Summary(p), NEW s \in Rivals(p, j), Held(j, s) PROVE Reaching(p, j, i)'
    <3>1. Held(j, s)' BY <2>5, HeldOn
    <3>2. i = Summary(p)' /\ s \in Rivals(p, j)' BY <2>2, <2>5
    <3>3. QED BY <3>1, <3>2 DEF Reaching
  <2>6. QED BY <2>1, <2>3, <2>4, <2>5 DEF Reaching
<1>2. QED BY <1>1, AccountedStays

LEMMA WriteAccounted ==
    ASSUME GatewayTyped, Retained, NEW j \in Receivers, Shaped(j), Accounted(j), Write(j)
    PROVE  Accounted(j)'
<1>1. /\ worker'[j].left = worker[j].left /\ worker'[j].pruned = worker[j].pruned
      /\ \/ worker[j].pc = "write" /\ worker'[j].pc = "offer"
         \/ worker[j].pc = "rewrite" /\ worker'[j].pc = "drain"
      /\ UNCHANGED <<version, tries, deferred, assigned>>
  BY WriteForm
<1>2. PICK m \in worker[j].msgs :
        worker'[j].msgs = worker[j].msgs \ {m} /\ worker'[j].box = worker[j].box \cup {m}
  BY WriteForm
<1>3. worker[j].pc \in Attending BY <1>1 DEF Attending, Gathering, Draining
<1>4. \A n \in Waiting(j) : n \in Waiting(j)' \/ n \in worker'[j].box
  BY <1>1, <1>2 DEF Waiting, Gathering, Draining
<1>5. QED BY <1>1, <1>3, <1>4, OnAccounted

(* A thread that offers alone finds room for each of its messages. *)
LEMMA QueueHasRoom ==
    ASSUME GatewayTyped, Deferrable, NEW j \in Receivers, Undisturbed(j), Shaped(j), Roomy,
           worker[j].pc = "offer", NEW p \in worker[j].left
    PROVE  Cardinality(deferred) \in Nat /\ Cardinality(deferred) < MaxQueue
<1> DEFINE S == Parents[j] \ worker[j].left
           f == [m \in deferred |-> CHOOSE q \in S : m.from = assigned[q]]
<1>1. \A m \in deferred : ForIt(m, j) /\ \E q \in S : m.from = assigned[q]
  BY DEF Undisturbed, Gathering
<1>2. p \in Parents[j] \ S BY DEF Shaped
<1>3. S \subseteq Parents[j] \ {p} BY <1>2
<1> HIDE DEF S
<1>4. \A m \in deferred : f[m] \in S /\ m.from = assigned[f[m]] BY <1>1
<1>5. f \in [deferred -> S] BY <1>4
<1> HIDE DEF f
<1>6. ASSUME NEW m \in deferred, NEW n \in deferred, f[m] = f[n] PROVE m = n
  <2>1. Stream(m) = Stream(n) BY <1>1, <1>4, <1>6 DEF Stream, ForIt
  <2>2. QED BY <2>1 DEF Deferrable
<1>7. f \in Injection(deferred, S) BY <1>5, <1>6 DEF Injection, IsInjective
<1>8. IsFiniteSet(Parents[j]) /\ Cardinality(Parents[j]) <= MaxQueue BY DEF Roomy
<1>9. /\ IsFiniteSet(Parents[j] \ {p})
      /\ Cardinality(Parents[j] \ {p}) = Cardinality(Parents[j]) - 1
  BY <1>2, <1>8, FS_RemoveElement
<1>10. IsFiniteSet(S) /\ Cardinality(S) <= Cardinality(Parents[j] \ {p})
  BY <1>3, <1>9, FS_Subset
<1>11. IsFiniteSet(deferred) /\ Cardinality(deferred) <= Cardinality(S)
  BY <1>7, <1>10, FS_Injection
<1>12. /\ Cardinality(Parents[j]) \in Nat /\ Cardinality(S) \in Nat
       /\ Cardinality(deferred) \in Nat /\ MaxQueue \in Nat
  BY <1>8, <1>10, <1>11, FS_CardinalityType, DeliveryAssumption
<1>13. QED BY <1>8, <1>9, <1>10, <1>11, <1>12

LEMMA NameLengths ==
    ASSUME NEW a, NEW b, NEW c
    PROVE  <<a>> # <<b, c>>
<1>1. DOMAIN <<a>> = 1 .. 1 /\ DOMAIN <<b, c>> = 1 .. 2 OBVIOUS
<1>2. 2 \in 1 .. 2 /\ 2 \notin 1 .. 1 OBVIOUS
<1>3. QED BY <1>1, <1>2

LEMMA PairsEqual ==
    ASSUME NEW a, NEW b, NEW c, NEW d, <<a, b>> = <<c, d>>
    PROVE  a = c
OBVIOUS

(* Two items of one name in the messages of one receiver. *)
LEMMA SameName ==
    ASSUME NEW j, NEW p, NEW q, NEW i \in Content(p, j), NEW n \in Content(q, j),
           i.kind # "evidence", NameOf(i) = NameOf(n)
    PROVE  i = n \/ (i = Summary(p) /\ n = Summary(q))
<1>1. i = Summary(p) \/ i = Fact(j) BY DEF Content, Proof
<1>2. n = Summary(q) \/ n = Fact(j) \/ n = Proof(q) BY DEF Content
<1>3. CASE i = Summary(p)
  <2>1. NameOf(i) = <<"summary">> BY <1>3 DEF Summary, NameOf
  <2>2. n.kind = "summary"
    <3>1. n.kind # "summary" => NameOf(n) = <<n.kind, n.of>> BY DEF NameOf
    <3>2. NameOf(n) # <<n.kind, n.of>> BY <2>1, NameLengths
    <3>3. QED BY <3>1, <3>2
  <2>3. QED BY <1>2, <1>3, <2>2 DEF Fact, Proof
<1>4. CASE i = Fact(j)
  <2>1. NameOf(i) = <<"fact", j>> BY <1>4 DEF Fact, NameOf
  <2>2. n.kind # "summary"
    <3>1. n.kind = "summary" => NameOf(n) = <<"summary">> BY DEF NameOf
    <3>2. NameOf(n) # <<"summary">> BY <2>1, NameLengths
    <3>3. QED BY <3>1, <3>2
  <2>3. NameOf(n) = <<n.kind, n.of>> BY <2>2 DEF NameOf
  <2>4. n.kind = "fact" BY <2>1, <2>3, PairsEqual
  <2>5. QED BY <1>2, <1>4, <2>4 DEF Summary, Proof
<1>5. QED BY <1>1, <1>3, <1>4

(* What waits in the queue survives a merge, or gives way to the summary of  *)
(* another parent of the same agent.                                        *)
LEMMA MergeHolds ==
    ASSUME GatewayTyped, Deferrable, Serial, Retained, NEW j \in Receivers, Shaped(j),
           worker[j].pc = "offer", worker'[j].pc = "offer", assigned' = assigned,
           NEW p \in Parents[j], deferred' = Deferring(Delta(Message(p, j, Content(p, j)))),
           NEW q \in Parents[j], NEW i \in Content(q, j), Tracked(i), Held(j, i)
    PROVE  \/ Held(j, i)'
           \/ /\ i = Summary(q) /\ assigned[p] = assigned[q]
              /\ \E s \in {Summary(p)} : Held(j, s)'
<1> DEFINE d == Delta(Message(p, j, Content(p, j)))
           waiting == {x \in deferred : Stream(x) = Stream(d)}
<1>1. /\ d \in Messages /\ d.from = assigned[p] /\ ForIt(d, j) /\ d.items \subseteq Content(p, j)
      /\ deferred' = Deferring(d)
  BY DeltaForm
<1> HIDE DEF d
<1>2. PICK n \in Messages :
        /\ Deferring(d) = (deferred \ waiting) \cup {n}
        /\ n.from = d.from /\ n.to = d.to /\ n.task = d.task
        /\ n.items = Update(UNION {x.items : x \in waiting}, d.items)
  BY <1>1, DeferringForm DEF GatewayTyped
<1>3. deferred' = (deferred \ waiting) \cup {n} BY <1>1, <1>2
<1>4. ForIt(n, j)' BY <1>1, <1>2 DEF ForIt
<1>5. Waiting(j)' = worker'[j].msgs \cup deferred' BY DEF Waiting, Gathering
<1>6. ASSUME NEW x \in n.items PROVE Held(j, x)'
  <2>1. n \in Waiting(j)' BY <1>3, <1>5
  <2>2. QED BY <1>4, <1>6, <2>1 DEF Held
<1>7. CASE Secured(assigned[j], j, i) BY <1>7, SecuredStays DEF Held, Secured
<1>8. ASSUME NEW m \in Waiting(j), ForIt(m, j), i \in m.items
      PROVE  \/ Held(j, i)'
             \/ /\ i = Summary(q) /\ assigned[p] = assigned[q]
                /\ \E s \in {Summary(p)} : Held(j, s)'
  <2>1. worker[j].msgs = {} BY DEF Shaped, Draining
  <2>2. m \in deferred BY <1>8, <2>1 DEF Waiting
  <2>3. i.kind # "evidence" BY <1>8, <2>2 DEF Deferrable, Ordinary
  <2>4. Undisturbed(j) BY <2>3 DEF Tracked, Serial
  <2>5. CASE m \notin waiting
    <3>1. m \in Waiting(j)' /\ ForIt(m, j)' BY <1>3, <1>5, <1>8, <2>2, <2>5 DEF ForIt
    <3>2. QED BY <1>8, <3>1 DEF Held
  <2>6. CASE m \in waiting
    <3>1. i \in n.items \/ \E x \in d.items : NameOf(x) = NameOf(i)
      BY <1>2, <1>8, <2>6 DEF Update
    <3>2. CASE i \in n.items BY <1>6, <3>2
    <3>3. ASSUME NEW x \in d.items, NameOf(x) = NameOf(i)
          PROVE  \/ Held(j, i)'
                 \/ /\ i = Summary(q) /\ assigned[p] = assigned[q]
                    /\ \E s \in {Summary(p)} : Held(j, s)'
      <4>1. x \in n.items BY <1>2, <3>3 DEF Update
      <4>2. Held(j, x)' BY <1>6, <4>1
      <4>3. x \in Content(p, j) BY <1>1, <3>3
      <4>4. i = x \/ (i = Summary(q) /\ x = Summary(p)) BY <2>3, <3>3, <4>3, SameName
      <4>5. CASE i = x BY <4>2, <4>5
      <4>6. CASE i = Summary(q) /\ x = Summary(p)
        <5>1. i.kind = "summary" /\ i.of = q BY <4>6 DEF Summary
        <5>2. assigned[i.of] = m.from BY <1>8, <2>2, <2>4, <5>1 DEF Undisturbed, Gathering
        <5>3. m.from = d.from BY <2>6 DEF Stream
        <5>4. assigned[p] = assigned[q] BY <1>1, <5>1, <5>2, <5>3
        <5>5. \E s \in {Summary(p)} : Held(j, s)' BY <4>2, <4>6
        <5>6. QED BY <4>6, <5>4, <5>5
      <4>7. QED BY <4>4, <4>5, <4>6
    <3>4. QED BY <3>1, <3>2, <3>3
  <2>7. QED BY <2>5, <2>6
<1>9. QED BY <1>7, <1>8 DEF Held

(* The message of a parent is sent, waits, or says nothing its receiver has  *)
(* not been told; it is dropped neither for its name nor for want of room.  *)
LEMMA OfferReaches ==
    ASSUME GatewayTyped, Deferrable, Serial, Retained, KnownSecured, NEW j \in Receivers, Shaped(j),
           Offer(j), NEW p \in worker[j].left, worker'[j].pruned = worker[j].pruned,
           LET d == Delta(Message(p, j, Content(p, j)))
               dropped == d.items = {} \/ d \in hashes
           IN  \/ /\ worker'[j].pc = "mark" /\ worker'[j].msgs = {d}
               \/ /\ dropped \/ Action(d) # "SEND"
                  /\ worker'[j].pc = "offer"
                  /\ deferred' = IF ~dropped /\ Action(d) \in {"MERGE", "DEFER"}
                                 THEN Deferring(d) ELSE deferred,
           NEW i \in Content(p, j), Tracked(i)'
    PROVE  Held(j, i)'
<1>0. PICK d : d = Delta(Message(p, j, Content(p, j))) OBVIOUS
<1> DEFINE dropped == d.items = {} \/ d \in hashes
<1>1. worker[j].pc = "offer" /\ assigned' = assigned /\ p \in Parents[j]
  BY OfferForm DEF Shaped
<1>2. /\ d \in Messages /\ ForIt(d, j)
      /\ d.items = Content(p, j) \ digest[<<assigned[j], j>>]
  BY <1>0, <1>1, DeltaForm
<1>3. \/ worker'[j].pc = "mark" /\ worker'[j].msgs = {d}
      \/ /\ dropped \/ Action(d) # "SEND"
         /\ worker'[j].pc = "offer"
         /\ deferred' = IF ~dropped /\ Action(d) \in {"MERGE", "DEFER"}
                        THEN Deferring(d) ELSE deferred
  BY <1>0
<1>4. Tracked(i) BY TrackedStays
<1>5. ForIt(d, j)' BY <1>1, <1>2 DEF ForIt
<1>6. ASSUME Secured(assigned[j], j, i) PROVE Held(j, i)'
  BY <1>1, <1>6, SecuredStays DEF Held, Secured
<1>7. CASE i \in digest[<<assigned[j], j>>]
  <2>1. assigned[j] \in Members BY <1>1 DEF GatewayTyped
  <2>2. Secured(assigned[j], j, i) BY <1>4, <1>7, <2>1 DEF KnownSecured, DigestSecured
  <2>3. QED BY <1>6, <2>2
<1>8. CASE i \in d.items
  <2>1. CASE worker'[j].pc = "mark" /\ worker'[j].msgs = {d}
    BY <1>5, <1>8, <2>1 DEF Held, Waiting
  <2>2. CASE dropped
    <3>1. d \in hashes BY <1>8, <2>2
    <3>2. d.to = assigned[j] /\ d.task = j BY <1>2 DEF ForIt
    <3>3. worker[j].read = {} BY <1>1 DEF Shaped
    <3>4. Secured(assigned[j], j, i)
      BY <1>4, <1>8, <3>1, <3>2, <3>3 DEF KnownSecured, HashesSecured
    <3>5. QED BY <1>6, <3>4
  <2>3. CASE /\ ~dropped /\ Action(d) # "SEND" /\ worker'[j].pc = "offer"
             /\ deferred' = IF ~dropped /\ Action(d) \in {"MERGE", "DEFER"}
                            THEN Deferring(d) ELSE deferred
    <3>1. Ordinary(d) BY <2>3, LateIsOrdinary
    <3>2. ~overlapped /\ Roomy BY <1>4, <1>8, <3>1 DEF Ordinary, Tracked
    <3>3. Undisturbed(j) BY <3>2 DEF Serial
    <3>4. Cardinality(deferred) \in Nat /\ Cardinality(deferred) < MaxQueue
      BY <1>1, <3>2, <3>3, QueueHasRoom
    <3>5. MaxQueue \in Nat BY DeliveryAssumption
    <3>6. Action(d) \in {"MERGE", "DEFER"} BY <2>3, <3>1, <3>4, <3>5 DEF Action
    <3>7. deferred' = Deferring(d) BY <2>3, <3>6
    <3>8. PICK n : /\ n \in Deferring(d) /\ n.to = d.to /\ n.task = d.task
                   /\ d.items \subseteq n.items
      <4>1. PICK n \in Messages :
              LET waiting == {x \in deferred : Stream(x) = Stream(d)}
              IN  /\ Deferring(d) = (deferred \ waiting) \cup {n}
                  /\ n.from = d.from /\ n.to = d.to /\ n.task = d.task
                  /\ n.items = Update(UNION {x.items : x \in waiting}, d.items)
        BY <1>2, DeferringForm DEF GatewayTyped
      <4>2. n \in Deferring(d) /\ d.items \subseteq n.items BY <4>1 DEF Update
      <4>3. QED BY <4>1, <4>2
    <3>9. ForIt(n, j)' /\ n \in Waiting(j)'
      BY <1>5, <2>3, <3>7, <3>8 DEF ForIt, Waiting, Gathering
    <3>10. QED BY <1>8, <3>8, <3>9 DEF Held
  <2>4. QED BY <1>3, <2>1, <2>2, <2>3
<1>9. QED BY <1>2, <1>7, <1>8

LEMMA OfferAccounted ==
    ASSUME GatewayTyped, Deferrable, Serial, Retained, KnownSecured, NEW j \in Receivers, Shaped(j),
           Accounted(j), Offer(j)
    PROVE  Accounted(j)'
<1>1. /\ worker[j].pc = "offer" /\ UNCHANGED <<version, tries, assigned>>
  BY OfferForm
<1>2. PICK p \in worker[j].left :
         LET d == Delta(Message(p, j, Content(p, j)))
             dropped == d.items = {} \/ d \in hashes
         IN  /\ worker'[j].left = worker[j].left \ {p}
             /\ \/ /\ worker'[j].pc = "offer" /\ worker'[j].pruned = worker[j].pruned \cup {p}
                   /\ worker'[j].msgs = worker[j].msgs /\ deferred' = deferred
                \/ /\ worker'[j].pc = "mark" /\ worker'[j].msgs = {d}
                   /\ worker'[j].pruned = worker[j].pruned /\ deferred' = deferred
                \/ /\ dropped \/ Action(d) # "SEND"
                   /\ worker'[j].pc = "offer" /\ worker'[j].msgs = worker[j].msgs
                   /\ worker'[j].pruned = worker[j].pruned
                   /\ deferred' = IF ~dropped /\ Action(d) \in {"MERGE", "DEFER"}
                                  THEN Deferring(d) ELSE deferred
  BY OfferForm
<1> DEFINE merged == deferred' = Deferring(Delta(Message(p, j, Content(p, j))))
<1>3. /\ worker'[j].pc \in {"offer", "mark"} /\ worker[j].pruned \subseteq worker'[j].pruned
      /\ deferred' = deferred \/ (merged /\ worker'[j].pc = "offer")
      /\ worker[j].msgs \subseteq worker'[j].msgs
      /\ worker'[j].left = worker[j].left \ {p}
  <2>1. worker[j].msgs = {} BY <1>1 DEF Shaped, Draining
  <2>2. QED BY <1>2, <2>1
<1>4. p \in Parents[j] BY DEF Shaped
<1>5. ASSUME NEW q \in Parents[j], NEW i \in Content(q, j), Tracked(i)', Held(j, i)
      PROVE  \/ Held(j, i)'
             \/ /\ i = Summary(q) /\ assigned[p] = assigned[q]
                /\ \E s \in {Summary(p)} : Held(j, s)'
  <2>1. Tracked(i) BY <1>5, TrackedStays
  <2>2. CASE deferred' = deferred
    <3>1. \A m \in Waiting(j) : m \in Waiting(j)'
      BY <1>1, <1>3, <2>2 DEF Waiting, Gathering
    <3>2. QED BY <1>1, <1>5, <3>1, HeldOn
  <2>3. CASE merged /\ worker'[j].pc = "offer"
    BY <1>1, <1>4, <1>5, <2>1, <2>3, MergeHolds
  <2>4. QED BY <1>3, <2>2, <2>3
<1>6. ASSUME NEW i \in Content(p, j), Tracked(i)', p \notin worker'[j].pruned PROVE Held(j, i)'
  <2>1. worker'[j].pruned = worker[j].pruned BY <1>2, <1>6
  <2>2. LET d == Delta(Message(p, j, Content(p, j)))
            dropped == d.items = {} \/ d \in hashes
        IN  \/ /\ worker'[j].pc = "mark" /\ worker'[j].msgs = {d}
            \/ /\ dropped \/ Action(d) # "SEND"
               /\ worker'[j].pc = "offer"
               /\ deferred' = IF ~dropped /\ Action(d) \in {"MERGE", "DEFER"}
                              THEN Deferring(d) ELSE deferred
    BY <1>2, <1>6
  <2>3. QED BY <1>6, <2>1, <2>2, OfferReaches
<1>7. ASSUME NEW q \in Parents[j], assigned[q] # assigned[j], NEW i \in Content(q, j), Tracked(i)'
      PROVE  Reaching(q, j, i)'
  <2>1. Reaching(q, j, i) BY <1>1, <1>7, TrackedStays DEF Accounted, Attending, Gathering, Reaching
  <2>2. Summary(q)' = Summary(q) /\ Rivals(q, j)' = Rivals(q, j) BY <1>1, ContentStays
  <2>3. CASE q = p BY <1>6, <1>7, <2>3 DEF Reaching
  <2>4. CASE q # p
    <3>1. CASE q \in worker[j].left \cup worker[j].pruned BY <1>3, <2>4, <3>1 DEF Reaching
    <3>2. ASSUME i = Summary(q), assigned[p] = assigned[q], NEW s \in {Summary(p)}, Held(j, s)'
          PROVE  Reaching(q, j, i)'
      <4>1. s \in Rivals(q, j) BY <1>4, <2>4, <3>2 DEF Rivals
      <4>2. i = Summary(q)' /\ s \in Rivals(q, j)' BY <2>2, <3>2, <4>1
      <4>3. QED BY <3>2, <4>2 DEF Reaching
    <3>3. CASE Held(j, i)
      <4>1. CASE Held(j, i)' BY <4>1 DEF Reaching
      <4>2. QED BY <1>5, <1>7, <3>2, <3>3, <4>1
    <3>4. ASSUME i = Summary(q), NEW s \in Rivals(q, j), Held(j, s) PROVE Reaching(q, j, i)'
      <4>1. PICK x \in Parents[j] \ {q} : assigned[x] = assigned[q] /\ s = Summary(x)
        BY <3>4 DEF Rivals
      <4>2. s \in Content(x, j) BY <4>1 DEF Content
      <4>3. i.kind = "summary" /\ s.kind = "summary" BY <3>4, <4>1 DEF Summary
      <4>4. Tracked(s)' BY <1>7, <4>3 DEF Tracked
      <4>5. CASE Held(j, s)'
        <5>1. i = Summary(q)' /\ s \in Rivals(q, j)' BY <2>2, <3>4
        <5>2. QED BY <4>5, <5>1 DEF Reaching
      <4>6. ASSUME assigned[p] = assigned[x], NEW r \in {Summary(p)}, Held(j, r)'
            PROVE  Reaching(q, j, i)'
        BY <3>2, <3>4, <4>1, <4>6
      <4>7. QED BY <1>5, <3>4, <4>2, <4>4, <4>5, <4>6
    <3>5. QED BY <2>1, <3>1, <3>3, <3>4 DEF Reaching
  <2>5. QED BY <2>3, <2>4
<1>8. QED BY <1>1, <1>7, AccountedStays

LEMMA OwnAccounted ==
    ASSUME GatewayTyped, Deferrable, Serial, Retained, KnownSecured, NEW j \in Receivers, Shaped(j),
           Accounted(j), DeliveryStep(j)
    PROVE  Accounted(j)'
<1>0. ASSUME worker'[j].pc \notin Attending PROVE Accounted(j)' BY <1>0 DEF Accounted, Attending
<1>1. ASSUME NEW a \in Hosts[j], StartAttempt(j, a) PROVE Accounted(j)'
  <2>1. worker'[j].pc = "look" BY <1>1, StartForm
  <2>2. QED BY <1>0, <2>1 DEF Attending, Gathering, Draining
<1>2. CASE Look(j)
  <2>1. worker'[j].pc = "rebuild" BY <1>2, LookForm
  <2>2. QED BY <1>0, <2>1 DEF Attending, Gathering, Draining
<1>3. CASE RebuildFor(j)
  <2>1. /\ worker'[j].left = {p \in Parents[j] : assigned[p] # assigned[j]}
        /\ UNCHANGED <<version, tries, assigned>>
    BY <1>3, RebuildForm
  <2>2. ASSUME NEW p \in Parents[j], assigned[p] # assigned[j], NEW i
        PROVE  Reaching(p, j, i)'
    BY <2>1, <2>2 DEF Reaching
  <2>3. QED BY <2>1, <2>2, AccountedStays
<1>4. CASE Offer(j) BY <1>4, OfferAccounted
<1>5. CASE Mark(j)
  <2>1. /\ worker'[j].left = worker[j].left /\ worker'[j].msgs = worker[j].msgs
        /\ worker'[j].pruned = worker[j].pruned
        /\ \/ worker[j].pc = "mark" /\ worker'[j].pc = "write"
           \/ worker[j].pc = "drain" /\ worker'[j].pc = "rewrite"
        /\ UNCHANGED <<version, tries, deferred, assigned>>
    BY <1>5, MarkForm
  <2>2. worker[j].pc \in Attending /\ \A m \in Waiting(j) : m \in Waiting(j)'
    BY <2>1 DEF Attending, Waiting, Gathering, Draining
  <2>3. QED BY <2>1, <2>2, OnAccounted
<1>6. CASE Write(j) BY <1>6, WriteAccounted
<1>7. CASE Take(j)
  <2>1. /\ worker[j].pc = "offer" /\ worker'[j].pc = "clear" /\ worker'[j].msgs = deferred
        /\ worker'[j].left = worker[j].left /\ worker'[j].pruned = worker[j].pruned
        /\ UNCHANGED <<version, tries, deferred, assigned>>
    BY <1>7, TakeForm
  <2>2. worker[j].msgs = {} BY <2>1 DEF Shaped, Draining
  <2>3. worker[j].pc \in Attending /\ \A m \in Waiting(j) : m \in Waiting(j)'
    BY <2>1, <2>2 DEF Attending, Waiting, Gathering, Draining
  <2>4. QED BY <2>1, <2>3, OnAccounted
<1>8. CASE Clear(j)
  <2>1. /\ worker[j].pc = "clear" /\ worker'[j].pc = "drain"
        /\ worker'[j].left = worker[j].left /\ worker'[j].msgs = worker[j].msgs
        /\ worker'[j].pruned = worker[j].pruned
        /\ UNCHANGED <<version, tries, assigned>>
    BY <1>8, ClearForm
  <2>2. worker[j].pc \in Attending /\ \A m \in Waiting(j) : m \in Waiting(j)'
    BY <2>1 DEF Attending, Waiting, Gathering, Draining
  <2>3. QED BY <2>1, <2>2, OnAccounted
<1>9. CASE HandOver(j)
  <2>1. /\ worker[j].pc = "drain" /\ worker'[j].pc = "call"
        /\ worker'[j].left = worker[j].left /\ worker'[j].msgs = worker[j].msgs
        /\ worker'[j].pruned = worker[j].pruned
        /\ UNCHANGED <<version, tries, assigned>>
    BY <1>9, HandForm
  <2>2. worker[j].pc \in Attending /\ \A m \in Waiting(j) : m \in Waiting(j)'
    BY <2>1 DEF Attending, Waiting, Gathering, Draining
  <2>3. QED BY <2>1, <2>2, OnAccounted
<1>10. ASSUME NEW ok \in BOOLEAN, CallAgent(j, ok) PROVE Accounted(j)'
  <2>1. worker'[j].pc \in {"idle", "done"} BY <1>10, CallForm
  <2>2. QED BY <1>0, <2>1 DEF Attending, Gathering, Draining
<1>11. QED
  BY <1>1, <1>2, <1>3, <1>4, <1>5, <1>6, <1>7, <1>8, <1>9, <1>10 DEF DeliveryStep

LEMMA NextAccounted ==
    ASSUME Handed, [DeliveryNext]_deliveryVars, NEW k \in Receivers
    PROVE  Accounted(k)'
<1>1. /\ GatewayTyped /\ (\A j \in Receivers : Shaped(j)) /\ Deferrable /\ Serial /\ Accounted(k)
      /\ KnownSecured
  BY DEF Handed, KnownSecured, ReadSecured, Reading
<1>2. Retained BY <1>1, NextKeeps
<1>3. ASSUME NEW j \in Receivers, DeliveryStep(j) PROVE Accounted(k)'
  <2>1. CASE k = j BY <1>1, <1>2, <1>3, <2>1, OwnAccounted
  <2>2. CASE k # j BY <1>1, <1>2, <1>3, <2>2, OthersAccounted
  <2>3. QED BY <2>1, <2>2
<1>4. ASSUME NEW p \in Redone, Redo(p) PROVE Accounted(k)'
  <2>1. worker'[k].pc \in {"idle", "done"} BY <1>1, <1>4, RedoForm
  <2>2. QED BY <2>1 DEF Accounted, Gathering, Draining
<1>5. CASE Elapse
  <2>1. worker'[k].pc \in {"idle", "done"} BY <1>5 DEF Elapse
  <2>2. QED BY <2>1 DEF Accounted, Gathering, Draining
<1>6. CASE UNCHANGED deliveryVars
  <2>1. UNCHANGED <<version, tries, assigned, worker, deferred>> BY <1>6 DEF deliveryVars
  <2>2. worker[k].pc \notin Attending => Accounted(k)' BY <2>1 DEF Accounted, Attending
  <2>3. \A m \in Waiting(k) : m \in Waiting(k)' BY <2>1 DEF Waiting
  <2>4. QED BY <1>1, <1>2, <2>1, <2>2, <2>3, OnAccounted
<1>7. QED BY <1>3, <1>4, <1>5, <1>6 DEF DeliveryNext

-----------------------------------------------------------------------------
(* What an attempt is given *)

LEMMA InitHanded ==
    ASSUME DeliveryInit
    PROVE  Handed
<1>1. /\ version = [j \in Jobs |-> 1] /\ tries = [j \in Receivers |-> 0]
      /\ worker = [j \in Receivers |-> Resting]
      /\ digest = [k \in Members \X Receivers |-> {}]
      /\ hashes = {} /\ deferred = {} /\ overlapped = FALSE
      /\ assigned \in [Jobs -> Members \cup {Nobody}]
      /\ \A j \in Jobs \ Receivers : assigned[j] \in Hosts[j]
  BY DEF DeliveryInit, GatewayInit, ParentsAssigned
<1>2. \A j \in Receivers : worker[j] = Resting BY <1>1
<1>3. Resting \in Workers BY <1>1 DEF Resting, Workers, Stages
<1>4. worker \in [Receivers -> Workers] BY <1>1, <1>3
<1>5. GatewayTyped
  <2>1. \A j \in Jobs \ Receivers : assigned[j] \in Members BY <1>1, DeliveryAssumption
  <2>2. \A j \in Receivers : worker[j].pc = "idle" BY <1>2, RestingFields
  <2>3. /\ version \in [Jobs -> Nat] /\ tries \in [Receivers -> Nat]
        /\ digest \in [Members \X Receivers -> SUBSET Pieces]
    BY <1>1
  <2>4. QED BY <1>1, <1>4, <2>1, <2>2, <2>3 DEF GatewayTyped
<1>6. \A j \in Receivers :
         /\ worker[j].pc = "idle" /\ worker[j].left = {} /\ worker[j].msgs = {}
         /\ worker[j].read = {} /\ worker[j].box = {} /\ worker[j].pruned = {}
  BY <1>2, RestingFields
<1>7. \A j \in Receivers : Shaped(j) BY <1>6 DEF Shaped, Draining
<1>8. DigestSecured BY <1>1 DEF DigestSecured
<1>9. ReadSecured /\ HashesSecured /\ Deferrable
  BY <1>1, <1>6 DEF ReadSecured, HashesSecured, Deferrable
<1>10. Serial
  <2>1. \A j \in Receivers : Undisturbed(j) BY <1>6, AwayIsUndisturbed
  <2>2. QED BY <1>1, <2>1 DEF Serial
<1>11. \A j \in Receivers : Accounted(j) BY <1>6 DEF Accounted, Gathering, Draining
<1>12. QED BY <1>5, <1>7, <1>8, <1>9, <1>10, <1>11 DEF Handed

LEMMA NextHanded ==
    ASSUME Handed, [DeliveryNext]_deliveryVars
    PROVE  Handed'
<1>1. /\ GatewayTyped /\ (\A j \in Receivers : Shaped(j)) /\ Deferrable /\ Serial /\ KnownSecured
  BY DEF Handed, KnownSecured, ReadSecured, Reading
<1>2. GatewayTyped' BY <1>1, NextTyped
<1>3. \A k \in Receivers : Shaped(k)' BY <1>1, NextShaped
<1>4. Deferrable' BY <1>1, NextDeferrable
<1>5. KnownSecured' BY <1>1, NextKnown
<1>6. Serial' BY <1>1, NextSerial
<1>7. \A k \in Receivers : Accounted(k)' BY NextAccounted
<1>8. DigestSecured' /\ ReadSecured' /\ HashesSecured'
  BY <1>5 DEF KnownSecured, ReadSecured, Reading
<1>9. QED BY <1>2, <1>3, <1>4, <1>6, <1>7, <1>8 DEF Handed

(* At the call, what is accounted for has been handed over. *)
LEMMA CalledWasGiven ==
    ASSUME NEW j \in Receivers, Shaped(j), worker[j].pc = "call", NEW i, Held(j, i)
    PROVE  Given(j, i)
<1>1. Waiting(j) = {} BY DEF Shaped, Waiting, Gathering, Draining
<1>2. Secured(assigned[j], j, i) BY <1>1 DEF Held
<1>3. ASSUME NEW m \in worker[j].box, m.to = assigned[j], m.task = j, i \in m.items
      PROVE  Given(j, i)
  <2>1. Items(m) \subseteq given BY <1>3 DEF Shaped
  <2>2. <<assigned[j], j, i>> \in Items(m) BY <1>3 DEF Items
  <2>3. QED BY <2>1, <2>2 DEF Given
<1>4. QED BY <1>2, <1>3 DEF Secured, Given

LEMMA CalledIsTold ==
    ASSUME Handed, NEW j \in Receivers, worker[j].pc = "call", NEW p \in Parents[j],
           assigned[p] # assigned[j], NEW i \in Content(p, j), Tracked(i)
    PROVE  \/ p \in worker[j].pruned
           \/ Given(j, i)
           \/ i = Summary(p) /\ Superseded(p, j)
<1>1. Shaped(j) /\ Accounted(j) BY DEF Handed
<1>2. worker[j].left = {} BY <1>1 DEF Shaped
<1>3. Reaching(p, j, i) BY <1>1 DEF Accounted, Reaching
<1>4. CASE Held(j, i) BY <1>1, <1>4, CalledWasGiven
<1>5. ASSUME i = Summary(p), NEW s \in Rivals(p, j), Held(j, s)
      PROVE  i = Summary(p) /\ Superseded(p, j)
  <2>1. PICK q \in Parents[j] \ {p} : assigned[q] = assigned[p] /\ s = Summary(q)
    BY <1>5 DEF Rivals
  <2>2. Given(j, s) BY <1>1, <1>5, CalledWasGiven
  <2>3. QED BY <1>5, <2>1, <2>2 DEF Superseded
<1>6. QED BY <1>2, <1>3, <1>4, <1>5 DEF Reaching

(* MessageTopologyService.prepare_context: whatever the threads of a round   *)
(* do to each other's topology, queue, hashes and digest, an agent is not    *)
(* called before it was given the current evidence of every parent, unless   *)
(* two threads overlapped and a rebuild pruned the edge.                     *)
THEOREM EvidenceReaches == DeliverySpec => []CriticalReaches
<1>1. DeliveryInit => Handed BY InitHanded
<1>2. Handed /\ [DeliveryNext]_deliveryVars => Handed' BY NextHanded
<1>3. ASSUME Handed PROVE CriticalReaches
  <2>1. SUFFICES ASSUME NEW j \in Receivers, worker[j].pc = "call",
                        NEW p \in Parents[j] \cap Proven, assigned[p] # assigned[j]
                 PROVE  Given(j, Proof(p)) \/ (p \in worker[j].pruned /\ overlapped)
    BY DEF CriticalReaches
  <2>2. Proof(p) \in Content(p, j) /\ Tracked(Proof(p)) /\ Proof(p) # Summary(p)
    BY DEF Content, Proof, Summary, Tracked
  <2>3. Given(j, Proof(p)) \/ p \in worker[j].pruned BY <1>3, <2>1, <2>2, CalledIsTold
  <2>4. ~overlapped => worker[j].pruned = {} BY <1>3 DEF Handed, Serial, Undisturbed
  <2>5. QED BY <2>3, <2>4
<1>4. QED BY <1>1, <1>2, <1>3, PTL DEF DeliverySpec

(* MessageTopologyService.prepare_context, while one thread prepares at a     *)
(* time and the queue has a place per parent: everything a parent's result    *)
(* says is given to the attempt before its agent is called, but for the      *)
(* summary that another one of the same agent supersedes, and nothing that   *)
(* is meant for another attempt.                                            *)
THEOREM NothingHeldBack ==
    ASSUME Roomy
    PROVE  DeliverySpec => []SerialHandoff
<1>1. DeliveryInit => Handed BY InitHanded
<1>2. Handed /\ [DeliveryNext]_deliveryVars => Handed' BY NextHanded
<1>3. ASSUME Handed PROVE SerialHandoff
  <2>1. SUFFICES ASSUME NEW j \in Receivers, worker[j].pc = "call", ~overlapped
                 PROVE  /\ \A p \in Parents[j] : assigned[p] # assigned[j] =>
                              \A i \in Content(p, j) :
                                 Given(j, i) \/ (i = Summary(p) /\ Superseded(p, j))
                        /\ \A m \in worker[j].box : m.to = assigned[j] /\ m.task = j
    BY DEF SerialHandoff
  <2>2. Undisturbed(j) BY <1>3, <2>1 DEF Handed, Serial
  <2>3. \A i : Tracked(i) BY <2>1 DEF Tracked
  <2>4. worker[j].pruned = {} /\ \A m \in worker[j].box : m.to = assigned[j] /\ m.task = j
    BY <2>2 DEF Undisturbed, ForIt
  <2>5. ASSUME NEW p \in Parents[j], assigned[p] # assigned[j], NEW i \in Content(p, j)
        PROVE  Given(j, i) \/ (i = Summary(p) /\ Superseded(p, j))
    BY <1>3, <2>1, <2>3, <2>4, <2>5, CalledIsTold
  <2>6. QED BY <2>4, <2>5
<1>4. QED BY <1>1, <1>2, <1>3, PTL DEF DeliverySpec
=============================================================================

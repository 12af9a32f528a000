------------------------------ MODULE Topology ------------------------------
(***************************************************************************)
(* The communication graph of a run (message_topology/): directed edges     *)
(* between agents, each for some tasks, rebuilt around what has changed     *)
(* while agents come and go and tasks are assigned again.  Time is only the *)
(* end of an edge's minimum hold.                                           *)
(***************************************************************************)
EXTENDS Naturals, FiniteSets

CONSTANTS
    Members,    \* the agents
    Jobs,       \* the tasks
    Parents,    \* task_dependencies: the direct parents of a task
    HighRisk,   \* tasks of priority high_risk_priority or more
    Standbys,   \* standby_assignments
    Demands,    \* the <<sender, receiver, task>> of possible intents
    Score,      \* the rank of a pair of agents (EdgeScorer)
    Threshold,  \* edge_score_threshold, as a rank
    TopK,       \* top_k
    MaxChanges  \* bound of the model: assignments, arrivals, departures, demands

Nobody == "nobody"

ASSUME TopologyAssumption ==
    /\ Parents \in [Jobs -> SUBSET Jobs] /\ IsFiniteSet(Members)
    /\ HighRisk \subseteq Jobs
    /\ Standbys \in [Jobs -> SUBSET Members]
    /\ Demands \subseteq Members \X Members \X Jobs
    /\ \A d \in Demands : d[1] # d[2]
    /\ Score \in [Members \X Members -> Nat]
    /\ Nobody \notin Members
    /\ {Threshold, TopK, MaxChanges} \subseteq Nat

VARIABLES
    edges,     \* the active edges
    assigned,  \* the agent of every task
    online,    \* the agents the registry has online
    intents,   \* the registered communication intents
    rebuilt,   \* the tasks the last step, a rebuild, was for
    changes

topologyVars == <<edges, assigned, online, intents, rebuilt, changes>>

Edge(s, t, tasks, required, risk) ==
    [source |-> s, target |-> t, tasks |-> tasks, required |-> required, risk |-> risk]

KeyOfEdge(e) == <<e.source, e.target>>

Ends(e) == {e.source, e.target}

-----------------------------------------------------------------------------
(* Candidates *)

Assignee(asg, j) == IF asg[j] = Nobody THEN {} ELSE {asg[j]}

DependencyCandidates(asg) ==
    {Edge(asg[d[1]], asg[d[2]], {d[1], d[2]}, TRUE, d[2] \in HighRisk) :
        d \in {x \in Jobs \X Jobs : /\ x[1] \in Parents[x[2]]
                                    /\ Nobody \notin {asg[x[1]], asg[x[2]]}
                                    /\ asg[x[1]] # asg[x[2]]}}

StandbyCandidates(asg) ==
    {Edge(asg[d[1]], d[3], {d[1], d[2]}, TRUE, TRUE) :
        d \in {x \in Jobs \X HighRisk \X Members :
                  /\ x[1] \in Parents[x[2]] /\ asg[x[1]] # Nobody
                  /\ x[3] \in Standbys[x[2]] \ {asg[x[1]], asg[x[2]]}}}

DemandCandidates ==
    {Edge(d[1], d[2], {d[3]}, d[3] \in HighRisk, d[3] \in HighRisk) : d \in intents}

Offered(asg, on) ==
    {c \in DependencyCandidates(asg) \cup StandbyCandidates(asg) \cup DemandCandidates :
        Ends(c) \subseteq on}

(* Variant: the first candidate of a pair hides the others. *)
FirstOfPair(cs) ==
    {CHOOSE c \in cs : KeyOfEdge(c) = k : k \in {KeyOfEdge(c) : c \in cs}}

(* Variant: the candidates of a pair stay apart. *)
PairsApart(cs) == cs

(* protect, first half: one candidate for a pair of agents.                 *)
Merged(cs) ==
    {LET same == {c \in cs : KeyOfEdge(c) = k}
     IN  Edge(k[1], k[2], UNION {c.tasks : c \in same},
              \E c \in same : c.required, \E c \in same : c.risk) :
        k \in {KeyOfEdge(c) : c \in cs}}

(* _alternate_path: breadth first around e.  The paths of up to n hops reach  *)
(* an agent each.                                                           *)
AlternatePath(e, cs) ==
    LET paths[n \in Nat] ==
            IF n = 0 THEN {[at |-> e.source, path |-> {}]}
            ELSE LET known == paths[n - 1]
                     seen == {p.at : p \in known}
                     next == {[at |-> s[2].target, path |-> s[1].path \cup {s[2]}] :
                                 s \in {x \in known \X cs :
                                           /\ KeyOfEdge(x[2]) # KeyOfEdge(e)
                                           /\ x[2].source = x[1].at
                                           /\ x[2].target \notin seen}}
                 IN  known \cup {CHOOSE p \in next : p.at = a : a \in {p.at : p \in next}}
    IN  UNION {p.path : p \in {q \in paths[Cardinality(Members)] : q.at = e.target}}

(* protect, second half: the way around a high-risk edge is required too; it *)
(* carries the tasks of the last such edge it stands in for.                *)
Protected(cs) ==
    LET by == Merged(cs)
        ways == {<<e, AlternatePath(e, by)>> : e \in {x \in by : x.required /\ x.risk}}
        backups == UNION {w[2] : w \in ways}
    IN  (by \ backups) \cup
        {LET w == CHOOSE w \in ways : c \in w[2]
         IN  Edge(c.source, c.target, c.tasks \cup w[1].tasks, TRUE, TRUE) : c \in backups}

-----------------------------------------------------------------------------
(* Selection *)

Rank(c) == Score[KeyOfEdge(c)]

(* _select_edges: the required ones, and of every agent the best others.    *)
Selected(cs) ==
    LET optional == {c \in cs : ~c.required /\ Rank(c) >= Threshold}
    IN  {c \in cs : c.required} \cup
        {c \in optional :
            Cardinality({d \in optional : d.source = c.source /\ Rank(d) > Rank(c)}) < TopK}

(* weak_components: the least set around a that no edge leads out of. *)
Component(es, a) ==
    {b \in Members : \A s \in SUBSET Members :
        a \in s /\ (\A e \in es : Ends(e) \cap s # {} => Ends(e) \subseteq s) => b \in s}

Covered(es) == UNION {Ends(e) : e \in es}

OneComponent(es) == \A e \in es : Component(es, e.source) = Covered(es)

Bridges(es, cs) ==
    {c \in cs : /\ \A e \in es : KeyOfEdge(e) # KeyOfEdge(c)
                /\ Ends(c) \cap Covered(es) # {}
                /\ c.target \notin Component(es, c.source)}

(* The best bridge, unless one component is left. *)
NextBridge(es, cs) ==
    LET bridges == Bridges(es, cs)
        best == CHOOSE b \in bridges : \A c \in bridges : Rank(c) <= Rank(b)
    IN  IF OneComponent(es) \/ bridges = {} THEN {} ELSE {[best EXCEPT !.required = TRUE]}

(* repair: what is selected, and bridges until one component is left or no   *)
(* bridge.  Every bridge joins an agent to the rest.                        *)
Repaired(es, cs) ==
    LET added[n \in Nat] ==
            IF n = 0 THEN {}
            ELSE LET before == added[n - 1] IN before \cup NextBridge(es \cup before, cs)
    IN  es \cup added[Cardinality(Members)]

-----------------------------------------------------------------------------
(* rebuild *)

Touches(e, agents, tasks) == Ends(e) \cap agents # {} \/ e.tasks \cap tasks # {}

(* _scope: what has changed and one hop around it; everything, when there    *)
(* is no edge yet.                                                          *)
Scope(cs, changedAgents, changedTasks) ==
    LET hop == IF edges = {} THEN cs
               ELSE {e \in edges \cup cs : Touches(e, changedAgents, changedTasks)}
    IN  [agents |-> changedAgents \cup Covered(hop),
         tasks  |-> changedTasks \cup UNION {e.tasks : e \in hop}]

Activated(c) ==
    [source |-> c.source, target |-> c.target, tasks |-> c.tasks,
     required |-> c.required, risk |-> c.risk, held |-> TRUE]

(* Unwanted edges of the region go when their hold is over. *)
Goes(e, on) == ~e.held \/ ~(Ends(e) \subseteq on)

(* The edges after a rebuild that saw the assignments asg: an edge with an   *)
(* offline end is gone, the wanted edges of the region are (again) active,   *)
(* with the tasks they are wanted for now, the rest is as before.            *)
Rebuilt(asg, on, changedAgents, changedTasks) ==
    LET cs == Protected(Offered(asg, on))
        wanted == Repaired(Selected(cs), cs)
        region == Scope(cs, changedAgents, changedTasks)
        inRegion(e) == edges = {} \/ Touches(e, region.agents, region.tasks)
        kept == {e \in edges : Ends(e) \subseteq on}
        keys == {KeyOfEdge(e) : e \in {x \in edges \cup wanted : inRegion(x)}}
        \* a pair is in the region if its active or its wanted edge is
        new == {c \in wanted : KeyOfEdge(c) \in keys}
    IN  {Activated(c) : c \in new} \cup
        {e \in kept : /\ \A c \in new : KeyOfEdge(c) # KeyOfEdge(e)
                      /\ KeyOfEdge(e) \in keys => ~Goes(e, on)}

Rebuild(changedAgents, changedTasks) ==
    /\ edges' = Rebuilt(assigned, online, changedAgents, changedTasks)
    /\ rebuilt' = changedTasks
    /\ UNCHANGED <<assigned, online, intents, changes>>

-----------------------------------------------------------------------------
(* What happens around it *)

TopologyInit ==
    /\ edges = {} /\ intents = {}
    /\ assigned = [j \in Jobs |-> Nobody]
    /\ online = Members
    /\ rebuilt = {} /\ changes = 0

Change ==
    /\ changes < MaxChanges /\ changes' = changes + 1
    /\ rebuilt' = {}

(* The scheduler assigns, or a recovery clears, a task's agent. *)
Reassign(j, a) ==
    /\ Change /\ a # assigned[j]
    /\ assigned' = [assigned EXCEPT ![j] = a]
    /\ UNCHANGED <<edges, online, intents>>

Flip(a) ==
    /\ Change
    /\ online' = IF a \in online THEN online \ {a} ELSE online \cup {a}
    /\ UNCHANGED <<edges, assigned, intents>>

(* register_communication_intent *)
Demand(d) ==
    /\ Change /\ d \notin intents
    /\ intents' = intents \cup {d}
    /\ UNCHANGED <<edges, assigned, online>>

(* Time passes: every hold is over. *)
HoldEnds ==
    /\ edges' = {[e EXCEPT !.held = FALSE] : e \in edges}
    /\ rebuilt' = {}
    /\ UNCHANGED <<assigned, online, intents, changes>>

TopologyNext ==
    \/ \E j \in Jobs : \/ \E a \in Members \cup {Nobody} : Reassign(j, a)
                       \/ Rebuild({}, {j})
    \/ \E a \in Members : Flip(a) \/ Rebuild({a}, {})
    \/ \E d \in Demands : Demand(d)
    \/ HoldEnds

TopologySpec == TopologyInit /\ [][TopologyNext]_topologyVars

-----------------------------------------------------------------------------
(* Properties *)

EdgesTypeOK ==
    /\ \A e \in edges : /\ Ends(e) \subseteq Members /\ e.source # e.target
                        /\ e.tasks \subseteq Jobs /\ e.held \in BOOLEAN
                        /\ \A f \in edges : KeyOfEdge(e) = KeyOfEdge(f) => e = f
    /\ online \subseteq Members
    /\ intents \subseteq Demands

(* "Required edges are never removed only because Top-K is full": after a     *)
(* rebuild for a task, whatever else competes for the edges of its agents,   *)
(* an edge carries it from the agent of every parent.                        *)
DependencyCarried ==
    \A j \in rebuilt : \A p \in Parents[j] :
       LET a == assigned[p]  b == assigned[j]
       IN  {a, b} \subseteq online /\ a # b =>
              \E e \in edges : KeyOfEdge(e) = <<a, b>> /\ {p, j} \subseteq e.tasks

=============================================================================

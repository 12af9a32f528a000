----------------------------- MODULE MCServices -----------------------------
(***************************************************************************)
(* One small instance of each of the services around the orchestrator.      *)
(* They meet only through it, so an initial state chooses the part that      *)
(* moves and the others rest: the run explores the sum of their behaviours, *)
(* not the product.  Delivery moves with the topology it is built on.       *)
(***************************************************************************)
EXTENDS ToolRuntime, AgentRpc, Memory, Delivery, Control, Planner, Dashboard, EventLog,
        Settings, GoalSpec, Authenticity, TLC

CONSTANT Parts   \* the parts this run explores

VARIABLE part

servicesVars == <<part, toolVars, rpcVars, memoryVars, topologyVars, deliveryVars,
                  controlVars, plannerVars, dashboardVars, eventLogVars, settingsVars,
                  goalVars, authVars>>

(* Only the part that moves starts where its specification says; Delivery    *)
(* starts from assigned parents without a topology.                          *)
ServicesInit ==
    /\ part \in Parts
    /\ ToolInit /\ RpcInit /\ MemoryInit
    /\ IF part = "delivery"
       THEN /\ ParentsAssigned /\ edges = {}
            /\ online = Members /\ intents = {} /\ rebuilt = {} /\ changes = 0
       ELSE TopologyInit
    /\ GatewayInit
    /\ ControlInit /\ PlannerInit /\ DashboardInit /\ EventLogInit
    /\ IF part = "settings" THEN SettingsInit ELSE SettingsRest
    /\ IF part = "goalspec" THEN GoalSpecInit ELSE GoalSpecRest
    /\ IF part = "authenticity" THEN AuthenticityInit ELSE AuthenticityRest

(* Delivery shares the edges and the assignments with the topology. *)
GatewayVars == <<version, tries, worker, digest, hashes, deferred, given, received,
                 overlapped>>
AmbientVars == <<online, intents, rebuilt, changes>>

OnlyMoves(p) ==
    /\ part = p /\ part' = p
    /\ p # "tools" => UNCHANGED toolVars
    /\ p # "rpc" => UNCHANGED rpcVars
    /\ p # "memory" => UNCHANGED memoryVars
    /\ p \notin {"topology", "delivery"} => UNCHANGED topologyVars
    /\ p = "delivery" => UNCHANGED AmbientVars
    /\ p # "delivery" => UNCHANGED GatewayVars
    /\ p # "control" => UNCHANGED controlVars
    /\ p # "planner" => UNCHANGED plannerVars
    /\ p # "dashboard" => UNCHANGED dashboardVars
    /\ p # "log" => UNCHANGED eventLogVars
    /\ p # "settings" => UNCHANGED settingsVars
    /\ p # "goalspec" => UNCHANGED goalVars
    /\ p # "authenticity" => UNCHANGED authVars

Tools_     == OnlyMoves("tools") /\ ToolNext
Rpc_       == OnlyMoves("rpc") /\ RpcNext
Memory_    == OnlyMoves("memory") /\ MemoryNext
Topology_  == OnlyMoves("topology") /\ TopologyNext
Delivery_  == OnlyMoves("delivery") /\ DeliveryNext
Control_   == OnlyMoves("control") /\ ControlNext
Planner_   == OnlyMoves("planner") /\ PlannerNext
Dashboard_ == OnlyMoves("dashboard") /\ DashboardNext
Log_       == OnlyMoves("log") /\ EventLogNext
Settings_  == OnlyMoves("settings") /\ SettingsNext
GoalSpec_  == OnlyMoves("goalspec") /\ GoalSpecNext
Authentic_ == OnlyMoves("authenticity") /\ AuthenticityNext

ServicesNext ==
    \/ Tools_ \/ Rpc_ \/ Memory_ \/ Topology_ \/ Delivery_ \/ Control_
    \/ Planner_ \/ Dashboard_ \/ Log_ \/ Settings_ \/ GoalSpec_ \/ Authentic_

ServicesSpec == ServicesInit /\ [][ServicesNext]_servicesVars

-----------------------------------------------------------------------------

(* Every variable of the service that moves holds a value of its type. *)
ServicesTypeOK ==
    /\ part = "tools" => ToolTypeOK
    /\ part = "memory" => MemoryTypeOK
    /\ part = "topology" => EdgesTypeOK
    /\ part = "delivery" => EdgesTypeOK /\ DeliveryTypeOK
    /\ part = "control" => ControlTypeOK
    /\ part = "planner" => PlannerTypeOK
    /\ part = "dashboard" => DashboardTypeOK
    /\ part = "log" => EventLogTypeOK
    /\ part = "settings" => SettingsTypeOK
    /\ part = "goalspec" => GoalSpecTypeOK
    /\ part = "authenticity" => AuthenticityTypeOK

-----------------------------------------------------------------------------
(* Tools: a planner agent with its own keys, a remote agent that reuses one. *)

MCAssignedTool == [w \in Work |-> "task"]
MCAgent == ("local" :> "planner") @@ ("far" :> "remote")
MCMenu == ("local" :> {"write_file", "build"}) @@ ("far" :> {})
AStep(t) == [tool |-> t, sound |-> TRUE, own |-> FALSE]
MCRefusals == {[tool |-> "build", class |-> "SAFE_STOP"], [tool |-> "shell", class |-> "RETRYABLE"]}
MCAnswers == ("local" :> {<<AStep("shell"), AStep("build")>>})
             @@ ("far" :> {<<AStep("shell")>>, <<AStep("write_file")>>})
MCOwnKey == ("local" :> {}) @@ ("far" :> {"k"})
MCConditions == ("local" :> {"rule", "artifact"}) @@ ("far" :> {"semantic"})

(* Memory: the goal and a constraint, written for the run; a success, what   *)
(* was concluded from it and what was made of that; the query of t2 resembles*)
(* one record more than the vector index offers when all are in it.          *)

MCOwner == ("goal" :> "goal") @@ ("rule" :> "goal") @@ ("root" :> "t1") @@ ("mid" :> "t2")
           @@ ("leaf" :> "t2")
MCKind == ("goal" :> "goal") @@ ("rule" :> "constraint") @@ ("root" :> "success")
          @@ ("mid" :> "kept") @@ ("leaf" :> "procedure")
MCCites == [r \in Records |-> IF r = "root" THEN {"e1"} ELSE {}]
MCDependsOn == [r \in Records |-> CASE r = "mid" -> {"root"} [] r = "leaf" -> {"mid"}
                                    [] OTHER -> {}]
MCUpstream == "t2" :> {"t1"}
MCSimilar == "t2" :> {"goal", "rule", "leaf"}

(* Topology and delivery: p before q, x under both, y under p. *)

MCParents == ("p" :> {}) @@ ("q" :> {"p"}) @@ ("r" :> {}) @@ ("x" :> {"q"})
             @@ ("y" :> {"p", "r"})
MCStandbys == [j \in Jobs |-> IF j = "q" THEN {"c"} ELSE {}]
MCDemands == {<<"b", "c", "x">>, <<"c", "a", "p">>}
MCScore == [k \in Members \X Members |-> CASE k[2] = "a" -> 1 [] k[2] = "b" -> 2 [] OTHER -> 3]
MCHosts == ("p" :> {"a"}) @@ ("q" :> {"b"}) @@ ("r" :> {"a", "b"}) @@ ("x" :> {"c"})
           @@ ("y" :> {"c"})
MCTries == ("x" :> 2) @@ ("y" :> 1)

(* Control: a task and a scenario, one changed requirement. *)

MCKindOf == ("j1" :> "task") @@ ("j2" :> "scenario")
MCFaultOf == "r1" :> "requirement_change"

(* Planner: a goal, one without a sub-goal, with the other one changed and   *)
(* the condition bound to it, one with conditions only.                      *)

Goal == [main |-> "m", policy |-> "p", subgoals |-> {"a", "b"}, conditions |-> {"d"},
         refs |-> [i \in Declared |-> {}], detail |-> [i \in Declared |-> "x"]]
MCGoalSpecs ==
    {Goal, [Goal EXCEPT !.subgoals = {"b"}, !.refs["d"] = {"b"}, !.detail["b"] = "y"],
     [Goal EXCEPT !.subgoals = {}]}
(* Settings: two requests race for one provider beside one for another, a    *)
(* run and another child are started; an endpoint is saved, deleted and used.*)

On(s, i, k) == [store |-> s, row |-> i, kind |-> k]
MCTable ==
    ("s1" :> On("providers", "openai", "save")) @@ ("s2" :> On("providers", "deepseek", "save"))
    @@ ("s3" :> On("providers", "openai", "clear")) @@ ("s4" :> On("providers", "openai", "run"))
    @@ ("s5" :> On("providers", "openai", "child"))
    @@ ("e1" :> On("endpoints", "n", "save")) @@ ("e2" :> On("endpoints", "n", "delete"))
    @@ ("e3" :> On("endpoints", "n", "child")) @@ ("a1" :> On("agents", "m", "save"))
    @@ ("a2" :> On("agents", "w", "save")) @@ ("a3" :> On("agents", "m", "delete"))
MCRequests == DOMAIN MCTable
MCStoreOf == [r \in MCRequests |-> MCTable[r].store]
MCRowOf == [r \in MCRequests |-> MCTable[r].row]
MCKindOfRequest == [r \in MCRequests |-> MCTable[r].kind]
MCRows == ("providers" :> {"deepseek", "openai", "ollama"}) @@ ("agents" :> {"m", "w"})
          @@ ("endpoints" :> {"n"})

(* GoalSpec: an opening alone and one with a condition, one sentence of each *)
(* kind; a model's answers with every flaw and with unknown check types.     *)

MCAfterLead == ("list" :> "no text") @@ ("list: x" :> "x")
MCSentences == {"list", "list: x", "x", "must", "ban", "wish"}
MCInferred == [s \in MCSentences |-> IF s = "must" THEN "unit_test" ELSE "content_check"]
Drafted(h, s, a, b) ==
    [object |-> TRUE, main |-> "none", hard |-> {h}, soft |-> s, acceptance |-> a,
     prohibitions |-> b]
MCModelDrafts ==
    {[object |-> FALSE],
     Drafted(Item("x", "no check", "none"), {}, {Item("must", "other", "none")}, {}),
     Drafted(Item("x", "other", "none"), {}, {}, {}),
     Drafted(Item("x", "no check", "none"), {Item("wish", "no check", "not a number")}, {}, {}),
     Drafted(Item("x", "no check", "none"), {}, {Item("no text", "other", "wrong type")},
            {Item("ban", "no check", "wrong type")})}

(* Authenticity: a report, with or without a configured writer, after its    *)
(* baseline.                                                                *)

MCTemplateSkills == "writer" :> {"report"}
MCRoleAgents == "report" :> {"report-01"}
MCSkillOf == ("base" :> "baseline skill") @@ ("rep" :> "report")
An(k, e) == [kind |-> k, endpoint |-> e]
MCReplacements ==
    ("baseline" :> {An("reasoning", "official")})
    @@ ("standby" :> {An("mock", "none"), An("reasoning", "official")})
    @@ ("writer" :> {An("fallback", "official")})
    @@ ("report-01" :> {An("reasoning", "elsewhere")})
=============================================================================

---------------------------- MODULE Authenticity ----------------------------
(***************************************************************************)
(* Who really did the work of a run, and what is said about it.              *)
(*                                                                         *)
(* MosaicMainChain registers a pool of agents, which may be replaced while   *)
(* the run goes on; each kind of adapter turns an assignment into tool       *)
(* calls, some of them signed with the provenance of an API request; the     *)
(* orchestrator executes them and logs TOOL_EXECUTED.  From the assignments, *)
(* the registry and that log alone, observability/projections.py says how    *)
(* authentic the run is, and scripts/verify_deepseek_run.py accepts it.      *)
(*                                                                         *)
(* Of an adapter the module keeps its kind and where its requests go.        *)
(***************************************************************************)
EXTENDS Naturals, Sequences, FiniteSets

CONSTANTS
    Needed,            \* required_skills of the run
    BaselineSkill,     \* "requirement_baseline"
    Templates,         \* agents configured in the Agent Studio
    TemplateSkills,    \* skills of a template
    RoleAgents,        \* ids of the instances made for a skill without template
    Endpoints,         \* where the environment may send DeepSeek requests
    Replacements,      \* adapters an agent may be registered with again, by agent
    Chores,            \* the tasks of the run
    SkillOf,           \* skill a task requires
    Restricted,      \* tasks whose privacy level is restricted or secret
    Reasoned,          \* tasks of delivery kind "reasoning", without a tool menu
    HttpRetries,       \* max_retries of the client
    MaxPlanned,        \* MAX_STEPS of a tool plan
    MaxAttempts,       \* bound of the model: attempts in the run
    MaxRegistrations   \* bound of the model: agents registered again

ProviderKinds == {"reasoning", "planner", "llm", "fallback"}
LocalKinds == {"local", "spec"}

Adapters == [kind : ProviderKinds,
             endpoint : {"official", "elsewhere", "other provider", "injected", "none"}]
            \cup [kind : LocalKinds \cup {"remote", "mock"}, endpoint : {"none"}]

ASSUME AuthenticityAssumption ==
    /\ BaselineSkill \in Needed
    /\ TemplateSkills \in [Templates -> SUBSET Needed \ {{}}]
    /\ DOMAIN RoleAgents = Needed \ {BaselineSkill}
    /\ "nobody" \notin Templates /\ \A s \in DOMAIN RoleAgents : "nobody" \notin RoleAgents[s]
    /\ Endpoints \subseteq {"official", "elsewhere", "other provider"}
    /\ \A a \in DOMAIN Replacements : Replacements[a] \subseteq Adapters
    /\ IsFiniteSet(Chores) /\ SkillOf \in [Chores -> Needed]
    /\ Restricted \cup Reasoned \subseteq Chores
    /\ {HttpRetries, MaxPlanned, MaxAttempts, MaxRegistrations} \subseteq Nat

VARIABLES
    bound,          \* the adapter of every registered agent, which is also what
                    \* the metadata of its profile tells
    reserved,       \* agents with only_privacy_levels
    chore,          \* state, agent and attempt of every task
    planned,        \* the worker of every task: the adapter it looked up, HTTP
                    \* tries, calls still to execute, all of them successful so far
    executed,       \* the TOOL_EXECUTED events
    registrations   \* agents registered again so far

authVars == <<bound, reserved, chore, planned, executed, registrations>>

-----------------------------------------------------------------------------
(* The pool *)

SkillsCovered(rows) == UNION {TemplateSkills[r] : r \in rows}
Instances(rows) == UNION {RoleAgents[s] : s \in Needed \ (SkillsCovered(rows) \cup {BaselineSkill})}
OnDevice == {"baseline", "private"}
Pool(rows) == rows \cup Instances(rows) \cup {"standby"} \cup OnDevice

OnDeviceAdapter == [kind |-> "local", endpoint |-> "none"]
PoolAdapter(a, e) ==
    IF a \in OnDevice THEN OnDeviceAdapter
    ELSE [kind |-> IF a \in Templates THEN "reasoning" ELSE "planner", endpoint |-> e]

Masters(a) ==
    IF a \in Templates THEN TemplateSkills[a]
    ELSE IF a \in {"standby", "private"} THEN Needed
    ELSE {s \in Needed : IF a = "baseline" THEN s = BaselineSkill
                         ELSE s # BaselineSkill /\ a \in RoleAgents[s]}

(* hard_filter, as far as it looks at skills and privacy. *)
Eligible(c) == {a \in DOMAIN bound : /\ SkillOf[c] \in Masters(a)
                                     /\ a \in reserved => c \in Restricted}

NoActor == "nobody"
Unplanned == [by |-> OnDeviceAdapter, tries |-> 0, calls |-> <<>>, sound |-> TRUE]

AuthenticityInit ==
    /\ \E rows \in SUBSET Templates, e \in Endpoints :
          bound = [a \in Pool(rows) |-> PoolAdapter(a, e)]
    /\ reserved = {"private"}
    /\ chore = [c \in Chores |-> [state |-> "ready", actor |-> NoActor, attempt |-> 0]]
    /\ planned = [c \in Chores |-> Unplanned]
    /\ executed = {} /\ registrations = 0

(* The part of a run that has not begun. *)
AuthenticityRest ==
    /\ bound = [a \in {} |-> OnDeviceAdapter] /\ reserved = {}
    /\ chore = [c \in Chores |-> [state |-> "ready", actor |-> NoActor, attempt |-> 0]]
    /\ planned = [c \in Chores |-> Unplanned]
    /\ executed = {} /\ registrations = 0

-----------------------------------------------------------------------------
(* The calls of a plan: which adapter made a call from what, which tool it   *)
(* names ("write" is write_file with the agent's own text, "act" any other   *)
(* use of a tool), the declared intent, and whether it carries the           *)
(* api_provenance of its adapter, with or without the id of a request.       *)

ACall(d, origin, id, tool, intent, signed) ==
    [by |-> d, origin |-> origin, id |-> id, tool |-> tool, intent |-> intent,
     signed |-> signed]

(* ToolPlanningAgent.plan: only the first call carries api_provenance. *)
ToolPlan(d, id, n) ==
    [i \in 1 .. n + 1 |->
       IF i <= n THEN ACall(d, "answer", id, "act", "act", i = 1)
       ELSE ACall(d, "answer", id, "write", "persist", i = 1)]

(* What the agent makes of an answer. *)
FromAnswer(d, c, id) ==
    CASE d.kind = "reasoning" \/ (d.kind = "planner" /\ c \in Reasoned) ->
           {<<ACall(d, "answer", id, "task", "persist", TRUE)>>}
      [] d.kind = "planner" /\ c \notin Reasoned ->
           {ToolPlan(d, id, n) : n \in 0 .. MaxPlanned}
      [] OTHER -> {<<ACall(d, "answer", id, t, "undeclared", TRUE)>> :
                   t \in {"task", "write", "act"}}

(* What an agent without a provider, or _fallback_plan, makes of the task.   *)
(* The calls of a remote agent are taken to act on the environment.          *)
FromTask(d) ==
    CASE d.kind = "local" -> {<<ACall(d, "compiled", FALSE, "write", "persist", TRUE)>>}
      [] d.kind = "mock" -> {<<ACall(d, "task", FALSE, "task", "undeclared", FALSE)>>}
      [] d.kind = "remote" -> {<<ACall(d, "task", FALSE, "act", "undeclared", FALSE)>>}
      [] OTHER -> {<<ACall(d, "task", FALSE, t, "undeclared", FALSE)>> : t \in {"task", "act"}}

-----------------------------------------------------------------------------
(* The run *)

(* _recover_or_fail: another attempt by anybody, or the task has failed and  *)
(* keeps its assignment.                                                    *)
AttemptFails(c) ==
    /\ \/ chore' = [chore EXCEPT ![c].state = "ready", ![c].actor = NoActor]
       \/ chore' = [chore EXCEPT ![c].state = "failed"]
    /\ planned' = [planned EXCEPT ![c] = Unplanned]

(* add_agent with another adapter: the profile is made anew, without the     *)
(* scheduling policy it was first registered with.                           *)
RegisterAgain(a, d) ==
    /\ registrations < MaxRegistrations
    /\ bound[a] # d
    /\ bound' = [bound EXCEPT ![a] = d]
    /\ reserved' = reserved \ {a}
    /\ registrations' = registrations + 1
    /\ UNCHANGED <<chore, planned, executed>>

(* The attempts of all tasks together.                                       *)
AttemptsSoFar == Cardinality({x \in Chores \X (1 .. MaxAttempts) : x[2] <= chore[x[1]].attempt})

AssignTo(c, a) ==
    /\ chore[c].state = "ready" /\ AttemptsSoFar < MaxAttempts
    /\ chore' = [chore EXCEPT ![c] = [state |-> "assigned", actor |-> a,
                                      attempt |-> chore[c].attempt + 1]]
    /\ UNCHANGED <<bound, reserved, planned, executed, registrations>>

(* The worker looks up the adapter and keeps the object it got. *)
BeginPlan(c) ==
    /\ chore[c].state = "assigned"
    /\ chore' = [chore EXCEPT ![c].state = "planning"]
    /\ planned' = [planned EXCEPT ![c].by = bound[chore[c].actor]]
    /\ UNCHANGED <<bound, reserved, executed, registrations>>

TakePlan(c, calls) ==
    /\ chore' = [chore EXCEPT ![c].state = "calling"]
    /\ planned' = [planned EXCEPT ![c] = [Unplanned EXCEPT !.calls = calls]]

AsksProvider(c) == planned[c].by.kind \in ProviderKinds /\ planned[c].by.endpoint # "none"

(* _create_chat_completion: a 429, a 5xx, a timeout or an invalid answer is  *)
(* tried again.                                                             *)
TryAgain(c) ==
    /\ chore[c].state = "planning" /\ AsksProvider(c)
    /\ planned[c].tries < HttpRetries
    /\ planned' = [planned EXCEPT ![c].tries = @ + 1]
    /\ UNCHANGED <<bound, reserved, chore, executed, registrations>>

(* An answer the agent can use; some providers give no request id. *)
TakeAnswer(c) ==
    /\ chore[c].state = "planning" /\ AsksProvider(c)
    /\ \E id \in BOOLEAN : \E calls \in FromAnswer(planned[c].by, c, id) : TakePlan(c, calls)
    /\ UNCHANGED <<bound, reserved, executed, registrations>>

(* No answer, or one the agent rejects: only an explicit fallback goes on.   *)
PlanRaises(c) ==
    /\ chore[c].state = "planning"
    /\ IF planned[c].by.kind = "fallback"
       THEN \E calls \in FromTask(planned[c].by) : TakePlan(c, calls)
       ELSE AttemptFails(c)
    /\ UNCHANGED <<bound, reserved, executed, registrations>>

PlanWithoutProvider(c) ==
    /\ chore[c].state = "planning"
    /\ planned[c].by.kind \notin ProviderKinds
    /\ \E calls \in FromTask(planned[c].by) : TakePlan(c, calls)
    /\ UNCHANGED <<bound, reserved, executed, registrations>>

(* A call fails or succeeds, or execute raises before the event is written.  *)
ExecuteCall(c) ==
    /\ chore[c].state = "calling" /\ planned[c].calls # <<>>
    /\ \/ \E success \in BOOLEAN :
            /\ executed' = executed \cup
                 {[chore |-> c, attempt |-> chore[c].attempt, left |-> Len(planned[c].calls),
                   actor |-> chore[c].actor, call |-> Head(planned[c].calls),
                   success |-> success]}
            /\ planned' = [planned EXCEPT ![c].calls = Tail(@), ![c].sound = @ /\ success]
            /\ UNCHANGED chore
       \/ AttemptFails(c) /\ UNCHANGED executed
    /\ UNCHANGED <<bound, reserved, registrations>>

VerifyChore(c) ==
    /\ chore[c].state = "calling" /\ planned[c].calls = <<>>
    /\ \/ /\ planned[c].sound
          /\ chore' = [chore EXCEPT ![c].state = "done"]
          /\ planned' = [planned EXCEPT ![c] = Unplanned]
       \/ AttemptFails(c)
    /\ UNCHANGED <<bound, reserved, executed, registrations>>

AuthenticityNext ==
    \/ \E a \in DOMAIN bound \cap DOMAIN Replacements :
          \E d \in Replacements[a] : RegisterAgain(a, d)
    \/ \E c \in Chores :
         \/ \E a \in Eligible(c) : AssignTo(c, a)
         \/ BeginPlan(c) \/ TryAgain(c) \/ TakeAnswer(c) \/ PlanRaises(c)
         \/ PlanWithoutProvider(c) \/ ExecuteCall(c) \/ VerifyChore(c)

AuthenticitySpec == AuthenticityInit /\ [][AuthenticityNext]_authVars

-----------------------------------------------------------------------------
(* What the registry and a signed call tell of an adapter *)

Official(d) == d.kind \in ProviderKinds /\ d.endpoint = "official"

(* authenticity_mode *)
ProviderMode(endpoint) ==
    CASE endpoint = "official" -> "real_api"
      [] endpoint = "elsewhere" -> "api_test_endpoint"
      [] endpoint = "other provider" -> "real_api_unverified_provider"
      [] endpoint = "injected" -> "test_fixture"
      [] OTHER -> "unbound"

Mode(d) ==
    CASE d.kind \in LocalKinds -> "deterministic_tool_executor"
      [] d.kind = "remote" -> "remote_rpc"
      [] d.kind = "mock" -> "mock"
      [] d.kind = "fallback" -> "api_with_explicit_fallback"
      [] OTHER -> ProviderMode(d.endpoint)

(* endpoint_host; an injected client comes with the default base URL. *)
HostOf(d) ==
    IF d.kind \notin ProviderKinds THEN ""
    ELSE IF d.endpoint \in {"official", "injected", "none"} THEN "api.deepseek.com"
    ELSE d.endpoint

-----------------------------------------------------------------------------
(* _authenticity *)

Assigned == {chore[c].actor : c \in Chores} \ {NoActor}
ModesOf(actors) == {Mode(bound[a]) : a \in actors}
OfMode(m) == {a \in Assigned : Mode(bound[a]) = m}

(* Variant: what failed is not counted. *)
SuccessfulApiCalls ==
    {e \in executed : e.call.signed /\ e.call.by.kind \in ProviderKinds /\ e.success}

(* Signed calls that asked a provider; an on-device record is not one. *)
ApiCalls == {e \in executed : e.call.signed /\ e.call.by.kind \in ProviderKinds}
AssignedCalls == {e \in ApiCalls : e.actor \in Assigned}

(* Agents with more executed than signed calls. *)
MissingApi == {a \in OfMode("real_api") : \E e \in executed \ ApiCalls : e.actor = a}

Mismatched == {e \in AssignedCalls : \/ ~Official(e.call.by)
                                     \/ HostOf(e.call.by) # HostOf(bound[e.actor])}

RealApiClean ==
    /\ OfMode("real_api") # {} /\ MissingApi = {}
    /\ ApiCalls # {}
    /\ \A e \in AssignedCalls : e.call.by.endpoint # "injected" /\ e.call.id
    /\ \A a \in OfMode("real_api") : Official(bound[a])
    /\ Mismatched = {}

(* Every agent of the main chain has an adapter, so none is unbound. *)
Verdict ==
    IF OfMode("mock") # {} THEN "MOCK_EXECUTION"
    ELSE IF OfMode("api_with_explicit_fallback") # {}
         THEN "FALLBACK_CAPABLE_NOT_COMPETITION_STRICT"
    ELSE IF OfMode("test_fixture") # {} THEN "TEST_FIXTURE_NOT_COMPETITION_STRICT"
    ELSE IF OfMode("api_test_endpoint") # {} THEN "API_TEST_ENDPOINT_NOT_COMPETITION_STRICT"
    ELSE IF ModesOf(Assigned) = {"real_api"} /\ RealApiClean THEN "REAL_API_VERIFIED"
    ELSE IF ModesOf(Assigned) = {"real_api", "deterministic_tool_executor"} /\ RealApiClean
         THEN "REAL_API_AND_LOCAL_DETERMINISTIC_VERIFIED"
    ELSE IF ModesOf(Assigned) = {"remote_rpc"} THEN "REMOTE_RPC_BOUND"
    ELSE IF ModesOf(Assigned) = {"deterministic_tool_executor"}
         THEN "DETERMINISTIC_TOOL_EXECUTOR"
    ELSE IF Assigned # {} THEN "MIXED_OR_UNCLASSIFIED" ELSE "NO_ASSIGNED_AGENT"

CompetitionStrict ==
    Verdict \in {"REAL_API_VERIFIED", "REAL_API_AND_LOCAL_DETERMINISTIC_VERIFIED"}

-----------------------------------------------------------------------------
(* _execution_semantics: a call without a declared intent persists what its  *)
(* author wrote when it is signed.                                          *)
PersistsOutput(call) ==
    call.intent = "persist" \/ (call.intent = "undeclared" /\ call.signed)

Concrete == {e \in executed : e.call.tool # "task" /\ ~PersistsOutput(e.call)}

ExecutionVerdict ==
    CASE \E e \in Concrete : e.success -> "CONCRETE_TOOL_EXECUTION_VERIFIED"
      [] executed # {} /\ Concrete = {} -> "REASONING_DELIVERABLE_ONLY"
      [] Concrete # {} /\ (\A e \in Concrete : ~e.success) ->
           "CONCRETE_TOOL_EXECUTION_FAILED_OR_UNVERIFIED"
      [] OTHER -> "NO_TOOL_EXECUTION"

-----------------------------------------------------------------------------
(* verify_deepseek_run.py, current_strict_passed; it sees the events, not    *)
(* the adapters.                                                            *)
CurrentStrictPassed ==
    /\ \A c \in Chores : chore[c].state = "done"
    /\ executed # {}
    /\ \A e \in executed :
          /\ e.call.signed /\ e.call.id
          /\ e.call.by.endpoint # "other provider"
          /\ HostOf(e.call.by) = "api.deepseek.com"
          /\ e.call.by.endpoint # "injected" /\ Official(e.call.by)
    /\ \A a \in DOMAIN bound : Mode(bound[a]) # "mock"

-----------------------------------------------------------------------------
(* Properties *)

AuthenticityTypeOK ==
    /\ \A a \in DOMAIN bound : bound[a] \in Adapters
    /\ reserved \subseteq DOMAIN bound
    /\ \A c \in Chores :
          /\ chore[c].state \in {"ready", "assigned", "planning", "calling", "done", "failed"}
          /\ chore[c].actor \in DOMAIN bound \cup {NoActor}
          /\ chore[c].attempt \in 0 .. MaxAttempts
          /\ planned[c].by \in Adapters /\ planned[c].tries \in 0 .. HttpRetries
          /\ planned[c].sound \in BOOLEAN
    /\ \A e \in executed : e.chore \in Chores /\ e.actor \in DOMAIN bound

ResultOf(c) == {e \in executed : e.chore = c /\ e.attempt = chore[c].attempt}
RealAnswer(call) == call.origin = "answer" /\ call.by.endpoint = "official" /\ call.id

(* An event that its agent, as it is registered now, could have made, from a *)
(* real answer with an id or on the device.                                 *)
Honest(e) ==
    /\ e.call.signed
    /\ \/ RealAnswer(e.call) /\ Mode(bound[e.actor]) = "real_api"
       \/ e.call.origin = "compiled" /\ Mode(bound[e.actor]) = "deterministic_tool_executor"

(* A verdict rests on what was done, although it is computed from the        *)
(* registry and the log after agents have been replaced, tasks retried by    *)
(* others, requests refused and calls failed:                                *)
(* - under a strict verdict every finished task is the work of answers of    *)
(*   the official endpoint with a request id, unless its agent is declared   *)
(*   deterministic (an agent that only was declared so afterwards included); *)
(* - a run the script accepts is such work throughout;                       *)
(* - a run with verified concrete execution has a successful call that acted *)
(*   on the environment;                                                     *)
(* - and a run of real answers, on-device work and signed calls only is      *)
(*   given a strict verdict (projections.py, verify_deepseek_run.py).        *)
VerdictsAreEarned ==
    /\ CompetitionStrict =>
         \A c \in Chores :
            chore[c].state = "done" =>
               \/ Mode(bound[chore[c].actor]) = "deterministic_tool_executor"
               \/ \A e \in ResultOf(c) : RealAnswer(e.call)
    /\ CurrentStrictPassed => \A c \in Chores : \A e \in ResultOf(c) : RealAnswer(e.call)
    /\ ExecutionVerdict = "CONCRETE_TOOL_EXECUTION_VERIFIED" =>
         \E e \in executed : e.success /\ e.call.tool = "act"
    /\ ((\A e \in executed : Honest(e))
        /\ (\E e \in executed : e.actor \in Assigned /\ RealAnswer(e.call))
        /\ ModesOf(Assigned) \subseteq {"real_api", "deterministic_tool_executor"})
         => CompetitionStrict
=============================================================================

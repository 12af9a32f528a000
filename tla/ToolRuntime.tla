---------------------------- MODULE ToolRuntime ----------------------------
(***************************************************************************)
(* How a task's attempt acts on the world: the agent plans ToolCalls        *)
(* (deepseek_agent.py, tool_planning_agent.py, mqtt_agent.py), the tool     *)
(* runtime executes them one after the other behind injected faults,        *)
(* validation and durable idempotency claims (tool_runtime.py,              *)
(* idempotency.py), and the verifier judges the combined result.  The       *)
(* process may crash between any two steps.                                 *)
(*                                                                         *)
(* What Orchestrator models in detail (rounds, releases, replans) is left   *)
(* out: a READY task may start at any time, and a failed one is retried,    *)
(* failed or paused.                                                        *)
(***************************************************************************)
EXTENDS Naturals, Sequences, SequencesExt, FiniteSets

CONSTANTS
    Work,         \* the tasks
    Tools,        \* registered tools
    Pure,         \* tools registered with side_effecting = False
    Denied,       \* tools no call of which is accepted: no permission for them
    Refusals,     \* the refusals a tool may meet, with the classes of their errors
    AssignedTool, \* assignment.tool_id: the tool the scheduler chose
    Agent,        \* the kind of the agent: "reasoner", "planner" or "remote"
    Menu,         \* TOOL_MENUS of the delivery kind
    Answers,      \* the plans the model or the remote agent may answer with
    OwnKey,       \* the idempotency key a remote agent puts on its calls
    Writer,       \* "write_file"
    Conditions,   \* kinds of the acceptance conditions of a task
    ToolErrors,   \* the classes of the errors the executor may report
    Sealed,       \* tasks whose privacy_level is restricted or secret
    MaxSteps,     \* MAX_STEPS of a plan
    ToolRetries,  \* max_task_retries
    MaxTroubles   \* bound of the model: injected faults and process crashes

AnyTool == "any"
NoClass == "NONE"
Class == {"RETRYABLE", "REPLACEABLE", "SAFE_STOP"}

(* A step of an answer: sound says that its arguments are present and stay  *)
(* in the workspace, own that its path is the deliverable of the task.      *)
Step == [tool : Tools, sound : BOOLEAN, own : BOOLEAN]

ASSUME ToolAssumption ==
    /\ Pure \subseteq Tools /\ Denied \subseteq Tools /\ Writer \in Tools \ Pure
    /\ Refusals \subseteq [tool : Tools, class : Class]
    /\ AssignedTool \in [Work -> Tools]
    /\ Agent \in [Work -> {"reasoner", "planner", "remote"}]
    /\ Menu \in [Work -> SUBSET Tools]
    /\ \A w \in Work : Answers[w] \subseteq Seq(Step)
    /\ Conditions \in [Work -> SUBSET {"rule", "artifact", "semantic"}]
    /\ Sealed \subseteq Work /\ ToolErrors \subseteq Class
    /\ {MaxSteps, ToolRetries, MaxTroubles} \subseteq Nat

VARIABLES
    attempt,  \* the stored attempt number of every task
    state,    \* the stored state of every task
    thread,   \* the worker thread of every task: program counter and locals
    claims,   \* the execution_idempotency table
    armed,    \* the injected faults not yet consumed, oldest first
    up,       \* the process runs, and resume_run has handled what it found
    ran,      \* every time the executor has run: its call, key and tool
    struck,   \* the <<fault, call>> pairs of the injected failures returned
    faults,   \* faults injected so far
    toolCrashes

toolVars == <<attempt, state, thread, claims, armed, up, ran, struck, faults,
              toolCrashes>>

Idle == [pc |-> "off", calls |-> <<>>, at |-> 1, scan |-> 1, ok |-> TRUE,
         class |-> NoClass, wrote |-> FALSE, outcome |-> NoClass]

Pcs == {"off", "plan", "inject", "pop", "claim", "effect", "finish",
        "lost", "verify"}

ToolInit ==
    /\ attempt = [w \in Work |-> 0]
    /\ state = [w \in Work |-> "READY"]
    /\ thread = [w \in Work |-> Idle]
    /\ claims = {} /\ ran = {}
    /\ armed = <<>> /\ struck = {} /\ faults = 0
    /\ up = TRUE /\ toolCrashes = 0

-----------------------------------------------------------------------------
(* Planning *)

(* _validate_step: the tool is on the menu, the arguments are usable. *)
Usable(w, s) == s.tool \in Menu[w] /\ s.sound

(* ToolPlanningAgent.plan: of the first 2 * MAX_STEPS steps the first        *)
(* MAX_STEPS usable ones survive; those that would write the deliverable are *)
(* dropped, and one write of the deliverable ends the plan.                  *)
Before(steps, i) == Cardinality({j \in steps : j < i})

Survivors(w, answer) ==
    LET usable == {i \in DOMAIN answer : i <= 2 * MaxSteps /\ Usable(w, answer[i])}
    IN  {i \in usable : Before(usable, i) < MaxSteps /\ ~(answer[i].tool = Writer /\ answer[i].own)}

PlannedCalls(w, answer) ==
    LET steps == Survivors(w, answer)
        last  == Cardinality(steps) + 1
    IN  [n \in 1 .. last |->
            IF n = last THEN Writer
            ELSE answer[CHOOSE i \in steps : Before(steps, i) = n - 1].tool]

(* DeepSeekAgent.plan makes the assigned tool's only call out of the answer, *)
(* MqttAgentAdapter.plan takes the answer of the remote agent as it is.      *)
CallsFor(w, answer) ==
    IF Agent[w] = "remote" THEN [i \in DOMAIN answer |-> answer[i].tool]
    ELSE IF Agent[w] = "planner" /\ Menu[w] # {} THEN PlannedCalls(w, answer)
    ELSE <<AssignedTool[w]>>

(* The call a thread executes, and its idempotency key: run, task, attempt   *)
(* and position, unless the remote agent has set one.                        *)
Call(w) == [task |-> w, attempt |-> attempt[w], index |-> thread[w].at]

KeyOf(c) ==
    IF Agent[c.task] = "remote" /\ OwnKey[c.task] # {}
    THEN [task |-> OwnKey[c.task], attempt |-> 0, index |-> c.index]
    ELSE [c EXCEPT !.task = {@}]

Key(w) == KeyOf(Call(w))

Tool(w) == thread[w].calls[thread[w].at]

(* What _fingerprint hashes: the task, the actor, the tool, the arguments. *)
Fingerprint(w) == <<w, Tool(w)>>

ClaimOn(k) == {c \in claims : c.key = k}

-----------------------------------------------------------------------------
(* _execute_assignment up to the plan *)

Set(w, r) == thread' = [thread EXCEPT ![w] = r]

GoTo(w, pc) == Set(w, [thread[w] EXCEPT !.pc = pc])

Begin(w) ==
    /\ up /\ state[w] = "READY"
    /\ state' = [state EXCEPT ![w] = "RUNNING"]
    /\ attempt' = [attempt EXCEPT ![w] = @ + 1]
    /\ Set(w, [Idle EXCEPT !.pc = "plan"])
    /\ UNCHANGED <<claims, armed, up, ran, struck, faults, toolCrashes>>

(* An empty plan, an unusable reply or a failed request raises. *)
Plan(w) ==
    /\ thread[w].pc = "plan"
    /\ \/ \E answer \in Answers[w] :
             LET calls == CallsFor(w, answer)
             IN  IF calls = <<>>
                 THEN Set(w, [thread[w] EXCEPT !.pc = "lost", !.class = "RETRYABLE"])
                 ELSE Set(w, [thread[w] EXCEPT !.pc = "inject", !.calls = calls])
       \/ Set(w, [thread[w] EXCEPT !.pc = "lost", !.class = "RETRYABLE"])
    /\ UNCHANGED <<attempt, state, claims, armed, up, ran, struck, faults, toolCrashes>>

-----------------------------------------------------------------------------
(* ToolRuntime.execute *)

(* The next call, or the transition to VERIFYING after the last.  _combine   *)
(* keeps: all succeeded, the first error class, a deliverable was written.   *)
Returned(w, ok, class, wrote) ==
    LET th == thread[w]
        done == th.at = Len(th.calls)
    IN  /\ Set(w, [th EXCEPT !.pc = IF done THEN "verify" ELSE "inject",
                              !.at = IF done THEN @ ELSE @ + 1, !.scan = 1,
                              !.ok = @ /\ ok,
                              !.class = IF @ = NoClass THEN class ELSE @,
                              !.wrote = @ \/ wrote])
        /\ state' = IF done THEN [state EXCEPT ![w] = "VERIFYING"] ELSE state

(* The result of the executor, now or when the key was first used.  "task"   *)
(* and "write_file" leave a deliverable.                                     *)
Reported(w, class) ==
    Returned(w, class = NoClass, class, class = NoClass /\ Tool(w) \in {"task", Writer})

Aims(fault, tool) == fault.tool \in {AnyTool, tool}

(* _validate: a call that is refused has a failed result, of the class that   *)
(* _classify_error reads from the refusal: no permission is SAFE_STOP, missing *)
(* arguments, a timeout out of range, an unknown actor or no key RETRYABLE.   *)
(* A pure tool goes to the executor without a claim.                         *)
Validate(w) ==
    \/ \E refusal \in Refusals :
          refusal.tool = Tool(w) /\ Returned(w, FALSE, refusal.class, FALSE)
    \/ /\ Tool(w) \notin Denied
       /\ GoTo(w, IF Tool(w) \in Pure THEN "effect" ELSE "claim")
       /\ UNCHANGED state

(* _consume_injected_failure walks the list of the run, which the threads    *)
(* share without a lock.  It looks at one entry; past the last the call is   *)
(* validated ...                                                             *)
Inject(w) ==
    /\ thread[w].pc = "inject"
    /\ LET i == thread[w].scan
       IN  IF i > Len(armed) THEN Validate(w)
           ELSE /\ IF Aims(armed[i], Tool(w)) THEN GoTo(w, "pop")
                   ELSE Set(w, [thread[w] EXCEPT !.scan = @ + 1])
                /\ UNCHANGED state
    /\ UNCHANGED <<attempt, claims, armed, up, ran, struck, faults, toolCrashes>>

(* Variant: the entry is taken before it leaves the list. *)
PopLater(w) ==
    /\ thread[w].pc = "pop" /\ thread[w].scan <= Len(armed)
    /\ struck' = struck \cup {<<armed[thread[w].scan].id, Call(w)>>}
    /\ Returned(w, FALSE, "RETRYABLE", FALSE)
    /\ UNCHANGED <<attempt, claims, armed, up, ran, faults, toolCrashes>>

(* ... and a matching entry's position is popped, whatever stands there by   *)
(* now; an IndexError fails the attempt.                                     *)
Pop(w) ==
    /\ thread[w].pc = "pop"
    /\ LET i == thread[w].scan
       IN  IF i > Len(armed)
           THEN /\ Set(w, [thread[w] EXCEPT !.pc = "lost", !.class = "RETRYABLE"])
                /\ UNCHANGED <<state, armed, struck>>
           ELSE /\ armed' = RemoveAt(armed, i)
                /\ struck' = struck \cup {<<armed[i].id, Call(w)>>}
                /\ Returned(w, FALSE, "RETRYABLE", FALSE)
    /\ UNCHANGED <<attempt, claims, up, ran, faults, toolCrashes>>

(* Variant: a claim that failed may be taken again. *)
ClaimAfterFailure(w) ==
    /\ thread[w].pc = "claim"
    /\ LET k == Key(w)
       IN  \/ /\ \A c \in ClaimOn(k) : c.status = "FAILED"
              /\ claims' = (claims \ ClaimOn(k)) \cup
                     {[key |-> k, print |-> Fingerprint(w), status |-> "RUNNING",
                       class |-> NoClass]}
              /\ GoTo(w, "effect") /\ UNCHANGED state
           \/ /\ \E c \in ClaimOn(k) : c.status # "FAILED"
              /\ Returned(w, FALSE, "SAFE_STOP", FALSE)
              /\ UNCHANGED claims
    /\ UNCHANGED <<attempt, armed, up, ran, struck, faults, toolCrashes>>

(* Variant: the fingerprint of a finished claim is not compared. *)
ClaimUnmatched(w) ==
    /\ thread[w].pc = "claim"
    /\ LET k == Key(w)
       IN  IF ClaimOn(k) = {}
           THEN /\ claims' = claims \cup
                     {[key |-> k, print |-> Fingerprint(w), status |-> "RUNNING",
                       class |-> NoClass]}
                /\ GoTo(w, "effect") /\ UNCHANGED state
           ELSE \E c \in ClaimOn(k) :
                /\ IF c.status # "RUNNING" THEN Reported(w, c.class)
                   ELSE Returned(w, FALSE, "SAFE_STOP", FALSE)
                /\ UNCHANGED claims
    /\ UNCHANGED <<attempt, armed, up, ran, struck, faults, toolCrashes>>

(* execute_once: begin_idempotency inserts the key or returns its row.  The  *)
(* row of another request is a conflict, a finished row is reused, a running *)
(* one is refused.                                                           *)
Claim(w) ==
    /\ thread[w].pc = "claim"
    /\ LET k == Key(w)
       IN  IF ClaimOn(k) = {}
           THEN /\ claims' = claims \cup
                     {[key |-> k, print |-> Fingerprint(w), status |-> "RUNNING",
                       class |-> NoClass]}
                /\ GoTo(w, "effect") /\ UNCHANGED state
           ELSE \E c \in ClaimOn(k) :
                /\ IF c.print = Fingerprint(w) /\ c.status # "RUNNING"
                   THEN Reported(w, c.class)
                   ELSE Returned(w, FALSE, "SAFE_STOP", FALSE)
                /\ UNCHANGED claims
    /\ UNCHANGED <<attempt, armed, up, ran, struck, faults, toolCrashes>>

(* Variant: a failed execution is not recorded. *)
EffectUnstored(w) ==
    /\ thread[w].pc = "effect"
    /\ ran' = IF Tool(w) \in Pure THEN ran
              ELSE ran \cup {[call |-> Call(w), key |-> Key(w), tool |-> Tool(w)]}
    /\ \E outcome \in ToolErrors \cup {NoClass} :
          IF Tool(w) \in Pure \/ outcome # NoClass
          THEN Reported(w, outcome)
          ELSE /\ Set(w, [thread[w] EXCEPT !.pc = "finish", !.outcome = outcome])
               /\ UNCHANGED state
    /\ UNCHANGED <<attempt, claims, armed, up, struck, faults, toolCrashes>>

(* LocalToolExecutor.execute turns every exception into a failed result; a   *)
(* failed execution may have had its effect all the same.                    *)
Effect(w) ==
    /\ thread[w].pc = "effect"
    /\ ran' = IF Tool(w) \in Pure THEN ran
              ELSE ran \cup {[call |-> Call(w), key |-> Key(w), tool |-> Tool(w)]}
    /\ \E outcome \in ToolErrors \cup {NoClass} :
          IF Tool(w) \in Pure
          THEN Reported(w, outcome)
          ELSE /\ Set(w, [thread[w] EXCEPT !.pc = "finish", !.outcome = outcome])
               /\ UNCHANGED state
    /\ UNCHANGED <<attempt, claims, armed, up, struck, faults, toolCrashes>>

(* finish_idempotency stores the outcome, then the result is returned. *)
Finish(w) ==
    /\ thread[w].pc = "finish"
    /\ LET class == thread[w].outcome
       IN  /\ claims' = {IF c.key = Key(w)
                         THEN [c EXCEPT !.status = IF class = NoClass THEN "SUCCEEDED"
                                                   ELSE "FAILED",
                                        !.class = class]
                         ELSE c : c \in claims}
           /\ Reported(w, class)
    /\ UNCHANGED <<attempt, armed, up, ran, struck, faults, toolCrashes>>

-----------------------------------------------------------------------------
(* VerifierService.verify and the recovery of what did not pass *)

(* The verdict on one acceptance condition; judged is what the provider says *)
(* of the deliverable.  A sealed task is never shown to it.                  *)
Holds(w, condition, judged) ==
    CASE condition = "rule"     -> thread[w].ok
      [] condition = "artifact" -> thread[w].wrote
      [] condition = "semantic" -> w \in Sealed \/ judged

Passed(w, judged) ==
    thread[w].ok /\ \A condition \in Conditions[w] : Holds(w, condition, judged)

Recovery(w, class) ==
    CASE class = "SAFE_STOP" -> "PAUSED"
      [] class # "SAFE_STOP" -> IF attempt[w] <= ToolRetries THEN "READY" ELSE "FAILED"

(* The attempt is over; what it called stays in the TOOL_EXECUTED events. *)
Ended(w) == [Idle EXCEPT !.calls = thread[w].calls]

Over(w, s) ==
    /\ state' = [state EXCEPT ![w] = s]
    /\ Set(w, Ended(w))

(* A failed verification without an error class is a safe stop. *)
Verify(w) ==
    /\ thread[w].pc = "verify"
    /\ \E judged \in BOOLEAN :
          Over(w, IF Passed(w, judged) THEN "SUCCEEDED"
                  ELSE Recovery(w, IF thread[w].class = NoClass THEN "SAFE_STOP"
                                   ELSE thread[w].class))
    /\ UNCHANGED <<attempt, claims, armed, up, ran, struck, faults, toolCrashes>>

(* The exception handler of _execute_assignment. *)
Recover(w) ==
    /\ thread[w].pc = "lost"
    /\ Over(w, Recovery(w, thread[w].class))
    /\ UNCHANGED <<attempt, claims, armed, up, ran, struck, faults, toolCrashes>>

-----------------------------------------------------------------------------
(* Faults, crashes and resume_run *)

(* inject_failure, called by the round hook while no worker runs. *)
Arm(tool) ==
    /\ up /\ faults + toolCrashes < MaxTroubles
    /\ \A w \in Work : thread[w].pc = "off"
    /\ faults' = faults + 1
    /\ armed' = Append(armed, [id |-> faults + 1, tool |-> tool])
    /\ UNCHANGED <<attempt, state, thread, claims, up, ran, struck, toolCrashes>>

ToolCrash ==
    /\ up /\ faults + toolCrashes < MaxTroubles
    /\ toolCrashes' = toolCrashes + 1
    /\ up' = FALSE /\ armed' = <<>>
    /\ thread' = [w \in Work |-> Ended(w)]
    /\ UNCHANGED <<attempt, state, claims, ran, struck, faults>>

(* An interrupted task goes by the tool of its assignment: READY again when  *)
(* that is pure, PAUSED otherwise.                                           *)
ResumeTools ==
    /\ ~up /\ up' = TRUE
    /\ state' = [w \in Work |->
                    IF state[w] \notin {"RUNNING", "VERIFYING"} THEN state[w]
                    ELSE IF AssignedTool[w] \in Pure THEN "READY" ELSE "PAUSED"]
    /\ UNCHANGED <<attempt, thread, claims, armed, ran, struck, faults, toolCrashes>>

ToolStep(w) ==
    Begin(w) \/ Plan(w) \/ Inject(w) \/ Pop(w) \/ Claim(w)
        \/ Effect(w) \/ Finish(w) \/ Verify(w) \/ Recover(w)

ToolNext ==
    \/ \E w \in Work : ToolStep(w)
    \/ \E tool \in Tools \cup {AnyTool} : Arm(tool)
    \/ ToolCrash
    \/ ResumeTools

ToolSpec == ToolInit /\ [][ToolNext]_toolVars

-----------------------------------------------------------------------------
(* Properties *)

CallId == [task : Work, attempt : Nat, index : Nat]

(* Every variable holds a value of its type. *)
ToolTypeOK ==
    /\ attempt \in [Work -> Nat]
    /\ state \in [Work -> {"READY", "RUNNING", "VERIFYING", "SUCCEEDED",
                          "FAILED", "PAUSED"}]
    /\ \A w \in Work :
          /\ thread[w].pc \in Pcs
          /\ thread[w].calls \in Seq(Tools)
          /\ {thread[w].class, thread[w].outcome} \subseteq Class \cup {NoClass}
    /\ \A c \in claims : c.status \in {"RUNNING", "SUCCEEDED", "FAILED"}
    /\ up \in BOOLEAN /\ \A e \in ran : e.call \in CallId

(* "Idempotency-key, request-fingerprint and repeated-call protection":      *)
(* under one key the executor runs at most once, whatever is retried, sent   *)
(* again under the same key by a remote agent, or cut off by a crash.        *)
EffectOnce == \A e, f \in ran : e.key = f.key => e = f

Holders(k) == {w \in Work : thread[w].pc \in {"effect", "finish"} /\ Key(w) = k
                                /\ Tool(w) \notin Pure}

(* A RUNNING claim has one thread at work on it, or none when the process    *)
(* died over it; no error path of an attempt leaves one behind, and no two   *)
(* threads ever work under one key.                                          *)
OneHolder ==
    \A c \in claims : /\ c.status = "RUNNING" /\ toolCrashes = 0 => Holders(c.key) # {}
                      /\ Cardinality(Holders(c.key)) <= 1

(* A task is SUCCEEDED only if every side-effecting call of its attempt was  *)
(* executed for this task, with its tool, under its key, and the table says  *)
(* it succeeded: no injected failure, no refusal, no failed result and no    *)
(* result of another request counts.                                        *)
SucceededWasDone ==
    \A w \in Work : state[w] = "SUCCEEDED" =>
        \A i \in DOMAIN thread[w].calls : thread[w].calls[i] \notin Pure =>
            LET k == KeyOf([task |-> w, attempt |-> attempt[w], index |-> i])
            IN  /\ \E c \in ClaimOn(k) : c.status = "SUCCEEDED"
                /\ \E e \in ran : e.key = k /\ e.call.task = w /\ e.tool = thread[w].calls[i]

(* "Arm one explicit competition fault for the next matching tool call": one *)
(* fault fails one call, although the threads race for the list.             *)
OneStrike ==
    \A s \in struck : /\ \A r \in struck : r[1] = s[1] => r = s
                      /\ \A i \in DOMAIN armed : armed[i].id # s[1]

=============================================================================

---------------------------- MODULE Types_proofs ----------------------------
(***************************************************************************)
(* The services keep their types (ServicesTypeOK of MCServices), for every   *)
(* value of the constants.                                                  *)
(*                                                                         *)
(* A section for each service states what its variables hold (Typed), that   *)
(* it holds at the start and after every step, and that a service that does  *)
(* not move keeps it.  Typed says more than the type: the shape of threads,  *)
(* rows and files, a bound that a count of attempts rests on, one edge for   *)
(* a pair of agents.  Where the services' own proofs have such an invariant  *)
(* it is taken from there.                                                  *)
(***************************************************************************)
EXTENDS MCServices, Compilers_proofs, Services_proofs, Delivery_proofs, SequenceTheorems

-----------------------------------------------------------------------------
(* The tools *)

(* The threads and the rows of the claims table are records of one shape. *)
ThreadType == [pc : Pcs, calls : Seq(Tools), at : Nat, scan : Nat, ok : BOOLEAN,
               class : Class \cup {NoClass}, wrote : BOOLEAN,
               outcome : Class \cup {NoClass}]

(* What the fingerprint of a thread may be, whatever its position. *)
Prints == Work \X {x[1][x[2]] : x \in Seq(Tools) \X Nat}

ClaimType == [key : {KeyOf(c) : c \in CallId}, print : Prints,
              status : {"RUNNING", "SUCCEEDED", "FAILED"}, class : Class \cup {NoClass}]

ToolTyped ==
    /\ ToolTypeOK
    /\ thread \in [Work -> ThreadType]
    /\ claims \subseteq ClaimType

(* The steps of a finite plan are numbered without gaps. *)
LEMMA RankIsTaken ==
    ASSUME NEW k \in Nat, NEW S \in SUBSET (1 .. k), NEW m \in Nat, m < Cardinality(S)
    PROVE  \E i \in S : Before(S, i) = m
<1> DEFINE upTo(n) == {j \in S : j < n}
           T == {n \in Nat : Cardinality(upTo(n)) > m}
<1>1. IsFiniteSet(S)
  <2>1. IsFiniteSet(1 .. k) BY FS_Interval
  <2>2. QED BY <2>1, FS_Subset
<1>0. \A j \in S : j \in Nat /\ j < k + 1 OBVIOUS
<1>2. \A n : IsFiniteSet(upTo(n)) /\ Cardinality(upTo(n)) \in Nat
  BY <1>1, FS_Subset, FS_CardinalityType
<1>3. upTo(k + 1) = S BY <1>0
<1>4. T \in SUBSET Nat /\ T # {}
  <2>1. k + 1 \in T BY <1>3
  <2>2. QED BY <2>1
<1>5. PICK n \in T : \A u \in T : n <= u
  <2> HIDE DEF T
  <2>1. QED BY <1>4, LeastNat
<1>6. n # 0
  <2>1. \A j \in S : ~(j < 0) BY <1>0
  <2>4. upTo(0) = {} BY <2>1
  <2>2. Cardinality(upTo(0)) = 0 BY <2>4, FS_EmptySet
  <2>3. QED BY <1>5, <2>2
<1>7. n - 1 \in Nat /\ Cardinality(upTo(n - 1)) <= m
  <2>1. n - 1 \in Nat /\ n - 1 < n BY <1>6
  <2>2. n - 1 \notin T BY <1>5, <2>1
  <2>3. QED BY <1>2, <2>1, <2>2
<1>8. n - 1 \in S
  <2>1. SUFFICES ASSUME n - 1 \notin S PROVE FALSE OBVIOUS
  <2>2. ASSUME NEW j \in S, j < n PROVE j < n - 1
    <3>1. j # n - 1 BY <2>1
    <3>2. QED BY <1>0, <1>7, <2>2, <3>1
  <2>4. ASSUME NEW j \in S, j < n - 1 PROVE j < n BY <1>0, <1>7, <2>4
  <2>5. upTo(n) = upTo(n - 1) BY <2>2, <2>4
  <2>3. QED BY <1>2, <1>5, <1>7, <2>5
<1>9. Cardinality(upTo(n)) = Cardinality(upTo(n - 1)) + 1
  <2>1. ASSUME NEW j \in S PROVE j < n <=> j < n - 1 \/ j = n - 1
    BY <1>0, <1>7
  <2>4. upTo(n) = upTo(n - 1) \cup {n - 1} BY <1>8, <2>1
  <2>2. n - 1 \notin upTo(n - 1) BY <1>7
  <2>3. QED BY <1>2, <2>2, <2>4, FS_AddElement
<1>10. Cardinality(upTo(n - 1)) = m BY <1>2, <1>5, <1>7, <1>9
<1>11. Before(S, n - 1) = Cardinality(upTo(n - 1)) BY DEF Before
<1>12. QED BY <1>8, <1>10, <1>11

(* A plan calls tools, whoever made it. *)
LEMMA PlanType ==
    ASSUME NEW w \in Work, NEW answer \in Answers[w]
    PROVE  CallsFor(w, answer) \in Seq(Tools)
<1>1. answer \in Seq(Step) BY ToolAssumption
<1>2. Len(answer) \in Nat /\ DOMAIN answer = 1 .. Len(answer) BY <1>1, LenProperties
<1>3. \A i \in DOMAIN answer : answer[i].tool \in Tools
  <2>1. \A i \in DOMAIN answer : answer[i] \in Step BY <1>1, <1>2, ElementOfSeq
  <2>2. QED BY <2>1 DEF Step
<1>4. CASE Agent[w] = "remote"
  <2>1. CallsFor(w, answer) = [i \in 1 .. Len(answer) |-> answer[i].tool]
    BY <1>2, <1>4 DEF CallsFor
  <2>2. QED BY <1>2, <1>3, <2>1
<1>5. CASE Agent[w] # "remote" /\ Agent[w] = "planner" /\ Menu[w] # {}
  <2> DEFINE steps == Survivors(w, answer)
             last == Cardinality(steps) + 1
             pick(n) == CHOOSE i \in steps : Before(steps, i) = n - 1
  <2>1. steps \subseteq 1 .. Len(answer) BY <1>2 DEF Survivors
  <2>2. IsFiniteSet(steps)
    <3>1. IsFiniteSet(1 .. Len(answer)) BY <1>2, FS_Interval
    <3>2. QED BY <2>1, <3>1, FS_Subset
  <2>3. Cardinality(steps) \in Nat BY <2>2, FS_CardinalityType
  <2>4. ASSUME NEW n \in 1 .. last, n # last PROVE answer[pick(n)].tool \in Tools
    <3>1. n - 1 \in Nat /\ n - 1 < Cardinality(steps) BY <2>3, <2>4
    <3> HIDE DEF steps, last
    <3>2. \E i \in steps : Before(steps, i) = n - 1 BY <1>2, <2>1, <3>1, RankIsTaken
    <3>3. pick(n) \in steps BY <3>2
    <3>4. QED BY <1>2, <1>3, <2>1, <3>3
  <2>5. CallsFor(w, answer) = [n \in 1 .. last |-> IF n = last THEN Writer
                                                   ELSE answer[pick(n)].tool]
    BY <1>5 DEF CallsFor, PlannedCalls
  <2>6. Writer \in Tools /\ last \in Nat BY <2>3, ToolAssumption
  <2> HIDE DEF steps, last, pick
  <2>7. QED BY <2>4, <2>5, <2>6
<1>6. CASE ~(Agent[w] = "remote") /\ ~(Agent[w] = "planner" /\ Menu[w] # {})
  BY <1>6, ToolAssumption DEF CallsFor
<1>7. QED BY <1>4, <1>5, <1>6

(* The thread and the state of one task change. *)
LEMMA ThreadStep ==
    ASSUME ToolTyped, NEW w \in Work, NEW r \in ThreadType, Set(w, r)
    PROVE  thread' \in [Work -> ThreadType]
BY DEF ToolTyped, Set

LEMMA CounterStep ==
    ASSUME ToolTyped, NEW w \in Work, NEW pc \in Pcs, GoTo(w, pc)
    PROVE  thread' \in [Work -> ThreadType]
<1>1. [thread[w] EXCEPT !.pc = pc] \in ThreadType BY DEF ToolTyped, ThreadType
<1>2. QED BY <1>1, ThreadStep DEF GoTo

ToolState == {"READY", "RUNNING", "VERIFYING", "SUCCEEDED", "FAILED", "PAUSED"}

LEMMA ReturnedType ==
    ASSUME ToolTyped, NEW w \in Work, NEW ok \in BOOLEAN, NEW class \in Class \cup {NoClass},
           NEW wrote \in BOOLEAN, Returned(w, ok, class, wrote)
    PROVE  thread' \in [Work -> ThreadType] /\ state' \in [Work -> ToolState]
<1> DEFINE th == thread[w]
           done == th.at = Len(th.calls)
           pc == IF done THEN "verify" ELSE "inject"
           at == IF done THEN th.at ELSE th.at + 1
           cl == IF th.class = NoClass THEN class ELSE th.class
           r == [th EXCEPT !.pc = pc, !.at = at, !.scan = 1, !.ok = th.ok /\ ok,
                           !.class = cl, !.wrote = th.wrote \/ wrote]
<1>1. Set(w, r) BY DEF Returned
<1>2. th \in ThreadType BY DEF ToolTyped
<1>3. pc \in Pcs /\ at \in Nat /\ cl \in Class \cup {NoClass}
  BY <1>2 DEF ThreadType, Pcs
<1>4. (th.ok /\ ok) \in BOOLEAN /\ (th.wrote \/ wrote) \in BOOLEAN BY <1>2 DEF ThreadType
<1>5. state' \in [Work -> ToolState]
  BY DEF Returned, ToolTyped, ToolTypeOK, ToolState
<1> HIDE DEF pc, at, cl, done, th
<1>6. r \in ThreadType BY <1>2, <1>3, <1>4 DEF ThreadType
<1>7. QED BY <1>1, <1>5, <1>6, ThreadStep

LEMMA ReportedType ==
    ASSUME ToolTyped, NEW w \in Work, NEW class \in Class \cup {NoClass}, Reported(w, class)
    PROVE  thread' \in [Work -> ThreadType] /\ state' \in [Work -> ToolState]
<1>1. /\ (class = NoClass) \in BOOLEAN
      /\ (class = NoClass /\ Tool(w) \in {"task", Writer}) \in BOOLEAN
  OBVIOUS
<1>2. QED BY <1>1, ReturnedType DEF Reported

(* A step of one task that leaves the table and the list of executions. *)
LEMMA ToolFrame ==
    ASSUME ToolTyped, thread' \in [Work -> ThreadType], state' \in [Work -> ToolState],
           attempt' \in [Work -> Nat], claims' \subseteq ClaimType, up' \in BOOLEAN,
           \A e \in ran' : e.call \in CallId
    PROVE  ToolTyped'
BY DEF ToolTyped, ToolTypeOK, ThreadType, ClaimType, ToolState

LEMMA IdleType == Idle \in ThreadType
<1>1. <<>> \in Seq(Tools) /\ "off" \in Pcs BY DEF Pcs
<1>2. NoClass \in Class \cup {NoClass} /\ 1 \in Nat OBVIOUS
<1>3. QED BY <1>1, <1>2 DEF ThreadType, Idle

LEMMA EndedType ==
    ASSUME ToolTyped, NEW w \in Work
    PROVE  Ended(w) \in ThreadType
<1>1. thread[w].calls \in Seq(Tools) BY DEF ToolTyped, ToolTypeOK
<1>2. QED BY <1>1, IdleType DEF Ended, ThreadType

LEMMA ToolStepTyped ==
    ASSUME ToolTyped, NEW w \in Work, ToolStep(w)
    PROVE  ToolTyped'
<1> USE DEF ToolTyped, ToolTypeOK
<1>1. /\ thread[w] \in ThreadType /\ attempt[w] \in Nat /\ state \in [Work -> ToolState]
      /\ {"RETRYABLE", "SAFE_STOP", NoClass} \subseteq Class \cup {NoClass}
      /\ Call(w) \in CallId
  BY DEF ToolState, Class, Call, CallId, ThreadType
<1>2. CASE Begin(w)
  <2>1. [Idle EXCEPT !.pc = "plan"] \in ThreadType
    BY IdleType DEF ThreadType, Pcs
  <2>2. thread' \in [Work -> ThreadType] BY <1>2, <2>1, ThreadStep DEF Begin
  <2>3. state' \in [Work -> ToolState] /\ attempt' \in [Work -> Nat]
    BY <1>1, <1>2 DEF Begin, ToolState
  <2>4. QED BY <1>2, <2>2, <2>3, ToolFrame DEF Begin
<1>3. CASE Plan(w)
  <2>1. [thread[w] EXCEPT !.pc = "lost", !.class = "RETRYABLE"] \in ThreadType
    BY <1>1 DEF ThreadType, Pcs, Class
  <2>2. \A calls \in Seq(Tools) :
           [thread[w] EXCEPT !.pc = "inject", !.calls = calls] \in ThreadType
    BY <1>1 DEF ThreadType, Pcs
  <2>3. thread' \in [Work -> ThreadType]
    BY <1>3, <2>1, <2>2, PlanType, ThreadStep DEF Plan
  <2>4. QED BY <1>1, <1>3, <2>3, ToolFrame DEF Plan
<1>4. CASE Inject(w)
  <2>1. [thread[w] EXCEPT !.scan = @ + 1] \in ThreadType
    <3>1. thread[w].scan + 1 \in Nat BY <1>1 DEF ThreadType
    <3>2. QED BY <1>1, <3>1 DEF ThreadType
  <2>2. ASSUME Validate(w) PROVE thread' \in [Work -> ThreadType] /\ state' \in [Work -> ToolState]
    <3>1. CASE \E refusal \in Refusals : Returned(w, FALSE, refusal.class, FALSE)
      <4>1. PICK class \in Class : Returned(w, FALSE, class, FALSE) BY <3>1, ToolAssumption
      <4>2. class \in Class \cup {NoClass} OBVIOUS
      <4>3. QED BY <1>1, <4>1, <4>2, ReturnedType
    <3>2. QED BY <1>1, <2>2, <3>1, CounterStep DEF Validate, Pcs
  <2>3. thread' \in [Work -> ThreadType] /\ state' \in [Work -> ToolState]
    BY <1>1, <1>4, <2>1, <2>2, ThreadStep, CounterStep DEF Inject, Pcs
  <2>4. QED BY <1>4, <2>3, ToolFrame DEF Inject
<1>5. CASE Pop(w)
  <2>1. [thread[w] EXCEPT !.pc = "lost", !.class = "RETRYABLE"] \in ThreadType
    BY <1>1 DEF ThreadType, Pcs, Class
  <2>2. thread' \in [Work -> ThreadType] /\ state' \in [Work -> ToolState]
    BY <1>1, <1>5, <2>1, ThreadStep, ReturnedType DEF Pop
  <2>3. QED BY <1>5, <2>2, ToolFrame DEF Pop
<1>6. CASE Claim(w)
  <2> DEFINE new == [key |-> Key(w), print |-> Fingerprint(w), status |-> "RUNNING",
                     class |-> NoClass]
  <2>1. new \in ClaimType
    <3>1. Key(w) \in {KeyOf(c) : c \in CallId} BY <1>1 DEF Key
    <3>2. Fingerprint(w) \in Prints
      <4>1. <<thread[w].calls, thread[w].at>> \in Seq(Tools) \X Nat BY <1>1 DEF ThreadType
      <4>2. QED BY <4>1 DEF Fingerprint, Tool, Prints
    <3>3. NoClass \in Class \cup {NoClass} OBVIOUS
    <3>4. QED BY <3>1, <3>2, <3>3 DEF ClaimType
  <2>2. CASE claims' = claims \cup {new} /\ GoTo(w, "effect") /\ state' = state
    <3>1. claims' \subseteq ClaimType BY <2>1, <2>2
    <3>2. thread' \in [Work -> ThreadType] BY <2>2, CounterStep DEF Pcs
    <3>3. QED BY <1>1, <1>6, <2>2, <3>1, <3>2, ToolFrame DEF Claim
  <2>3. ASSUME claims' = claims, NEW c \in claims,
               Reported(w, c.class) \/ Returned(w, FALSE, "SAFE_STOP", FALSE)
        PROVE  ToolTyped'
    <3>1. c.class \in Class \cup {NoClass} BY DEF ClaimType
    <3>2. thread' \in [Work -> ThreadType] /\ state' \in [Work -> ToolState]
      BY <1>1, <2>3, <3>1, ReportedType, ReturnedType
    <3>3. QED BY <1>6, <2>3, <3>2, ToolFrame DEF Claim
  <2>4. QED BY <1>6, <2>2, <2>3 DEF Claim, ClaimOn
<1>7. CASE Effect(w)
  <2>1. PICK outcome \in ToolErrors \cup {NoClass} :
           IF Tool(w) \in Pure THEN Reported(w, outcome)
           ELSE /\ Set(w, [thread[w] EXCEPT !.pc = "finish", !.outcome = outcome])
                /\ UNCHANGED state
    BY <1>7 DEF Effect
  <2>2. outcome \in Class \cup {NoClass} BY ToolAssumption
  <2>3. [thread[w] EXCEPT !.pc = "finish", !.outcome = outcome] \in ThreadType
    BY <1>1, <2>2 DEF ThreadType, Pcs
  <2>4. thread' \in [Work -> ThreadType] /\ state' \in [Work -> ToolState]
    BY <1>1, <2>1, <2>2, <2>3, ReportedType, ThreadStep
  <2>5. \A e \in ran' : e.call \in CallId BY <1>1, <1>7 DEF Effect
  <2>6. QED BY <1>7, <2>4, <2>5, ToolFrame DEF Effect
<1>8. CASE Finish(w)
  <2>1. thread[w].outcome \in Class \cup {NoClass} BY <1>1 DEF ThreadType
  <2>2. thread' \in [Work -> ThreadType] /\ state' \in [Work -> ToolState]
    BY <1>8, <2>1, ReportedType DEF Finish
  <2>3. ASSUME NEW c \in claims, NEW s \in {"SUCCEEDED", "FAILED"}
        PROVE  [c EXCEPT !.status = s, !.class = thread[w].outcome] \in ClaimType
    <3>1. c \in ClaimType OBVIOUS
    <3>2. QED BY <2>1, <3>1 DEF ClaimType
  <2>4. claims' \subseteq ClaimType
    BY <1>8, <2>3 DEF Finish
  <2>5. QED BY <1>8, <2>2, <2>4, ToolFrame DEF Finish
<1>9. CASE Verify(w) \/ Recover(w)
  <2>1. PICK s \in ToolState : Over(w, s)
    BY <1>9 DEF Verify, Recover, Recovery, ToolState
  <2>2. thread' \in [Work -> ThreadType] BY <2>1, EndedType, ThreadStep DEF Over
  <2>3. state' \in [Work -> ToolState] BY <1>1, <2>1 DEF Over
  <2>4. QED BY <1>9, <2>2, <2>3, ToolFrame DEF Verify, Recover
<1>10. QED
  BY <1>2, <1>3, <1>4, <1>5, <1>6, <1>7, <1>8, <1>9 DEF ToolStep

LEMMA ToolTypes ==
    /\ ToolInit => ToolTyped
    /\ ToolTyped /\ ToolNext => ToolTyped'
<1>1. ASSUME ToolInit PROVE ToolTyped
  <2>1. <<>> \in Seq(Tools) /\ "off" \in Pcs BY DEF Pcs
  <2>3. Idle \in ThreadType BY IdleType
  <2>4. Idle.pc = "off" /\ Idle.calls = <<>> /\ Idle.class = NoClass /\ Idle.outcome = NoClass
    BY DEF Idle
  <2>5. QED BY <1>1, <2>1, <2>3, <2>4 DEF ToolInit, ToolTyped, ToolTypeOK
<1>2. ASSUME ToolTyped, ToolNext PROVE ToolTyped'
  <2> USE DEF ToolTyped, ToolTypeOK
  <2>1. state \in [Work -> ToolState] BY <1>2 DEF ToolState
  <2>2. ASSUME NEW tool, Arm(tool) PROVE ToolTyped'
    BY <1>2, <2>1, <2>2, ToolFrame DEF Arm
  <2>3. CASE ToolCrash
    <3>1. thread' \in [Work -> ThreadType] BY <1>2, <2>3, EndedType DEF ToolCrash
    <3>2. QED BY <1>2, <2>1, <2>3, <3>1, ToolFrame DEF ToolCrash
  <2>4. CASE ResumeTools
    <3>1. state' \in [Work -> ToolState] BY <2>1, <2>4 DEF ResumeTools, ToolState
    <3>2. QED BY <1>2, <2>4, <3>1, ToolFrame DEF ResumeTools
  <2>5. QED BY <1>2, <2>2, <2>3, <2>4, ToolStepTyped DEF ToolNext
<1>3. QED BY <1>1, <1>2

-----------------------------------------------------------------------------
(* The GoalSpec compiler *)

LEMMA GoalSpecTypes ==
    /\ GoalSpecInit => GoalSpecTypeOK
    /\ GoalSpecTypeOK /\ GoalSpecNext => GoalSpecTypeOK'
<1>1. GoalSpecInit => GoalSpecTypeOK
  BY DEF GoalSpecInit, GoalSpecTypeOK, NoDraft, NoGoal, ModelTries
<1>2. ASSUME GoalSpecTypeOK, GoalSpecNext PROVE GoalSpecTypeOK'
  <2> USE <1>2 DEF GoalSpecTypeOK
  <2>1. CASE ExtractByRule BY <2>1 DEF ExtractByRule, Extracted, RuleDraft
  <2>2. CASE CallModel
    <3>1. failures' \in 0 .. ModelTries BY <2>2 DEF CallModel, ModelTries
    <3>2. CASE \E d \in ModelDrafts : Extracted(d, "deepseek")
      BY <2>2, <3>1, <3>2, GoalSpecAssumption DEF CallModel, Extracted
    <3>3. CASE UNCHANGED <<draft, usedMode, phase>> BY <2>2, <3>1, <3>3 DEF CallModel
    <3>4. QED BY <2>2, <3>2, <3>3 DEF CallModel
  <2>3. CASE GiveUp BY <2>3 DEF GiveUp
  <2>4. CASE Normalize
    <3>1. Normalized(draft).made = TRUE BY DEF Normalized
    <3>2. QED BY <2>4, <3>1 DEF Normalize
  <2>5. CASE ValidateGoal BY <2>5 DEF ValidateGoal
  <2>6. QED BY <2>1, <2>2, <2>3, <2>4, <2>5 DEF GoalSpecNext
<1>3. QED BY <1>1, <1>2

-----------------------------------------------------------------------------
(* The control plane *)

ControlTyped ==
    /\ Mail /\ Status /\ handles \subseteq JobIds /\ asked \subseteq JobIds
    /\ \A j \in JobIds : round[j].nr \in 0 .. MaxRounds

LEMMA ControlTypes ==
    /\ ControlInit => ControlTyped
    /\ ControlTyped /\ ControlNext => ControlTyped'
    /\ ControlTyped => ControlTypeOK
<1>1. ControlInit => ControlTyped
  BY InitMail, InitStatus, ControlAssumption DEF ControlInit, ControlTyped, NoHook
<1>2. ASSUME ControlTyped, ControlNext PROVE ControlTyped'
  <2>1. Mail' /\ Status' BY <1>2, NextMail, NextStatus DEF ControlTyped
  <2>2. handles' \subseteq JobIds /\ asked' \subseteq JobIds
    BY <1>2
    DEF ControlTyped, ControlNext, Queue, Popen, StartedAs, Stop, Terminated, Fails, FinishRound,
        Hook, Apply, Acknowledge, Unlink, Completes, Choose, Enqueue, Refresh, Restart, Alive
  <2>3. ASSUME NEW j \in JobIds, NEW r, Turn(j, r), r.nr \in 0 .. MaxRounds
        PROVE  \A i \in JobIds : round'[i].nr \in 0 .. MaxRounds
    BY <1>2, <2>3, TurnEffect DEF ControlTyped, Mail
  <2>4. ASSUME NEW j \in JobIds
        PROVE  /\ DOMAIN round[j] = {"phase", "nr", "request", "hooked"}
               /\ round[j].nr \in 0 .. MaxRounds
    BY <1>2 DEF ControlTyped, Mail, MailTypes
  <2>5. ASSUME NEW j \in JobIds, FinishRound(j)
        PROVE  \A i \in JobIds : round'[i].nr \in 0 .. MaxRounds
    <3>1. round[j].nr + 1 \in 0 .. MaxRounds BY <2>4, <2>5, ControlAssumption DEF FinishRound
    <3>2. QED BY <2>3, <2>4, <2>5, <3>1 DEF FinishRound
  <2>6. ASSUME NEW j \in JobIds, Hook(j)
        PROVE  \A i \in JobIds : round'[i].nr \in 0 .. MaxRounds
    BY <2>3, <2>4, <2>6 DEF Hook
  <2>7. ASSUME NEW j \in JobIds, Apply(j)
        PROVE  \A i \in JobIds : round'[i].nr \in 0 .. MaxRounds
    BY <2>3, <2>4, <2>7 DEF Apply
  <2>8. ASSUME NEW j \in JobIds, Acknowledge(j)
        PROVE  \A i \in JobIds : round'[i].nr \in 0 .. MaxRounds
    BY <2>3, <2>4, <2>8 DEF Acknowledge
  <2>9. ASSUME NEW j \in JobIds, Unlink(j)
        PROVE  \A i \in JobIds : round'[i].nr \in 0 .. MaxRounds
    <3>1. [NoHook EXCEPT !.hooked = FALSE].nr \in 0 .. MaxRounds BY ControlAssumption DEF NoHook
    <3>2. [round[j] EXCEPT !.phase = "work"].nr \in 0 .. MaxRounds BY <2>4
    <3>3. QED BY <2>3, <2>9, <3>1, <3>2 DEF Unlink
  <2>10. \/ round' = round
         \/ \E j \in JobIds : FinishRound(j) \/ Hook(j) \/ Apply(j) \/ Acknowledge(j) \/ Unlink(j)
    BY <1>2
    DEF ControlNext, Queue, Popen, StartedAs, Stop, Terminated, Fails, Completes, Choose,
        Enqueue, Refresh, Restart
  <2>11. \A i \in JobIds : round'[i].nr \in 0 .. MaxRounds
    BY <2>4, <2>5, <2>6, <2>7, <2>8, <2>9, <2>10
  <2>12. QED BY <2>1, <2>2, <2>11 DEF ControlTyped
<1>3. ControlTyped => ControlTypeOK
  BY DEF ControlTyped, Status, Told, Endings, ControlTypeOK
<1>4. QED BY <1>1, <1>2, <1>3

-----------------------------------------------------------------------------
(* Memory *)

(* A snapshot holds only records that were there when it was taken. *)
Stored(s) ==
    /\ s.ids \subseteq Records
    /\ s.status \in [Records -> MemoryStatus] /\ \A r \in s.ids : s.status[r] # "ABSENT"
    /\ s.refs \in [Records -> SUBSET Evidence] /\ s.wins \in [Records -> 0 .. 2]

(* A restore writes what its snapshot holds. *)
Restoring ==
    op.kind = "restore" =>
        op.from \in DOMAIN snapshots /\ op.left \subseteq snapshots[op.from].ids

MemoryTyped ==
    /\ MemoryTypeOK /\ Restoring
    /\ DOMAIN op = {"kind", "left", "roots", "from"}
    /\ \E S : snapshots \in Seq(S) /\ \A s \in S : Stored(s)

(* A save of a record. *)
LEMMA SaveMemory ==
    ASSUME MemoryTyped, NEW r \in Records, NEW to \in MemoryStatus \ {"ABSENT"},
           NEW cites \in SUBSET Evidence, Save(r, to, cites)
    PROVE  /\ status' \in [Records -> MemoryStatus] /\ refs' \in [Records -> SUBSET Evidence]
           /\ found' \subseteq Present' /\ r \in Present' /\ Present \subseteq Present'
BY DEF MemoryTyped, MemoryTypeOK, Save, Present

(* What is left of the snapshots and the operation when none of them changes. *)
LEMMA MemoryFrame ==
    ASSUME MemoryTyped, MemoryTypeOK', snapshots' = snapshots, op' = op \/ op' = NoOp
    PROVE  MemoryTyped'
BY DEF MemoryTyped, Stored, Restoring, NoOp

LEMMA TwoAtMost ==
    ASSUME NEW n \in 0 .. 2
    PROVE  Min({2, n + 1}) \in 0 .. 2
<1>1. \E x \in {2, n + 1} : \A y \in {2, n + 1} : x <= y BY SMT
<1>2. PICK x \in {2, n + 1} : (\A y \in {2, n + 1} : x <= y) /\ Min({2, n + 1}) = x
  BY <1>1 DEF Min
<1>3. x <= 2 /\ x \in Nat BY <1>2
<1>4. QED BY <1>2, <1>3

LEMMA WriteMemory ==
    ASSUME MemoryTyped, NEW r \in Records
    PROVE  /\ AddRecord(r) => MemoryTyped'
           /\ \A e \in Evidence : VerifyFact(r, e) => MemoryTyped'
           /\ \A ok \in BOOLEAN : RecordOutcome(r, ok) => MemoryTyped'
<1> USE DEF MemoryTypeOK
<1>0. /\ status \in [Records -> MemoryStatus] /\ refs \in [Records -> SUBSET Evidence]
      /\ {"UNVERIFIED", "VERIFIED"} \subseteq MemoryStatus \ {"ABSENT"}
      /\ wins \in [Records -> 0 .. 2]
  BY DEF MemoryTyped, MemoryStatus, Recallable, Void
<1>1. ASSUME AddRecord(r) PROVE MemoryTyped'
  <2>1. PICK to \in {"UNVERIFIED", "VERIFIED"} : Save(r, to, Cites[r]) BY <1>1 DEF AddRecord
  <2>2. /\ status' \in [Records -> MemoryStatus] /\ refs' \in [Records -> SUBSET Evidence]
        /\ found' \subseteq Present' /\ r \in Present' /\ Present \subseteq Present'
    BY <1>0, <2>1, SaveMemory, MemoryAssumption
  <2>3. MemoryTypeOK' BY <1>1, <2>2 DEF AddRecord, MemoryTyped
  <2>4. QED BY <1>1, <2>3, MemoryFrame DEF AddRecord
<1>2. ASSUME NEW e \in Evidence, VerifyFact(r, e) PROVE MemoryTyped'
  <2>1. Save(r, "VERIFIED", refs[r] \cup {e}) BY <1>2 DEF VerifyFact
  <2>2. refs[r] \cup {e} \in SUBSET Evidence BY <1>0
  <2>3. /\ status' \in [Records -> MemoryStatus] /\ refs' \in [Records -> SUBSET Evidence]
        /\ found' \subseteq Present' /\ r \in Present' /\ Present \subseteq Present'
    BY <1>0, <2>1, <2>2, SaveMemory
  <2>4. MemoryTypeOK' BY <1>2, <2>3 DEF VerifyFact, MemoryTyped
  <2>5. QED BY <1>2, <2>4, MemoryFrame DEF VerifyFact
<1>3. ASSUME NEW ok \in BOOLEAN, RecordOutcome(r, ok) PROVE MemoryTyped'
  <2> DEFINE w == IF ok THEN Min({2, wins[r] + 1}) ELSE wins[r]
             to == IF ok /\ wins'[r] >= 2 THEN "VERIFIED" ELSE status[r]
  <2>1. w \in 0 .. 2 BY <1>0, TwoAtMost
  <2>2. Save(r, to, refs[r]) /\ wins' = [wins EXCEPT ![r] = w] /\ status[r] # "ABSENT"
    BY <1>3 DEF RecordOutcome, Present
  <2>3. wins' \in [Records -> 0 .. 2]
    <3> HIDE DEF w
    <3>1. QED BY <1>0, <2>1, <2>2
  <2>4. to \in MemoryStatus \ {"ABSENT"} BY <1>0, <2>2
  <2> HIDE DEF to
  <2>5. /\ status' \in [Records -> MemoryStatus] /\ refs' \in [Records -> SUBSET Evidence]
        /\ found' \subseteq Present' /\ r \in Present' /\ Present \subseteq Present'
    BY <1>0, <2>2, <2>4, SaveMemory
  <2>6. MemoryTypeOK' BY <1>3, <2>3, <2>5 DEF RecordOutcome, MemoryTyped
  <2>7. QED BY <1>3, <2>6, MemoryFrame DEF RecordOutcome
<1>4. QED BY <1>1, <1>2, <1>3

LEMMA InvalidateMemory ==
    ASSUME MemoryTyped
    PROVE  /\ \A e \in Evidence : InvalidateByEvidence(e) => MemoryTyped'
           /\ \A r \in Records : RejectMemory(r) \/ SaveInvalid(r) \/ Spread(r) => MemoryTyped'
           /\ EndInvalidation => MemoryTyped'
<1> USE DEF MemoryTypeOK
<1>0. /\ status \in [Records -> MemoryStatus] /\ refs \in [Records -> SUBSET Evidence]
      /\ {"STALE", "REJECTED"} \subseteq MemoryStatus \ {"ABSENT"}
  BY DEF MemoryTyped, MemoryStatus, Recallable, Void
<1>1. ASSUME NEW e \in Evidence, InvalidateByEvidence(e) PROVE MemoryTyped'
  <2>1. MemoryTypeOK' BY <1>1 DEF InvalidateByEvidence, MemoryTyped, Present
  <2>2. QED BY <1>1, <2>1 DEF InvalidateByEvidence, MemoryTyped, Restoring, Stored
<1>2. ASSUME NEW r \in Records, RejectMemory(r) PROVE MemoryTyped'
  <2>1. MemoryTypeOK' BY <1>2 DEF RejectMemory, MemoryTyped, Present
  <2>2. QED BY <1>2, <2>1 DEF RejectMemory, MemoryTyped, Restoring, Stored
<1>3. ASSUME NEW r \in Records, NEW to \in {"STALE", "REJECTED"}, Save(r, to, refs[r]),
             op' = [op EXCEPT !.left = @ \ {r}] \/ op' = [op EXCEPT !.roots = @ \cup {r}],
             excused' = Unexcused(r), UNCHANGED <<wins, vectors, snapshots, invalid>>
      PROVE  MemoryTyped'
  <2>1. /\ status' \in [Records -> MemoryStatus] /\ refs' \in [Records -> SUBSET Evidence]
        /\ found' \subseteq Present' /\ Present \subseteq Present'
    BY <1>0, <1>3, SaveMemory
  <2>2. /\ op'.kind = op.kind /\ op'.from = op.from /\ op'.left \subseteq op.left
        /\ op'.left \cup op'.roots \subseteq Records /\ DOMAIN op' = DOMAIN op
    BY <1>3 DEF MemoryTyped
  <2>3. MemoryTypeOK' BY <1>3, <2>1, <2>2 DEF MemoryTyped, Unexcused
  <2>4. QED BY <1>3, <2>2, <2>3 DEF MemoryTyped, Restoring, Stored
<1>4. ASSUME NEW r \in Records, SaveInvalid(r) PROVE MemoryTyped' BY <1>3, <1>4 DEF SaveInvalid
<1>5. ASSUME NEW r \in Records, Spread(r) PROVE MemoryTyped' BY <1>3, <1>5 DEF Spread
<1>6. ASSUME EndInvalidation PROVE MemoryTyped'
  <2>1. MemoryTypeOK' BY <1>6 DEF EndInvalidation, MemoryTyped, Present, NoOp
  <2>2. QED BY <1>6, <2>1, MemoryFrame DEF EndInvalidation
<1>7. QED BY <1>1, <1>2, <1>4, <1>5, <1>6

LEMMA LoadedIsStored ==
    ASSUME MemoryTyped, NEW i \in DOMAIN snapshots, NEW j \in Loaded(i)
    PROVE  j \in DOMAIN snapshots /\ Stored(snapshots[j])
<1> DEFINE others == {k \in DOMAIN snapshots : snapshots[k].sound}
<1>1. CASE snapshots[i].sound BY <1>1 DEF Loaded, MemoryTyped
<1>2. CASE ~snapshots[i].sound /\ others # {}
  <2>1. others \in SUBSET Nat BY DEF MemoryTyped
  <2>2. \E x \in others : \A y \in others : x <= y
    <3> HIDE DEF others
    <3>1. QED BY <1>2, <2>1, LeastNat
  <2>3. Min(others) \in others BY <2>2 DEF Min
  <2>4. j = Min(others) BY <1>2 DEF Loaded
  <2>5. QED BY <2>3, <2>4 DEF MemoryTyped
<1>3. CASE ~snapshots[i].sound /\ others = {} BY <1>3 DEF Loaded
<1>4. QED BY <1>1, <1>2, <1>3

LEMMA RestoreMemory ==
    ASSUME MemoryTyped
    PROVE  /\ \A i \in DOMAIN snapshots : RestoreSnapshot(i) => MemoryTyped'
           /\ \A r \in Records : RestoreRecord(r) => MemoryTyped'
           /\ EndRestore => MemoryTyped'
<1>1. ASSUME NEW i \in DOMAIN snapshots, RestoreSnapshot(i) PROVE MemoryTyped'
  <2>1. PICK j \in Loaded(i) :
          op' = [kind |-> "restore", left |-> snapshots[j].ids, roots |-> {}, from |-> j]
    BY <1>1 DEF RestoreSnapshot
  <2>2. j \in DOMAIN snapshots /\ snapshots[j].ids \subseteq Records
    BY LoadedIsStored DEF Stored
  <2>3. UNCHANGED <<status, refs, wins, found, vectors, snapshots, invalid, excused>>
    BY <1>1 DEF RestoreSnapshot
  <2>4. MemoryTypeOK' BY <2>1, <2>2, <2>3 DEF MemoryTyped, MemoryTypeOK, Present
  <2>5. QED BY <2>1, <2>2, <2>3, <2>4 DEF MemoryTyped, Restoring, Stored
<1>2. ASSUME NEW r \in Records, RestoreRecord(r) PROVE MemoryTyped'
  <2> DEFINE s == snapshots[op.from]
  <2>1. /\ op.kind = "restore" /\ r \in op.left /\ Save(r, s.status[r], s.refs[r])
        /\ wins' = [wins EXCEPT ![r] = s.wins[r]] /\ op' = [op EXCEPT !.left = @ \ {r}]
        /\ UNCHANGED <<vectors, snapshots, invalid, excused>>
    BY <1>2 DEF RestoreRecord
  <2>2. Stored(s) /\ r \in s.ids BY <2>1 DEF MemoryTyped, Restoring
  <2>3. /\ s.status[r] \in MemoryStatus \ {"ABSENT"} /\ s.refs[r] \in SUBSET Evidence
        /\ s.wins[r] \in 0 .. 2
    BY <2>2 DEF Stored
  <2> HIDE DEF s
  <2>4. /\ status' \in [Records -> MemoryStatus] /\ refs' \in [Records -> SUBSET Evidence]
        /\ found' \subseteq Present' /\ Present \subseteq Present'
    BY <2>1, <2>3, SaveMemory
  <2>5. /\ op'.kind = op.kind /\ op'.from = op.from /\ op'.left \subseteq op.left
        /\ op'.roots = op.roots /\ DOMAIN op' = DOMAIN op
    BY <2>1 DEF MemoryTyped
  <2>6. MemoryTypeOK' BY <2>1, <2>3, <2>4, <2>5 DEF MemoryTyped, MemoryTypeOK
  <2>7. QED BY <2>1, <2>5, <2>6 DEF MemoryTyped, Restoring, Stored
<1>3. ASSUME EndRestore PROVE MemoryTyped'
  <2>1. MemoryTypeOK'
    BY <1>3 DEF EndRestore, MemoryTyped, MemoryTypeOK, Present, Undermined, Valid, NoOp
  <2>2. QED BY <1>3, <2>1, MemoryFrame DEF EndRestore
<1>4. QED BY <1>1, <1>2, <1>3

LEMMA SnapshotMemory ==
    ASSUME MemoryTyped
    PROVE  /\ CreateSnapshot => MemoryTyped'
           /\ \A i \in DOMAIN snapshots : Damage(i) => MemoryTyped'
<1>0. PICK S : snapshots \in Seq(S) /\ \A s \in S : Stored(s) BY DEF MemoryTyped
<1>1. ASSUME CreateSnapshot PROVE MemoryTyped'
  <2> DEFINE s == [ids |-> found, status |-> status, refs |-> refs, wins |-> wins,
                   working |-> working, sound |-> TRUE]
             T == S \cup {s}
  <2>1. snapshots' = Append(snapshots, s) /\ op' = op /\ op = NoOp BY <1>1 DEF CreateSnapshot
  <2>2. Stored(s) BY DEF Stored, MemoryTyped, MemoryTypeOK, Present
  <2> HIDE DEF s
  <2>3. snapshots \in Seq(T) /\ s \in T BY <1>0
  <2>4. snapshots' \in Seq(T) BY <2>1, <2>3, AppendProperties
  <2>5. \A x \in T : Stored(x) BY <1>0, <2>2
  <2>6. MemoryTypeOK' BY <1>1 DEF CreateSnapshot, MemoryTyped, MemoryTypeOK, Present
  <2> HIDE DEF T
  <2>7. \E U : snapshots' \in Seq(U) /\ \A x \in U : Stored(x) BY <2>4, <2>5
  <2>8. Restoring' BY <2>1 DEF Restoring, NoOp
  <2>9. QED BY <2>1, <2>6, <2>7, <2>8 DEF MemoryTyped, Stored
<1>2. ASSUME NEW i \in DOMAIN snapshots, Damage(i) PROVE MemoryTyped'
  <2> DEFINE d == [snapshots[i] EXCEPT !.sound = FALSE]
             T == S \cup {d}
  <2>1. snapshots' = [snapshots EXCEPT ![i] = d] /\ op' = op BY <1>2 DEF Damage
  <2>2. snapshots[i] \in S /\ i \in 1 .. Len(snapshots) BY <1>0, ElementOfSeq
  <2>3. Stored(d) BY <1>0, <2>2 DEF Stored
  <2>4. /\ DOMAIN snapshots' = DOMAIN snapshots
        /\ \A k \in DOMAIN snapshots : snapshots'[k].ids = snapshots[k].ids
    BY <2>1
  <2> HIDE DEF d
  <2>5. snapshots \in Seq(T) /\ d \in T BY <1>0
  <2>6. snapshots' \in Seq(T) BY <2>1, <2>2, <2>5, ExceptSeq
  <2>7. \A x \in T : Stored(x) BY <1>0, <2>3
  <2>8. MemoryTypeOK' BY <1>2 DEF Damage, MemoryTyped, MemoryTypeOK, Present
  <2> HIDE DEF T
  <2>9. \E U : snapshots' \in Seq(U) /\ \A x \in U : Stored(x) BY <2>6, <2>7
  <2>10. Restoring' BY <2>1, <2>4 DEF Restoring, MemoryTyped
  <2>11. QED BY <2>1, <2>8, <2>9, <2>10 DEF MemoryTyped, Stored
<1>3. QED BY <1>1, <1>2

LEMMA MemoryTypes ==
    /\ MemoryInit => MemoryTyped
    /\ MemoryTyped /\ MemoryNext => MemoryTyped'
<1>1. ASSUME MemoryInit PROVE MemoryTyped
  <2>1. MemoryTypeOK BY <1>1 DEF MemoryInit, MemoryTypeOK, MemoryStatus, Present, NoOp
  <2>2. snapshots \in Seq({}) BY <1>1, EmptySeq DEF MemoryInit
  <2>3. op = NoOp BY <1>1 DEF MemoryInit
  <2>4. QED BY <2>1, <2>2, <2>3 DEF MemoryTyped, Restoring, NoOp
<1>2. ASSUME MemoryTyped, MemoryNext PROVE MemoryTyped'
  <2>1. ASSUME Crash \/ \E r \in Records : TearSave(r) PROVE MemoryTyped'
    <3>1. /\ Dies /\ found' \subseteq found
      BY <2>1 DEF Crash, TearSave
    <3>2. MemoryTypeOK'
      BY <1>2, <3>1 DEF Dies, MemoryTyped, MemoryTypeOK, Present, Undermined, Valid, NoOp
    <3>3. QED BY <1>2, <3>1, <3>2, MemoryFrame DEF Dies
  <2>2. ASSUME NEW t \in Readers, PrepareContext(t) PROVE MemoryTyped'
    <3>1. MemoryTypeOK' BY <1>2, <2>2 DEF PrepareContext, MemoryTyped, MemoryTypeOK, Present
    <3>2. QED BY <1>2, <2>2, <3>1, MemoryFrame DEF PrepareContext
  <2>3. QED
    BY <1>2, <2>1, <2>2, WriteMemory, InvalidateMemory, RestoreMemory, SnapshotMemory
    DEF MemoryNext
<1>3. QED BY <1>1, <1>2

(* What is in S stays in S, however often. *)
LEMMA Iterated ==
    ASSUME NEW S, NEW f, f[0] \in S,
           \A n \in Nat \ {0} : f[n - 1] \in S => f[n] \in S
    PROVE  \A n \in Nat : f[n] \in S
<1> SUFFICES ASSUME NEW m \in Nat, f[m] \notin S PROVE FALSE OBVIOUS
<1> DEFINE T == {n \in Nat : f[n] \notin S}
<1>1. T \in SUBSET Nat /\ T # {} OBVIOUS
<1>2. PICK x \in T : \A y \in T : x <= y
  <2> HIDE DEF T
  <2>1. QED BY <1>1, LeastNat
<1>3. x \in Nat /\ f[x] \notin S /\ x # 0 BY <1>2
<1>4. x - 1 \in Nat /\ x - 1 \notin T BY <1>2, <1>3
<1>5. f[x - 1] \in S BY <1>4
<1>6. QED BY <1>3, <1>5

(* The sequences of up to n steps of g from a. *)
Approximations(S, a, g, n) ==
    {h \in [0 .. n -> S] : h[0] = a /\ \A i \in 0 .. n : i # n => h[i + 1] = g[h[i]]}

LEMMA ApproximationsAgree ==
    ASSUME NEW S, NEW a \in S, NEW g \in [S -> S], NEW n \in Nat, NEW m \in Nat, n <= m,
           NEW h \in Approximations(S, a, g, n), NEW k \in Approximations(S, a, g, m)
    PROVE  h[n] = k[n]
<1> DEFINE T == {i \in 0 .. n : h[i] # k[i]}
<1> SUFFICES ASSUME T # {} PROVE FALSE OBVIOUS
<1>1. T \in SUBSET Nat OBVIOUS
<1>2. PICK x \in T : \A y \in T : x <= y
  <2> HIDE DEF T
  <2>1. QED BY <1>1, LeastNat
<1>3. x \in 0 .. n /\ h[x] # k[x] /\ x # 0 BY <1>2 DEF Approximations
<1>4. x - 1 \in 0 .. n /\ x - 1 \notin T /\ x - 1 # n /\ x - 1 # m BY <1>2, <1>3
<1>5. h[x - 1] = k[x - 1] BY <1>4
<1>6. h[(x - 1) + 1] = g[h[x - 1]] BY <1>4 DEF Approximations
<1>7. k[(x - 1) + 1] = g[k[x - 1]] BY <1>4 DEF Approximations
<1>8. (x - 1) + 1 = x BY <1>3
<1>9. QED BY <1>3, <1>5, <1>6, <1>7, <1>8

LEMMA ApproximationsExist ==
    ASSUME NEW S, NEW a \in S, NEW g \in [S -> S], NEW m \in Nat
    PROVE  Approximations(S, a, g, m) # {}
<1> SUFFICES ASSUME Approximations(S, a, g, m) = {} PROVE FALSE OBVIOUS
<1> DEFINE T == {n \in Nat : Approximations(S, a, g, n) = {}}
<1>1. T \in SUBSET Nat /\ T # {} OBVIOUS
<1>2. PICK x \in T : \A y \in T : x <= y
  <2> HIDE DEF T
  <2>1. QED BY <1>1, LeastNat
<1>3. x # 0
  <2>1. [i \in 0 .. 0 |-> a] \in Approximations(S, a, g, 0) BY DEF Approximations
  <2>2. QED BY <1>2, <2>1
<1>4. x \in Nat /\ x - 1 \in Nat /\ x - 1 \notin T BY <1>2, <1>3
<1>5. PICK h : h \in Approximations(S, a, g, x - 1) BY <1>4
<1> DEFINE k == [i \in 0 .. x |-> IF i = x THEN g[h[x - 1]] ELSE h[i]]
<1>6. /\ h \in [0 .. x - 1 -> S] /\ h[0] = a
      /\ \A i \in 0 .. x - 1 : i # x - 1 => h[i + 1] = g[h[i]]
  BY <1>5 DEF Approximations
<1>7. k \in [0 .. x -> S] /\ k[0] = a BY <1>3, <1>4, <1>6
<1>8. ASSUME NEW i \in 0 .. x, i # x PROVE k[i + 1] = g[k[i]] BY <1>4, <1>6, <1>8
<1>9. k \in Approximations(S, a, g, x)
  <2> HIDE DEF k
  <2>1. QED BY <1>7, <1>8 DEF Approximations
<1>10. QED BY <1>2, <1>9

(* A step from S to S can be repeated. *)
LEMMA Iterates ==
    ASSUME NEW S, NEW a \in S, NEW g \in [S -> S]
    PROVE  \E f \in [Nat -> S] : f[0] = a /\ \A n \in Nat \ {0} : f[n] = g[f[n - 1]]
<1> DEFINE one(n) == CHOOSE h \in Approximations(S, a, g, n) : TRUE
           f == [n \in Nat |-> one(n)[n]]
<1>1. ASSUME NEW n \in Nat PROVE one(n) \in Approximations(S, a, g, n)
  BY ApproximationsExist
<1> HIDE DEF one
<1>2. f \in [Nat -> S]
  <2>1. \A n \in Nat : one(n)[n] \in S BY <1>1 DEF Approximations
  <2>2. QED BY <2>1
<1>3. f[0] = a BY <1>1 DEF Approximations
<1>4. ASSUME NEW n \in Nat \ {0} PROVE f[n] = g[f[n - 1]]
  <2>1. n - 1 \in Nat /\ n - 1 \in 0 .. n /\ n - 1 # n /\ (n - 1) + 1 = n BY <1>4
  <2>2. one(n)[n] = g[one(n)[n - 1]] BY <1>1, <2>1 DEF Approximations
  <2>3. one(n - 1)[n - 1] = one(n)[n - 1]
    <3>1. one(n - 1) \in Approximations(S, a, g, n - 1) /\ one(n) \in Approximations(S, a, g, n)
      BY <1>1, <2>1
    <3>2. one(n) \in [0 .. n -> S] /\ one(n - 1) \in [0 .. n - 1 -> S]
      BY <3>1 DEF Approximations
    <3>3. QED BY <2>1, <3>1, ApproximationsAgree
  <2>4. QED BY <2>1, <2>2, <2>3
<1> HIDE DEF f
<1>5. QED BY <1>2, <1>3, <1>4

-----------------------------------------------------------------------------
(* Topology *)

Links == {c \in [source : Members, target : Members, tasks : SUBSET Jobs,
                 required : BOOLEAN, risk : BOOLEAN] : c.source # c.target}

OneOfPair(cs) == \A c, d \in cs : KeyOfEdge(c) = KeyOfEdge(d) => c = d

Assigning == [Jobs -> Members \cup {Nobody}]

LEMMA LinkOf ==
    ASSUME NEW s \in Members, NEW t \in Members, s # t, NEW tasks \in SUBSET Jobs,
           NEW required \in BOOLEAN, NEW risk \in BOOLEAN
    PROVE  Edge(s, t, tasks, required, risk) \in Links
BY DEF Edge, Links

LEMMA OfferedLinks ==
    ASSUME NEW asg \in Assigning, intents \subseteq Demands, NEW on
    PROVE  Offered(asg, on) \subseteq Links
<1>1. DependencyCandidates(asg) \subseteq Links
  <2> SUFFICES ASSUME NEW i \in Jobs, NEW j \in Jobs, Nobody \notin {asg[i], asg[j]},
                      asg[i] # asg[j]
               PROVE  Edge(asg[i], asg[j], {i, j}, TRUE, j \in HighRisk) \in Links
    BY DEF DependencyCandidates
  <2>1. asg[i] \in Members /\ asg[j] \in Members BY DEF Assigning
  <2>2. (j \in HighRisk) \in BOOLEAN /\ TRUE \in BOOLEAN /\ {i, j} \in SUBSET Jobs OBVIOUS
  <2>3. QED BY <2>1, <2>2, LinkOf
<1>2. StandbyCandidates(asg) \subseteq Links
  <2> SUFFICES ASSUME NEW i \in Jobs, NEW j \in HighRisk, NEW a \in Members, asg[i] # Nobody,
                      a # asg[i]
               PROVE  Edge(asg[i], a, {i, j}, TRUE, TRUE) \in Links
    BY DEF StandbyCandidates
  <2>1. asg[i] \in Members BY DEF Assigning
  <2>2. TRUE \in BOOLEAN /\ {i, j} \in SUBSET Jobs BY TopologyAssumption
  <2>3. QED BY <2>1, <2>2, LinkOf
<1>3. DemandCandidates \subseteq Links
  <2> SUFFICES ASSUME NEW d \in intents
               PROVE  Edge(d[1], d[2], {d[3]}, d[3] \in HighRisk, d[3] \in HighRisk) \in Links
    BY DEF DemandCandidates
  <2>1. d[1] \in Members /\ d[2] \in Members /\ d[3] \in Jobs /\ d[1] # d[2]
    BY TopologyAssumption
  <2>2. (d[3] \in HighRisk) \in BOOLEAN /\ {d[3]} \in SUBSET Jobs BY <2>1
  <2>3. QED BY <2>1, <2>2, LinkOf
<1>4. QED BY <1>1, <1>2, <1>3 DEF Offered

LEMMA MergedLinks ==
    ASSUME NEW cs \in SUBSET Links
    PROVE  Merged(cs) \in SUBSET Links /\ OneOfPair(Merged(cs))
<1> DEFINE same(k) == {c \in cs : KeyOfEdge(c) = k}
           one(k) == Edge(k[1], k[2], UNION {c.tasks : c \in same(k)},
                          \E c \in same(k) : c.required, \E c \in same(k) : c.risk)
<1>1. Merged(cs) = {one(k) : k \in {KeyOfEdge(c) : c \in cs}} BY DEF Merged
<1>2. ASSUME NEW d \in cs PROVE one(KeyOfEdge(d)) \in Links
  <2> DEFINE k == KeyOfEdge(d)
  <2>1. k[1] \in Members /\ k[2] \in Members /\ k[1] # k[2] BY DEF Links, KeyOfEdge
  <2>2. UNION {c.tasks : c \in same(k)} \in SUBSET Jobs BY DEF Links
  <2>3. (\E c \in same(k) : c.required) \in BOOLEAN /\ (\E c \in same(k) : c.risk) \in BOOLEAN
    OBVIOUS
  <2> HIDE DEF k
  <2>4. QED BY <2>1, <2>2, <2>3, LinkOf DEF k
<1>3. ASSUME NEW d \in cs PROVE KeyOfEdge(one(KeyOfEdge(d))) = KeyOfEdge(d)
  BY DEF KeyOfEdge, Edge
<1> HIDE DEF one
<1>4. QED BY <1>1, <1>2, <1>3 DEF OneOfPair

(* The way around an edge is made of edges. *)
LEMMA PathWithin ==
    ASSUME NEW cs \in SUBSET Links, NEW e \in Links
    PROVE  AlternatePath(e, cs) \subseteq cs
<1> DEFINE S == SUBSET [at : Members, path : SUBSET cs]
           start == {[at |-> e.source, path |-> {}]}
           next(known) == {[at |-> s[2].target, path |-> s[1].path \cup {s[2]}] :
                              s \in {x \in known \X cs :
                                        /\ KeyOfEdge(x[2]) # KeyOfEdge(e)
                                        /\ x[2].source = x[1].at
                                        /\ x[2].target \notin {p.at : p \in known}}}
           more(known) == known \cup {CHOOSE p \in next(known) : p.at = a :
                                         a \in {p.at : p \in next(known)}}
           g == [known \in S |-> more(known)]
           paths == CHOOSE f : f = [n \in Nat |-> IF n = 0 THEN start ELSE more(f[n - 1])]
<1>1. AlternatePath(e, cs) = UNION {p.path : p \in {q \in paths[Cardinality(Members)] :
                                                       q.at = e.target}}
  BY DEF AlternatePath
<1>2. start \in S BY DEF Links
<1>3. ASSUME NEW known \in S PROVE more(known) \in S
  <2>1. next(known) \in S
    <3> SUFFICES ASSUME NEW p \in known, NEW c \in cs
                 PROVE  [at |-> c.target, path |-> p.path \cup {c}]
                            \in [at : Members, path : SUBSET cs]
      OBVIOUS
    <3>1. c.target \in Members /\ p.path \in SUBSET cs BY DEF Links
    <3>2. QED BY <3>1
  <2> HIDE DEF next
  <2>2. \A a \in {p.at : p \in next(known)} :
            (CHOOSE p \in next(known) : p.at = a) \in next(known)
    OBVIOUS
  <2>3. QED BY <2>1, <2>2
<1>4. g \in [S -> S] BY <1>3
<1> HIDE DEF S, start, more
<1>5. PICK f \in [Nat -> S] : f[0] = start /\ \A n \in Nat \ {0} : f[n] = g[f[n - 1]]
  <2> HIDE DEF g
  <2>1. QED BY <1>2, <1>4, Iterates
<1>6. f = [n \in Nat |-> IF n = 0 THEN start ELSE more(f[n - 1])]
  <2>1. ASSUME NEW n \in Nat \ {0} PROVE f[n] = more(f[n - 1])
    <3>1. n - 1 \in Nat BY <2>1
    <3>2. f[n - 1] \in S BY <1>5, <3>1
    <3>3. QED BY <1>5, <3>2
  <2> HIDE DEF g
  <2>2. \A n \in Nat : f[n] = IF n = 0 THEN start ELSE more(f[n - 1]) BY <1>5, <2>1
  <2>3. QED BY <1>5, <2>2
<1>7. paths = [n \in Nat |-> IF n = 0 THEN start ELSE more(paths[n - 1])] BY <1>6
<1> HIDE DEF paths
<1>8. paths[0] \in S /\ \A n \in Nat \ {0} : paths[n - 1] \in S => paths[n] \in S
  BY <1>2, <1>3, <1>7
<1>9. \A n \in Nat : paths[n] \in S BY <1>8, Iterated
<1>10. Cardinality(Members) \in Nat BY TopologyAssumption, FS_CardinalityType
<1>11. QED BY <1>1, <1>9, <1>10 DEF S

LEMMA ProtectedLinks ==
    ASSUME NEW cs \in SUBSET Links
    PROVE  Protected(cs) \in SUBSET Links /\ OneOfPair(Protected(cs))
<1> DEFINE by == Merged(cs)
           ways == {<<e, AlternatePath(e, by)>> : e \in {x \in by : x.required /\ x.risk}}
           backups == UNION {w[2] : w \in ways}
           way(c) == CHOOSE w \in ways : c \in w[2]
           with(c) == Edge(c.source, c.target, c.tasks \cup way(c)[1].tasks, TRUE, TRUE)
<1>1. Protected(cs) = (by \ backups) \cup {with(c) : c \in backups} BY DEF Protected
<1>2. by \in SUBSET Links /\ OneOfPair(by) BY MergedLinks
<1> HIDE DEF by
<1>3. ASSUME NEW w \in ways PROVE w[1] \in by /\ w[2] \subseteq by
  <2>1. PICK e \in by : w = <<e, AlternatePath(e, by)>> OBVIOUS
  <2>2. QED BY <1>2, <2>1, PathWithin
<1>4. backups \subseteq by BY <1>3
<1>5. ASSUME NEW c \in backups PROVE with(c) \in Links /\ KeyOfEdge(with(c)) = KeyOfEdge(c)
  <2>1. way(c) \in ways OBVIOUS
  <2> HIDE DEF ways, way
  <2>2. way(c)[1] \in Links /\ c \in Links BY <1>2, <1>3, <1>4, <2>1
  <2>3. c.source \in Members /\ c.target \in Members /\ c.source # c.target
        /\ c.tasks \cup way(c)[1].tasks \in SUBSET Jobs
    BY <2>2 DEF Links
  <2>4. with(c) \in Links BY <2>3, LinkOf
  <2>5. QED BY <2>4 DEF KeyOfEdge, Edge
<1> HIDE DEF backups, with
<1>6. QED BY <1>1, <1>2, <1>4, <1>5 DEF OneOfPair

LEMMA Highest ==
    ASSUME NEW T, IsFiniteSet(T), T # {}, NEW rank \in [T -> Nat]
    PROVE  \E x \in T : \A y \in T : rank[y] <= rank[x]
<1>1. PICK below : below = [x \in T |-> {y \in T : rank[y] < rank[x]}] OBVIOUS
<1>2. PICK B : B = {below[x] : x \in T} OBVIOUS
<1>3. \A x \in T : below[x] \in SUBSET T BY <1>1
<1>4. B \in SUBSET (SUBSET T) /\ B # {} BY <1>2, <1>3
<1>5. PICK X \in B : \A Y \in SUBSET T : X \subseteq Y /\ X # Y => Y \notin B
  BY <1>4, Largest
<1>6. PICK x \in T : X = below[x] BY <1>2, <1>5
<1>7. ASSUME NEW y \in T, rank[x] < rank[y] PROVE FALSE
  <2>1. \A z \in T : rank[z] < rank[x] => rank[z] < rank[y] BY <1>7
  <2>2. X \subseteq below[y] BY <1>1, <1>6, <2>1
  <2>3. x \in below[y] /\ x \notin X BY <1>1, <1>6, <1>7
  <2>4. below[y] \in B /\ below[y] \in SUBSET T BY <1>2, <1>3
  <2>5. QED BY <1>5, <2>2, <2>3, <2>4
<1>8. \A y \in T : ~(rank[x] < rank[y]) => rank[y] <= rank[x] OBVIOUS
<1>9. QED BY <1>7, <1>8

(* Of some candidates, one ranks highest. *)
LEMMA BestLink ==
    ASSUME NEW cs \in SUBSET Links, cs # {}
    PROVE  \E b \in cs : \A c \in cs : Rank(c) <= Rank(b)
<1>1. PICK pairs : pairs = {KeyOfEdge(c) : c \in cs} OBVIOUS
<1>2. pairs \in SUBSET (Members \X Members) /\ pairs # {}
  <2>1. \A c \in cs : KeyOfEdge(c) \in Members \X Members BY DEF Links, KeyOfEdge
  <2>2. QED BY <1>1, <2>1
<1>3. IsFiniteSet(pairs) BY <1>2, TopologyAssumption, FS_Product, FS_Subset
<1>4. PICK rank : rank = [k \in pairs |-> Score[k]] OBVIOUS
<1>5. rank \in [pairs -> Nat] BY <1>2, <1>4, TopologyAssumption
<1>6. PICK k \in pairs : \A l \in pairs : rank[l] <= rank[k] BY <1>2, <1>3, <1>5, Highest
<1>7. PICK b \in cs : k = KeyOfEdge(b) BY <1>1
<1>8. \A c \in cs : KeyOfEdge(c) \in pairs BY <1>1
<1>9. QED BY <1>4, <1>6, <1>7, <1>8 DEF Rank

LEMMA NextBridgeLinks ==
    ASSUME NEW cs \in SUBSET Links, NEW es \in SUBSET Links, OneOfPair(es)
    PROVE  /\ NextBridge(es, cs) \in SUBSET Links
           /\ OneOfPair(es \cup NextBridge(es, cs))
<1> DEFINE bridges == Bridges(es, cs)
           best == CHOOSE b \in bridges : \A c \in bridges : Rank(c) <= Rank(b)
           bridge == [best EXCEPT !.required = TRUE]
<1>1. NextBridge(es, cs) = {} \/ (bridges # {} /\ NextBridge(es, cs) = {bridge})
  BY DEF NextBridge
<1>2. ASSUME bridges # {} PROVE best \in bridges
  <2>1. bridges \in SUBSET Links BY DEF Bridges
  <2> HIDE DEF bridges
  <2>2. QED BY <1>2, <2>1, BestLink
<1>3. ASSUME bridges # {}
      PROVE  /\ bridge \in Links
             /\ \A e \in es : KeyOfEdge(e) # KeyOfEdge(bridge)
  <2>1. best \in Links /\ \A e \in es : KeyOfEdge(e) # KeyOfEdge(best)
    BY <1>2, <1>3 DEF Bridges
  <2> HIDE DEF best
  <2>2. bridge \in Links /\ KeyOfEdge(bridge) = KeyOfEdge(best) BY <2>1 DEF Links, KeyOfEdge
  <2>3. QED BY <2>1, <2>2
<1> HIDE DEF bridge
<1>4. QED BY <1>1, <1>3 DEF OneOfPair

LEMMA RepairedLinks ==
    ASSUME NEW cs \in SUBSET Links, NEW es \in SUBSET Links, OneOfPair(es)
    PROVE  Repaired(es, cs) \in SUBSET Links /\ OneOfPair(Repaired(es, cs))
<1> DEFINE S == {b \in SUBSET Links : OneOfPair(es \cup b)}
           more(b) == b \cup NextBridge(es \cup b, cs)
           g == [b \in S |-> more(b)]
           added == CHOOSE f : f = [n \in Nat |-> IF n = 0 THEN {} ELSE more(f[n - 1])]
<1>1. Repaired(es, cs) = es \cup added[Cardinality(Members)] BY DEF Repaired
<1>2. {} \in S OBVIOUS
<1>3. ASSUME NEW b \in S PROVE more(b) \in S
  <2>1. es \cup b \in SUBSET Links /\ OneOfPair(es \cup b) OBVIOUS
  <2>2. /\ NextBridge(es \cup b, cs) \in SUBSET Links
        /\ OneOfPair((es \cup b) \cup NextBridge(es \cup b, cs))
    BY <2>1, NextBridgeLinks
  <2>3. (es \cup b) \cup NextBridge(es \cup b, cs) = es \cup more(b) OBVIOUS
  <2>4. QED BY <2>2, <2>3
<1>4. g \in [S -> S] BY <1>3
<1> HIDE DEF S, more
<1>5. PICK f \in [Nat -> S] : f[0] = {} /\ \A n \in Nat \ {0} : f[n] = g[f[n - 1]]
  <2> HIDE DEF g
  <2>1. QED BY <1>2, <1>4, Iterates
<1>6. f = [n \in Nat |-> IF n = 0 THEN {} ELSE more(f[n - 1])]
  <2>1. ASSUME NEW n \in Nat \ {0} PROVE f[n] = more(f[n - 1])
    <3>1. n - 1 \in Nat BY <2>1
    <3>2. f[n - 1] \in S BY <1>5, <3>1
    <3>3. QED BY <1>5, <3>2
  <2> HIDE DEF g
  <2>2. \A n \in Nat : f[n] = IF n = 0 THEN {} ELSE more(f[n - 1]) BY <1>5, <2>1
  <2>3. QED BY <1>5, <2>2
<1>7. added = [n \in Nat |-> IF n = 0 THEN {} ELSE more(added[n - 1])] BY <1>6
<1> HIDE DEF added
<1>8. added[0] \in S /\ \A n \in Nat \ {0} : added[n - 1] \in S => added[n] \in S
  BY <1>2, <1>3, <1>7
<1>9. \A n \in Nat : added[n] \in S BY <1>8, Iterated
<1>10. Cardinality(Members) \in Nat BY TopologyAssumption, FS_CardinalityType
<1>11. added[Cardinality(Members)] \in S BY <1>9, <1>10
<1>12. QED BY <1>1, <1>11 DEF S

(* The active edges: one of a pair, between two agents, for some tasks. *)
Wires == {e \in [source : Members, target : Members, tasks : SUBSET Jobs,
                 required : BOOLEAN, risk : BOOLEAN, held : BOOLEAN] : e.source # e.target}

EdgesTyped == edges \in SUBSET Wires /\ OneOfPair(edges)

LEMMA RebuiltTyped ==
    ASSUME EdgesTyped, intents \subseteq Demands, NEW asg \in Assigning,
           NEW on, NEW agents, NEW tasks
    PROVE  /\ Rebuilt(asg, on, agents, tasks) \in SUBSET Wires
           /\ OneOfPair(Rebuilt(asg, on, agents, tasks))
<1> DEFINE cs == Protected(Offered(asg, on))
           wanted == Repaired(Selected(cs), cs)
           region == Scope(cs, agents, tasks)
           inRegion(e) == edges = {} \/ Touches(e, region.agents, region.tasks)
           kept == {e \in edges : Ends(e) \subseteq on}
           keys == {KeyOfEdge(e) : e \in {x \in edges \cup wanted : inRegion(x)}}
           new == {c \in wanted : KeyOfEdge(c) \in keys}
           rest == {e \in kept : /\ \A c \in new : KeyOfEdge(c) # KeyOfEdge(e)
                                 /\ KeyOfEdge(e) \in keys => ~Goes(e, on)}
<1>1. Rebuilt(asg, on, agents, tasks) = {Activated(c) : c \in new} \cup rest
  BY DEF Rebuilt
<1>2. cs \in SUBSET Links /\ OneOfPair(cs) BY OfferedLinks, ProtectedLinks
<1>3. wanted \in SUBSET Links /\ OneOfPair(wanted)
  <2> HIDE DEF cs
  <2>1. Selected(cs) \subseteq cs BY DEF Selected
  <2>2. Selected(cs) \in SUBSET Links /\ OneOfPair(Selected(cs))
    BY <1>2, <2>1 DEF OneOfPair
  <2>3. QED BY <1>2, <2>2, RepairedLinks
<1>4. \A c \in Links : Activated(c) \in Wires /\ KeyOfEdge(Activated(c)) = KeyOfEdge(c)
  BY DEF Links, Activated, Wires, KeyOfEdge
<1>5. new \subseteq wanted /\ rest \subseteq edges OBVIOUS
<1>6. \A c \in new : \A e \in rest : KeyOfEdge(c) # KeyOfEdge(e) OBVIOUS
<1> HIDE DEF new, rest, wanted
<1>7. QED BY <1>1, <1>3, <1>4, <1>5, <1>6 DEF EdgesTyped, OneOfPair

(* Time only takes the holds away. *)
LEMMA HoldsTyped ==
    ASSUME EdgesTyped, edges' = {[e EXCEPT !.held = FALSE] : e \in edges}
    PROVE  EdgesTyped'
<1>1. ASSUME NEW e \in Wires
      PROVE  /\ [e EXCEPT !.held = FALSE] \in Wires
             /\ KeyOfEdge([e EXCEPT !.held = FALSE]) = KeyOfEdge(e)
  BY DEF Wires, KeyOfEdge
<1> DEFINE late(e) == [e EXCEPT !.held = FALSE]
<1>2. edges' = {late(e) : e \in edges} OBVIOUS
<1>3. \A e \in Wires : late(e) \in Wires /\ KeyOfEdge(late(e)) = KeyOfEdge(e) BY <1>1
<1> HIDE DEF late
<1>4. edges' \in SUBSET Wires BY <1>2, <1>3 DEF EdgesTyped
<1>5. ASSUME NEW c \in edges', NEW d \in edges', KeyOfEdge(c) = KeyOfEdge(d) PROVE c = d
  <2>1. PICK e \in edges : c = late(e) BY <1>2
  <2>2. PICK f \in edges : d = late(f) BY <1>2
  <2>3. e \in Wires /\ f \in Wires BY DEF EdgesTyped
  <2>4. KeyOfEdge(e) = KeyOfEdge(f) BY <1>3, <1>5, <2>1, <2>2, <2>3
  <2>5. e = f BY <2>4 DEF EdgesTyped, OneOfPair
  <2>6. QED BY <2>1, <2>2, <2>5
<1>6. QED BY <1>4, <1>5 DEF EdgesTyped, OneOfPair

TopologyTyped ==
    /\ EdgesTyped /\ online \subseteq Members /\ intents \subseteq Demands
    /\ assigned \in Assigning

LEMMA EdgesTypes ==
    ASSUME EdgesTyped, online \subseteq Members, intents \subseteq Demands
    PROVE  EdgesTypeOK
BY DEF EdgesTyped, EdgesTypeOK, Wires, OneOfPair, Ends

LEMMA TopologyTypes ==
    /\ TopologyInit => TopologyTyped
    /\ TopologyTyped /\ TopologyNext => TopologyTyped'
<1>1. TopologyInit => TopologyTyped
  BY DEF TopologyInit, TopologyTyped, EdgesTyped, OneOfPair, Assigning
<1>2. ASSUME TopologyTyped, TopologyNext PROVE TopologyTyped'
  <2>1. ASSUME NEW j \in Jobs, NEW a \in Members \cup {Nobody}, Reassign(j, a)
        PROVE  TopologyTyped'
    BY <1>2, <2>1 DEF TopologyTyped, EdgesTyped, OneOfPair, Reassign, Change, Assigning
  <2>2. ASSUME NEW a, NEW t, Rebuild(a, t) PROVE TopologyTyped'
    <3>1. EdgesTyped' BY <1>2, <2>2, RebuiltTyped DEF TopologyTyped, EdgesTyped, Rebuild
    <3>2. QED BY <1>2, <2>2, <3>1 DEF TopologyTyped, Rebuild
  <2>3. ASSUME NEW a \in Members, Flip(a) PROVE TopologyTyped'
    BY <1>2, <2>3 DEF TopologyTyped, EdgesTyped, OneOfPair, Flip, Change
  <2>4. ASSUME NEW d \in Demands, Demand(d) PROVE TopologyTyped'
    BY <1>2, <2>4 DEF TopologyTyped, EdgesTyped, OneOfPair, Demand, Change
  <2>5. CASE HoldEnds
    <3>1. EdgesTyped' BY <1>2, <2>5, HoldsTyped DEF TopologyTyped, HoldEnds
    <3>2. QED BY <1>2, <2>5, <3>1 DEF TopologyTyped, HoldEnds
  <2>6. QED BY <1>2, <2>1, <2>2, <2>3, <2>4, <2>5 DEF TopologyNext
<1>3. QED BY <1>1, <1>2
-----------------------------------------------------------------------------
(* Delivery *)

DeliveryTyped == Handed /\ EdgesTyped /\ online = Members /\ intents = {}

LEMMA DeliveryTypes ==
    /\ /\ ParentsAssigned /\ edges = {} /\ GatewayInit
       /\ online = Members /\ intents = {}
       => DeliveryTyped
    /\ DeliveryTyped /\ DeliveryNext /\ UNCHANGED AmbientVars => DeliveryTyped'
    /\ DeliveryTyped => EdgesTypeOK /\ DeliveryTypeOK
<1>1. ASSUME ParentsAssigned, edges = {}, GatewayInit, online = Members, intents = {}
      PROVE  DeliveryTyped
  BY <1>1, InitHanded DEF DeliveryInit, DeliveryTyped, EdgesTyped, OneOfPair
<1>2. ASSUME DeliveryTyped, DeliveryNext, UNCHANGED AmbientVars PROVE DeliveryTyped'
  <2>1. Handed /\ GatewayTyped /\ EdgesTyped BY <1>2 DEF DeliveryTyped, Handed
  <2>2. Handed' BY <1>2, <2>1, NextHanded
  <2>3. online' = Members /\ intents' = {} BY <1>2 DEF DeliveryTyped, AmbientVars
  <2>4. ASSUME NEW j \in Receivers, RebuildFor(j) PROVE EdgesTyped'
    <3>1. edges' = Rebuilt(worker[j].view, Members, {}, {j}) BY <2>4 DEF RebuildFor
    <3>2. worker[j].view \in Assigning BY <2>1 DEF GatewayTyped, Workers, Assigning
    <3>3. intents \subseteq Demands BY <1>2 DEF DeliveryTyped
    <3>4. QED BY <2>1, <3>1, <3>2, <3>3, RebuiltTyped DEF EdgesTyped
  <2>5. ASSUME NEW j \in Receivers, DeliveryStep(j), ~RebuildFor(j) PROVE edges' = edges
    BY <2>5
    DEF DeliveryStep, StartAttempt, Look, Offer, Mark, Write, Take, Clear, HandOver, CallAgent
  <2>6. ASSUME NEW p \in Redone, Redo(p) PROVE edges' = edges BY <2>6 DEF Redo
  <2>7. ASSUME Elapse PROVE EdgesTyped' BY <2>1, <2>7, HoldsTyped DEF Elapse
  <2>8. edges' = edges \/ EdgesTyped'
    BY <1>2, <2>4, <2>5, <2>6, <2>7 DEF DeliveryNext
  <2>9. EdgesTyped' BY <2>1, <2>8 DEF EdgesTyped, OneOfPair
  <2>10. QED BY <2>2, <2>3, <2>9 DEF DeliveryTyped
<1>3. ASSUME DeliveryTyped PROVE EdgesTypeOK /\ DeliveryTypeOK
  <2>0. GatewayTyped BY <1>3 DEF DeliveryTyped, Handed
  <2>1. EdgesTypeOK BY <1>3, EdgesTypes DEF DeliveryTyped
  <2>2. ASSUME NEW j \in Receivers
        PROVE  /\ worker[j].left \subseteq Jobs
               /\ worker[j].msgs \cup worker[j].box \subseteq Messages
    BY <2>0 DEF GatewayTyped, Workers
  <2>3. \A m \in Messages : m.to \in Members /\ m.task \in Receivers BY DEF Messages
  <2>4. \A k \in Members \X Receivers : \A i \in digest[k] : i.of \in Jobs
    BY <2>0 DEF GatewayTyped, Pieces
  <2>5. QED BY <2>0, <2>1, <2>2, <2>3, <2>4 DEF DeliveryTypeOK, GatewayTyped
<1>4. QED BY <1>1, <1>2, <1>3

-----------------------------------------------------------------------------
(* The dashboard *)

(* Telling says it all, but for the writes that were given up. *)
DashboardTyped == Telling /\ givenUp \subseteq Files \X Nat

LEMMA DashboardTypes ==
    /\ DashboardInit => DashboardTyped
    /\ DashboardTyped /\ DashboardNext => DashboardTyped'
    /\ DashboardTyped => DashboardTypeOK
<1>1. DashboardInit => DashboardTyped
  BY InitTelling DEF DashboardInit, DashboardTyped
<1>2. ASSUME DashboardTyped, DashboardNext PROVE DashboardTyped'
  <2>1. Telling' BY <1>2, NextTelling DEF DashboardTyped
  <2>2. captures \in Nat BY <1>2 DEF DashboardTyped, Telling, FilesTell
  <2>3. givenUp' = givenUp \/ \E f \in Files : givenUp' = givenUp \cup {<<f, captures>>}
    BY <1>2
    DEF DashboardNext, Transition, LeaveRounds, ReadTasks, ReadEvents, WriteFile, Overwrite,
        SkipWrite, CaptureRaises, RunCrash, FollowPointer, OpenBody, ServeBody, Reads
  <2>4. QED BY <1>2, <2>1, <2>2, <2>3 DEF DashboardTyped
<1>3. DashboardTyped => DashboardTypeOK
  BY DEF DashboardTyped, Telling, BoardLogged, CaptureTells, FilesTell, DashboardTypeOK
<1>4. QED BY <1>1, <1>2, <1>3

-----------------------------------------------------------------------------
(* The event log *)

(* A command names a task; one that carries a document is about a task of    *)
(* the run, and a snapshot is taken of one of the n events in the log.       *)
Commanded(c, n) ==
    /\ c.step \in {"rest", "bundle", "snapshot"}
    /\ c.step = "bundle" => /\ c.task \in LogTasks \cup {RunLevel} /\ c.carries \in BOOLEAN
                            /\ c.carries => c.task \in LogTasks
    /\ c.step = "snapshot" => c.task \in LogTasks /\ c.at \in 1 .. n

EventLogTyped ==
    /\ EventLogTypeOK
    /\ events \in Seq([task : LogTasks \cup {RunLevel}, carries : BOOLEAN])
    /\ DOMAIN command = Writers /\ \A w \in Writers : Commanded(command[w], Len(events))
    /\ stored \subseteq [task : LogTasks, sequence : Nat, document : Nat, sound : BOOLEAN]

LEMMA CommandTyped ==
    ASSUME EventLogTyped, NEW w \in Writers, NEW c, Commanded(c, Len(events)),
           command' = [command EXCEPT ![w] = c], UNCHANGED <<events, views, stored>>
    PROVE  EventLogTyped'
<1>1. \A v \in Writers : command'[v] = IF v = w THEN c ELSE command[v] BY DEF EventLogTyped
<1>2. \A v \in Writers : Commanded(command'[v], Len(events')) BY <1>1 DEF EventLogTyped, Commanded
<1>3. QED BY <1>2 DEF EventLogTyped, EventLogTypeOK

LEMMA AppendTyped ==
    ASSUME EventLogTyped, NEW w \in Writers, AppendBundle(w)
    PROVE  EventLogTyped'
<1> DEFINE c == command[w]
           sequence == Len(events) + 1
           row == [task |-> c.task, carries |-> c.carries]
           after == IF SnapshotDue(c, sequence)
                    THEN [step |-> "snapshot", task |-> c.task, at |-> sequence] ELSE AtRest
           Entries == [task : LogTasks \cup {RunLevel}, carries : BOOLEAN]
<1>1. /\ c.step = "bundle" /\ events' = Append(events, row)
      /\ views' = IF c.carries THEN [views EXCEPT ![c.task] = sequence] ELSE views
      /\ command' = [command EXCEPT ![w] = after] /\ stored' = stored
  BY DEF AppendBundle
<1>2. /\ c.task \in LogTasks \cup {RunLevel} /\ c.carries \in BOOLEAN
      /\ c.carries => c.task \in LogTasks
  BY <1>1 DEF EventLogTyped, Commanded
<1>3. events \in Seq(Entries) BY DEF EventLogTyped
<1>4. row \in Entries BY <1>2
<1> HIDE DEF row, Entries
<1>5. /\ events' \in Seq(Entries) /\ Len(events') = sequence /\ DOMAIN events' = 1 .. sequence
      /\ Len(events) \in Nat /\ DOMAIN events = 1 .. Len(events)
      /\ \A i \in 1 .. sequence : events'[i] \in Entries
  BY <1>1, <1>3, <1>4, AppendProperties, ElementOfSeq, LenProperties
<1>6. \A i \in DOMAIN events' : events'[i].task \in LogTasks \cup {RunLevel}
  BY <1>5 DEF Entries
<1>7. views' \in [LogTasks -> 0 .. Len(events')]
  <2>1. views \in [LogTasks -> 0 .. Len(events)] BY DEF EventLogTyped, EventLogTypeOK
  <2>2. 0 .. Len(events) \subseteq 0 .. sequence /\ sequence \in 0 .. sequence BY <1>5
  <2>3. views \in [LogTasks -> 0 .. sequence] BY <2>1, <2>2
  <2> HIDE DEF sequence
  <2>4. QED BY <1>1, <1>2, <1>5, <2>2, <2>3
<1>8. Commanded(after, Len(events'))
  <2>1. CASE SnapshotDue(c, sequence)
    <3>1. c.task \in LogTasks BY <1>2, <2>1 DEF SnapshotDue
    <3>2. sequence \in 1 .. Len(events') BY <1>5
    <3>3. QED BY <2>1, <3>1, <3>2 DEF Commanded
  <2>2. CASE ~SnapshotDue(c, sequence) BY <2>2 DEF Commanded, AtRest
  <2>3. QED BY <2>1, <2>2
<1>9. \A v \in Writers : Commanded(command'[v], Len(events'))
  <2>1. SUFFICES ASSUME NEW v \in Writers PROVE Commanded(command'[v], Len(events')) OBVIOUS
  <2>2. CASE v = w BY <1>1, <1>8, <2>2 DEF EventLogTyped
  <2>3. CASE v # w
    <3>1. command'[v] = command[v] /\ Commanded(command[v], Len(events))
      BY <1>1, <2>3 DEF EventLogTyped
    <3>2. QED BY <1>5, <3>1 DEF Commanded
  <2>4. QED BY <2>2, <2>3
<1>10. \A s \in stored : s.task \in LogTasks /\ s.sequence \in DOMAIN events'
  BY <1>5 DEF EventLogTyped, EventLogTypeOK
<1> HIDE DEF after
<1>11. DOMAIN command' = Writers BY <1>1 DEF EventLogTyped
<1>12. QED
  BY <1>1, <1>5, <1>6, <1>7, <1>9, <1>10, <1>11 DEF EventLogTyped, EventLogTypeOK, Entries

LEMMA SaveTyped ==
    ASSUME EventLogTyped, NEW w \in Writers, SaveSnapshot(w)
    PROVE  EventLogTyped'
<1> DEFINE c == command[w]
           s == [task |-> c.task, sequence |-> c.at, document |-> c.at, sound |-> TRUE]
<1>1. c.task \in LogTasks /\ c.at \in 1 .. Len(events)
  BY DEF SaveSnapshot, EventLogTyped, Commanded
<1>2. Len(events) \in Nat /\ DOMAIN events = 1 .. Len(events) BY LenProperties DEF EventLogTyped
<1>3. /\ s \in [task : LogTasks, sequence : Nat, document : Nat, sound : BOOLEAN]
      /\ s.task \in LogTasks /\ s.sequence \in DOMAIN events
  BY <1>1, <1>2
<1>4. /\ stored' = stored \cup {s} /\ command' = [command EXCEPT ![w] = AtRest]
      /\ events' = events /\ views' = views
  BY DEF SaveSnapshot
<1> HIDE DEF s
<1>5. \A v \in Writers : command'[v] = IF v = w THEN AtRest ELSE command[v]
  BY <1>4 DEF EventLogTyped
<1>6. \A v \in Writers : Commanded(command'[v], Len(events'))
  BY <1>4, <1>5 DEF EventLogTyped, Commanded, AtRest
<1>7. QED BY <1>3, <1>4, <1>6 DEF EventLogTyped, EventLogTypeOK

LEMMA EventLogTypes ==
    /\ EventLogInit => EventLogTyped
    /\ EventLogTyped /\ EventLogNext => EventLogTyped'
<1>1. ASSUME EventLogInit PROVE EventLogTyped
  BY <1>1 DEF EventLogInit, EventLogTyped, EventLogTypeOK, Commanded, AtRest, NoEvent
<1>2. ASSUME EventLogTyped, EventLogNext PROVE EventLogTyped'
  <2>1. ASSUME NEW w \in Writers, LogWriter(w) PROVE EventLogTyped'
    <3>1. CASE CreateRun(w)
      BY <1>2, <3>1, CommandTyped DEF CreateRun, Commanded
    <3>2. ASSUME NEW t \in LogTasks, CreateTask(w, t) \/ UpdateTask(w, t) \/ Tell(w, t)
          PROVE  EventLogTyped'
      BY <1>2, <3>2, CommandTyped DEF CreateTask, UpdateTask, Tell, Commanded
    <3>3. QED BY <1>2, <2>1, <3>1, <3>2, AppendTyped, SaveTyped DEF LogWriter
  <2>2. ASSUME NEW t \in LogTasks, StartReplay(t) PROVE EventLogTyped'
    BY <1>2, <2>2 DEF StartReplay, EventLogTyped, EventLogTypeOK, Commanded
  <2>3. CASE EndReplay
    BY <1>2, <2>3 DEF EndReplay, EventLogTyped, EventLogTypeOK, Commanded
  <2>4. CASE LogCrash
    BY <1>2, <2>4 DEF LogCrash, EventLogTyped, EventLogTypeOK, Commanded, AtRest
  <2>5. CASE Rot
    <3>1. PICK s \in stored :
            stored' = (stored \ {s}) \cup {[s EXCEPT !.sound = FALSE, !.document = NoEvent]}
      BY <2>5 DEF Rot
    <3> DEFINE r == [s EXCEPT !.sound = FALSE, !.document = NoEvent]
    <3>2. s \in [task : LogTasks, sequence : Nat, document : Nat, sound : BOOLEAN]
          /\ s.sequence \in DOMAIN events
      BY <1>2 DEF EventLogTyped, EventLogTypeOK
    <3>3. /\ r \in [task : LogTasks, sequence : Nat, document : Nat, sound : BOOLEAN]
          /\ r.task = s.task /\ r.sequence = s.sequence
      BY <3>2 DEF NoEvent
    <3> HIDE DEF r
    <3>4. QED
      BY <1>2, <2>5, <3>1, <3>2, <3>3 DEF Rot, EventLogTyped, EventLogTypeOK, Commanded, r
  <2>6. QED BY <1>2, <2>1, <2>2, <2>3, <2>4, <2>5 DEF EventLogNext
<1>3. QED BY <1>1, <1>2

-----------------------------------------------------------------------------
(* The planner *)

(* Evidence is invalidated by a replan, so no more often than there are some. *)
PlannerTyped ==
    /\ Planned
    /\ spec \in GoalSpecs \cup {NoSpec}
    /\ replans \in 0 .. MaxReplans
    /\ nodeStatus \in [DOMAIN defs -> {"pending", "stale", "completed", "failed"}]
    /\ epoch \in [DOMAIN defs -> 0 .. replans]

LEMMA ReplanTyped ==
    ASSUME PlannerTyped, replans < MaxReplans, NEW d, NEW changed, Replan(d, changed),
           Planned', spec' \in GoalSpecs \cup {NoSpec},
           epoch' \in [DOMAIN d -> 0 .. replans + 1]
    PROVE  PlannerTyped'
<1>1. defs' = d /\ replans' = replans + 1 BY DEF Replan
<1>2. nodeStatus' = [n \in DOMAIN d |-> nodeStatus'[n]]
  <2>1. PICK st : st = nodeStatus' OBVIOUS
  <2>2. st = [n \in DOMAIN d |-> st[n]] BY <2>1 DEF Replan
  <2>3. QED BY <2>1, <2>2
<1>3. \A n \in DOMAIN d : nodeStatus'[n] \in {"pending", "stale", "completed", "failed"}
  BY <1>1 DEF Planned
<1>4. replans' \in 0 .. MaxReplans BY <1>1, PlannerAssumption DEF PlannerTyped
<1>5. QED BY <1>1, <1>2, <1>3, <1>4 DEF PlannerTyped

LEMMA PlannerTypes ==
    /\ PlannerInit => PlannerTyped
    /\ PlannerTyped /\ PlannerNext => PlannerTyped'
    /\ PlannerTyped => PlannerTypeOK
<1>1. ASSUME PlannerInit PROVE PlannerTyped
  <2>1. Planned BY <1>1, InitPlanned
  <2>2. defs = <<>> /\ nodeStatus = <<>> /\ epoch = <<>> /\ spec = NoSpec /\ replans = 0
    BY <1>1 DEF PlannerInit
  <2>3. DOMAIN defs = {} /\ \A R : <<>> \in [{} -> R] BY <2>2
  <2>4. QED BY <2>1, <2>2, <2>3, PlannerAssumption DEF PlannerTyped
<1>2. ASSUME PlannerTyped, PlannerNext PROVE PlannerTyped'
  <2>0. Planned' BY <1>2, NextPlanned DEF PlannerTyped
  <2>1. ASSUME NEW s \in GoalSpecs, Build(s) PROVE PlannerTyped'
    <3>1. PICK d : d = Compiled(s) OBVIOUS
    <3>2. /\ replans < MaxReplans /\ replans' = replans + 1 /\ spec' = s /\ defs' = d
          /\ nodeStatus' = [n \in DOMAIN d |-> "pending"] /\ epoch' = [n \in DOMAIN d |-> 0]
      BY <2>1, <3>1 DEF Build
    <3>3. QED BY <1>2, <2>0, <3>2, PlannerAssumption DEF PlannerTyped
  <2>2. ASSUME NEW s \in GoalSpecs, UpdateSpecification(s) PROVE PlannerTyped'
    <3> DEFINE new == Compiled(s)
               added == DOMAIN new \ DOMAIN defs
               removed == DOMAIN defs \ DOMAIN new
               differing == {n \in (DOMAIN new) \cap (DOMAIN defs) : new[n] # defs[n]}
    <3>1. PICK d, changed :
             /\ d = new
             /\ changed = added \cup differing
                            \cup (AffectedClosure(defs, removed) \cap DOMAIN new)
      OBVIOUS
    <3>2. /\ replans < MaxReplans /\ Replan(d, changed) /\ spec' = s
          /\ epoch' = [n \in DOMAIN d |-> IF n \in DOMAIN d \ DOMAIN defs THEN 0 ELSE epoch[n]]
      BY <2>2, <3>1 DEF UpdateSpecification
    <3>3. \A n \in DOMAIN defs : epoch[n] \in 0 .. replans + 1
      BY <1>2 DEF PlannerTyped
    <3>4. 0 \in 0 .. replans + 1 BY <1>2 DEF PlannerTyped
    <3>5. epoch' \in [DOMAIN d -> 0 .. replans + 1] BY <3>2, <3>3, <3>4
    <3>6. QED BY <1>2, <2>0, <3>2, <3>5, ReplanTyped
  <2>3. ASSUME NEW n \in DOMAIN defs, UpdateNode(n) PROVE PlannerTyped'
    <3>1. PICK patched : /\ replans < MaxReplans
                         /\ Replan([defs EXCEPT ![n] = patched], {n})
                         /\ UNCHANGED <<spec, epoch>>
      BY <2>3 DEF UpdateNode
    <3>2. PICK d : d = [defs EXCEPT ![n] = patched] OBVIOUS
    <3>3. DOMAIN d = DOMAIN defs /\ Replan(d, {n}) BY <3>1, <3>2
    <3>4. epoch' \in [DOMAIN d -> 0 .. replans + 1]
      <4>1. 0 .. replans \subseteq 0 .. replans + 1 BY <1>2 DEF PlannerTyped
      <4>2. QED BY <1>2, <3>1, <3>3, <4>1 DEF PlannerTyped
    <3>5. spec' \in GoalSpecs \cup {NoSpec} BY <1>2, <3>1 DEF PlannerTyped
    <3>6. QED BY <1>2, <2>0, <3>1, <3>3, <3>4, <3>5, ReplanTyped
  <2>4. ASSUME NEW n \in DOMAIN defs, InvalidateNode(n) PROVE PlannerTyped'
    <3>1. /\ replans < MaxReplans /\ Replan(defs, {n}) /\ UNCHANGED spec
          /\ epoch' = [epoch EXCEPT ![n] = @ + 1]
      BY <2>4 DEF InvalidateNode
    <3>2. epoch' \in [DOMAIN defs -> 0 .. replans + 1]
      <4>1. epoch \in [DOMAIN defs -> 0 .. replans] /\ replans \in Nat BY <1>2 DEF PlannerTyped
      <4>2. epoch[n] + 1 \in 0 .. replans + 1 BY <4>1
      <4>3. \A m \in DOMAIN defs : epoch[m] \in 0 .. replans + 1 BY <4>1
      <4>4. QED BY <3>1, <4>1, <4>2, <4>3
    <3>3. spec' \in GoalSpecs \cup {NoSpec} BY <1>2, <3>1 DEF PlannerTyped
    <3>4. QED BY <1>2, <2>0, <3>1, <3>2, <3>3, ReplanTyped
  <2>5. ASSUME NEW n \in DOMAIN defs, NEW result \in {"completed", "failed"},
               SetNodeResult(n, result)
        PROVE  PlannerTyped'
    <3>1. PICK st : st = [nodeStatus EXCEPT ![n] = result] OBVIOUS
    <3>2. DOMAIN st = DOMAIN defs /\ st = [m \in DOMAIN defs |-> st[m]]
      BY <1>2, <3>1 DEF PlannerTyped
    <3>3. nodeStatus' = [m \in DOMAIN defs |-> nodeStatus'[m]]
      <4>1. PICK after : after = nodeStatus' OBVIOUS
      <4>2. CASE after = st BY <3>2, <4>1, <4>2
      <4>3. CASE after = Released(st) BY <3>2, <4>1, <4>3 DEF Released
      <4>4. QED BY <2>5, <3>1, <4>1, <4>2, <4>3 DEF SetNodeResult
    <3>4. UNCHANGED <<spec, defs, epoch, replans>> BY <2>5 DEF SetNodeResult
    <3>5. \A m \in DOMAIN defs : nodeStatus'[m] \in {"pending", "stale", "completed", "failed"}
      BY <2>0, <3>4 DEF Planned
    <3>6. QED BY <1>2, <2>0, <3>3, <3>4, <3>5 DEF PlannerTyped
  <2>6. QED BY <1>2, <2>1, <2>2, <2>3, <2>4, <2>5 DEF PlannerNext
<1>3. ASSUME PlannerTyped PROVE PlannerTypeOK
  <2>1. \A n \in DOMAIN defs : defs[n].deps \subseteq DOMAIN defs
    BY <1>3 DEF PlannerTyped, Planned, Sound
  <2>2. DOMAIN prints = DOMAIN defs
    <3>1. Gathers(defs, OwnPrint(defs), prints) BY <1>3 DEF PlannerTyped, Planned
    <3>2. PICK f : f = [n \in DOMAIN defs |->
                           OwnPrint(defs)[n] \cup UNION {prints[p] : p \in defs[n].deps}]
      OBVIOUS
    <3>3. prints = f BY <3>1, <3>2 DEF Gathers
    <3>4. QED BY <3>2, <3>3
  <2>3. epoch \in [DOMAIN defs -> 0 .. MaxReplans]
    <3>1. 0 .. replans \subseteq 0 .. MaxReplans
      BY <1>3, PlannerAssumption DEF PlannerTyped
    <3>2. QED BY <1>3, <3>1 DEF PlannerTyped
  <2>4. QED BY <1>3, <2>1, <2>2, <2>3 DEF PlannerTyped, Planned, PlannerTypeOK
<1>4. QED BY <1>1, <1>2, <1>3

LEMMA PlannerRests == PlannerTyped /\ UNCHANGED plannerVars => PlannerTyped'
<1> SUFFICES ASSUME PlannerTyped, UNCHANGED plannerVars PROVE PlannerTyped' OBVIOUS
<1>1. Planned' BY NextPlanned DEF PlannerTyped
<1>2. QED BY <1>1 DEF PlannerTyped, plannerVars

-----------------------------------------------------------------------------
(* The settings *)

FileStates == {"missing", "torn", "whole"}

FilesTyped ==
    \A s \in Stores : file[s].main.state \in FileStates /\ file[s].tmp.state \in FileStates

SecretsTyped == \A s \in Stores : secrets[s] \in [Rows[s] -> Requests \cup {None, Old}]

SettingsTyped ==
    /\ Surviving
    /\ FilesTyped /\ SecretsTyped
    /\ session \in [Providers -> Requests \cup {None, Old} \cup Environment]
    /\ server \in {"settings", "secret", "up"} /\ mixed \subseteq Stores

LEMMA FileTyped ==
    ASSUME Surviving, FilesTyped, NEW s \in Stores, NEW main, NEW tmp,
           main.state \in FileStates, tmp.state \in FileStates,
           file' = [file EXCEPT ![s] = [main |-> main, tmp |-> tmp]]
    PROVE  FilesTyped'
<1>1. Filed BY DEF Surviving
<1>2. file'[s].main = main /\ file'[s].tmp = tmp /\ \A u \in Stores \ {s} : file'[u] = file[u]
  BY <1>1, FileOf
<1>3. QED BY <1>2 DEF FilesTyped

LEMMA FilledStates ==
    /\ Missing.state \in FileStates /\ Torn.state \in FileStates
    /\ \A d : Whole(d).state \in FileStates
BY DEF FileStates, Missing, Torn, Whole

(* What the requests and the start do with the files. *)
LEMMA FilesStayTyped ==
    ASSUME SettingsTyped, SettingsNext
    PROVE  FilesTyped'
<1>0. /\ Surviving /\ FilesTyped /\ AtHome /\ Filed
  BY DEF SettingsTyped, Surviving
<1>1. CASE UNCHANGED file BY <1>0, <1>1 DEF FilesTyped
<1>2. ASSUME NEW r \in Requests, OpenTemporary(r) PROVE FilesTyped'
  <2>1. PICK s \in Stores : s = StoreOf[r] BY RowAtHome
  <2>2. file' = [file EXCEPT ![s].tmp = Torn] BY <1>2, <2>1 DEF OpenTemporary
  <2>3. PICK f : f = Torn OBVIOUS
  <2>4. file' = [file EXCEPT ![s] = [main |-> file[s].main, tmp |-> f]]
    BY <1>0, <2>2, <2>3, FileField
  <2>5. f.state \in FileStates /\ file[s].main.state \in FileStates
    BY <1>0, <2>3, FilledStates DEF FilesTyped
  <2>6. QED BY <1>0, <2>4, <2>5, FileTyped
<1>3. ASSUME NEW r \in Requests, FillTemporary(r), ~UNCHANGED file PROVE FilesTyped'
  <2>1. PICK s, d, inode : /\ s \in Stores /\ s = StoreOf[r]
                           /\ d = request[r].doc /\ inode = request[r].inode
    BY RowAtHome
  <2>2. inode \in {"tmp", "main"}
    BY <1>0, <1>3, <2>1 DEF FillTemporary, AtHome, Holding
  <2>3. PICK f \in Filled(file[s][inode], d) : file' = [file EXCEPT ![s][inode] = f]
    BY <1>3, <2>1 DEF FillTemporary
  <2>4. f.state \in FileStates
    <3>1. f = Torn \/ f = Whole(d) BY <2>3 DEF Filled
    <3>2. QED BY <3>1, FilledStates
  <2>5. file[s].main.state \in FileStates /\ file[s].tmp.state \in FileStates
    BY <1>0, <2>1 DEF FilesTyped
  <2>6. CASE inode = "tmp"
    <3>1. file' = [file EXCEPT ![s].tmp = f] BY <2>3, <2>6
    <3>2. file' = [file EXCEPT ![s] = [main |-> file[s].main, tmp |-> f]]
      BY <1>0, <2>1, <3>1, FileField
    <3>3. QED BY <1>0, <2>1, <2>4, <2>5, <3>2, FileTyped
  <2>7. CASE inode = "main"
    <3>1. file' = [file EXCEPT ![s].main = f] BY <2>3, <2>7
    <3>2. file' = [file EXCEPT ![s] = [main |-> f, tmp |-> file[s].tmp]]
      BY <1>0, <2>1, <3>1, FileField
    <3>3. QED BY <1>0, <2>1, <2>4, <2>5, <3>2, FileTyped
  <2>8. QED BY <2>2, <2>6, <2>7
<1>4. ASSUME NEW r \in Requests, Replace(r), ~UNCHANGED file PROVE FilesTyped'
  <2>1. PICK s, f : s \in Stores /\ s = StoreOf[r] /\ f = Missing BY RowAtHome
  <2>2. file' = [file EXCEPT ![s] = [main |-> file[s].tmp, tmp |-> f]]
    BY <1>4, <2>1 DEF Replace
  <2>3. file[s].tmp.state \in FileStates /\ f.state \in FileStates
    BY <1>0, <2>1, FilledStates DEF FilesTyped
  <2>4. QED BY <1>0, <2>1, <2>2, <2>3, FileTyped
<1>5. ASSUME MigrateSettings, ~UNCHANGED file PROVE FilesTyped'
  <2>1. PICK d : file' = [file EXCEPT !["providers"] = [main |-> Whole(d), tmp |-> Missing]]
    BY <1>5 DEF MigrateSettings
  <2>2. PICK s \in Stores : s = "providers" BY SettingsAssumption
  <2>3. PICK f, g : f = Whole(d) /\ g = Missing OBVIOUS
  <2>4. file' = [file EXCEPT ![s] = [main |-> f, tmp |-> g]] BY <2>1, <2>2, <2>3
  <2>5. f.state \in FileStates /\ g.state \in FileStates BY <2>3, FilledStates
  <2>6. QED BY <1>0, <2>4, <2>5, FileTyped
<1>6. CASE \/ \E r \in Requests :
                 RequestStep(r) /\ ~OpenTemporary(r) /\ ~FillTemporary(r) /\ ~Replace(r)
           \/ MigrateSecret \/ RestartServer
  <2>1. UNCHANGED file
    BY <1>6
    DEF RequestStep, MigrateSecret, RestartServer, StartRequest, WriteSecret, KeepSecret,
        LookUpKey, Cache, ReadDocument, DropPassword, TakePassword, ForgetKey, EraseKey
  <2>2. QED BY <1>1, <2>1
<1>7. QED BY <1>1, <1>2, <1>3, <1>4, <1>5, <1>6 DEF SettingsNext

LEMMA SecretTyped ==
    ASSUME AtHome, SecretsTyped, NEW s \in Stores, NEW i, NEW key \in Requests \cup {None, Old},
           secrets' = [secrets EXCEPT ![s][i] = key]
    PROVE  SecretsTyped'
<1>1. secrets' = [secrets EXCEPT ![s] = [secrets[s] EXCEPT ![i] = key]] OBVIOUS
<1>2. \A t \in Stores : secrets'[t] = IF t = s THEN [secrets[s] EXCEPT ![i] = key] ELSE secrets[t]
  BY <1>1 DEF AtHome
<1>3. [secrets[s] EXCEPT ![i] = key] \in [Rows[s] -> Requests \cup {None, Old}]
  BY DEF SecretsTyped
<1>4. QED BY <1>2, <1>3 DEF SecretsTyped

LEMMA SecretsStayTyped ==
    ASSUME SettingsTyped, SettingsNext
    PROVE  SecretsTyped'
<1>0. AtHome /\ SecretsTyped BY DEF SettingsTyped, Surviving
<1>1. CASE UNCHANGED secrets BY <1>0, <1>1 DEF SecretsTyped
<1>2. ASSUME NEW r \in Requests, KeepSecret(r) PROVE SecretsTyped'
  BY <1>0, <1>2, RowAtHome, SecretTyped DEF KeepSecret
<1>3. ASSUME NEW r \in Requests, DropPassword(r) PROVE SecretsTyped'
  BY <1>0, <1>3, SettingsAssumption, SecretTyped DEF DropPassword
<1>4. ASSUME NEW r \in Requests, EraseKey(r) PROVE SecretsTyped'
  BY <1>0, <1>4, SettingsAssumption, SecretTyped DEF EraseKey
<1>5. ASSUME MigrateSecret, ~UNCHANGED secrets PROVE SecretsTyped'
  <2>1. secrets' = [secrets EXCEPT !["providers"][Legacy] = Old] BY <1>5 DEF MigrateSecret
  <2>2. QED BY <1>0, <2>1, SettingsAssumption, SecretTyped
<1>6. CASE \/ \E r \in Requests :
                 RequestStep(r) /\ ~KeepSecret(r) /\ ~DropPassword(r) /\ ~EraseKey(r)
           \/ MigrateSettings \/ RestartServer
  <2>1. UNCHANGED secrets
    BY <1>6
    DEF RequestStep, MigrateSettings, RestartServer, StartRequest, WriteSecret,
        LookUpKey, Cache, ReadDocument, OpenTemporary, FillTemporary, Replace, TakePassword,
        ForgetKey
  <2>2. QED BY <1>1, <2>1
<1>7. QED BY <1>1, <1>2, <1>3, <1>4, <1>5, <1>6 DEF SettingsNext

LEMMA KeysAreTyped == \A i : KeysOf(i) \subseteq Requests \cup {None, Old} \cup Environment
BY SettingsAssumption DEF KeysOf

LEMMA SessionStaysTyped ==
    ASSUME SettingsTyped, SettingsNext, AtHome'
    PROVE  session' \in [Providers -> Requests \cup {None, Old} \cup Environment]
<1> DEFINE Keyring == Requests \cup {None, Old} \cup Environment
<1>1. session \in [Providers -> Keyring] BY DEF SettingsTyped
<1>2. session' = [i \in Providers |-> session'[i]]
  <2>1. ASSUME NEW i, NEW key, session' = [session EXCEPT ![i] = key]
        PROVE  session' = [j \in Providers |-> session'[j]]
    BY <1>1, <2>1
  <2>2. CASE UNCHANGED session BY <1>1, <2>2
  <2>3. ASSUME NEW r \in Requests, RequestStep(r), ~UNCHANGED session
        PROVE  \E i, key : session' = [session EXCEPT ![i] = key]
    <3>1. CASE WriteSecret(r) BY <2>3, <3>1 DEF WriteSecret
    <3>2. CASE Cache(r) BY <2>3, <3>2 DEF Cache
    <3>3. CASE ForgetKey(r) BY <2>3, <3>3 DEF ForgetKey
    <3>4. QED
      BY <2>3, <3>1, <3>2, <3>3
      DEF RequestStep, StartRequest, KeepSecret, LookUpKey, ReadDocument, OpenTemporary,
          FillTemporary, Replace, DropPassword, TakePassword, EraseKey
  <2>4. CASE RestartServer BY <2>4 DEF RestartServer, Providers
  <2>5. QED BY <2>1, <2>2, <2>3, <2>4 DEF SettingsNext, MigrateSettings, MigrateSecret
<1>3. \A i \in Providers : session'[i] \in KeysOf(i)
  <2>1. PICK S : S = session' OBVIOUS
  <2>2. \A i \in Providers : S[i] \in KeysOf(i) BY <2>1 DEF AtHome, KeysOf
  <2>3. QED BY <2>1, <2>2
<1>4. \A i \in Providers : session'[i] \in Keyring BY <1>3, KeysAreTyped
<1> HIDE DEF Keyring
<1>5. session' \in [Providers -> Keyring] BY <1>2, <1>4
<1>6. QED BY <1>5 DEF Keyring

LEMMA SettingsTypes ==
    /\ SettingsInit => SettingsTyped
    /\ SettingsTyped /\ SettingsNext => SettingsTyped'
    /\ SettingsTyped => SettingsTypeOK
<1>1. ASSUME SettingsInit PROVE SettingsTyped
  <2>1. Surviving BY <1>1, InitSurviving
  <2>2. FilesTyped BY <1>1 DEF SettingsInit, FilesTyped, FileStates, Missing
  <2>3. SecretsTyped BY <1>1 DEF SettingsInit, SecretsTyped
  <2>4. QED BY <1>1, <2>1, <2>2, <2>3 DEF SettingsInit, SettingsTyped, Providers
<1>2. ASSUME SettingsTyped, SettingsNext PROVE SettingsTyped'
  <2>1. Surviving' BY <1>2, NextSurviving DEF SettingsTyped
  <2>2. FilesTyped' /\ SecretsTyped' BY <1>2, FilesStayTyped, SecretsStayTyped
  <2>3. session' \in [Providers -> Requests \cup {None, Old} \cup Environment]
    <3>1. AtHome' BY <2>1 DEF Surviving
    <3>2. QED BY <1>2, <3>1, SessionStaysTyped
  <2>4. server' \in {"settings", "secret", "up"} /\ mixed' \subseteq Stores
    BY <1>2, SettingsAssumption
    DEF SettingsTyped, SettingsNext, RequestStep, MigrateSettings, MigrateSecret, RestartServer,
        StartRequest, WriteSecret, KeepSecret, LookUpKey, Cache, ReadDocument, OpenTemporary,
        FillTemporary, Replace, DropPassword, TakePassword, ForgetKey, EraseKey
  <2>5. QED BY <2>1, <2>2, <2>3, <2>4 DEF SettingsTyped, Providers
<1>3. ASSUME SettingsTyped PROVE SettingsTypeOK
  BY <1>3
  DEF SettingsTyped, Surviving, Apart, FilesTyped, FileStates, SecretsTyped, Providers,
      SettingsTypeOK
<1>4. QED BY <1>1, <1>2, <1>3

LEMMA SettingsRests == SettingsTyped /\ UNCHANGED settingsVars => SettingsTyped'
<1> SUFFICES ASSUME SettingsTyped, UNCHANGED settingsVars PROVE SettingsTyped' OBVIOUS
<1>1. Surviving' BY NextSurviving DEF SettingsTyped
<1>2. QED BY <1>1 DEF SettingsTyped, FilesTyped, SecretsTyped, settingsVars

-----------------------------------------------------------------------------
(* Authenticity *)

Bounded(ch, pl) ==
    \A c \in Chores : ch[c].attempt <= MaxAttempts /\ pl[c].tries <= HttpRetries

AuthenticityTyped ==
    /\ Attributed
    /\ reserved \subseteq DOMAIN bound
    /\ Bounded(chore, planned)

(* As long as all tasks together have attempts left, each of them has.       *)
LEMMA AttemptsLeft ==
    ASSUME Attributed, AttemptsSoFar < MaxAttempts, NEW c \in Chores
    PROVE  chore[c].attempt < MaxAttempts
<1> DEFINE S == {x \in Chores \X (1 .. MaxAttempts) : x[2] <= chore[x[1]].attempt}
           T == {c} \X (1 .. MaxAttempts)
<1>1. MaxAttempts \in Nat /\ IsFiniteSet(Chores) BY AuthenticityAssumption
<1>2. chore[c].attempt \in Nat BY DEF Attributed
<1>3. SUFFICES ASSUME chore[c].attempt >= MaxAttempts PROVE FALSE BY <1>1, <1>2
<1>4. IsFiniteSet(1 .. MaxAttempts) /\ Cardinality(1 .. MaxAttempts) = MaxAttempts
  BY <1>1, FS_Interval
<1>5. IsFiniteSet({c}) /\ Cardinality({c}) = 1 BY FS_Singleton
<1>6. Cardinality(T) = 1 * MaxAttempts BY <1>4, <1>5, FS_Product
<1>7. IsFiniteSet(Chores \X (1 .. MaxAttempts)) BY <1>1, <1>4, FS_Product
<1>8. S \in SUBSET (Chores \X (1 .. MaxAttempts)) OBVIOUS
<1>9. \A x \in T : x \in S BY <1>1, <1>2, <1>3
<1> HIDE DEF S, T
<1>10. IsFiniteSet(S) BY <1>7, <1>8, FS_Subset
<1>11. T \in SUBSET S BY <1>9
<1>12. Cardinality(T) <= Cardinality(S) BY <1>10, <1>11, FS_Subset
<1>13. Cardinality(S) \in Nat BY <1>10, FS_CardinalityType
<1>14. Cardinality(S) < MaxAttempts BY DEF AttemptsSoFar, S
<1>15. QED BY <1>1, <1>6, <1>12, <1>13, <1>14

(* A task keeps its attempts while its worker is at it, or gives it back.    *)
LEMMA StepBounded ==
    ASSUME Attributed, Bounded(chore, planned), NEW c \in Chores, NEW row, NEW p,
           chore' = [chore EXCEPT ![c] = row], row.attempt <= MaxAttempts,
           planned' = [planned EXCEPT ![c] = p], p.tries <= HttpRetries
    PROVE  Bounded(chore, planned)'
<1>1. DOMAIN chore = Chores /\ DOMAIN planned = Chores BY DEF Attributed
<1>2. \A x \in Chores : /\ chore'[x] = IF x = c THEN row ELSE chore[x]
                        /\ planned'[x] = IF x = c THEN p ELSE planned[x]
  BY <1>1
<1>3. QED BY <1>2 DEF Bounded

LEMMA NextBounded ==
    ASSUME AuthenticityTyped, AuthenticityNext
    PROVE  Bounded(chore, planned)'
<1>0. /\ Attributed /\ Bounded(chore, planned)
      /\ DOMAIN chore = Chores /\ DOMAIN planned = Chores
      /\ {MaxAttempts, HttpRetries} \subseteq Nat
  BY AuthenticityAssumption DEF AuthenticityTyped, Attributed
<1>1. \A c \in Chores :
         /\ chore[c] \in [state : Steps, actor : DOMAIN bound \cup {NoActor}, attempt : Nat]
         /\ planned[c] \in Plans
         /\ chore[c].attempt <= MaxAttempts /\ planned[c].tries <= HttpRetries
  BY <1>0 DEF Attributed, Bounded, Plans
<1>2. Unplanned.tries <= HttpRetries BY <1>0 DEF Unplanned
<1>3. ASSUME NEW c \in Chores, AttemptFails(c) PROVE Bounded(chore, planned)'
  <2>1. PICK row, p : /\ chore' = [chore EXCEPT ![c] = row]
                      /\ \/ row = [chore[c] EXCEPT !.state = "ready", !.actor = NoActor]
                         \/ row = [chore[c] EXCEPT !.state = "failed"]
                      /\ p = Unplanned
    BY <1>3 DEF AttemptFails
  <2>2. row.attempt = chore[c].attempt BY <1>1, <2>1
  <2>3. planned' = [planned EXCEPT ![c] = p] BY <1>3, <2>1 DEF AttemptFails
  <2>4. QED BY <1>0, <1>1, <1>2, <2>1, <2>2, <2>3, StepBounded
<1>4. ASSUME NEW c \in Chores, NEW calls, TakePlan(c, calls) PROVE Bounded(chore, planned)'
  <2>1. PICK row, p : /\ row = [chore[c] EXCEPT !.state = "calling"]
                      /\ p = [Unplanned EXCEPT !.calls = calls]
    OBVIOUS
  <2>2. row.attempt = chore[c].attempt /\ p.tries = Unplanned.tries
    BY <1>1, <2>1 DEF Unplanned
  <2>3. chore' = [chore EXCEPT ![c] = row] /\ planned' = [planned EXCEPT ![c] = p]
    BY <1>4, <2>1 DEF TakePlan
  <2>4. QED BY <1>0, <1>1, <1>2, <2>2, <2>3, StepBounded
<1>5. ASSUME NEW c \in Chores, NEW a, AssignTo(c, a) PROVE Bounded(chore, planned)'
  <2>1. PICK row, p : /\ row = [state |-> "assigned", actor |-> a,
                               attempt |-> chore[c].attempt + 1]
                      /\ p = planned[c]
    OBVIOUS
  <2>2. chore[c].attempt < MaxAttempts BY <1>0, <1>5, AttemptsLeft DEF AssignTo
  <2>3. row.attempt <= MaxAttempts BY <1>0, <1>1, <2>1, <2>2
  <2>4. chore' = [chore EXCEPT ![c] = row] BY <1>5, <2>1 DEF AssignTo
  <2>5. planned = [planned EXCEPT ![c] = p] /\ planned' = planned
    BY <1>0, <1>5, <2>1 DEF AssignTo, Attributed
  <2>6. QED BY <1>0, <1>1, <2>1, <2>3, <2>4, <2>5, StepBounded
<1>6. ASSUME NEW c \in Chores, BeginPlan(c) PROVE Bounded(chore, planned)'
  <2>1. PICK row, p : /\ row = [chore[c] EXCEPT !.state = "planning"]
                      /\ p = [planned[c] EXCEPT !.by = bound[chore[c].actor]]
    OBVIOUS
  <2>2. row.attempt = chore[c].attempt /\ p.tries = planned[c].tries BY <1>1, <2>1 DEF Plans
  <2>3. chore' = [chore EXCEPT ![c] = row] /\ planned' = [planned EXCEPT ![c] = p]
    BY <1>6, <2>1 DEF BeginPlan
  <2>4. QED BY <1>0, <1>1, <2>2, <2>3, StepBounded
<1>7. ASSUME NEW c \in Chores, TryAgain(c) PROVE Bounded(chore, planned)'
  <2>1. PICK row, p : /\ row = chore[c]
                      /\ p = [planned[c] EXCEPT !.tries = planned[c].tries + 1]
    OBVIOUS
  <2>2. p.tries = planned[c].tries + 1 /\ planned[c].tries \in Nat BY <1>1, <2>1 DEF Plans
  <2>3. p.tries <= HttpRetries BY <1>0, <1>7, <2>2 DEF TryAgain
  <2>4. planned' = [planned EXCEPT ![c] = p] BY <1>7, <2>1 DEF TryAgain
  <2>5. chore = [chore EXCEPT ![c] = row] /\ chore' = chore
    BY <1>0, <1>7, <2>1 DEF TryAgain, Attributed
  <2>6. QED BY <1>0, <1>1, <2>1, <2>3, <2>4, <2>5, StepBounded
<1>8. ASSUME NEW c \in Chores, ExecuteCall(c) PROVE Bounded(chore, planned)'
  <2>1. CASE AttemptFails(c) BY <1>3, <2>1
  <2>2. ASSUME NEW success \in BOOLEAN, chore' = chore,
               planned' = [planned EXCEPT ![c].calls = Tail(@), ![c].sound = @ /\ success]
        PROVE  Bounded(chore, planned)'
    <3>1. PICK row, p : /\ row = chore[c]
                        /\ planned' = [planned EXCEPT ![c] = p]
                        /\ p.tries = planned[c].tries
      <4> DEFINE p == [planned[c] EXCEPT !.calls = Tail(@), !.sound = @ /\ success]
      <4>1. planned' = [planned EXCEPT ![c] = p] BY <2>2
      <4>2. p.tries = planned[c].tries BY <1>1 DEF Plans
      <4> HIDE DEF p
      <4>3. QED BY <4>1, <4>2
    <3>2. chore = [chore EXCEPT ![c] = row] BY <1>0, <3>1 DEF Attributed
    <3>3. QED BY <1>0, <1>1, <2>2, <3>1, <3>2, StepBounded
  <2>3. QED BY <1>8, <2>1, <2>2 DEF ExecuteCall
<1>9. ASSUME NEW c \in Chores, VerifyChore(c) PROVE Bounded(chore, planned)'
  <2>1. CASE AttemptFails(c) BY <1>3, <2>1
  <2>2. CASE /\ chore' = [chore EXCEPT ![c].state = "done"]
             /\ planned' = [planned EXCEPT ![c] = Unplanned]
    <3>1. PICK row, p : row = [chore[c] EXCEPT !.state = "done"] /\ p = Unplanned OBVIOUS
    <3>2. row.attempt = chore[c].attempt BY <1>1, <3>1
    <3>3. chore' = [chore EXCEPT ![c] = row] /\ planned' = [planned EXCEPT ![c] = p]
      BY <2>2, <3>1
    <3>4. QED BY <1>0, <1>1, <1>2, <3>1, <3>2, <3>3, StepBounded
  <2>3. QED BY <1>9, <2>1, <2>2 DEF VerifyChore
<1>10. ASSUME NEW c \in Chores, TakeAnswer(c) \/ PlanRaises(c) \/ PlanWithoutProvider(c)
       PROVE  Bounded(chore, planned)'
  <2>1. AttemptFails(c) \/ \E calls : TakePlan(c, calls)
    BY <1>10 DEF TakeAnswer, PlanRaises, PlanWithoutProvider
  <2>2. QED BY <1>3, <1>4, <2>1
<1>11. ASSUME NEW a, NEW d, RegisterAgain(a, d) PROVE Bounded(chore, planned)'
  BY <1>0, <1>11 DEF RegisterAgain, Bounded
<1>12. QED
  BY <1>5, <1>6, <1>7, <1>8, <1>9, <1>10, <1>11 DEF AuthenticityNext

LEMMA AuthenticityTypes ==
    /\ AuthenticityInit => AuthenticityTyped
    /\ AuthenticityTyped /\ AuthenticityNext => AuthenticityTyped'
    /\ AuthenticityTyped => AuthenticityTypeOK
<1>1. ASSUME AuthenticityInit PROVE AuthenticityTyped
  <2>1. Attributed BY <1>1, InitAttributed
  <2>2. reserved \subseteq DOMAIN bound
    BY <1>1 DEF AuthenticityInit, Pool, OnDevice
  <2>3. Bounded(chore, planned)
    <3>1. \A c \in Chores : chore[c].attempt = 0 /\ planned[c].tries = 0
      BY <1>1 DEF AuthenticityInit, Unplanned
    <3>2. MaxAttempts \in Nat /\ HttpRetries \in Nat BY AuthenticityAssumption
    <3>3. 0 <= MaxAttempts /\ 0 <= HttpRetries BY <3>2
    <3>4. QED BY <3>1, <3>3 DEF Bounded
  <2>4. QED BY <2>1, <2>2, <2>3 DEF AuthenticityTyped
<1>2. ASSUME AuthenticityTyped, AuthenticityNext PROVE AuthenticityTyped'
  <2>1. Attributed' BY <1>2, NextAttributed DEF AuthenticityTyped
  <2>2. Bounded(chore, planned)' BY <1>2, NextBounded
  <2>3. reserved' \subseteq DOMAIN bound'
    <3>1. CASE UNCHANGED <<bound, reserved>> BY <1>2, <3>1 DEF AuthenticityTyped
    <3>2. ASSUME NEW a, NEW d, RegisterAgain(a, d) PROVE reserved' \subseteq DOMAIN bound'
      BY <1>2, <3>2 DEF AuthenticityTyped, RegisterAgain
    <3>3. QED
      BY <1>2, <3>1, <3>2
      DEF AuthenticityNext, AssignTo, BeginPlan, TryAgain, TakeAnswer, PlanRaises,
          PlanWithoutProvider, ExecuteCall, VerifyChore
  <2>4. QED BY <2>1, <2>2, <2>3 DEF AuthenticityTyped, Bounded
<1>3. ASSUME AuthenticityTyped PROVE AuthenticityTypeOK
  <2>1. {MaxAttempts, HttpRetries} \subseteq Nat BY AuthenticityAssumption
  <2>2. QED BY <1>3, <2>1 DEF AuthenticityTyped, Attributed, Bounded, Steps, AuthenticityTypeOK
<1>4. QED BY <1>1, <1>2, <1>3

LEMMA AuthenticityRests == AuthenticityTyped /\ UNCHANGED authVars => AuthenticityTyped'
<1> SUFFICES ASSUME AuthenticityTyped, UNCHANGED authVars PROVE AuthenticityTyped' OBVIOUS
<1>1. Attributed' BY NextAttributed DEF AuthenticityTyped
<1>2. QED BY <1>1 DEF AuthenticityTyped, Bounded, authVars

-----------------------------------------------------------------------------
(* All of them *)

LEMMA ToolRests == ToolTyped /\ UNCHANGED toolVars => ToolTyped'
BY DEF ToolTyped, ToolTypeOK, toolVars

LEMMA MemoryRests == MemoryTyped /\ UNCHANGED memoryVars => MemoryTyped'
BY DEF MemoryTyped, MemoryTypeOK, Restoring, Present, Stored, memoryVars

LEMMA TopologyRests == TopologyTyped /\ UNCHANGED topologyVars => TopologyTyped'
BY DEF TopologyTyped, EdgesTyped, OneOfPair, topologyVars

LEMMA DeliveryRests ==
    DeliveryTyped /\ UNCHANGED <<topologyVars, deliveryVars>> => DeliveryTyped'
<1> SUFFICES ASSUME DeliveryTyped, UNCHANGED <<topologyVars, deliveryVars>>
             PROVE  DeliveryTyped'
  OBVIOUS
<1>1. Handed' BY NextHanded DEF DeliveryTyped
<1>2. QED BY <1>1 DEF DeliveryTyped, EdgesTyped, OneOfPair, topologyVars

LEMMA ControlRests == ControlTyped /\ UNCHANGED controlVars => ControlTyped'
<1> SUFFICES ASSUME ControlTyped, UNCHANGED controlVars PROVE ControlTyped' OBVIOUS
<1>1. Mail' /\ Status' BY NextMail, NextStatus DEF ControlTyped
<1>2. QED BY <1>1 DEF ControlTyped, controlVars

LEMMA DashboardRests == DashboardTyped /\ UNCHANGED dashboardVars => DashboardTyped'
<1> SUFFICES ASSUME DashboardTyped, UNCHANGED dashboardVars PROVE DashboardTyped' OBVIOUS
<1>1. Telling' BY NextTelling DEF DashboardTyped
<1>2. QED BY <1>1 DEF DashboardTyped, dashboardVars

LEMMA EventLogRests == EventLogTyped /\ UNCHANGED eventLogVars => EventLogTyped'
BY DEF EventLogTyped, EventLogTypeOK, Commanded, eventLogVars

LEMMA GoalSpecRests == GoalSpecTypeOK /\ UNCHANGED goalVars => GoalSpecTypeOK'
BY DEF GoalSpecTypeOK, goalVars

(* The service that moves is typed; the types of the others are not asked.   *)
ServicesTyped ==
    /\ part = "tools" => ToolTyped
    /\ part = "memory" => MemoryTyped
    /\ part = "topology" => TopologyTyped
    /\ part = "delivery" => DeliveryTyped
    /\ part = "control" => ControlTyped
    /\ part = "planner" => PlannerTyped
    /\ part = "dashboard" => DashboardTyped
    /\ part = "log" => EventLogTyped
    /\ part = "settings" => SettingsTyped
    /\ part = "goalspec" => GoalSpecTypeOK
    /\ part = "authenticity" => AuthenticityTyped

LEMMA InitServices == ServicesInit => ServicesTyped
<1> SUFFICES ASSUME ServicesInit PROVE ServicesTyped OBVIOUS
<1>1. part = "delivery" => DeliveryTyped
  <2> SUFFICES ASSUME part = "delivery" PROVE DeliveryTyped OBVIOUS
  <2>1. ParentsAssigned /\ edges = {} /\ GatewayInit /\ online = Members /\ intents = {}
    BY DEF ServicesInit
  <2>2. QED BY <2>1, DeliveryTypes
<1>2. part = "topology" => TopologyTyped BY TopologyTypes DEF ServicesInit
<1>3. ToolTyped /\ MemoryTyped BY ToolTypes, MemoryTypes DEF ServicesInit
<1>4. ControlTyped /\ PlannerTyped /\ DashboardTyped /\ EventLogTyped
  BY ControlTypes, PlannerTypes, DashboardTypes, EventLogTypes DEF ServicesInit
<1>5. part = "settings" => SettingsTyped BY SettingsTypes DEF ServicesInit
<1>6. part = "goalspec" => GoalSpecTypeOK BY GoalSpecTypes DEF ServicesInit
<1>7. part = "authenticity" => AuthenticityTyped BY AuthenticityTypes DEF ServicesInit
<1>8. QED BY <1>1, <1>2, <1>3, <1>4, <1>5, <1>6, <1>7 DEF ServicesTyped

LEMMA NextServices ==
    ASSUME ServicesTyped, [ServicesNext]_servicesVars
    PROVE  ServicesTyped'
<1>1. CASE UNCHANGED servicesVars
  <2>1. /\ part' = part /\ UNCHANGED toolVars /\ UNCHANGED memoryVars
        /\ UNCHANGED topologyVars /\ UNCHANGED deliveryVars /\ UNCHANGED controlVars
        /\ UNCHANGED plannerVars /\ UNCHANGED dashboardVars /\ UNCHANGED eventLogVars
        /\ UNCHANGED settingsVars /\ UNCHANGED goalVars /\ UNCHANGED authVars
    BY <1>1 DEF servicesVars
  <2>2. QED
    BY <2>1, ToolRests, MemoryRests, TopologyRests, DeliveryRests, ControlRests, PlannerRests,
       DashboardRests, EventLogRests, SettingsRests, GoalSpecRests, AuthenticityRests
    DEF ServicesTyped
<1>2. CASE Tools_
  <2>1. ToolTyped' BY <1>2, ToolTypes DEF Tools_, OnlyMoves, ServicesTyped
  <2>2. QED BY <1>2, <2>1 DEF Tools_, OnlyMoves, ServicesTyped
<1>3. CASE Rpc_ BY <1>3 DEF Rpc_, OnlyMoves, ServicesTyped
<1>4. CASE Memory_
  <2>1. MemoryTyped' BY <1>4, MemoryTypes DEF Memory_, OnlyMoves, ServicesTyped
  <2>2. QED BY <1>4, <2>1 DEF Memory_, OnlyMoves, ServicesTyped
<1>5. CASE Topology_
  <2>1. TopologyTyped' BY <1>5, TopologyTypes DEF Topology_, OnlyMoves, ServicesTyped
  <2>2. QED BY <1>5, <2>1 DEF Topology_, OnlyMoves, ServicesTyped
<1>6. CASE Delivery_
  <2>1. DeliveryTyped' BY <1>6, DeliveryTypes DEF Delivery_, OnlyMoves, ServicesTyped
  <2>2. QED BY <1>6, <2>1 DEF Delivery_, OnlyMoves, ServicesTyped
<1>7. CASE Control_
  <2>1. ControlTyped' BY <1>7, ControlTypes DEF Control_, OnlyMoves, ServicesTyped
  <2>2. QED BY <1>7, <2>1 DEF Control_, OnlyMoves, ServicesTyped
<1>8. CASE Planner_
  <2>1. PlannerTyped' BY <1>8, PlannerTypes DEF Planner_, OnlyMoves, ServicesTyped
  <2>2. QED BY <1>8, <2>1 DEF Planner_, OnlyMoves, ServicesTyped
<1>9. CASE Dashboard_
  <2>1. DashboardTyped' BY <1>9, DashboardTypes DEF Dashboard_, OnlyMoves, ServicesTyped
  <2>2. QED BY <1>9, <2>1 DEF Dashboard_, OnlyMoves, ServicesTyped
<1>10. CASE Log_
  <2>1. EventLogTyped' BY <1>10, EventLogTypes DEF Log_, OnlyMoves, ServicesTyped
  <2>2. QED BY <1>10, <2>1 DEF Log_, OnlyMoves, ServicesTyped
<1>11. CASE Settings_
  <2>1. SettingsTyped' BY <1>11, SettingsTypes DEF Settings_, OnlyMoves, ServicesTyped
  <2>2. QED BY <1>11, <2>1 DEF Settings_, OnlyMoves, ServicesTyped
<1>12. CASE GoalSpec_
  <2>1. GoalSpecTypeOK' BY <1>12, GoalSpecTypes DEF GoalSpec_, OnlyMoves, ServicesTyped
  <2>2. QED BY <1>12, <2>1 DEF GoalSpec_, OnlyMoves, ServicesTyped
<1>13. CASE Authentic_
  <2>1. AuthenticityTyped' BY <1>13, AuthenticityTypes DEF Authentic_, OnlyMoves, ServicesTyped
  <2>2. QED BY <1>13, <2>1 DEF Authentic_, OnlyMoves, ServicesTyped
<1>14. QED
  BY <1>1, <1>2, <1>3, <1>4, <1>5, <1>6, <1>7, <1>8, <1>9, <1>10, <1>11, <1>12, <1>13
  DEF ServicesNext

(* Whatever the work, the records, the agents, the requests and the bounds,  *)
(* every variable of a service holds a value of its type: no thread, file,   *)
(* edge, count or answer of these programs leaves the values they are        *)
(* written for.                                                             *)
THEOREM ServicesTypes == ServicesSpec => []ServicesTypeOK
<1>1. ASSUME ServicesTyped PROVE ServicesTypeOK
  <2>1. ToolTyped => ToolTypeOK BY DEF ToolTyped
  <2>2. MemoryTyped => MemoryTypeOK BY DEF MemoryTyped
  <2>3. TopologyTyped => EdgesTypeOK BY EdgesTypes DEF TopologyTyped
  <2>4. EventLogTyped => EventLogTypeOK BY DEF EventLogTyped
  <2>5. QED
    BY <1>1, <2>1, <2>2, <2>3, <2>4, DeliveryTypes, ControlTypes, PlannerTypes, DashboardTypes,
       SettingsTypes, AuthenticityTypes
    DEF ServicesTyped, ServicesTypeOK
<1>2. QED BY <1>1, InitServices, NextServices, PTL DEF ServicesSpec
=============================================================================

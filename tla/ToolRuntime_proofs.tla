------------------------- MODULE ToolRuntime_proofs -------------------------
(***************************************************************************)
(* The idempotency claims, the verdicts and the injected faults of          *)
(* ToolRuntime, for every set of tasks, tools, plans and remote keys, and    *)
(* every number of faults, retries and crashes.                             *)
(***************************************************************************)
EXTENDS ToolRuntime, Integers, FiniteSetTheorems, SequenceTheorems, TLAPS

-----------------------------------------------------------------------------
(* The inductive invariant of EffectOnce *)

ThreadFields == {"pc", "calls", "at", "scan", "ok", "class", "wrote", "outcome"}
ClaimFields  == {"key", "print", "status", "class"}

(* Threads and claims are records of the right shape. *)
Shape ==
    /\ DOMAIN thread = Work /\ DOMAIN attempt = Work
    /\ \A w \in Work : DOMAIN thread[w] = ThreadFields
    /\ \A c \in claims : DOMAIN c = ClaimFields

(* A thread that holds a claim: it is about to execute, or has. *)
InFlight(w) == thread[w].pc \in {"effect", "finish"} /\ Tool(w) \notin Pure

Claimed == {c.key : c \in claims}

(* What has run or is about to run is claimed, by one thread at a time, and  *)
(* what is about to run has not run.                                        *)
Claiming ==
    /\ Shape
    /\ \A e \in ran : e.key \in Claimed
    /\ \A w \in Work : InFlight(w) =>
          /\ Key(w) \in Claimed
          /\ \A v \in Work : InFlight(v) /\ Key(v) = Key(w) => v = w
          /\ thread[w].pc = "effect" => \A e \in ran : e.key # Key(w)
    /\ EffectOnce

-----------------------------------------------------------------------------
(* A step of one thread, or of none *)

(* The thread keeps its call and its key while only its counter moves. *)
LEMMA KeyKept ==
    ASSUME NEW w \in Work, attempt'[w] = attempt[w], thread'[w].at = thread[w].at,
           thread'[w].calls = thread[w].calls
    PROVE  Key(w)' = Key(w) /\ Tool(w)' = Tool(w) /\ Call(w)' = Call(w)
BY DEF Key, KeyOf, Call, Tool

LEMMA OthersKept ==
    ASSUME NEW v \in Work, attempt'[v] = attempt[v], thread'[v] = thread[v]
    PROVE  Key(v)' = Key(v) /\ (InFlight(v)' <=> InFlight(v))
BY DEF Key, KeyOf, Call, Tool, InFlight

(* A step after which its thread holds no claim, which executes nothing and  *)
(* gives no claim away.                                                     *)
LEMMA LeaveStep ==
    ASSUME Claiming, Shape', NEW w, w \in Work => ~InFlight(w)',
           \A v \in Work \ {w} : attempt'[v] = attempt[v] /\ thread'[v] = thread[v],
           Claimed' = Claimed, ran' = ran
    PROVE  Claiming'
<1>1. \A v \in Work : InFlight(v)' =>
         v # w /\ InFlight(v) /\ Key(v)' = Key(v) /\ thread'[v] = thread[v]
  BY OthersKept
<1>2. QED BY <1>1 DEF Claiming, EffectOnce

LEMMA SetEffect ==
    ASSUME Shape, NEW w \in Work, NEW r, Set(w, r)
    PROVE  /\ thread'[w] = r /\ DOMAIN thread' = Work
           /\ \A v \in Work \ {w} : thread'[v] = thread[v]
BY DEF Set, Shape

(* The thread goes elsewhere in its program. *)
LEMMA GoToEffect ==
    ASSUME Shape, NEW w \in Work, NEW pc, GoTo(w, pc)
    PROVE  /\ thread'[w].pc = pc /\ DOMAIN thread'[w] = ThreadFields
           /\ thread'[w].at = thread[w].at /\ thread'[w].calls = thread[w].calls
           /\ DOMAIN thread' = Work
           /\ \A v \in Work \ {w} : thread'[v] = thread[v]
<1> DEFINE r == [thread[w] EXCEPT !.pc = pc]
<1>1. DOMAIN thread[w] = ThreadFields BY DEF Shape
<1>2. r.pc = pc /\ DOMAIN r = ThreadFields /\ r.at = thread[w].at /\ r.calls = thread[w].calls
  BY <1>1 DEF ThreadFields
<1>3. Set(w, r) BY DEF GoTo
<1> HIDE DEF r
<1>4. QED BY <1>2, <1>3, SetEffect

(* A result is returned: the next call comes before the injected faults. *)
LEMMA ReturnedEffect ==
    ASSUME Shape, NEW w \in Work, NEW ok, NEW class, NEW wrote, Returned(w, ok, class, wrote)
    PROVE  /\ thread'[w].pc \in {"verify", "inject"} /\ DOMAIN thread'[w] = ThreadFields
           /\ DOMAIN thread' = Work
           /\ \A v \in Work \ {w} : thread'[v] = thread[v]
<1> DEFINE th == thread[w]
           done == th.at = Len(th.calls)
           pc == IF done THEN "verify" ELSE "inject"
           at == IF done THEN th.at ELSE th.at + 1
           r == [th EXCEPT !.pc = pc, !.at = at, !.scan = 1, !.ok = th.ok /\ ok,
                           !.class = IF th.class = NoClass THEN class ELSE th.class,
                           !.wrote = th.wrote \/ wrote]
<1>1. Set(w, r) BY DEF Returned
<1>2. DOMAIN th = ThreadFields BY DEF Shape
<1>3. pc \in {"verify", "inject"} OBVIOUS
<1> HIDE DEF pc, at, done, th
<1>4. r.pc = pc /\ DOMAIN r = ThreadFields BY <1>2 DEF ThreadFields
<1> HIDE DEF r
<1>5. QED BY <1>1, <1>3, <1>4, SetEffect

(* A task's thread is cleared to rest, as at the end of an attempt. *)
LEMMA RestFields ==
    ASSUME NEW calls
    PROVE  LET r == [Idle EXCEPT !.calls = calls]
           IN  DOMAIN r = ThreadFields /\ r.pc = "off"
BY DEF Idle, ThreadFields

(* The claims of a step that leaves the table alone. *)
LEMMA ClaimsKept ==
    ASSUME Shape, claims' = claims
    PROVE  Claimed' = Claimed /\ \A c \in claims' : DOMAIN c = ClaimFields
BY DEF Claimed, Shape

(* A result returned while the table and the list of executions stay. *)
LEMMA ReturnedStep ==
    ASSUME Claiming, NEW w \in Work, NEW ok, NEW class, NEW wrote,
           Returned(w, ok, class, wrote),
           attempt' = attempt, ran' = ran, Claimed' = Claimed,
           \A c \in claims' : DOMAIN c = ClaimFields
    PROVE  Claiming'
<1>1. Shape BY DEF Claiming
<1>2. /\ thread'[w].pc \in {"verify", "inject"} /\ DOMAIN thread'[w] = ThreadFields
      /\ DOMAIN thread' = Work
      /\ \A v \in Work \ {w} : thread'[v] = thread[v]
  BY <1>1, ReturnedEffect
<1>3. Shape' BY <1>1, <1>2 DEF Shape
<1>4. ~InFlight(w)' BY <1>2 DEF InFlight
<1>5. QED BY <1>2, <1>3, <1>4, LeaveStep

(* The thread is given another record that holds no claim. *)
LEMMA SetStep ==
    ASSUME Claiming, NEW w \in Work, NEW r, Set(w, r), DOMAIN r = ThreadFields,
           r.pc \notin {"effect", "finish"},
           DOMAIN attempt' = Work, \A v \in Work \ {w} : attempt'[v] = attempt[v],
           ran' = ran, claims' = claims
    PROVE  Claiming'
<1>1. Shape BY DEF Claiming
<1>2. /\ thread'[w] = r /\ DOMAIN thread' = Work
      /\ \A v \in Work \ {w} : thread'[v] = thread[v]
  BY <1>1, SetEffect
<1>3. Claimed' = Claimed /\ \A c \in claims' : DOMAIN c = ClaimFields BY <1>1, ClaimsKept
<1>4. Shape' BY <1>1, <1>2, <1>3 DEF Shape
<1>5. ~InFlight(w)' BY <1>2 DEF InFlight
<1>6. QED BY <1>2, <1>3, <1>4, <1>5, LeaveStep

(* The thread's program counter goes to a place where it holds no claim. *)
LEMMA GoToStep ==
    ASSUME Claiming, NEW w \in Work, NEW pc, GoTo(w, pc),
           pc \in {"effect", "finish"} => Tool(w) \in Pure,
           attempt' = attempt, ran' = ran, claims' = claims
    PROVE  Claiming'
<1>1. Shape BY DEF Claiming
<1>2. /\ thread'[w].pc = pc /\ DOMAIN thread'[w] = ThreadFields
      /\ thread'[w].at = thread[w].at /\ thread'[w].calls = thread[w].calls
      /\ DOMAIN thread' = Work
      /\ \A v \in Work \ {w} : thread'[v] = thread[v]
  BY <1>1, GoToEffect
<1>3. Claimed' = Claimed /\ \A c \in claims' : DOMAIN c = ClaimFields BY <1>1, ClaimsKept
<1>4. Shape' BY <1>1, <1>2, <1>3 DEF Shape
<1>5. Tool(w)' = Tool(w) BY <1>2, KeyKept
<1>6. ~InFlight(w)' BY <1>2, <1>5 DEF InFlight
<1>7. QED BY <1>2, <1>3, <1>4, <1>6, LeaveStep

(* The steps that touch no thread. *)
LEMMA UnmovedStep ==
    ASSUME Claiming, UNCHANGED <<attempt, thread, claims, ran>>
    PROVE  Claiming'
<1>1. \A v \in Work : Key(v)' = Key(v) /\ (InFlight(v)' <=> InFlight(v))
  BY OthersKept
<1>2. Shape' BY DEF Claiming, Shape
<1>3. Claimed' = Claimed BY DEF Claimed
<1>4. QED BY <1>1, <1>2, <1>3 DEF Claiming, EffectOnce

-----------------------------------------------------------------------------
(* The actions *)

LEMMA BeginClaiming ==
    ASSUME Claiming, NEW w \in Work, Begin(w)
    PROVE  Claiming'
<1> DEFINE r == [Idle EXCEPT !.pc = "plan"]
<1>1. DOMAIN r = ThreadFields /\ r.pc = "plan" BY DEF Idle, ThreadFields
<1>2. Set(w, r) /\ ran' = ran /\ claims' = claims BY DEF Begin
<1>3. DOMAIN attempt = Work BY DEF Claiming, Shape
<1>4. DOMAIN attempt' = Work /\ \A v \in Work \ {w} : attempt'[v] = attempt[v]
  BY <1>3 DEF Begin
<1> HIDE DEF r
<1>5. QED BY <1>1, <1>2, <1>4, SetStep

LEMMA PlanClaiming ==
    ASSUME Claiming, NEW w \in Work, Plan(w)
    PROVE  Claiming'
<1> DEFINE lost == [thread[w] EXCEPT !.pc = "lost", !.class = "RETRYABLE"]
           ready(calls) == [thread[w] EXCEPT !.pc = "inject", !.calls = calls]
<1>1. DOMAIN thread[w] = ThreadFields /\ DOMAIN attempt = Work BY DEF Claiming, Shape
<1>2. DOMAIN lost = ThreadFields /\ lost.pc = "lost" BY <1>1 DEF ThreadFields
<1>3. \A calls : DOMAIN ready(calls) = ThreadFields /\ ready(calls).pc = "inject"
  BY <1>1 DEF ThreadFields
<1>4. attempt' = attempt /\ ran' = ran /\ claims' = claims BY DEF Plan
<1>5. Set(w, lost) \/ \E calls : Set(w, ready(calls))
  BY DEF Plan
<1> HIDE DEF lost, ready
<1>6. CASE Set(w, lost) BY <1>1, <1>2, <1>4, <1>6, SetStep
<1>7. ASSUME NEW calls, Set(w, ready(calls)) PROVE Claiming'
  <2>1. DOMAIN ready(calls) = ThreadFields /\ ready(calls).pc = "inject" BY <1>3
  <2>2. QED BY <1>1, <1>4, <1>7, <2>1, SetStep
<1>8. QED BY <1>5, <1>6, <1>7

LEMMA InjectClaiming ==
    ASSUME Claiming, NEW w \in Work, Inject(w)
    PROVE  Claiming'
<1> DEFINE next == [thread[w] EXCEPT !.scan = @ + 1]
<1>1. DOMAIN thread[w] = ThreadFields /\ DOMAIN attempt = Work BY DEF Claiming, Shape
<1>2. DOMAIN next = ThreadFields /\ next.pc = "inject" BY <1>1 DEF ThreadFields, Inject
<1>3. attempt' = attempt /\ ran' = ran /\ claims' = claims BY DEF Inject
<1>4. \/ Validate(w) \/ GoTo(w, "pop") \/ Set(w, next)
  BY DEF Inject
<1> HIDE DEF next
<1>5. CASE Validate(w)
  <2>1. Claimed' = Claimed /\ \A c \in claims' : DOMAIN c = ClaimFields
    BY <1>3, ClaimsKept DEF Claiming
  <2>2. \/ \E class : Returned(w, FALSE, class, FALSE)
        \/ GoTo(w, "effect") /\ Tool(w) \in Pure
        \/ GoTo(w, "claim")
    BY <1>5 DEF Validate
  <2>3. ASSUME NEW class, Returned(w, FALSE, class, FALSE) PROVE Claiming'
    BY <1>3, <2>1, <2>3, ReturnedStep
  <2>4. CASE GoTo(w, "effect") /\ Tool(w) \in Pure BY <1>3, <2>4, GoToStep
  <2>5. CASE GoTo(w, "claim") BY <1>3, <2>5, GoToStep
  <2>6. QED BY <2>2, <2>3, <2>4, <2>5
<1>6. CASE GoTo(w, "pop") BY <1>3, <1>6, GoToStep
<1>7. CASE Set(w, next) BY <1>1, <1>2, <1>3, <1>7, SetStep
<1>8. QED BY <1>4, <1>5, <1>6, <1>7

LEMMA PopClaiming ==
    ASSUME Claiming, NEW w \in Work, Pop(w)
    PROVE  Claiming'
<1> DEFINE lost == [thread[w] EXCEPT !.pc = "lost", !.class = "RETRYABLE"]
<1>1. DOMAIN thread[w] = ThreadFields /\ DOMAIN attempt = Work BY DEF Claiming, Shape
<1>2. DOMAIN lost = ThreadFields /\ lost.pc = "lost" BY <1>1 DEF ThreadFields
<1>3. attempt' = attempt /\ ran' = ran /\ claims' = claims BY DEF Pop
<1>4. Claimed' = Claimed /\ \A c \in claims' : DOMAIN c = ClaimFields
  BY <1>3, ClaimsKept DEF Claiming
<1>5. Set(w, lost) \/ Returned(w, FALSE, "RETRYABLE", FALSE) BY DEF Pop
<1> HIDE DEF lost
<1>6. CASE Set(w, lost) BY <1>1, <1>2, <1>3, <1>6, SetStep
<1>7. CASE Returned(w, FALSE, "RETRYABLE", FALSE) BY <1>3, <1>4, <1>7, ReturnedStep
<1>8. QED BY <1>5, <1>6, <1>7

(* A thread goes on with a fresh claim: the key was in no row, so nothing    *)
(* has run under it and no other thread works under it.                      *)
LEMMA ClaimClaiming ==
    ASSUME Claiming, NEW w \in Work, Claim(w)
    PROVE  Claiming'
<1> DEFINE row == [key |-> Key(w), print |-> Fingerprint(w), status |-> "RUNNING",
                   class |-> NoClass]
<1>1. attempt' = attempt /\ ran' = ran BY DEF Claim
<1>2. Shape BY DEF Claiming
<1>3. CASE ClaimOn(Key(w)) = {}
  <2>1. claims' = claims \cup {row} /\ GoTo(w, "effect") BY <1>3 DEF Claim
  <2>2. Key(w) \notin Claimed BY <1>3 DEF ClaimOn, Claimed
  <2>3. row.key = Key(w) /\ DOMAIN row = ClaimFields BY DEF ClaimFields
  <2> HIDE DEF row
  <2>4. Claimed' = Claimed \cup {Key(w)} BY <2>1, <2>3 DEF Claimed
  <2>5. /\ thread'[w].pc = "effect" /\ DOMAIN thread'[w] = ThreadFields
        /\ thread'[w].at = thread[w].at /\ thread'[w].calls = thread[w].calls
        /\ DOMAIN thread' = Work
        /\ \A v \in Work \ {w} : thread'[v] = thread[v]
    BY <1>2, <2>1, GoToEffect
  <2>6. Shape' BY <1>1, <1>2, <2>1, <2>3, <2>5 DEF Shape
  <2>7. Key(w)' = Key(w) BY <1>1, <2>5, KeyKept
  <2>8. \A v \in Work \ {w} : /\ Key(v)' = Key(v) /\ (InFlight(v)' <=> InFlight(v))
                              /\ thread'[v] = thread[v]
    BY <1>1, <2>5, OthersKept
  <2>9. \A v \in Work \ {w} : InFlight(v)' => Key(v)' # Key(w)'
    BY <2>2, <2>7, <2>8 DEF Claiming
  <2>10. \A e \in ran : e.key # Key(w) BY <2>2 DEF Claiming
  <2>11. QED BY <1>1, <2>4, <2>6, <2>7, <2>8, <2>9, <2>10 DEF Claiming, EffectOnce
<1>4. CASE ClaimOn(Key(w)) # {}
  <2>1. claims' = claims BY <1>4 DEF Claim
  <2>2. \E ok, class, wrote : Returned(w, ok, class, wrote)
    BY <1>4 DEF Claim, Reported
  <2>3. Claimed' = Claimed /\ \A c \in claims' : DOMAIN c = ClaimFields
    BY <1>2, <2>1, ClaimsKept
  <2>4. QED BY <1>1, <2>2, <2>3, ReturnedStep
<1>5. QED BY <1>3, <1>4

(* The effect happens under a key no earlier effect has. *)
LEMMA EffectClaiming ==
    ASSUME Claiming, NEW w \in Work, Effect(w)
    PROVE  Claiming'
<1>1. attempt' = attempt /\ claims' = claims BY DEF Effect
<1>2. Shape BY DEF Claiming
<1>3. Claimed' = Claimed /\ \A c \in claims' : DOMAIN c = ClaimFields
  BY <1>1, <1>2, ClaimsKept
<1>4. CASE Tool(w) \in Pure
  <2>1. ran' = ran BY <1>4 DEF Effect
  <2>2. \E ok, class, wrote : Returned(w, ok, class, wrote) BY <1>4 DEF Effect, Reported
  <2>3. QED BY <1>1, <1>3, <2>1, <2>2, ReturnedStep
<1>5. CASE Tool(w) \notin Pure
  <2> DEFINE e == [call |-> Call(w), key |-> Key(w), tool |-> Tool(w)]
  <2>1. thread[w].pc = "effect" /\ InFlight(w) BY <1>5 DEF Effect, InFlight
  <2>2. ran' = ran \cup {e} BY <1>5 DEF Effect
  <2>3. PICK outcome : Set(w, [thread[w] EXCEPT !.pc = "finish", !.outcome = outcome])
    BY <1>5 DEF Effect
  <2> DEFINE r == [thread[w] EXCEPT !.pc = "finish", !.outcome = outcome]
  <2>4. DOMAIN thread[w] = ThreadFields BY <1>2 DEF Shape
  <2>5. /\ DOMAIN r = ThreadFields /\ r.pc = "finish" /\ r.at = thread[w].at
        /\ r.calls = thread[w].calls
    BY <2>4 DEF ThreadFields
  <2>6. e.key = Key(w) OBVIOUS
  <2>7. Set(w, r) BY <2>3
  <2> HIDE DEF e, r
  <2>8. /\ thread'[w] = r /\ DOMAIN thread' = Work
        /\ \A v \in Work \ {w} : thread'[v] = thread[v]
    BY <1>2, <2>7, SetEffect
  <2>9. Shape' BY <1>1, <1>2, <1>3, <2>5, <2>8 DEF Shape
  <2>10. Key(w)' = Key(w) BY <1>1, <2>5, <2>8, KeyKept
  <2>11. \A v \in Work \ {w} : /\ Key(v)' = Key(v) /\ (InFlight(v)' <=> InFlight(v))
                               /\ thread'[v] = thread[v]
    BY <1>1, <2>8, OthersKept
  <2>12. Key(w) \in Claimed /\ (\A f \in ran : f.key # Key(w))
    BY <2>1 DEF Claiming
  <2>13. \A v \in Work \ {w} : InFlight(v)' => Key(v)' # Key(w)
    BY <2>1, <2>11 DEF Claiming
  <2>14. EffectOnce' BY <2>2, <2>6, <2>12 DEF Claiming, EffectOnce
  <2>15. \A f \in ran' : f.key \in Claimed' BY <1>3, <2>2, <2>6, <2>12 DEF Claiming
  <2>16. ASSUME NEW v \in Work, InFlight(v)'
         PROVE  /\ Key(v)' \in Claimed'
                /\ \A u \in Work : InFlight(u)' /\ Key(u)' = Key(v)' => u = v
                /\ thread'[v].pc = "effect" => \A f \in ran' : f.key # Key(v)'
    <3>1. CASE v = w BY <1>3, <2>5, <2>8, <2>10, <2>12, <2>13, <3>1
    <3>2. CASE v # w
      BY <1>3, <2>2, <2>6, <2>10, <2>11, <2>13, <2>16, <3>2 DEF Claiming
    <3>3. QED BY <3>1, <3>2
  <2>17. QED BY <2>9, <2>14, <2>15, <2>16 DEF Claiming
<1>6. QED BY <1>4, <1>5

(* A claim that is finished keeps its key. *)
LEMMA FinishClaiming ==
    ASSUME Claiming, NEW w \in Work, Finish(w)
    PROVE  Claiming'
<1> DEFINE class == thread[w].outcome
           status == IF class = NoClass THEN "SUCCEEDED" ELSE "FAILED"
           after(c) == IF c.key = Key(w)
                       THEN [c EXCEPT !.status = status, !.class = class] ELSE c
<1>1. attempt' = attempt /\ ran' = ran BY DEF Finish
<1>2. claims' = {after(c) : c \in claims} BY DEF Finish
<1>3. \E ok, wrote : Returned(w, ok, class, wrote) BY DEF Finish, Reported
<1>4. \A c \in claims : DOMAIN c = ClaimFields BY DEF Claiming, Shape
<1>5. \A c \in claims : DOMAIN after(c) = ClaimFields /\ after(c).key = c.key
  BY <1>4 DEF ClaimFields
<1> HIDE DEF after, class
<1>6. Claimed' = Claimed BY <1>2, <1>5 DEF Claimed
<1>7. \A c \in claims' : DOMAIN c = ClaimFields BY <1>2, <1>5
<1>8. QED BY <1>1, <1>3, <1>6, <1>7, ReturnedStep

LEMMA VerdictClaiming ==
    ASSUME Claiming, NEW w \in Work, Verify(w) \/ Recover(w)
    PROVE  Claiming'
<1>1. attempt' = attempt /\ ran' = ran /\ claims' = claims BY DEF Verify, Recover
<1>2. Set(w, Ended(w)) BY DEF Verify, Recover, Over
<1>3. DOMAIN Ended(w) = ThreadFields /\ Ended(w).pc = "off" BY RestFields DEF Ended
<1>4. DOMAIN attempt' = Work BY <1>1 DEF Claiming, Shape
<1>5. QED BY <1>1, <1>2, <1>3, <1>4, SetStep

(* After a crash nobody holds a claim, and the claims stay. *)
LEMMA CrashClaiming ==
    ASSUME Claiming, ToolCrash
    PROVE  Claiming'
<1>1. UNCHANGED <<attempt, ran, claims>> BY DEF ToolCrash
<1>2. \A w \in Work : DOMAIN Ended(w) = ThreadFields /\ Ended(w).pc = "off"
  BY RestFields DEF Ended
<1>3. DOMAIN thread' = Work /\ \A w \in Work : thread'[w] = Ended(w) BY DEF ToolCrash
<1>4. Shape' BY <1>1, <1>2, <1>3 DEF Claiming, Shape
<1>5. \A w \in Work : ~InFlight(w)' BY <1>2, <1>3 DEF InFlight
<1>6. Claimed' = Claimed BY <1>1 DEF Claimed
<1>7. QED BY <1>1, <1>4, <1>5, <1>6 DEF Claiming, EffectOnce

-----------------------------------------------------------------------------

LEMMA InitClaiming ==
    ASSUME ToolInit
    PROVE  Claiming
<1>1. claims = {} /\ ran = {} /\ DOMAIN thread = Work /\ DOMAIN attempt = Work BY DEF ToolInit
<1>2. \A w \in Work : DOMAIN thread[w] = ThreadFields /\ thread[w].pc = "off"
  BY DEF ToolInit, Idle, ThreadFields
<1>3. Shape BY <1>1, <1>2 DEF Shape
<1>4. QED BY <1>1, <1>2, <1>3 DEF Claiming, InFlight, EffectOnce

LEMMA NextClaiming ==
    ASSUME Claiming, [ToolNext]_toolVars
    PROVE  Claiming'
<1>1. CASE \E w \in Work : ToolStep(w)
  <2>1. PICK w \in Work : ToolStep(w) BY <1>1
  <2>2. CASE Begin(w) BY <2>2, BeginClaiming
  <2>3. CASE Plan(w) BY <2>3, PlanClaiming
  <2>4. CASE Inject(w) BY <2>4, InjectClaiming
  <2>5. CASE Pop(w) BY <2>5, PopClaiming
  <2>6. CASE Claim(w) BY <2>6, ClaimClaiming
  <2>7. CASE Effect(w) BY <2>7, EffectClaiming
  <2>8. CASE Finish(w) BY <2>8, FinishClaiming
  <2>9. CASE Verify(w) \/ Recover(w) BY <2>9, VerdictClaiming
  <2>10. QED BY <2>1, <2>2, <2>3, <2>4, <2>5, <2>6, <2>7, <2>8, <2>9 DEF ToolStep
<1>2. CASE \E tool \in Tools \cup {AnyTool} : Arm(tool)
  BY <1>2, UnmovedStep DEF Arm
<1>3. CASE ToolCrash BY <1>3, CrashClaiming
<1>4. CASE ResumeTools BY <1>4, UnmovedStep DEF ResumeTools
<1>5. CASE UNCHANGED toolVars BY <1>5, UnmovedStep DEF toolVars
<1>6. QED BY <1>1, <1>2, <1>3, <1>4, <1>5 DEF ToolNext

(* ToolRuntime.execute and execute_once: under one idempotency key a         *)
(* side-effecting tool runs at most once, for any number of threads, plans,  *)
(* remote keys, injected faults, retries and crashes.                        *)
THEOREM EffectsHappenOnce == ToolSpec => []EffectOnce
<1>1. Claiming => EffectOnce BY DEF Claiming
<1>2. QED BY <1>1, InitClaiming, NextClaiming, PTL DEF ToolSpec

-----------------------------------------------------------------------------
(* The inductive invariant of OneHolder and SucceededWasDone *)

Calling == {"inject", "pop", "claim", "effect", "finish"}

(* The locals of a thread: while it executes it is at one of its calls.  Its *)
(* task is RUNNING or VERIFYING.                                            *)
Attempted(w) ==
    LET th == thread[w]
    IN  /\ th.ok \in BOOLEAN /\ th.scan \in Nat \ {0} /\ th.at \in Nat
        /\ Len(th.calls) \in Nat /\ DOMAIN th.calls = 1 .. Len(th.calls)
        /\ th.pc \in Calling => th.at \in DOMAIN th.calls
        /\ th.pc = "plan" => th.at = 1
        /\ th.pc \in {"claim", "finish"} => Tool(w) \notin Pure
        /\ th.pc # "off" => up /\ state[w] \in {"RUNNING", "VERIFYING"}

Threads == DOMAIN state = Work /\ \A w \in Work : Attempted(w)

(* What the table calls a success was executed as the request asked, and a   *)
(* thread works under a row of its own.                                     *)
HasRun(k, print) ==
    \E e \in ran : e.key = k /\ e.call.task = print[1] /\ e.tool = print[2]

Holding(w) ==
    /\ \E c \in ClaimOn(Key(w)) : c.status = "RUNNING" /\ c.print = Fingerprint(w)
    /\ thread[w].pc = "finish" => HasRun(Key(w), Fingerprint(w))

Recorded(c) ==
    /\ c.status \in {"RUNNING", "SUCCEEDED", "FAILED"}
    /\ c.status = "FAILED" => c.class # NoClass
    /\ c.status = "SUCCEEDED" => HasRun(c.key, c.print)

Table ==
    /\ \A c, d \in claims : c.key = d.key => c = d
    /\ \A c \in claims : Recorded(c)
    /\ \A w \in Work : InFlight(w) => Holding(w)

(* Until a crash somebody is at work on every RUNNING row. *)
Worked ==
    /\ toolCrashes \in Nat
    /\ toolCrashes = 0 => \A c \in claims : c.status = "RUNNING" =>
                              \E w \in Work : InFlight(w) /\ Key(w) = c.key

(* The calls behind a thread that has no failed result yet were executed.    *)
KeyAt(w, i) == KeyOf([task |-> w, attempt |-> attempt[w], index |-> i])

Done(w, i) == thread[w].calls[i] \notin Pure =>
    /\ \E c \in ClaimOn(KeyAt(w, i)) : c.status = "SUCCEEDED"
    /\ HasRun(KeyAt(w, i), <<w, thread[w].calls[i]>>)

Behind(w, i) ==
    /\ i \in DOMAIN thread[w].calls
    /\ \/ thread[w].pc \in Calling /\ thread[w].ok /\ i < thread[w].at
       \/ thread[w].pc = "verify" /\ thread[w].ok
       \/ state[w] = "SUCCEEDED"

Progress == \A w \in Work : \A i : Behind(w, i) => Done(w, i)

Working == Claiming /\ Threads /\ Table /\ Worked /\ Progress

-----------------------------------------------------------------------------
(* A step of one thread *)

OthersStay(w) ==
    /\ DOMAIN thread' = Work /\ DOMAIN state' = Work /\ up' = up
    /\ toolCrashes' = toolCrashes
    /\ \A v \in Work \ {w} : /\ thread'[v] = thread[v] /\ attempt'[v] = attempt[v]
                             /\ state'[v] = state[v]

(* A record of a success is for good. *)
SuccessesStay == ran \subseteq ran' /\ \A c \in claims : c.status = "SUCCEEDED" => c \in claims'

LEMMA RunsStay ==
    ASSUME NEW k, NEW print, ran \subseteq ran'
    PROVE  HasRun(k, print) => HasRun(k, print)'
BY DEF HasRun

LEMMA DoneStays ==
    ASSUME NEW v, NEW i, SuccessesStay, attempt'[v] = attempt[v],
           thread'[v].calls = thread[v].calls, Done(v, i)
    PROVE  Done(v, i)'
<1>1. KeyAt(v, i)' = KeyAt(v, i) BY DEF KeyAt, KeyOf
<1>2. \A k, print : HasRun(k, print) => HasRun(k, print)'
  BY RunsStay DEF SuccessesStay
<1>3. \A k : (\E c \in ClaimOn(k) : c.status = "SUCCEEDED")
                => \E c \in ClaimOn(k)' : c.status = "SUCCEEDED"
  BY DEF ClaimOn, SuccessesStay
<1>4. CASE thread[v].calls[i] \in Pure BY <1>4 DEF Done
<1>5. CASE thread[v].calls[i] \notin Pure
  <2>1. HasRun(KeyAt(v, i), <<v, thread[v].calls[i]>>)' BY <1>1, <1>2, <1>5 DEF Done
  <2>2. \E c \in ClaimOn(KeyAt(v, i))' : c.status = "SUCCEEDED" BY <1>1, <1>3, <1>5 DEF Done
  <2>3. QED BY <2>1, <2>2 DEF Done
<1>6. QED BY <1>4, <1>5

LEMMA ThreadsStep ==
    ASSUME Threads, NEW w \in Work, OthersStay(w), Attempted(w)'
    PROVE  Threads'
<1>1. ASSUME NEW v \in Work, v # w PROVE Attempted(v)'
  <2>1. Attempted(v) BY DEF Threads
  <2>2. thread'[v] = thread[v] /\ state'[v] = state[v] /\ up' = up BY <1>1 DEF OthersStay
  <2>3. Tool(v)' = Tool(v) BY <2>2 DEF Tool
  <2>4. QED BY <2>1, <2>2, <2>3 DEF Attempted
<1>2. QED BY <1>1 DEF Threads, OthersStay

LEMMA ProgressStep ==
    ASSUME Progress, NEW w \in Work, OthersStay(w), SuccessesStay,
           \A i : Behind(w, i)' => Done(w, i)'
    PROVE  Progress'
<1>1. ASSUME NEW v \in Work, v # w, NEW i, Behind(v, i)' PROVE Done(v, i)'
  <2>1. thread'[v] = thread[v] /\ state'[v] = state[v] /\ attempt'[v] = attempt[v]
    BY <1>1 DEF OthersStay
  <2>2. Behind(v, i) BY <1>1, <2>1 DEF Behind
  <2>3. QED BY <2>1, <2>2, DoneStays DEF Progress
<1>2. QED BY <1>1 DEF Progress

(* The threads that are under way stay so, with their rows. *)
LEMMA HoldingStays ==
    ASSUME NEW v, thread'[v] = thread[v], attempt'[v] = attempt[v], Holding(v),
           ran \subseteq ran', \A c \in ClaimOn(Key(v)) : c \in claims'
    PROVE  Holding(v)'
<1>1. Key(v)' = Key(v) BY OthersKept DEF Key, KeyOf, Call
<1>2. Fingerprint(v)' = Fingerprint(v) BY DEF Fingerprint, Tool
<1>3. HasRun(Key(v), Fingerprint(v)) => HasRun(Key(v), Fingerprint(v))'
  <2>1. \A k, print : HasRun(k, print) => HasRun(k, print)' BY RunsStay
  <2>2. QED BY <1>1, <1>2, <2>1
<1>4. \A c \in ClaimOn(Key(v)) : c \in ClaimOn(Key(v))' BY <1>1 DEF ClaimOn
<1>5. QED BY <1>2, <1>3, <1>4 DEF Holding

(* A step that touches no row and of a thread that holds none. *)
LEMMA QuietStep ==
    ASSUME Working, NEW w \in Work, OthersStay(w), claims' = claims, ran' = ran,
           ~InFlight(w), ~InFlight(w)', Attempted(w)',
           \A i : Behind(w, i)' => Done(w, i)'
    PROVE  Threads' /\ Table' /\ Worked' /\ Progress'
<1>1. SuccessesStay BY DEF SuccessesStay
<1>2. Threads' BY ThreadsStep DEF Working
<1>3. Progress' BY <1>1, ProgressStep DEF Working
<1>4. \A v \in Work \ {w} : /\ Key(v)' = Key(v) /\ (InFlight(v)' <=> InFlight(v))
                            /\ thread'[v] = thread[v] /\ attempt'[v] = attempt[v]
  BY OthersKept DEF OthersStay
<1>5. Worked'
  <2>1. toolCrashes' = toolCrashes BY DEF OthersStay
  <2>2. QED BY <1>4, <2>1 DEF Working, Worked
<1>6. Table'
  <2>1. \A c \in claims : Recorded(c) => Recorded(c)' BY DEF Recorded, HasRun
  <2>2. \A c \in claims' : Recorded(c)' BY <2>1 DEF Working, Table
  <2>3. ASSUME NEW v \in Work, InFlight(v)' PROVE Holding(v)'
    <3>1. v # w /\ InFlight(v) /\ thread'[v] = thread[v] /\ attempt'[v] = attempt[v]
      BY <1>4, <2>3
    <3>2. Holding(v) BY <3>1 DEF Working, Table
    <3>3. \A c \in ClaimOn(Key(v)) : c \in claims' BY DEF ClaimOn
    <3>4. QED BY <3>1, <3>2, <3>3, HoldingStays
  <2>4. QED BY <2>2, <2>3 DEF Working, Table
<1>7. QED BY <1>2, <1>3, <1>5, <1>6

-----------------------------------------------------------------------------
(* What a step makes of the locals *)

LEMMA OneThread ==
    ASSUME Working, NEW w \in Work, NEW r, Set(w, r),
           attempt' = attempt \/ (\E n : attempt' = [attempt EXCEPT ![w] = n]),
           state' = state \/ (\E s : state' = [state EXCEPT ![w] = s]),
           up' = up, toolCrashes' = toolCrashes
    PROVE  OthersStay(w) /\ thread'[w] = r
<1>1. DOMAIN thread = Work /\ DOMAIN attempt = Work /\ DOMAIN state = Work
  BY DEF Working, Claiming, Shape, Threads
<1>2. thread'[w] = r /\ DOMAIN thread' = Work /\ \A v \in Work \ {w} : thread'[v] = thread[v]
  BY <1>1, SetEffect DEF Working, Claiming
<1>3. \A v \in Work \ {w} : attempt'[v] = attempt[v] BY <1>1
<1>4. DOMAIN state' = Work /\ \A v \in Work \ {w} : state'[v] = state[v] BY <1>1
<1>5. QED BY <1>2, <1>3, <1>4 DEF OthersStay

LEMMA ThreadShape ==
    ASSUME Working, NEW w \in Work
    PROVE  DOMAIN thread[w] = ThreadFields /\ Attempted(w) /\ w \in DOMAIN state
BY DEF Working, Claiming, Shape, Threads

LEMMA GoToFields ==
    ASSUME Working, NEW w \in Work, NEW pc, GoTo(w, pc),
           UNCHANGED <<attempt, state, up, toolCrashes>>
    PROVE  /\ OthersStay(w) /\ thread'[w].pc = pc
           /\ \A f \in ThreadFields \ {"pc"} : thread'[w][f] = thread[w][f]
<1> DEFINE r == [thread[w] EXCEPT !.pc = pc]
<1>1. Set(w, r) BY DEF GoTo
<1>2. r.pc = pc /\ \A f \in ThreadFields \ {"pc"} : r[f] = thread[w][f]
  BY ThreadShape DEF ThreadFields
<1> HIDE DEF r
<1>3. OthersStay(w) /\ thread'[w] = r BY <1>1, OneThread
<1>4. QED BY <1>2, <1>3

(* A call has returned: the next one, or the verification. *)
LEMMA ReturnedFields ==
    ASSUME Working, NEW w \in Work, NEW ok \in BOOLEAN, NEW class, NEW wrote,
           Returned(w, ok, class, wrote), thread[w].pc \in Calling,
           UNCHANGED <<attempt, up, toolCrashes>>
    PROVE  /\ OthersStay(w) /\ Attempted(w)' /\ ~InFlight(w)'
           /\ thread'[w].calls = thread[w].calls
           /\ \A i : Behind(w, i)' => ok /\ (Behind(w, i) \/ i = thread[w].at)
<1> DEFINE th == thread[w]
           done == th.at = Len(th.calls)
           pc == IF done THEN "verify" ELSE "inject"
           at == IF done THEN th.at ELSE th.at + 1
           r == [th EXCEPT !.pc = pc, !.at = at, !.scan = 1, !.ok = th.ok /\ ok,
                           !.class = IF th.class = NoClass THEN class ELSE th.class,
                           !.wrote = th.wrote \/ wrote]
<1>1. Set(w, r) /\ state' = IF done THEN [state EXCEPT ![w] = "VERIFYING"] ELSE state
  BY DEF Returned
<1>2. DOMAIN th = ThreadFields /\ Attempted(w) /\ w \in DOMAIN state BY ThreadShape
<1>3. /\ r.pc = pc /\ r.at = at /\ r.scan = 1 /\ r.ok = (th.ok /\ ok)
      /\ r.calls = th.calls
  BY <1>2 DEF ThreadFields
<1> HIDE DEF r
<1>4. OthersStay(w) /\ thread'[w] = r BY <1>1, OneThread
<1>5. /\ th.at \in 1 .. Len(th.calls) /\ Len(th.calls) \in Nat /\ th.at \in Nat
      /\ DOMAIN th.calls = 1 .. Len(th.calls) /\ th.ok \in BOOLEAN
      /\ up /\ state[w] \in {"RUNNING", "VERIFYING"}
  BY <1>2 DEF Attempted, Calling
<1>6. at \in Nat /\ (~done => at \in 1 .. Len(th.calls)) BY <1>5
<1>7. state'[w] = IF done THEN "VERIFYING" ELSE state[w] BY <1>1, <1>2
<1>8. up' = up OBVIOUS
<1>9. r.ok \in BOOLEAN /\ r.scan \in Nat \ {0} /\ r.pc \notin {"plan", "claim", "finish", "effect"}
      /\ (r.pc \in Calling => ~done)
  BY <1>3, <1>5 DEF Calling
<1>10. Attempted(w)'
  BY <1>3, <1>4, <1>5, <1>6, <1>7, <1>8, <1>9 DEF Attempted
<1>11. ~InFlight(w)' BY <1>4, <1>9 DEF InFlight
<1>12. ASSUME NEW i, Behind(w, i)' PROVE ok /\ (Behind(w, i) \/ i = th.at)
  <2>1. i \in 1 .. Len(th.calls) BY <1>3, <1>4, <1>5, <1>12 DEF Behind
  <2>2. state'[w] # "SUCCEEDED" BY <1>5, <1>7
  <2>3. r.ok /\ (r.pc \in Calling => i < r.at) BY <1>4, <1>12, <2>2 DEF Behind, Calling
  <2>4. th.ok /\ ok BY <1>3, <1>5, <2>3
  <2>5. CASE done BY <1>5, <2>1, <2>4, <2>5 DEF Behind
  <2>6. CASE ~done BY <1>3, <1>5, <2>1, <2>3, <2>4, <2>6 DEF Behind, Calling
  <2>7. QED BY <2>5, <2>6
<1>13. QED BY <1>3, <1>4, <1>10, <1>11, <1>12

(* A result that changes no row, with what it must have done to count. *)
LEMMA ReturnedWorking ==
    ASSUME Working, NEW w \in Work, NEW ok \in BOOLEAN, NEW class, NEW wrote,
           Returned(w, ok, class, wrote), thread[w].pc \in Calling, ~InFlight(w),
           UNCHANGED <<attempt, up, toolCrashes, claims, ran>>,
           ok => Done(w, thread[w].at)
    PROVE  Threads' /\ Table' /\ Worked' /\ Progress'
<1>1. /\ OthersStay(w) /\ Attempted(w)' /\ ~InFlight(w)'
      /\ thread'[w].calls = thread[w].calls
      /\ \A i : Behind(w, i)' => ok /\ (Behind(w, i) \/ i = thread[w].at)
  BY ReturnedFields
<1>2. SuccessesStay BY DEF SuccessesStay
<1>3. \A i : Behind(w, i)' => Done(w, i) BY <1>1 DEF Working, Progress
<1>4. \A i : Behind(w, i)' => Done(w, i)' BY <1>1, <1>2, <1>3, DoneStays
<1>5. QED BY <1>1, <1>4, QuietStep

(* The thread goes on within the same call, or fails. *)
LEMMA SameCall ==
    ASSUME Working, NEW w \in Work, NEW pc, GoTo(w, pc), thread[w].pc \in Calling,
           ~InFlight(w), pc \in {"pop", "claim", "effect"},
           pc = "claim" => Tool(w) \notin Pure, pc = "effect" => Tool(w) \in Pure,
           UNCHANGED <<attempt, state, up, toolCrashes, claims, ran>>
    PROVE  Threads' /\ Table' /\ Worked' /\ Progress'
<1>1. /\ OthersStay(w) /\ thread'[w].pc = pc
      /\ \A f \in ThreadFields \ {"pc"} : thread'[w][f] = thread[w][f]
  BY GoToFields
<1>2. /\ thread'[w].at = thread[w].at /\ thread'[w].calls = thread[w].calls
      /\ thread'[w].ok = thread[w].ok /\ thread'[w].scan = thread[w].scan
  BY <1>1 DEF ThreadFields
<1>3. Tool(w)' = Tool(w) BY <1>2 DEF Tool
<1>4. Attempted(w)' BY <1>1, <1>2, <1>3, ThreadShape DEF Attempted, Calling
<1>5. ~InFlight(w)' BY <1>1, <1>3 DEF InFlight
<1>6. \A i : Behind(w, i)' => Behind(w, i) BY <1>1, <1>2 DEF Behind, Calling
<1>7. SuccessesStay BY DEF SuccessesStay
<1>8. \A i : Behind(w, i)' => Done(w, i)' BY <1>2, <1>6, <1>7, DoneStays DEF Working, Progress
<1>9. QED BY <1>1, <1>4, <1>5, <1>8, QuietStep

(* The thread is given a record with no call behind it. *)
LEMMA NothingBehind ==
    ASSUME Working, NEW w \in Work, OthersStay(w), ~InFlight(w), Attempted(w)',
           thread'[w].pc \notin {"effect", "finish"}, UNCHANGED <<claims, ran>>,
           \A i : ~Behind(w, i)'
    PROVE  Threads' /\ Table' /\ Worked' /\ Progress'
<1>1. ~InFlight(w)' BY DEF InFlight
<1>2. QED BY <1>1, QuietStep

-----------------------------------------------------------------------------
(* The actions that change no row *)

LEMMA BeginWorking ==
    ASSUME Working, NEW w \in Work, Begin(w)
    PROVE  Threads' /\ Table' /\ Worked' /\ Progress'
<1> DEFINE r == [Idle EXCEPT !.pc = "plan"]
<1>1. /\ r.pc = "plan" /\ r.calls = <<>> /\ r.at = 1 /\ r.scan \in Nat \ {0}
      /\ r.ok \in BOOLEAN
  BY DEF Idle
<1>2. /\ Set(w, r) /\ UNCHANGED <<up, toolCrashes, claims, ran>> /\ up
      /\ state[w] = "READY" /\ state' = [state EXCEPT ![w] = "RUNNING"]
      /\ \E n : attempt' = [attempt EXCEPT ![w] = n]
  BY DEF Begin
<1> HIDE DEF r
<1>3. OthersStay(w) /\ thread'[w] = r BY <1>2, OneThread
<1>4. state'[w] = "RUNNING" /\ thread[w].pc = "off" BY <1>2, ThreadShape DEF Attempted
<1>5. ~InFlight(w) BY <1>4 DEF InFlight
<1>6. Len(r.calls) = 0 /\ DOMAIN r.calls = 1 .. 0 BY <1>1
<1>7. Attempted(w)'
  <2>1. Len(r.calls) \in Nat /\ DOMAIN r.calls = 1 .. Len(r.calls) BY <1>6
  <2>2. up' /\ r.pc \notin {"claim", "finish"} /\ r.pc \notin Calling
    BY <1>1, <1>2 DEF Calling
  <2>3. QED BY <1>1, <1>3, <1>4, <2>1, <2>2 DEF Attempted
<1>8. \A i : ~Behind(w, i)' BY <1>3, <1>6 DEF Behind
<1>9. QED BY <1>1, <1>2, <1>3, <1>5, <1>7, <1>8, NothingBehind

(* A plan is a sequence of calls, and nobody begins with an empty one. *)
LEMMA FiniteFunction ==
    ASSUME NEW n \in Nat, NEW s, DOMAIN s = 1 .. n, s = [i \in 1 .. n |-> s[i]]
    PROVE  Len(s) = n /\ (s # <<>> => n # 0)
<1>1. s \in [1 .. n -> {s[i] : i \in 1 .. n}] OBVIOUS
<1>2. Len(s) = n BY <1>1
<1>3. ASSUME n = 0 PROVE s = <<>> BY <1>3
<1>4. QED BY <1>2, <1>3

LEMMA PlanLength ==
    ASSUME ToolAssumption, NEW w \in Work, NEW answer \in Answers[w]
    PROVE  LET calls == CallsFor(w, answer)
           IN  /\ Len(calls) \in Nat /\ DOMAIN calls = 1 .. Len(calls)
               /\ calls # <<>> => Len(calls) # 0
<1>1. answer \in Seq(Step) BY DEF ToolAssumption
<1>2. Len(answer) \in Nat /\ DOMAIN answer = 1 .. Len(answer) BY <1>1, LenProperties
<1>3. CASE Agent[w] = "remote"
  <2> DEFINE s == [i \in DOMAIN answer |-> answer[i].tool]
  <2>1. DOMAIN s = 1 .. Len(answer) /\ s = [i \in 1 .. Len(answer) |-> s[i]] BY <1>2
  <2>2. CallsFor(w, answer) = s BY <1>3 DEF CallsFor
  <2> HIDE DEF s
  <2>3. Len(s) = Len(answer) /\ (s # <<>> => Len(answer) # 0) BY <1>2, <2>1, FiniteFunction
  <2>4. QED BY <1>2, <2>1, <2>2, <2>3
<1>4. CASE Agent[w] # "remote" /\ Agent[w] = "planner" /\ Menu[w] # {}
  <2> DEFINE steps == Survivors(w, answer)
             last == Cardinality(steps) + 1
             s == [n \in 1 .. last |->
                     IF n = last THEN Writer
                     ELSE answer[CHOOSE i \in steps : Before(steps, i) = n - 1].tool]
  <2>1. steps \subseteq 1 .. Len(answer) BY <1>2 DEF Survivors
  <2>2. IsFiniteSet(1 .. Len(answer)) BY <1>2, FS_Interval
  <2>3. IsFiniteSet(steps) BY <2>1, <2>2, FS_Subset
  <2>4. last \in Nat BY <2>3, FS_CardinalityType
  <2>5. CallsFor(w, answer) = s BY <1>4 DEF CallsFor, PlannedCalls
  <2> HIDE DEF last, steps
  <2>6. DOMAIN s = 1 .. last /\ s = [i \in 1 .. last |-> s[i]] OBVIOUS
  <2> HIDE DEF s
  <2>7. Len(s) = last /\ (s # <<>> => last # 0) BY <2>4, <2>6, FiniteFunction
  <2>8. QED BY <2>4, <2>5, <2>6, <2>7
<1>5. CASE ~(Agent[w] = "remote") /\ ~(Agent[w] = "planner" /\ Menu[w] # {})
  <2>1. CallsFor(w, answer) = <<AssignedTool[w]>> BY <1>5 DEF CallsFor
  <2>2. QED BY <2>1
<1>6. QED BY <1>3, <1>4, <1>5

LEMMA PlanWorking ==
    ASSUME ToolAssumption, Working, NEW w \in Work, Plan(w)
    PROVE  Threads' /\ Table' /\ Worked' /\ Progress'
<1>1. /\ thread[w].pc = "plan" /\ UNCHANGED <<attempt, state, up, toolCrashes, claims, ran>>
  BY DEF Plan
<1>2. DOMAIN thread[w] = ThreadFields /\ Attempted(w) BY ThreadShape
<1>3. /\ ~InFlight(w) /\ up /\ state[w] \in {"RUNNING", "VERIFYING"} /\ thread[w].at = 1
      /\ thread[w].ok \in BOOLEAN /\ thread[w].scan \in Nat \ {0}
      /\ Len(thread[w].calls) \in Nat /\ DOMAIN thread[w].calls = 1 .. Len(thread[w].calls)
  BY <1>1, <1>2 DEF InFlight, Attempted
<1> DEFINE lost == [thread[w] EXCEPT !.pc = "lost", !.class = "RETRYABLE"]
           ready(calls) == [thread[w] EXCEPT !.pc = "inject", !.calls = calls]
<1>4. /\ lost.pc = "lost" /\ lost.at = 1 /\ lost.calls = thread[w].calls
      /\ lost.ok = thread[w].ok /\ lost.scan = thread[w].scan
  BY <1>2, <1>3 DEF ThreadFields
<1>5. \A calls : /\ ready(calls).pc = "inject" /\ ready(calls).at = 1
                 /\ ready(calls).calls = calls /\ ready(calls).ok = thread[w].ok
                 /\ ready(calls).scan = thread[w].scan
  BY <1>2, <1>3 DEF ThreadFields
<1>6. Set(w, lost) \/ \E answer \in Answers[w] : LET calls == CallsFor(w, answer)
                                                 IN  calls # <<>> /\ Set(w, ready(calls))
  BY DEF Plan
<1> HIDE DEF lost, ready
<1>7. CASE Set(w, lost)
  <2>1. OthersStay(w) /\ thread'[w] = lost BY <1>1, <1>7, OneThread
  <2>2. Attempted(w)' BY <1>1, <1>3, <1>4, <2>1 DEF Attempted, Calling
  <2>3. \A i : ~Behind(w, i)' BY <1>1, <1>3, <1>4, <2>1 DEF Behind, Calling
  <2>4. QED BY <1>1, <1>3, <1>4, <2>1, <2>2, <2>3, NothingBehind
<1>8. ASSUME NEW answer \in Answers[w], CallsFor(w, answer) # <<>>,
             Set(w, ready(CallsFor(w, answer)))
      PROVE  Threads' /\ Table' /\ Worked' /\ Progress'
  <2> DEFINE calls == CallsFor(w, answer)
  <2>1. Len(calls) \in Nat /\ DOMAIN calls = 1 .. Len(calls) BY PlanLength
  <2>2. Len(calls) # 0 BY <1>8, PlanLength
  <2> HIDE DEF calls
  <2>3. OthersStay(w) /\ thread'[w] = ready(calls) BY <1>1, <1>8, OneThread DEF calls
  <2>4. 1 \in DOMAIN calls BY <2>1, <2>2
  <2>5. Attempted(w)' BY <1>1, <1>3, <1>5, <2>1, <2>3, <2>4 DEF Attempted, Calling
  <2>6. \A i : ~Behind(w, i)'
    BY <1>1, <1>3, <1>5, <2>1, <2>3 DEF Behind, Calling
  <2>7. QED BY <1>1, <1>3, <1>5, <2>3, <2>5, <2>6, NothingBehind
<1>9. QED BY <1>6, <1>7, <1>8

LEMMA InjectWorking ==
    ASSUME Working, NEW w \in Work, Inject(w)
    PROVE  Threads' /\ Table' /\ Worked' /\ Progress'
<1>1. thread[w].pc = "inject" /\ UNCHANGED <<attempt, up, toolCrashes, claims, ran>>
  BY DEF Inject
<1>2. thread[w].pc \in Calling /\ ~InFlight(w) BY <1>1 DEF Calling, InFlight
<1> DEFINE r == [thread[w] EXCEPT !.scan = @ + 1]
<1>3. DOMAIN thread[w] = ThreadFields /\ Attempted(w) BY ThreadShape
<1>4. /\ r.pc = "inject" /\ r.at = thread[w].at /\ r.calls = thread[w].calls
      /\ r.ok = thread[w].ok /\ r.scan = thread[w].scan + 1
  BY <1>1, <1>3 DEF ThreadFields
<1>5. \/ \E class : Returned(w, FALSE, class, FALSE)
      \/ state' = state /\ GoTo(w, "effect") /\ Tool(w) \in Pure
      \/ state' = state /\ GoTo(w, "claim") /\ Tool(w) \notin Pure
      \/ state' = state /\ GoTo(w, "pop")
      \/ state' = state /\ Set(w, r)
  BY DEF Inject, Validate
<1> HIDE DEF r
<1>6. ASSUME NEW class, Returned(w, FALSE, class, FALSE)
      PROVE  Threads' /\ Table' /\ Worked' /\ Progress'
  BY <1>1, <1>2, <1>6, ReturnedWorking
<1>7. CASE state' = state /\ GoTo(w, "effect") /\ Tool(w) \in Pure
  BY <1>1, <1>2, <1>7, SameCall
<1>8. CASE state' = state /\ GoTo(w, "claim") /\ Tool(w) \notin Pure
  BY <1>1, <1>2, <1>8, SameCall
<1>9. CASE state' = state /\ GoTo(w, "pop") BY <1>1, <1>2, <1>9, SameCall
<1>10. CASE state' = state /\ Set(w, r)
  <2>1. OthersStay(w) /\ thread'[w] = r BY <1>1, <1>10, OneThread
  <2>2. r.scan \in Nat \ {0} BY <1>3, <1>4 DEF Attempted
  <2>3. Attempted(w)' BY <1>1, <1>3, <1>4, <1>10, <2>1, <2>2 DEF Attempted
  <2>4. ~InFlight(w)' BY <1>4, <2>1 DEF InFlight
  <2>5. \A i : Behind(w, i)' => Behind(w, i) BY <1>1, <1>4, <1>10, <2>1 DEF Behind
  <2>6. SuccessesStay BY <1>1 DEF SuccessesStay
  <2>7. \A i : Behind(w, i)' => Done(w, i)'
    BY <1>1, <1>4, <2>1, <2>5, <2>6, DoneStays DEF Working, Progress
  <2>8. QED BY <1>1, <1>2, <2>1, <2>3, <2>4, <2>7, QuietStep
<1>11. QED BY <1>5, <1>6, <1>7, <1>8, <1>9, <1>10

LEMMA PopWorking ==
    ASSUME Working, NEW w \in Work, Pop(w)
    PROVE  Threads' /\ Table' /\ Worked' /\ Progress'
<1>1. thread[w].pc = "pop" /\ UNCHANGED <<attempt, up, toolCrashes, claims, ran>>
  BY DEF Pop
<1>2. thread[w].pc \in Calling /\ ~InFlight(w) BY <1>1 DEF Calling, InFlight
<1> DEFINE lost == [thread[w] EXCEPT !.pc = "lost", !.class = "RETRYABLE"]
<1>3. DOMAIN thread[w] = ThreadFields /\ Attempted(w) BY ThreadShape
<1>4. /\ lost.pc = "lost" /\ lost.at = thread[w].at /\ lost.calls = thread[w].calls
      /\ lost.ok = thread[w].ok /\ lost.scan = thread[w].scan
  BY <1>3 DEF ThreadFields
<1>5. Returned(w, FALSE, "RETRYABLE", FALSE) \/ (state' = state /\ Set(w, lost))
  BY DEF Pop
<1> HIDE DEF lost
<1>6. CASE Returned(w, FALSE, "RETRYABLE", FALSE) BY <1>1, <1>2, <1>6, ReturnedWorking
<1>7. CASE state' = state /\ Set(w, lost)
  <2>1. OthersStay(w) /\ thread'[w] = lost BY <1>1, <1>7, OneThread
  <2>2. Attempted(w)' BY <1>1, <1>3, <1>4, <1>7, <2>1 DEF Attempted, Calling
  <2>3. state'[w] # "SUCCEEDED" BY <1>1, <1>3, <1>7 DEF Attempted
  <2>4. \A i : ~Behind(w, i)' BY <1>4, <2>1, <2>3 DEF Behind, Calling
  <2>5. QED BY <1>1, <1>2, <1>4, <2>1, <2>2, <2>4, NothingBehind
<1>8. QED BY <1>5, <1>6, <1>7

LEMMA VerdictWorking ==
    ASSUME Working, NEW w \in Work, Verify(w) \/ Recover(w)
    PROVE  Threads' /\ Table' /\ Worked' /\ Progress'
<1> DEFINE r == [Idle EXCEPT !.calls = thread[w].calls]
<1>1. /\ r.pc = "off" /\ r.calls = thread[w].calls /\ r.at = 1 /\ r.scan \in Nat \ {0}
      /\ r.ok \in BOOLEAN
  BY DEF Idle
<1>2. /\ Set(w, r) /\ UNCHANGED <<attempt, up, toolCrashes, claims, ran>>
      /\ \E s : state' = [state EXCEPT ![w] = s]
  BY DEF Verify, Recover, Over, Ended
<1>3. DOMAIN thread[w] = ThreadFields /\ Attempted(w) /\ w \in DOMAIN state BY ThreadShape
<1> HIDE DEF r
<1>4. OthersStay(w) /\ thread'[w] = r BY <1>2, OneThread
<1>5. ~InFlight(w) BY DEF Verify, Recover, InFlight
<1>6. Attempted(w)' BY <1>1, <1>3, <1>4 DEF Attempted, Calling
<1>7. state'[w] = "SUCCEEDED" => thread[w].pc = "verify" /\ thread[w].ok
  <2>1. \A class : Recovery(w, class) # "SUCCEEDED" BY DEF Recovery
  <2>2. CASE Recover(w) BY <1>3, <2>1, <2>2 DEF Recover, Over
  <2>3. CASE Verify(w)
    <3>1. thread[w].pc = "verify" BY <2>3 DEF Verify
    <3>2. PICK judged \in BOOLEAN : \E class :
             state' = [state EXCEPT ![w] = IF Passed(w, judged) THEN "SUCCEEDED"
                                           ELSE Recovery(w, class)]
      BY <2>3 DEF Verify, Over
    <3>3. state'[w] = "SUCCEEDED" => Passed(w, judged) BY <1>3, <2>1, <3>2
    <3>4. QED BY <3>1, <3>3 DEF Passed
  <2>4. QED BY <2>2, <2>3
<1>8. \A i : Behind(w, i)' => Behind(w, i) BY <1>1, <1>4, <1>7 DEF Behind, Calling
<1>9. SuccessesStay BY <1>2 DEF SuccessesStay
<1>10. \A i : Behind(w, i)' => Done(w, i)'
  BY <1>1, <1>2, <1>4, <1>8, <1>9, DoneStays DEF Working, Progress
<1>11. ~InFlight(w)' BY <1>1, <1>4 DEF InFlight
<1>12. QED BY <1>2, <1>4, <1>5, <1>6, <1>10, <1>11, QuietStep

-----------------------------------------------------------------------------
(* The actions that change a row *)

(* The threads that were under way have their rows after any step of another *)
(* that executes under a key of its own.                                    *)
LEMMA OthersHold ==
    ASSUME Working, NEW w \in Work, OthersStay(w), ran \subseteq ran',
           \A v \in Work \ {w} : InFlight(v) => \A c \in ClaimOn(Key(v)) : c \in claims'
    PROVE  \A v \in Work \ {w} : InFlight(v)' => Holding(v)'
<1>1. ASSUME NEW v \in Work \ {w}, InFlight(v)' PROVE Holding(v)'
  <2>1. thread'[v] = thread[v] /\ attempt'[v] = attempt[v] BY DEF OthersStay
  <2>2. InFlight(v) BY <1>1, <2>1, OthersKept
  <2>3. Holding(v) BY <2>2 DEF Working, Table
  <2>4. QED BY <2>1, <2>2, <2>3, HoldingStays
<1>2. QED BY <1>1

LEMMA RecordsStay ==
    ASSUME NEW c, Recorded(c), ran \subseteq ran'
    PROVE  Recorded(c)'
<1>1. HasRun(c.key, c.print) => HasRun(c.key, c.print)' BY RunsStay
<1>2. QED BY <1>1 DEF Recorded

(* A thread goes on in its call under a row: the fields that matter stay. *)
LEMMA FlightFields ==
    ASSUME Working, NEW w \in Work, OthersStay(w), thread[w].pc \in Calling,
           thread'[w].pc \in {"effect", "finish"}, Tool(w) \notin Pure,
           \A f \in ThreadFields \ {"pc", "outcome"} : thread'[w][f] = thread[w][f],
           UNCHANGED <<attempt, state>>, SuccessesStay
    PROVE  /\ Threads' /\ Progress' /\ InFlight(w)'
           /\ Key(w)' = Key(w) /\ Fingerprint(w)' = Fingerprint(w)
<1>1. /\ thread'[w].at = thread[w].at /\ thread'[w].calls = thread[w].calls
      /\ thread'[w].ok = thread[w].ok /\ thread'[w].scan = thread[w].scan
  BY DEF ThreadFields
<1>2. Key(w)' = Key(w) /\ Tool(w)' = Tool(w) BY <1>1, KeyKept
<1>3. Fingerprint(w)' = Fingerprint(w) BY <1>2 DEF Fingerprint
<1>4. Attempted(w)' BY <1>1, <1>2, ThreadShape DEF Attempted, Calling, OthersStay
<1>5. \A i : Behind(w, i)' => Behind(w, i) BY <1>1 DEF Behind, Calling
<1>6. \A i : Behind(w, i)' => Done(w, i)' BY <1>1, <1>5, DoneStays DEF Working, Progress
<1>7. Threads' /\ Progress' BY <1>4, <1>6, ThreadsStep, ProgressStep DEF Working
<1>8. InFlight(w)' BY <1>2 DEF InFlight
<1>9. QED BY <1>2, <1>3, <1>7, <1>8

LEMMA FreshClaimWorking ==
    ASSUME Working, NEW w \in Work, Claim(w), ClaimOn(Key(w)) = {}
    PROVE  Threads' /\ Table' /\ Worked' /\ Progress'
<1> DEFINE row == [key |-> Key(w), print |-> Fingerprint(w), status |-> "RUNNING",
                   class |-> NoClass]
<1>1. /\ row.key = Key(w) /\ row.print = Fingerprint(w) /\ row.status = "RUNNING"
  OBVIOUS
<1>2. /\ thread[w].pc = "claim" /\ claims' = claims \cup {row} /\ GoTo(w, "effect")
      /\ UNCHANGED <<attempt, state, up, toolCrashes, ran>>
  BY DEF Claim
<1> HIDE DEF row
<1>3. thread[w].pc \in Calling /\ Tool(w) \notin Pure /\ ~InFlight(w)
  BY <1>2, ThreadShape DEF Calling, Attempted, InFlight
<1>4. /\ OthersStay(w) /\ thread'[w].pc = "effect"
      /\ \A f \in ThreadFields \ {"pc"} : thread'[w][f] = thread[w][f]
  BY <1>2, GoToFields
<1>5. SuccessesStay BY <1>2 DEF SuccessesStay
<1>6. /\ Threads' /\ Progress' /\ InFlight(w)'
      /\ Key(w)' = Key(w) /\ Fingerprint(w)' = Fingerprint(w)
  BY <1>2, <1>3, <1>4, <1>5, FlightFields
<1>7. \A c \in claims : c.key # Key(w) BY DEF ClaimOn
<1>8. \A c, d \in claims' : c.key = d.key => c = d
  BY <1>1, <1>2, <1>7 DEF Working, Table
<1>9. \A c \in claims' : Recorded(c)'
  <2>1. \A c : c = row => Recorded(c)' BY <1>1 DEF Recorded
  <2>2. \A c \in claims : Recorded(c)' BY <1>2, RecordsStay DEF Working, Table
  <2>3. QED BY <1>2, <2>1, <2>2
<1>10. \A v \in Work \ {w} : InFlight(v)' => Holding(v)'
  BY <1>2, <1>4, OthersHold DEF ClaimOn
<1>11. Holding(w)'
  <2>1. row \in ClaimOn(Key(w))' BY <1>1, <1>2, <1>6 DEF ClaimOn
  <2>2. QED BY <1>1, <1>4, <1>6, <2>1 DEF Holding
<1>12. Worked'
  <2>1. \A v \in Work \ {w} : Key(v)' = Key(v) /\ (InFlight(v)' <=> InFlight(v))
    BY <1>4, OthersKept DEF OthersStay
  <2>2. toolCrashes' = toolCrashes BY <1>2
  <2>3. QED BY <1>1, <1>2, <1>3, <1>6, <2>1, <2>2 DEF Working, Worked
<1>13. QED BY <1>6, <1>8, <1>9, <1>10, <1>11, <1>12 DEF Table

LEMMA ClaimWorking ==
    ASSUME Working, NEW w \in Work, Claim(w)
    PROVE  Threads' /\ Table' /\ Worked' /\ Progress'
<1>1. CASE ClaimOn(Key(w)) = {} BY <1>1, FreshClaimWorking
<1>2. CASE ClaimOn(Key(w)) # {}
  <2>1. /\ thread[w].pc = "claim" /\ thread[w].pc \in Calling /\ ~InFlight(w)
        /\ UNCHANGED <<attempt, up, toolCrashes, claims, ran>>
    BY <1>2 DEF Claim, Calling, InFlight
  <2>2. PICK c \in ClaimOn(Key(w)) :
           IF c.print = Fingerprint(w) /\ c.status # "RUNNING" THEN Reported(w, c.class)
           ELSE Returned(w, FALSE, "SAFE_STOP", FALSE)
    BY <1>2 DEF Claim
  <2>3. c \in claims /\ c.key = Key(w) /\ Recorded(c) BY DEF ClaimOn, Working, Table
  <2>4. CASE Returned(w, FALSE, "SAFE_STOP", FALSE) BY <2>1, <2>4, ReturnedWorking
  <2>5. CASE c.print = Fingerprint(w) /\ c.status # "RUNNING" /\ Reported(w, c.class)
    <3>1. c.class = NoClass => Done(w, thread[w].at)
      <4>1. c.class = NoClass => c.status = "SUCCEEDED" BY <2>3, <2>5 DEF Recorded
      <4>2. KeyAt(w, thread[w].at) = Key(w) BY DEF KeyAt, Key, Call
      <4>3. c.class = NoClass => HasRun(Key(w), Fingerprint(w))
        BY <2>3, <2>5, <4>1 DEF Recorded
      <4>4. QED BY <4>1, <4>2, <4>3 DEF Done, Fingerprint, Tool
    <3>2. PICK ok \in BOOLEAN : \E wrote : /\ Returned(w, ok, c.class, wrote)
                                          /\ ok = (c.class = NoClass)
      BY <2>5 DEF Reported
    <3>3. QED BY <2>1, <3>1, <3>2, ReturnedWorking
  <2>6. QED BY <2>2, <2>4, <2>5
<1>3. QED BY <1>1, <1>2

LEMMA EffectWorking ==
    ASSUME Working, NEW w \in Work, Effect(w)
    PROVE  Threads' /\ Table' /\ Worked' /\ Progress'
<1>1. /\ thread[w].pc = "effect" /\ thread[w].pc \in Calling
      /\ UNCHANGED <<attempt, up, toolCrashes, claims>>
  BY DEF Effect, Calling
<1>2. CASE Tool(w) \in Pure
  <2>1. ran' = ran /\ ~InFlight(w) BY <1>2 DEF Effect, InFlight
  <2>2. \E ok \in BOOLEAN : \E class, wrote : Returned(w, ok, class, wrote)
    BY <1>2 DEF Effect, Reported
  <2>3. Done(w, thread[w].at) BY <1>2 DEF Done, Tool
  <2>4. QED BY <1>1, <2>1, <2>2, <2>3, ReturnedWorking
<1>3. CASE Tool(w) \notin Pure
  <2> DEFINE e == [call |-> Call(w), key |-> Key(w), tool |-> Tool(w)]
  <2>1. ran' = ran \cup {e} /\ state' = state BY <1>3 DEF Effect
  <2>2. PICK outcome : Set(w, [thread[w] EXCEPT !.pc = "finish", !.outcome = outcome])
    BY <1>3 DEF Effect
  <2> DEFINE r == [thread[w] EXCEPT !.pc = "finish", !.outcome = outcome]
  <2>3. /\ r.pc = "finish"
        /\ \A f \in ThreadFields \ {"pc", "outcome"} : r[f] = thread[w][f]
    BY ThreadShape DEF ThreadFields
  <2>4. e.key = Key(w) /\ e.call.task = w /\ e.tool = Tool(w) BY DEF Call
  <2>5. Set(w, r) BY <2>2
  <2> HIDE DEF e, r
  <2>6. OthersStay(w) /\ thread'[w] = r BY <1>1, <2>1, <2>5, OneThread
  <2>7. SuccessesStay BY <1>1, <2>1 DEF SuccessesStay
  <2>8. /\ Threads' /\ Progress' /\ InFlight(w)'
        /\ Key(w)' = Key(w) /\ Fingerprint(w)' = Fingerprint(w)
    BY <1>1, <1>3, <2>1, <2>3, <2>6, <2>7, FlightFields
  <2>9. InFlight(w) /\ Holding(w) BY <1>1, <1>3 DEF InFlight, Working, Table
  <2>10. \A v \in Work \ {w} : InFlight(v)' => Holding(v)'
    BY <1>1, <2>1, <2>6, OthersHold DEF ClaimOn
  <2>11. Holding(w)'
    <3>1. HasRun(Key(w), Fingerprint(w))'
      <4>1. Fingerprint(w)[1] = w /\ Fingerprint(w)[2] = Tool(w) BY DEF Fingerprint
      <4>2. QED BY <2>1, <2>4, <2>8, <4>1 DEF HasRun
    <3>2. \E c \in ClaimOn(Key(w))' : c.status = "RUNNING" /\ c.print = Fingerprint(w)'
      BY <1>1, <2>8, <2>9 DEF Holding, ClaimOn
    <3>3. QED BY <3>1, <3>2 DEF Holding
  <2>12. \A c \in claims' : Recorded(c)' BY <1>1, <2>1, RecordsStay DEF Working, Table
  <2>13. Worked'
    <3>1. \A v \in Work \ {w} : Key(v)' = Key(v) /\ (InFlight(v)' <=> InFlight(v))
      BY <2>6, OthersKept DEF OthersStay
    <3>2. QED BY <1>1, <2>8, <3>1 DEF Working, Worked
  <2>14. QED BY <1>1, <2>8, <2>10, <2>11, <2>12, <2>13 DEF Working, Table
<1>4. QED BY <1>2, <1>3

(* The row of a call that has executed gets its outcome.  It was RUNNING, so *)
(* no success is touched, and no other thread works under its key.          *)
LEMMA FinishWorking ==
    ASSUME Working, NEW w \in Work, Finish(w)
    PROVE  Threads' /\ Table' /\ Worked' /\ Progress'
<1> DEFINE class == thread[w].outcome
           status == IF class = NoClass THEN "SUCCEEDED" ELSE "FAILED"
           after(c) == IF c.key = Key(w)
                       THEN [c EXCEPT !.status = status, !.class = class] ELSE c
<1>1. /\ thread[w].pc = "finish" /\ thread[w].pc \in Calling
      /\ UNCHANGED <<attempt, up, toolCrashes, ran>>
      /\ claims' = {after(c) : c \in claims}
  BY DEF Finish, Calling
<1>2. PICK ok \in BOOLEAN : \E wrote : Returned(w, ok, class, wrote) /\ ok = (class = NoClass)
  BY DEF Finish, Reported
<1>3. /\ OthersStay(w) /\ Attempted(w)' /\ ~InFlight(w)'
      /\ thread'[w].calls = thread[w].calls
      /\ \A i : Behind(w, i)' => ok /\ (Behind(w, i) \/ i = thread[w].at)
  BY <1>1, <1>2, ReturnedFields
<1>4. InFlight(w) /\ Holding(w)
  BY <1>1, ThreadShape DEF InFlight, Attempted, Working, Table
<1>5. PICK own \in claims : /\ own.key = Key(w) /\ own.status = "RUNNING"
                            /\ own.print = Fingerprint(w)
  BY <1>4 DEF Holding, ClaimOn
<1>6. \A c \in claims : c.key = Key(w) => c = own BY <1>5 DEF Working, Table
<1>7. \A c \in claims : c # own => after(c) = c BY <1>6
<1>8. /\ after(own).key = Key(w) /\ after(own).print = Fingerprint(w)
      /\ after(own).status = status /\ after(own).class = class
  <2>1. DOMAIN own = ClaimFields BY DEF Working, Claiming, Shape
  <2>2. QED BY <1>5, <2>1 DEF ClaimFields
<1> HIDE DEF after, class
<1>9. \A c \in claims' : c = after(own) \/ (c \in claims /\ c # own)
  BY <1>1, <1>7
<1>10. after(own) \in claims' /\ \A c \in claims : c # own => c \in claims'
  BY <1>1, <1>5, <1>7
<1>11. SuccessesStay BY <1>1, <1>5, <1>10 DEF SuccessesStay
<1>12. HasRun(Key(w), Fingerprint(w)) BY <1>1, <1>4 DEF Holding
<1>13. \A k, print : HasRun(k, print) => HasRun(k, print)' BY <1>1, RunsStay
<1>14. \A i : Behind(w, i)' => Done(w, i)'
  <2>1. ASSUME NEW i, Behind(w, i)', Behind(w, i) PROVE Done(w, i)'
    BY <1>1, <1>3, <1>11, <2>1, DoneStays DEF Working, Progress
  <2>2. ASSUME NEW i, i = thread[w].at, Behind(w, i)' PROVE Done(w, i)'
    <3>1. class = NoClass /\ status = "SUCCEEDED" BY <1>2, <1>3, <2>2
    <3>2. KeyAt(w, i) = Key(w) BY <2>2 DEF KeyAt, Key, Call
    <3>3. KeyAt(w, i)' = Key(w) BY <1>1, <3>2 DEF KeyAt, KeyOf
    <3>4. thread'[w].calls[i] = Tool(w) BY <1>3, <2>2 DEF Tool
    <3>5. Fingerprint(w) = <<w, thread'[w].calls[i]>> BY <3>4 DEF Fingerprint
    <3>6. HasRun(KeyAt(w, i), <<w, thread[w].calls[i]>>)' BY <1>12, <1>13, <3>3, <3>5
    <3>7. after(own) \in claims' /\ after(own).key = KeyAt(w, i)'
          /\ after(own).status = "SUCCEEDED"
      BY <1>8, <1>10, <3>1, <3>3
    <3>8. \E c \in ClaimOn(KeyAt(w, i))' : c.status = "SUCCEEDED" BY <3>7 DEF ClaimOn
    <3>9. QED BY <3>6, <3>8 DEF Done
  <2>3. QED BY <1>3, <2>1, <2>2
<1>15. Threads' /\ Progress' BY <1>3, <1>11, <1>14, ThreadsStep, ProgressStep DEF Working
<1>16. \A c, d \in claims' : c.key = d.key => c = d
  BY <1>5, <1>6, <1>8, <1>9 DEF Working, Table
<1>17. \A c \in claims' : Recorded(c)'
  <2>1. \A c : c = after(own) => Recorded(c)' BY <1>8, <1>12, <1>13 DEF Recorded
  <2>2. \A c \in claims : Recorded(c)' BY <1>1, RecordsStay DEF Working, Table
  <2>3. QED BY <1>9, <2>1, <2>2
<1>18. \A v \in Work \ {w} : InFlight(v)' => Holding(v)'
  <2>1. \A v \in Work \ {w} : InFlight(v) => Key(v) # Key(w)
    BY <1>4 DEF Working, Claiming
  <2>2. \A v \in Work \ {w} : InFlight(v) => \A c \in ClaimOn(Key(v)) : c \in claims'
    BY <1>5, <1>10, <2>1 DEF ClaimOn
  <2>3. QED BY <1>1, <1>3, <2>2, OthersHold
<1>19. Table' BY <1>3, <1>16, <1>17, <1>18 DEF Table
<1>20. Worked'
  <2>1. SUFFICES ASSUME toolCrashes = 0, NEW c \in claims', c.status = "RUNNING"
                 PROVE  \E v \in Work : InFlight(v)' /\ Key(v)' = c.key
    BY <1>1 DEF Working, Worked
  <2>2. c \in claims /\ c # own BY <1>8, <1>9, <2>1
  <2>3. PICK v \in Work : InFlight(v) /\ Key(v) = c.key BY <2>1, <2>2 DEF Working, Worked
  <2>4. v # w BY <1>6, <2>2, <2>3
  <2>5. QED BY <1>3, <2>3, <2>4, OthersKept DEF OthersStay
<1>21. QED BY <1>15, <1>19, <1>20

-----------------------------------------------------------------------------
(* The steps that touch no single thread *)

(* inject_failure, and a stutter. *)
LEMMA UnmovedWorking ==
    ASSUME Working, UNCHANGED <<attempt, state, thread, claims, up, ran, toolCrashes>>
    PROVE  Threads' /\ Table' /\ Worked' /\ Progress'
<1>1. \A v : Attempted(v) => Attempted(v)' BY DEF Attempted, Tool
<1>2. \A v \in Work :
         /\ Key(v)' = Key(v) /\ (InFlight(v)' <=> InFlight(v))
         /\ (Holding(v) => Holding(v)')
  <2>1. \A v : \A c \in ClaimOn(Key(v)) : c \in claims' BY DEF ClaimOn
  <2>2. QED BY <2>1, OthersKept, HoldingStays
<1>3. \A c : Recorded(c) => Recorded(c)' BY DEF Recorded, HasRun
<1>4. \A v, i : (Behind(v, i)' => Behind(v, i)) /\ (Done(v, i) => Done(v, i)')
  <2>1. SuccessesStay BY DEF SuccessesStay
  <2>2. QED BY <2>1, DoneStays DEF Behind
<1>5. QED BY <1>1, <1>2, <1>3, <1>4 DEF Working, Threads, Table, Worked, Progress

(* The process dies: the threads are gone, their RUNNING rows stay. *)
LEMMA CrashWorking ==
    ASSUME Working, ToolCrash
    PROVE  Threads' /\ Table' /\ Worked' /\ Progress'
<1>1. /\ UNCHANGED <<attempt, state, claims, ran>> /\ toolCrashes' = toolCrashes + 1
      /\ thread' = [w \in Work |-> Ended(w)]
  BY DEF ToolCrash
<1>2. \A w \in Work : /\ thread'[w].pc = "off" /\ thread'[w].calls = thread[w].calls
                      /\ thread'[w].at = 1 /\ thread'[w].scan \in Nat \ {0}
                      /\ thread'[w].ok \in BOOLEAN
  <2>1. ASSUME NEW w \in Work
        PROVE  /\ Ended(w).pc = "off" /\ Ended(w).calls = thread[w].calls
               /\ Ended(w).at = 1 /\ Ended(w).scan \in Nat \ {0} /\ Ended(w).ok \in BOOLEAN
    BY DEF Ended, Idle
  <2>2. QED BY <1>1, <2>1
<1>3. \A w \in Work : ~InFlight(w)' BY <1>2 DEF InFlight
<1>4. Threads'
  <2>1. ASSUME NEW w \in Work PROVE Attempted(w)'
    <3>1. Attempted(w) BY DEF Working, Threads
    <3>2. QED BY <1>2, <3>1 DEF Attempted, Calling
  <2>2. QED BY <1>1, <2>1 DEF Working, Threads
<1>5. Table'
  <2>1. \A c : Recorded(c) => Recorded(c)' BY <1>1 DEF Recorded, HasRun
  <2>2. QED BY <1>1, <1>3, <2>1 DEF Working, Table
<1>6. Worked' BY <1>1 DEF Working, Worked
<1>7. Progress'
  <2>1. SuccessesStay BY <1>1 DEF SuccessesStay
  <2>2. ASSUME NEW w \in Work, NEW i, Behind(w, i)' PROVE Done(w, i)'
    <3>1. Behind(w, i) BY <1>1, <1>2, <2>2 DEF Behind, Calling
    <3>2. QED BY <1>1, <1>2, <2>1, <3>1, DoneStays DEF Working, Progress
  <2>3. QED BY <2>2 DEF Progress
<1>8. QED BY <1>4, <1>5, <1>6, <1>7

(* resume_run moves tasks whose attempt is over. *)
LEMMA ResumeWorking ==
    ASSUME Working, ResumeTools
    PROVE  Threads' /\ Table' /\ Worked' /\ Progress'
<1>1. /\ UNCHANGED <<attempt, thread, claims, ran, toolCrashes>> /\ ~up
      /\ DOMAIN state' = Work
      /\ \A w \in Work : state'[w] = "SUCCEEDED" => state[w] = "SUCCEEDED"
  BY DEF ResumeTools
<1>2. \A w \in Work : thread[w].pc = "off"
  BY <1>1 DEF Working, Threads, Attempted
<1>3. \A w \in Work : Attempted(w)'
  BY <1>1, <1>2 DEF Working, Threads, Attempted, Calling
<1>4. \A w \in Work : ~InFlight(w)' /\ ~InFlight(w) BY <1>1, <1>2 DEF InFlight
<1>5. \A c : Recorded(c) => Recorded(c)' BY <1>1 DEF Recorded, HasRun
<1>6. \A w \in Work : \A i : /\ Behind(w, i)' => Behind(w, i)
                             /\ Done(w, i) => Done(w, i)'
  <2>1. SuccessesStay BY <1>1 DEF SuccessesStay
  <2>2. QED BY <1>1, <1>2, <2>1, DoneStays DEF Behind, Calling
<1>7. QED BY <1>1, <1>3, <1>4, <1>5, <1>6 DEF Working, Threads, Table, Worked, Progress

-----------------------------------------------------------------------------

LEMMA IdleFields ==
    /\ Idle.pc = "off" /\ Idle.calls = <<>> /\ Idle.at = 1 /\ Idle.scan \in Nat \ {0}
    /\ Idle.ok \in BOOLEAN
BY DEF Idle

LEMMA InitWorking ==
    ASSUME ToolInit
    PROVE  Working
<1>1. /\ claims = {} /\ toolCrashes = 0 /\ thread = [w \in Work |-> Idle]
      /\ state = [w \in Work |-> "READY"]
  BY DEF ToolInit
<1>2. \A w \in Work : /\ thread[w].pc = "off" /\ thread[w].calls = <<>>
                      /\ thread[w].at = 1 /\ thread[w].scan \in Nat \ {0}
                      /\ thread[w].ok \in BOOLEAN /\ state[w] = "READY"
  BY <1>1, IdleFields
<1>3. Len(<<>>) = 0 /\ DOMAIN <<>> = 1 .. 0 OBVIOUS
<1>4. Threads BY <1>1, <1>2, <1>3 DEF Threads, Attempted, Calling
<1>5. Table /\ Worked BY <1>1, <1>2 DEF Table, Worked, InFlight
<1>6. Progress BY <1>2, <1>3 DEF Progress, Behind, Calling
<1>7. QED BY <1>1, <1>4, <1>5, <1>6, InitClaiming DEF Working

LEMMA NextWorking ==
    ASSUME ToolAssumption, Working, [ToolNext]_toolVars
    PROVE  Working'
<1>1. Claiming' BY NextClaiming DEF Working
<1>2. Threads' /\ Table' /\ Worked' /\ Progress'
  <2>1. CASE \E w \in Work : ToolStep(w)
    <3>1. PICK w \in Work : ToolStep(w) BY <2>1
    <3>2. CASE Begin(w) BY <3>2, BeginWorking
    <3>3. CASE Plan(w) BY <3>3, PlanWorking
    <3>4. CASE Inject(w) BY <3>4, InjectWorking
    <3>5. CASE Pop(w) BY <3>5, PopWorking
    <3>6. CASE Claim(w) BY <3>6, ClaimWorking
    <3>7. CASE Effect(w) BY <3>7, EffectWorking
    <3>8. CASE Finish(w) BY <3>8, FinishWorking
    <3>9. CASE Verify(w) \/ Recover(w) BY <3>9, VerdictWorking
    <3>10. QED BY <3>1, <3>2, <3>3, <3>4, <3>5, <3>6, <3>7, <3>8, <3>9 DEF ToolStep
  <2>2. CASE \E tool \in Tools \cup {AnyTool} : Arm(tool)
    BY <2>2, UnmovedWorking DEF Arm
  <2>3. CASE ToolCrash BY <2>3, CrashWorking
  <2>4. CASE ResumeTools BY <2>4, ResumeWorking
  <2>5. CASE UNCHANGED toolVars BY <2>5, UnmovedWorking DEF toolVars
  <2>6. QED BY <2>1, <2>2, <2>3, <2>4, <2>5 DEF ToolNext
<1>3. QED BY <1>1, <1>2 DEF Working

LEMMA AlwaysWorking == ToolSpec => []Working
<1>1. Working /\ [ToolNext]_toolVars => Working' BY ToolAssumption, NextWorking
<1>2. QED BY <1>1, InitWorking, PTL DEF ToolSpec

(* begin_idempotency and finish_idempotency: until a crash a RUNNING claim   *)
(* has a thread at work on it, whichever way attempts end, and whatever      *)
(* crashes there are no two threads ever work under one key.                *)
THEOREM ClaimsHaveOneHolder == ToolSpec => []OneHolder
<1>1. Working => OneHolder
  <2>1. SUFFICES ASSUME Working, NEW c \in claims
                 PROVE  /\ c.status = "RUNNING" /\ toolCrashes = 0 => Holders(c.key) # {}
                        /\ Cardinality(Holders(c.key)) <= 1
    BY DEF OneHolder
  <2>2. Holders(c.key) = {w \in Work : InFlight(w) /\ Key(w) = c.key}
    BY DEF Holders, InFlight
  <2>3. c.status = "RUNNING" /\ toolCrashes = 0 => Holders(c.key) # {}
    BY <2>1, <2>2 DEF Working, Worked
  <2>4. \A v, w \in Holders(c.key) : v = w BY <2>1, <2>2 DEF Working, Claiming
  <2>5. CASE Holders(c.key) = {} BY <2>3, <2>5, FS_EmptySet
  <2>6. CASE Holders(c.key) # {}
    <3>1. PICK w : Holders(c.key) = {w} BY <2>4, <2>6
    <3>2. Cardinality({w}) = 1 BY FS_Singleton
    <3>3. QED BY <2>3, <3>1, <3>2
  <2>7. QED BY <2>5, <2>6
<1>2. QED BY <1>1, AlwaysWorking, PTL

(* ToolRuntime._combine, VerifierService.verify and the idempotency table: a *)
(* task counts as SUCCEEDED only when every side-effecting call of its last  *)
(* attempt was executed for it, with its tool, and recorded as a success.   *)
THEOREM SuccessIsEarned == ToolSpec => []SucceededWasDone
<1>1. Working => SucceededWasDone
  <2>1. SUFFICES ASSUME Working, NEW w \in Work, state[w] = "SUCCEEDED",
                        NEW i \in DOMAIN thread[w].calls, thread[w].calls[i] \notin Pure
                 PROVE  LET k == KeyOf([task |-> w, attempt |-> attempt[w], index |-> i])
                        IN  /\ \E c \in ClaimOn(k) : c.status = "SUCCEEDED"
                            /\ \E e \in ran : /\ e.key = k /\ e.call.task = w
                                              /\ e.tool = thread[w].calls[i]
    BY DEF SucceededWasDone
  <2>2. Done(w, i) BY <2>1 DEF Working, Progress, Behind
  <2>3. QED BY <2>1, <2>2 DEF Done, HasRun, KeyAt
<1>2. QED BY <1>1, AlwaysWorking, PTL

-----------------------------------------------------------------------------
(* The injected faults *)

Faults == Seq([id : Nat, tool : Tools \cup {AnyTool}])

(* The faults in the list and those that have struck are different ones. *)
Struck ==
    /\ faults \in Nat /\ armed \in Faults
    /\ \A i \in DOMAIN armed : armed[i].id \in 1 .. faults
    /\ \A i, j \in DOMAIN armed : armed[i].id = armed[j].id => i = j
    /\ \A s \in struck : s[1] \in 1 .. faults
    /\ OneStrike

LEMMA RemoveAtProperties ==
    ASSUME NEW S, NEW s \in Seq(S), NEW i \in 1 .. Len(s)
    PROVE  /\ RemoveAt(s, i) \in Seq(S) /\ Len(RemoveAt(s, i)) = Len(s) - 1
           /\ \A j \in 1 .. Len(s) - 1 : RemoveAt(s, i)[j] = s[IF j < i THEN j ELSE j + 1]
<1> DEFINE a == SubSeq(s, 1, i - 1)
           b == SubSeq(s, i + 1, Len(s))
<1>1. Len(s) \in Nat /\ \A j \in 1 .. Len(s) : s[j] \in S BY LenProperties, ElementOfSeq
<1>2. /\ a \in Seq(S) /\ Len(a) = i - 1 /\ \A j \in 1 .. i - 1 : a[j] = s[j]
  <2>1. \A j \in 1 .. i - 1 : s[j] \in S BY <1>1
  <2>2. QED BY <1>1, <2>1, SubSeqProperties
<1>3. /\ b \in Seq(S) /\ Len(b) = Len(s) - i
      /\ \A j \in 1 .. Len(s) - i : b[j] = s[j + i]
  <2>1. \A j \in i + 1 .. Len(s) : s[j] \in S BY <1>1
  <2>2. /\ b \in Seq(S)
        /\ Len(b) = IF i + 1 <= Len(s) THEN Len(s) - (i + 1) + 1 ELSE 0
        /\ \A j \in 1 .. Len(s) - (i + 1) + 1 : b[j] = s[i + 1 + j - 1]
    BY <1>1, <2>1, SubSeqProperties
  <2>3. QED BY <1>1, <2>2
<1>4. RemoveAt(s, i) = a \o b BY DEF RemoveAt
<1> HIDE DEF a, b
<1>5. /\ a \o b \in Seq(S) /\ Len(a \o b) = Len(s) - 1
      /\ \A j \in 1 .. Len(s) - 1 : (a \o b)[j] = IF j <= i - 1 THEN a[j] ELSE b[j - (i - 1)]
  <2>1. Len(a) + Len(b) = Len(s) - 1 BY <1>1, <1>2, <1>3
  <2>2. /\ a \o b \in Seq(S) /\ Len(a \o b) = Len(a) + Len(b)
        /\ \A j \in 1 .. Len(a) + Len(b) :
              (a \o b)[j] = IF j <= Len(a) THEN a[j] ELSE b[j - Len(a)]
    BY <1>2, <1>3, ConcatProperties
  <2>3. QED BY <1>2, <2>1, <2>2
<1>6. ASSUME NEW j \in 1 .. Len(s) - 1
      PROVE  (a \o b)[j] = s[IF j < i THEN j ELSE j + 1]
  <2>1. CASE j < i BY <1>1, <1>2, <1>5, <2>1
  <2>2. CASE ~(j < i)
    <3>1. j - (i - 1) \in 1 .. Len(s) - i /\ j - (i - 1) + i = j + 1 BY <1>1, <2>2
    <3>2. QED BY <1>1, <1>3, <1>5, <2>2, <3>1
  <2>3. QED BY <2>1, <2>2
<1>7. QED BY <1>4, <1>5, <1>6

(* The entry that is popped is the one that strikes, wherever it stood when  *)
(* the thread found it.                                                     *)
LEMMA PopStruck ==
    ASSUME Working, Struck, NEW w \in Work, Pop(w)
    PROVE  Struck'
<1> DEFINE i == thread[w].scan
           hit == <<armed[i].id, Call(w)>>
<1>1. i \in Nat \ {0} /\ faults' = faults BY ThreadShape DEF Attempted, Pop
<1>2. Len(armed) \in Nat /\ DOMAIN armed = 1 .. Len(armed)
  BY LenProperties DEF Struck, Faults
<1>3. CASE i > Len(armed)
  <2>1. armed' = armed /\ struck' = struck BY <1>3 DEF Pop
  <2>2. QED BY <1>1, <2>1 DEF Struck, OneStrike
<1>4. CASE ~(i > Len(armed))
  <2>1. armed' = RemoveAt(armed, i) /\ struck' = struck \cup {hit} BY <1>4 DEF Pop
  <2>2. i \in 1 .. Len(armed) BY <1>1, <1>2, <1>4
  <2>3. hit[1] = armed[i].id OBVIOUS
  <2> HIDE DEF i, hit
  <2>4. /\ armed' \in Faults /\ Len(armed') = Len(armed) - 1
        /\ \A j \in 1 .. Len(armed) - 1 : armed'[j] = armed[IF j < i THEN j ELSE j + 1]
    BY <2>1, <2>2, RemoveAtProperties DEF Struck, Faults
  <2>5. DOMAIN armed' = 1 .. Len(armed) - 1 BY <2>4, LenProperties DEF Faults
  <2>6. \A j \in DOMAIN armed' : \E k \in DOMAIN armed :
           k # i /\ k = (IF j < i THEN j ELSE j + 1) /\ armed'[j] = armed[k]
    BY <1>2, <2>2, <2>4, <2>5
  <2>7. \A j \in DOMAIN armed' : armed'[j].id \in 1 .. faults BY <2>6 DEF Struck
  <2>8. \A j, k \in DOMAIN armed' : armed'[j].id = armed'[k].id => j = k
    <3>1. SUFFICES ASSUME NEW j \in DOMAIN armed', NEW k \in DOMAIN armed',
                          armed'[j].id = armed'[k].id
                   PROVE  j = k
      OBVIOUS
    <3>2. (IF j < i THEN j ELSE j + 1) = (IF k < i THEN k ELSE k + 1)
      BY <2>6, <3>1 DEF Struck
    <3>3. QED BY <1>2, <2>2, <2>5, <3>2
  <2>9. \A s \in struck' : s[1] \in 1 .. faults BY <1>2, <2>1, <2>2, <2>3 DEF Struck
  <2>10. \A j \in DOMAIN armed' : armed'[j].id # hit[1]
    BY <1>2, <2>2, <2>3, <2>6 DEF Struck
  <2>11. \A j \in DOMAIN armed' : \A s \in struck : armed'[j].id # s[1]
    BY <2>6 DEF Struck, OneStrike
  <2>12. \A s \in struck : s[1] # hit[1] BY <1>2, <2>2, <2>3 DEF Struck, OneStrike
  <2>13. OneStrike' BY <2>1, <2>10, <2>11, <2>12 DEF Struck, OneStrike
  <2>14. QED BY <1>1, <2>4, <2>7, <2>8, <2>9, <2>13 DEF Struck
<1>5. QED BY <1>3, <1>4

LEMMA ArmStruck ==
    ASSUME Struck, NEW tool \in Tools \cup {AnyTool}, Arm(tool)
    PROVE  Struck'
<1> DEFINE e == [id |-> faults + 1, tool |-> tool]
<1>1. faults' = faults + 1 /\ faults \in Nat /\ armed' = Append(armed, e) /\ struck' = struck
  BY DEF Arm, Struck
<1>2. e \in [id : Nat, tool : Tools \cup {AnyTool}] /\ e.id = faults + 1 BY <1>1
<1> HIDE DEF e
<1>3. Len(armed) \in Nat /\ DOMAIN armed = 1 .. Len(armed)
  BY LenProperties DEF Struck, Faults
<1>4. /\ armed' \in Faults /\ Len(armed') = Len(armed) + 1
      /\ \A j \in 1 .. Len(armed) : armed'[j] = armed[j]
      /\ armed'[Len(armed) + 1] = e
  BY <1>1, <1>2, AppendProperties DEF Struck, Faults
<1>5. DOMAIN armed' = 1 .. Len(armed) + 1 BY <1>4, LenProperties DEF Faults
<1>6. \A j \in DOMAIN armed' : \/ j \in DOMAIN armed /\ armed'[j] = armed[j]
                                                     /\ armed[j].id \in 1 .. faults
                               \/ j = Len(armed) + 1 /\ armed'[j].id = faults + 1
  BY <1>2, <1>3, <1>4, <1>5 DEF Struck
<1>7. \A j \in DOMAIN armed' : armed'[j].id \in 1 .. faults' BY <1>1, <1>6
<1>8. \A j, k \in DOMAIN armed' : armed'[j].id = armed'[k].id => j = k
  BY <1>1, <1>6 DEF Struck
<1>9. \A s \in struck : s[1] \in 1 .. faults /\ s[1] \in 1 .. faults' BY <1>1 DEF Struck
<1>10. \A s \in struck : \A j \in DOMAIN armed' : armed'[j].id # s[1]
  BY <1>1, <1>6, <1>9 DEF Struck, OneStrike
<1>11. QED BY <1>1, <1>4, <1>7, <1>8, <1>9, <1>10 DEF Struck, OneStrike

LEMMA NextStruck ==
    ASSUME Working, Struck, [ToolNext]_toolVars
    PROVE  Struck'
<1>1. CASE \E w \in Work : Pop(w) BY <1>1, PopStruck
<1>2. CASE \E tool \in Tools \cup {AnyTool} : Arm(tool) BY <1>2, ArmStruck
<1>3. CASE ToolCrash
  <2>1. armed' = <<>> /\ struck' = struck /\ faults' = faults BY <1>3 DEF ToolCrash
  <2>2. armed' \in Faults /\ DOMAIN armed' = {} BY <2>1, EmptySeq DEF Faults
  <2>3. QED BY <2>1, <2>2 DEF Struck, OneStrike
<1>4. CASE UNCHANGED <<armed, struck, faults>> BY <1>4 DEF Struck, OneStrike
<1>5. QED
  BY <1>1, <1>2, <1>3, <1>4
  DEF ToolNext, ToolStep, Begin, Plan, Inject, Claim, Effect, Finish, Verify, Recover,
      ResumeTools, toolVars

(* inject_failure and _consume_injected_failure: an injected fault fails one *)
(* call, although the threads read and pop the list without a lock.         *)
THEOREM FaultsStrikeOnce == ToolSpec => []OneStrike
<1>1. ToolInit => Struck
  <2>1. ASSUME ToolInit PROVE Struck
    <3>1. armed = <<>> /\ struck = {} /\ faults = 0 BY <2>1 DEF ToolInit
    <3>2. armed \in Faults /\ DOMAIN armed = {} BY <3>1, EmptySeq DEF Faults
    <3>3. QED BY <3>1, <3>2 DEF Struck, OneStrike
  <2>2. QED BY <2>1
<1>2. Working /\ Struck /\ [ToolNext]_toolVars => Struck' BY NextStruck
<1>3. Struck => OneStrike BY DEF Struck
<1>4. QED BY <1>1, <1>2, <1>3, AlwaysWorking, PTL DEF ToolSpec
=============================================================================

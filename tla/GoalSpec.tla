------------------------------ MODULE GoalSpec ------------------------------
(***************************************************************************)
(* The GoalSpec compiler (goalspec/): from the user's text to a validated    *)
(* GoalSpec, by rules, by a model, or by a model with the rules behind it.   *)
(*                                                                         *)
(* A text is a sequence of sentences.  Of a sentence the rules see whether   *)
(* it opens an enumeration of acceptance conditions (and which condition     *)
(* follows in the same sentence), and which of the keyword lists it meets.   *)
(* Of a model's answer the normalizer and the validator see, for each item,  *)
(* whether it has a text, its check type and a value of a wrong type.        *)
(***************************************************************************)
EXTENDS Naturals, Sequences

CONSTANTS
    Sentences,    \* the sentences of the model
    Opens,        \* those that open an enumeration: _ACCEPTANCE_LEAD matches
    AfterLead,    \* what is left of such a sentence after the opening
    Required,     \* those with a hard keyword
    Forbids,      \* those with a prohibition keyword
    Wished,       \* those with a soft keyword
    Inferred,     \* the check type the keywords of a sentence stand for
    ModelDrafts,  \* what a model may answer
    MaxSentences  \* bound of the model: sentences of a text

NoText == "no text"
NoCheck == "no check"

CheckTypes == {"manual_review", "schema_check", "file_check", "content_check",
               "unit_test", "simulation_check", "metric_check"}

ASSUME GoalSpecAssumption ==
    /\ Opens \cup Required \cup Forbids \cup Wished \subseteq Sentences
    /\ AfterLead \in [Opens -> Sentences \cup {NoText}] /\ NoText \notin Sentences
    /\ Inferred \in [Sentences -> CheckTypes]
    /\ \A d \in ModelDrafts : d.object \in BOOLEAN
    /\ MaxSentences \in Nat

VARIABLES
    mode,      \* "rule", "deepseek" or "auto"
    text,      \* the user's text
    phase,     \* where compile_goal is
    failures,  \* failed tries of extract_with_deepseek
    draft,     \* what the extractor returned
    goal,      \* the normalized specification
    usedMode   \* the extractor that made the draft

goalVars == <<mode, text, phase, failures, draft, goal, usedMode>>

(* An item of a draft: a flaw is a value of a type its field does not have.   *)
Item(t, check, flaw) == [text |-> t, check |-> check, flaw |-> flaw]
Flaws == {"none", "wrong type", "not a number"}

NoDraft == [object |-> FALSE]
NoGoal == [made |-> FALSE]
ModelTries == 3

-----------------------------------------------------------------------------
(* The rules *)

Said(s) == \E i \in DOMAIN text : text[i] = s

(* The sentence whose opening is the first. *)
FirstOpening == {i \in DOMAIN text : /\ text[i] \in Opens
                                    /\ \A j \in 1 .. i - 1 : text[j] \notin Opens}

(* Variant: of an enumeration, only sentences with a keyword are taken. *)
EnumeratedByKeyword ==
    UNION {{text[j] : j \in i + 1 .. Len(text)} \cap (Required \cup Forbids) :
           i \in FirstOpening}

(* split_acceptance_enumeration: from the first opening, what is left of it  *)
(* and every sentence after it.                                             *)
Enumerated ==
    UNION {({AfterLead[text[i]]} \cup {text[j] : j \in i + 1 .. Len(text)}) \ {NoText} :
           i \in FirstOpening}

(* The other sentences, by their keywords; an opening is never one of them.  *)
Plain == {s \in Sentences : Said(s)} \ (Opens \cup Enumerated)
Imposed == Plain \cap (Required \cup Forbids)

(* extract *)
RuleDraft ==
    LET hard == {Item(s, Inferred[s], "none") : s \in Enumerated \cup Imposed}
    IN  [object |-> TRUE,
         main |-> "none",
         hard |-> hard,
         soft |-> {Item(s, NoCheck, "none") : s \in Plain \cap Wished},
         acceptance |-> hard \cup {Item(s, "content_check", "none") : s \in Plain \cap Wished},
         prohibitions |-> {Item(s, NoCheck, "none") : s \in Plain \cap Forbids}]

-----------------------------------------------------------------------------
(* normalize and validate *)

Kept(items) == {i \in items : i.text # NoText}

(* normalize_hard_constraints keeps whatever method the draft names.         *)
HardConstraints(items) ==
    {[i EXCEPT !.check = IF @ = NoCheck THEN Inferred[i.text] ELSE @] : i \in Kept(items)}

(* normalize_acceptance_conditions: an unknown check type becomes a manual   *)
(* review; without conditions the hard constraints stand for them.          *)
KnownCheck(check, t) ==
    IF check = NoCheck THEN Inferred[t]
    ELSE IF check \in CheckTypes THEN check ELSE "manual_review"
AcceptanceConditions(items, hard) ==
    IF Kept(items) # {} THEN {[i EXCEPT !.check = KnownCheck(@, i.text)] : i \in Kept(items)}
    ELSE {[i EXCEPT !.flaw = "none"] : i \in hard}

(* normalize raises on an answer that is no object, and on a priority or a   *)
(* weight that is no number.                                                *)
Raises(d) == ~d.object \/ \E i \in Kept(d.soft) : i.flaw = "not a number"

Normalized(d) ==
    LET hard == HardConstraints(d.hard)
    IN  [made |-> TRUE,
         main |-> d.main,
         hard |-> hard,
         soft |-> Kept(d.soft),
         acceptance |-> AcceptanceConditions(d.acceptance, hard),
         prohibitions |-> Kept(d.prohibitions)]

(* validate_goalspec and the schema.                                         *)
WellFormed(g) ==
    /\ g.main = "none"
    /\ \A i \in g.hard \cup g.soft \cup g.acceptance \cup g.prohibitions : i.flaw = "none"
    /\ \A i \in g.acceptance : i.check \in CheckTypes

-----------------------------------------------------------------------------
(* compile_goal *)

Texts == UNION {[1 .. n -> Sentences] : n \in 1 .. MaxSentences}

GoalSpecInit ==
    /\ mode \in {"rule", "deepseek", "auto"}
    /\ text \in Texts
    /\ phase = "extract" /\ failures = 0
    /\ draft = NoDraft /\ goal = NoGoal /\ usedMode = "none"

(* Before compile_goal is called. *)
GoalSpecRest ==
    /\ mode = "rule" /\ text = <<>> /\ phase = "extract" /\ failures = 0
    /\ draft = NoDraft /\ goal = NoGoal /\ usedMode = "none"

Extracted(d, by) == draft' = d /\ usedMode' = by /\ phase' = "normalize"

(* Without the model the rules extract; "auto" falls back to them.           *)
ExtractByRule ==
    /\ phase = "extract"
    /\ mode = "rule" \/ (mode = "auto" /\ failures = ModelTries)
    /\ Extracted(RuleDraft, "rule")
    /\ UNCHANGED <<mode, text, failures, goal>>

(* extract_with_deepseek: an answer, or up to three calls that fail or come  *)
(* back empty; without an API key it fails at once.                         *)
CallModel ==
    /\ phase = "extract" /\ mode # "rule" /\ failures < ModelTries
    /\ \/ /\ \E d \in ModelDrafts : Extracted(d, "deepseek")
          /\ failures' = failures
       \/ /\ failures' \in {failures + 1} \cup (IF failures = 0 THEN {ModelTries} ELSE {})
          /\ UNCHANGED <<draft, usedMode, phase>>
    /\ UNCHANGED <<mode, text, goal>>

GiveUp ==
    /\ phase = "extract" /\ mode = "deepseek" /\ failures = ModelTries
    /\ phase' = "raised"
    /\ UNCHANGED <<mode, text, failures, draft, goal, usedMode>>

Normalize ==
    /\ phase = "normalize"
    /\ IF Raises(draft) THEN phase' = "raised" /\ goal' = goal
       ELSE phase' = "validate" /\ goal' = Normalized(draft)
    /\ UNCHANGED <<mode, text, failures, draft, usedMode>>

(* strict: an invalid specification is refused.                              *)
ValidateGoal ==
    /\ phase = "validate"
    /\ phase' = IF WellFormed(goal) THEN "compiled" ELSE "raised"
    /\ UNCHANGED <<mode, text, failures, draft, goal, usedMode>>

GoalSpecNext == ExtractByRule \/ CallModel \/ GiveUp \/ Normalize \/ ValidateGoal

GoalSpecSpec == GoalSpecInit /\ [][GoalSpecNext]_goalVars

-----------------------------------------------------------------------------
(* Properties *)

(* Every variable holds a value of its type. *)
GoalSpecTypeOK ==
    /\ phase \in {"extract", "normalize", "validate", "compiled", "raised"}
    /\ failures \in 0 .. ModelTries /\ draft.object \in BOOLEAN /\ goal.made \in BOOLEAN
    /\ usedMode \in {"none", "rule", "deepseek"}

TextsOf(items) == {i.text : i \in items}

(* "A/B/C are all acceptance conditions ... before, the others were lost and *)
(* the DAG lacked whole stretches of work": whatever order the sentences     *)
(* come in, a text compiled by rules (or after a failing model) is never     *)
(* refused, everything enumerated, required or forbidden in it is a hard     *)
(* constraint with an acceptance condition that names a known check, and     *)
(* what is forbidden outside the enumeration is a prohibition.              *)
RequirementsKept ==
    usedMode = "rule" /\ phase \in {"compiled", "raised"} =>
        /\ phase = "compiled"
        /\ \A i \in DOMAIN text :
              LET listed == \E j \in 1 .. i - 1 : text[j] \in Opens
                  plain  == text[i] \notin Opens \cup Enumerated
              IN  /\ listed \/ (plain /\ text[i] \in Required \cup Forbids) =>
                        text[i] \in TextsOf(goal.hard) \cap TextsOf(goal.acceptance)
                  /\ plain /\ text[i] \in Forbids => text[i] \in TextsOf(goal.prohibitions)
        /\ \A i \in goal.acceptance : i.check \in CheckTypes
=============================================================================

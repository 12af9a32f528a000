-------------------------- MODULE Compilers_proofs -------------------------
(***************************************************************************)
(* The two compilers, for every text, GoalSpec and plan: the rules keep what *)
(* a goal demands, and a plan that is recomputed in parts is the one a full  *)
(* recomputation gives and never stuck.                                     *)
(***************************************************************************)
EXTENDS GoalSpec, Planner, FiniteSetTheorems, TLAPS

-----------------------------------------------------------------------------
(* GoalSpec: what the rules find is kept *)

(* The rules' draft reaches the end as it is. *)
Ruled ==
    /\ text \in Seq(Sentences)
    /\ phase \in {"extract", "normalize", "validate", "compiled", "raised"}
    /\ usedMode = "rule" =>
          /\ phase \in {"normalize", "validate", "compiled"}
          /\ draft = RuleDraft
          /\ phase # "normalize" => goal = Normalized(RuleDraft)
    /\ phase = "extract" => usedMode = "none"

LEMMA LeastNat ==
    ASSUME NEW T \in SUBSET Nat, T # {}
    PROVE  \E x \in T : \A y \in T : x <= y
<1> DEFINE R == OpToRel(<, Nat)
<1>1. IsWellFoundedOn(R, Nat) BY NatLessThanWellFounded
<1>2. \A x, y \in Nat : y < x => <<y, x>> \in R BY DEF OpToRel
<1> HIDE DEF R
<1>3. \E x \in T : \A y \in T : ~(<<y, x>> \in R) BY <1>1, WFMin
<1>4. PICK x \in T : \A y \in T : ~(<<y, x>> \in R) BY <1>3
<1>5. \A y \in T : ~(y < x) BY <1>2, <1>4
<1>6. QED BY <1>5

LEMMA TextsAreSequences == Texts \subseteq Seq(Sentences)
<1>1. ASSUME NEW n \in 1 .. MaxSentences, NEW s \in [1 .. n -> Sentences]
      PROVE  s \in Seq(Sentences)
  BY <1>1, GoalSpecAssumption
<1>2. QED BY <1>1 DEF Texts

(* What follows the first opening is enumerated. *)
LEMMA ListedIsEnumerated ==
    ASSUME text \in Seq(Sentences), NEW i \in DOMAIN text, NEW j \in 1 .. i - 1,
           text[j] \in Opens
    PROVE  text[i] \in Enumerated
<1>1. DOMAIN text = 1 .. Len(text) /\ Len(text) \in Nat
      /\ \A k \in 1 .. Len(text) : text[k] \in Sentences
  OBVIOUS
<1> DEFINE T == {k \in 1 .. Len(text) : text[k] \in Opens}
<1>2. T \in SUBSET Nat /\ j \in T BY <1>1
<1>3. PICK x \in T : \A y \in T : x <= y BY <1>2, LeastNat
<1>4. x \in FirstOpening BY <1>1, <1>3 DEF FirstOpening
<1>5. i \in x + 1 .. Len(text) BY <1>1, <1>2, <1>3
<1>6. text[i] # NoText BY <1>1, GoalSpecAssumption
<1> HIDE DEF T
<1>7. text[i] \in ({AfterLead[text[x]]} \cup {text[k] : k \in x + 1 .. Len(text)}) \ {NoText}
  BY <1>5, <1>6
<1>8. QED BY <1>4, <1>7 DEF Enumerated

LEMMA EnumeratedAreSentences ==
    ASSUME text \in Seq(Sentences)
    PROVE  Enumerated \subseteq Sentences
<1>1. DOMAIN text = 1 .. Len(text) /\ Len(text) \in Nat
      /\ \A k \in 1 .. Len(text) : text[k] \in Sentences
  OBVIOUS
<1>2. ASSUME NEW x \in FirstOpening,
             NEW s \in ({AfterLead[text[x]]} \cup {text[k] : k \in x + 1 .. Len(text)}) \ {NoText}
      PROVE  s \in Sentences
  <2>1. x \in 1 .. Len(text) /\ text[x] \in Opens BY <1>1 DEF FirstOpening
  <2>2. CASE s = AfterLead[text[x]] BY <2>1, <2>2, GoalSpecAssumption
  <2>3. CASE \E k \in x + 1 .. Len(text) : s = text[k] BY <1>1, <2>1, <2>3
  <2>4. QED BY <2>2, <2>3
<1>3. QED BY <1>2 DEF Enumerated

(* The rules' draft, field by field. *)
Demanded == Enumerated \cup Imposed

LEMMA DraftFields ==
    ASSUME text \in Seq(Sentences)
    PROVE  /\ Demanded \subseteq Sentences
           /\ RuleDraft.object = TRUE /\ RuleDraft.main = "none"
           /\ RuleDraft.hard = {Item(s, Inferred[s], "none") : s \in Demanded}
           /\ RuleDraft.soft = {Item(s, NoCheck, "none") : s \in Plain \cap Wished}
           /\ RuleDraft.acceptance = RuleDraft.hard \cup
                 {Item(s, "content_check", "none") : s \in Plain \cap Wished}
           /\ RuleDraft.prohibitions = {Item(s, NoCheck, "none") : s \in Plain \cap Forbids}
           /\ Plain \subseteq Sentences
<1>1. Plain \subseteq Sentences BY DEF Plain
<1>2. Demanded \subseteq Sentences
  BY <1>1, EnumeratedAreSentences DEF Demanded, Imposed
<1>3. QED BY <1>1, <1>2 DEF RuleDraft, Demanded

(* An item with its text, and a check where one is known. *)
Typed(i) == /\ i.text \in Sentences /\ i.text # NoText /\ i.flaw = "none"
            /\ i = [text |-> i.text, check |-> i.check, flaw |-> i.flaw]

LEMMA ItemFields ==
    ASSUME NEW s \in Sentences, NEW c
    PROVE  /\ Typed(Item(s, c, "none")) /\ Item(s, c, "none").text = s
           /\ Item(s, c, "none").check = c
BY GoalSpecAssumption DEF Item, Typed

LEMMA DraftItems ==
    ASSUME text \in Seq(Sentences)
    PROVE  /\ \A i \in RuleDraft.hard : Typed(i) /\ i.check \in CheckTypes
           /\ \A i \in RuleDraft.soft \cup RuleDraft.prohibitions : Typed(i)
           /\ \A i \in RuleDraft.acceptance : Typed(i) /\ i.check \in CheckTypes
           /\ TextsOf(RuleDraft.hard) = Demanded
           /\ TextsOf(RuleDraft.prohibitions) = Plain \cap Forbids
<1>1. \A i \in RuleDraft.hard : Typed(i) /\ i.check \in CheckTypes
  BY DraftFields, ItemFields, GoalSpecAssumption
<1>2. \A i \in RuleDraft.soft \cup RuleDraft.prohibitions : Typed(i)
  BY DraftFields, ItemFields
<1>3. \A i \in RuleDraft.acceptance : Typed(i) /\ i.check \in CheckTypes
  BY <1>1, DraftFields, ItemFields DEF CheckTypes
<1>4. TextsOf(RuleDraft.hard) = Demanded
  BY DraftFields, ItemFields DEF TextsOf
<1>5. TextsOf(RuleDraft.prohibitions) = Plain \cap Forbids
  BY DraftFields, ItemFields DEF TextsOf
<1>6. QED BY <1>1, <1>2, <1>3, <1>4, <1>5

(* Normalization finds nothing to change in it. *)
LEMMA NormalizedRules ==
    ASSUME text \in Seq(Sentences)
    PROVE  /\ ~Raises(RuleDraft)
           /\ Normalized(RuleDraft).main = "none"
           /\ Normalized(RuleDraft).hard = RuleDraft.hard
           /\ Normalized(RuleDraft).soft = RuleDraft.soft
           /\ Normalized(RuleDraft).acceptance = RuleDraft.acceptance
           /\ Normalized(RuleDraft).prohibitions = RuleDraft.prohibitions
<1> DEFINE d == RuleDraft
<1>1. /\ d.object = TRUE /\ d.main = "none" /\ d.hard \subseteq d.acceptance
  BY DraftFields
<1>2. /\ \A i \in d.hard : Typed(i) /\ i.check \in CheckTypes
      /\ \A i \in d.soft \cup d.prohibitions : Typed(i)
      /\ \A i \in d.acceptance : Typed(i) /\ i.check \in CheckTypes
  BY DraftItems
<1> HIDE DEF d
<1>3. /\ Kept(d.hard) = d.hard /\ Kept(d.soft) = d.soft
      /\ Kept(d.acceptance) = d.acceptance /\ Kept(d.prohibitions) = d.prohibitions
  BY <1>2 DEF Kept, Typed
<1>4. ~Raises(d) BY <1>1, <1>2, <1>3 DEF Raises, Typed
<1>5. NoCheck \notin CheckTypes BY DEF NoCheck, CheckTypes
<1>6. ASSUME NEW i, Typed(i), NEW c, c = i.check
      PROVE  [i EXCEPT !.check = c] = i
  BY <1>6 DEF Typed
<1>7. HardConstraints(d.hard) = d.hard
  <2>1. \A i \in d.hard : [i EXCEPT !.check = IF @ = NoCheck THEN Inferred[i.text] ELSE @] = i
    BY <1>2, <1>5, <1>6
  <2>2. QED BY <1>3, <2>1 DEF HardConstraints
<1>8. AcceptanceConditions(d.acceptance, d.hard) = d.acceptance
  <2>1. CASE d.acceptance = {}
    <3>1. d.hard = {} BY <1>1, <2>1
    <3>2. QED BY <1>3, <2>1, <3>1 DEF AcceptanceConditions
  <2>2. CASE d.acceptance # {}
    <3>1. \A i \in d.acceptance : KnownCheck(i.check, i.text) = i.check
      BY <1>2, <1>5 DEF KnownCheck
    <3>2. \A i \in d.acceptance : [i EXCEPT !.check = KnownCheck(@, i.text)] = i
      BY <1>2, <1>6, <3>1
    <3>3. QED BY <1>3, <2>2, <3>2 DEF AcceptanceConditions
  <2>3. QED BY <2>1, <2>2
<1>9. QED BY <1>1, <1>3, <1>4, <1>7, <1>8 DEF Normalized, d

LEMMA RulesAreWellFormed ==
    ASSUME text \in Seq(Sentences)
    PROVE  WellFormed(Normalized(RuleDraft))
BY DraftItems, NormalizedRules DEF WellFormed, Typed

LEMMA NextRuled ==
    ASSUME Ruled, [GoalSpecNext]_goalVars
    PROVE  Ruled'
<1>1. ASSUME text' = text PROVE RuleDraft' = RuleDraft /\ Normalized(RuleDraft)' = Normalized(RuleDraft)
  BY <1>1 DEF RuleDraft, Enumerated, Imposed, Plain, FirstOpening, Said, Normalized
<1>2. CASE ExtractByRule BY <1>1, <1>2 DEF ExtractByRule, Extracted, Ruled
<1>3. CASE CallModel BY <1>1, <1>3 DEF CallModel, Extracted, Ruled
<1>4. CASE GiveUp BY <1>1, <1>4 DEF GiveUp, Ruled
<1>5. CASE Normalize
  <2>1. usedMode = "rule" => ~Raises(draft) BY NormalizedRules DEF Ruled
  <2>2. QED BY <1>1, <1>5, <2>1 DEF Normalize, Ruled
<1>6. CASE ValidateGoal
  <2>1. usedMode = "rule" /\ phase = "validate" => WellFormed(goal)
    BY RulesAreWellFormed DEF Ruled
  <2>2. QED BY <1>1, <1>6, <2>1 DEF ValidateGoal, Ruled
<1>7. CASE UNCHANGED goalVars BY <1>1, <1>7 DEF goalVars, Ruled
<1>8. QED BY <1>2, <1>3, <1>4, <1>5, <1>6, <1>7 DEF GoalSpecNext

LEMMA RuledKeeps == Ruled => RequirementsKept
<1> SUFFICES ASSUME Ruled, usedMode = "rule", phase \in {"compiled", "raised"}
             PROVE  RequirementsKept
  BY DEF RequirementsKept
<1>1. text \in Seq(Sentences) /\ phase = "compiled" /\ goal = Normalized(RuleDraft)
  BY DEF Ruled
<1>2. /\ TextsOf(goal.hard) = Demanded /\ TextsOf(goal.prohibitions) = Plain \cap Forbids
      /\ goal.hard \subseteq goal.acceptance
      /\ \A i \in goal.acceptance : i.check \in CheckTypes
  BY <1>1, DraftFields, DraftItems, NormalizedRules
<1>3. Demanded \subseteq TextsOf(goal.acceptance) BY <1>2 DEF TextsOf
<1>4. ASSUME NEW i \in DOMAIN text, text[i] \notin Opens \cup Enumerated
      PROVE  text[i] \in Plain
  BY <1>1, <1>4 DEF Plain, Said
<1>5. ASSUME NEW i \in DOMAIN text, \E j \in 1 .. i - 1 : text[j] \in Opens
      PROVE  text[i] \in Demanded
  BY <1>1, <1>5, ListedIsEnumerated DEF Demanded
<1>6. QED BY <1>1, <1>2, <1>3, <1>4, <1>5 DEF RequirementsKept, Demanded, Imposed

(* A text compiled by the rules is never refused, and everything it          *)
(* enumerates, requires or forbids is a hard constraint with an acceptance   *)
(* condition, for any sentences, keywords, openings and model answers.      *)
THEOREM RulesKeepRequirements == GoalSpecSpec => []RequirementsKept
<1>1. GoalSpecInit => Ruled
  BY TextsAreSequences DEF GoalSpecInit, Ruled
<1>2. Ruled /\ [GoalSpecNext]_goalVars => Ruled' BY NextRuled
<1>3. QED BY <1>1, <1>2, RuledKeeps, PTL DEF GoalSpecSpec

-----------------------------------------------------------------------------
(* The planner: traversals of a graph, and what is gathered along one *)

(* S and what depends on it: the least set with the dependents of its nodes. *)
Below(d, S) ==
    {n \in DOMAIN d : \A X \in SUBSET DOMAIN d :
                         S \subseteq X /\ Children(d, X) \subseteq X => n \in X}

LEMMA BelowIsLeast ==
    ASSUME NEW d, NEW S \in SUBSET DOMAIN d
    PROVE  /\ S \subseteq Below(d, S) /\ Below(d, S) \in SUBSET DOMAIN d
           /\ Children(d, Below(d, S)) \subseteq Below(d, S)
           /\ \A X \in SUBSET DOMAIN d :
                 S \subseteq X /\ Children(d, X) \subseteq X => Below(d, S) \subseteq X
<1>1. ASSUME NEW n \in Children(d, Below(d, S)), NEW X \in SUBSET DOMAIN d,
             S \subseteq X, Children(d, X) \subseteq X
      PROVE  n \in X
  <2>1. Below(d, S) \subseteq X BY <1>1 DEF Below
  <2>2. n \in Children(d, X) BY <2>1 DEF Children
  <2>3. QED BY <1>1, <2>2
<1>2. Children(d, Below(d, S)) \subseteq DOMAIN d BY DEF Children
<1>3. Children(d, Below(d, S)) \subseteq Below(d, S) BY <1>1, <1>2 DEF Below
<1>4. QED BY <1>3 DEF Below

(* What is below S and not in it has a parent there.                         *)
LEMMA BelowThroughParent ==
    ASSUME NEW d, NEW S \in SUBSET DOMAIN d, NEW n \in Below(d, S), n \notin S
    PROVE  d[n].deps \cap Below(d, S) # {}
<1> DEFINE X == Below(d, S) \ {n}
<1>1. SUFFICES ASSUME d[n].deps \cap Below(d, S) = {} PROVE FALSE OBVIOUS
<1>2. Children(d, X) \subseteq X
  <2>1. Children(d, X) \subseteq Children(d, Below(d, S)) BY DEF Children
  <2>2. n \notin Children(d, X) BY <1>1 DEF Children
  <2>3. QED BY <2>1, <2>2, BelowIsLeast
<1>3. X \in SUBSET DOMAIN d /\ S \subseteq X BY BelowIsLeast
<1>4. Below(d, S) \subseteq X BY <1>2, <1>3, BelowIsLeast
<1>5. QED BY <1>4

LEMMA BelowGrows ==
    ASSUME NEW d, NEW X \in SUBSET DOMAIN d
    PROVE  /\ X \cup Children(d, X) \in SUBSET DOMAIN d
           /\ Below(d, X \cup Children(d, X)) = Below(d, X)
           /\ X \cup Children(d, X) = X => Below(d, X) = X
<1> DEFINE Y == X \cup Children(d, X)
<1>1. Y \in SUBSET DOMAIN d BY DEF Children
<1>2. \A Z \in SUBSET DOMAIN d : Children(d, Z) \subseteq Z => (X \subseteq Z <=> Y \subseteq Z)
  BY DEF Children
<1>3. Below(d, Y) = Below(d, X) BY <1>1, <1>2 DEF Below
<1>4. Y = X => Below(d, X) = X BY BelowIsLeast
<1>5. QED BY <1>1, <1>3, <1>4

(* Of finitely many sets one is largest. *)
LEMMA Largest ==
    ASSUME NEW D, IsFiniteSet(D), NEW B \in SUBSET (SUBSET D), B # {}
    PROVE  \E X \in B : \A Y \in SUBSET D : X \subseteq Y /\ X # Y => Y \notin B
<1> DEFINE left(X) == Cardinality(D) - Cardinality(X)
           T == {left(X) : X \in B}
<1>1. \A X \in SUBSET D : IsFiniteSet(X) /\ Cardinality(X) \in Nat /\ left(X) \in Nat
  BY FS_Subset, FS_CardinalityType
<1>2. T \in SUBSET Nat /\ T # {} BY <1>1
<1>3. PICK t \in T : \A u \in T : t <= u
  <2> HIDE DEF T
  <2>1. QED BY <1>2, LeastNat
<1>4. PICK X \in B : t = left(X) BY <1>3
<1>5. ASSUME NEW Y \in B, X \subseteq Y, X # Y PROVE FALSE
  <2>1. Cardinality(X) < Cardinality(Y)
    <3>1. IsFiniteSet(Y) BY <1>1
    <3>2. Cardinality(X) <= Cardinality(Y) /\ (Cardinality(X) = Cardinality(Y) => X = Y)
      BY <1>5, <3>1, FS_Subset
    <3>3. QED BY <1>1, <1>5, <3>2
  <2>2. t <= left(Y) BY <1>3
  <2>3. Cardinality(D) \in Nat BY FS_CardinalityType
  <2>4. QED BY <1>1, <1>4, <2>1, <2>2, <2>3
<1>6. QED BY <1>5

(* The traversal of the planner finds what is below. *)
LEMMA TraversalIsBelow ==
    ASSUME NEW d, IsFiniteSet(DOMAIN d), NEW S \in SUBSET DOMAIN d
    PROVE  WithDescendants(d, S) = Below(d, S)
<1> DEFINE Runs(f) == f = [X \in SUBSET DOMAIN d |->
                             IF X \cup Children(d, X) = X THEN X ELSE f[X \cup Children(d, X)]]
           g == [X \in SUBSET DOMAIN d |-> Below(d, X)]
<1>1. Runs(g)
  <2>1. ASSUME NEW X \in SUBSET DOMAIN d
        PROVE  Below(d, X) = IF X \cup Children(d, X) = X THEN X
                               ELSE g[X \cup Children(d, X)]
    BY BelowGrows
  <2>2. QED BY <2>1
<1>2. PICK f : Runs(f) /\ WithDescendants(d, S) = f[S]
  <2> HIDE DEF g
  <2>1. QED BY <1>1 DEF WithDescendants
<1> DEFINE B == {X \in SUBSET DOMAIN d : f[X] # Below(d, X)}
<1>3. B = {}
  <2>1. SUFFICES ASSUME B # {} PROVE FALSE OBVIOUS
  <2>2. PICK X \in B : \A Y \in SUBSET DOMAIN d : X \subseteq Y /\ X # Y => Y \notin B
    <3>1. B \in SUBSET (SUBSET DOMAIN d) OBVIOUS
    <3> HIDE DEF B
    <3>2. QED BY <2>1, <3>1, Largest
  <2>3. PICK Y : Y = X \cup Children(d, X) OBVIOUS
  <2>4. f[X] = IF Y = X THEN X ELSE f[Y] BY <1>2, <2>3
  <2>5. CASE Y = X BY <2>3, <2>4, <2>5, BelowGrows
  <2>6. CASE Y # X
    <3>1. Y \in SUBSET DOMAIN d /\ Below(d, Y) = Below(d, X) BY <2>3, BelowGrows
    <3>2. Y \notin B BY <2>2, <2>3, <2>6, <3>1
    <3>3. QED BY <2>4, <2>6, <3>1, <3>2
  <2>7. QED BY <2>5, <2>6
<1>4. QED BY <1>2, <1>3

(* A finite graph without dangling dependencies and cycles. *)
Sound(d) ==
    /\ IsFiniteSet(DOMAIN d)
    /\ \A n \in DOMAIN d : d[n].deps \subseteq DOMAIN d
    /\ \A n \in DOMAIN d : n \notin Below(d, Children(d, {n}))

LEMMA AcceptedIsSound ==
    ASSUME NEW d, IsFiniteSet(DOMAIN d), Accepts(d)
    PROVE  Sound(d)
<1>1. \A n \in DOMAIN d : Children(d, {n}) \in SUBSET DOMAIN d BY DEF Children
<1>2. QED BY <1>1, TraversalIsBelow DEF Accepts, Sound

(* Among any nodes of it there is one that depends on none of the others.    *)
LEMMA FirstOf ==
    ASSUME NEW d, Sound(d), NEW S \in SUBSET DOMAIN d, S # {}
    PROVE  \E n \in S : d[n].deps \cap S = {}
<1> DEFINE under(n) == Below(d, Children(d, {n}))
           B == {under(n) : n \in S}
<1>1. \A n \in DOMAIN d : Children(d, {n}) \in SUBSET DOMAIN d BY DEF Children
<1>2. \A n \in DOMAIN d : under(n) \in SUBSET DOMAIN d BY <1>1, BelowIsLeast
<1>3. PICK n \in S : \A Y \in SUBSET DOMAIN d : under(n) \subseteq Y /\ under(n) # Y => Y \notin B
  <2>1. B \in SUBSET (SUBSET DOMAIN d) /\ B # {} BY <1>2
  <2>2. \E X \in B : \A Y \in SUBSET DOMAIN d : X \subseteq Y /\ X # Y => Y \notin B
    <3> HIDE DEF B
    <3>1. QED BY <2>1, Largest DEF Sound
  <2>3. QED BY <2>2
<1>4. ASSUME NEW p \in d[n].deps, p \in S PROVE FALSE
  <2>1. n \in Children(d, {p}) BY <1>4 DEF Children
  <2>2. /\ Children(d, {p}) \subseteq under(p) /\ under(p) \in SUBSET DOMAIN d
        /\ Children(d, under(p)) \subseteq under(p)
    BY <1>1, <1>4, BelowIsLeast
  <2>3. n \in under(p) BY <2>1, <2>2
  <2>4. Children(d, {n}) \subseteq under(p)
    <3>1. Children(d, {n}) \subseteq Children(d, under(p)) BY <2>3 DEF Children
    <3>2. QED BY <2>2, <3>1
  <2>5. under(n) \subseteq under(p)
    <3>1. PICK K \in SUBSET DOMAIN d : K = Children(d, {n}) BY <1>1
    <3>2. \A X \in SUBSET DOMAIN d : K \subseteq X /\ Children(d, X) \subseteq X
                                     => Below(d, K) \subseteq X
      BY BelowIsLeast
    <3>3. QED BY <2>2, <2>4, <3>1, <3>2
  <2>6. n \notin under(n) BY DEF Sound
  <2>7. under(p) \in B BY <1>4
  <2>8. QED BY <1>3, <2>2, <2>3, <2>5, <2>6, <2>7
<1>5. QED BY <1>4

(* What follows from the parents of every node outside A, which no node of    *)
(* A is a parent of, holds of every node outside A.                          *)
LEMMA FromParents ==
    ASSUME NEW d, Sound(d), NEW A, NEW f, NEW g,
           \A n \in DOMAIN d : d[n].deps \cap A # {} => n \in A,
           \A n \in DOMAIN d \ A : (\A p \in d[n].deps : f[p] = g[p]) => f[n] = g[n]
    PROVE  \A n \in DOMAIN d \ A : f[n] = g[n]
<1> DEFINE S == {n \in DOMAIN d \ A : f[n] # g[n]}
<1>1. SUFFICES ASSUME S # {} PROVE FALSE OBVIOUS
<1>2. PICK n \in S : d[n].deps \cap S = {}
  <2>1. S \in SUBSET DOMAIN d OBVIOUS
  <2> HIDE DEF S
  <2>2. QED BY <1>1, <2>1, FirstOf
<1>3. \A p \in d[n].deps : p \in DOMAIN d \ A BY DEF Sound
<1>4. QED BY <1>2, <1>3

LEMMA FromAllParents ==
    ASSUME NEW d, Sound(d), NEW f, NEW g,
           \A n \in DOMAIN d : (\A p \in d[n].deps : f[p] = g[p]) => f[n] = g[n]
    PROVE  \A n \in DOMAIN d : f[n] = g[n]
<1> DEFINE A == {}
<1>1. \A n \in DOMAIN d : d[n].deps \cap A # {} => n \in A OBVIOUS
<1>2. \A n \in DOMAIN d \ A : (\A p \in d[n].deps : f[p] = g[p]) => f[n] = g[n] OBVIOUS
<1> HIDE DEF A
<1>3. \A n \in DOMAIN d \ A : f[n] = g[n] BY <1>1, <1>2, FromParents
<1>4. QED BY <1>3 DEF A

(* Gathered along the graph: what every node has, and all its parents gather. *)
Gathers(d, own, f) ==
    f = [n \in DOMAIN d |-> own[n] \cup UNION {f[p] : p \in d[n].deps}]

LEMMA SomeGathers ==
    ASSUME NEW d, Sound(d), NEW own
    PROVE  \E f : Gathers(d, own, f)
<1> DEFINE above(n) == {m \in DOMAIN d : n \in Below(d, {m})}
           f == [n \in DOMAIN d |-> UNION {own[m] : m \in above(n)}]
<1>1. ASSUME NEW n \in DOMAIN d
      PROVE  above(n) = {n} \cup UNION {above(p) : p \in d[n].deps}
  <2>1. n \in above(n) BY BelowIsLeast
  <2>2. ASSUME NEW p \in d[n].deps, NEW m \in above(p) PROVE m \in above(n)
    <3>1. p \in Below(d, {m}) BY <2>2
    <3>2. n \in Children(d, Below(d, {m})) BY <2>2, <3>1 DEF Children
    <3>3. QED BY <2>2, <3>2, BelowIsLeast
  <2>3. ASSUME NEW m \in above(n), m # n PROVE \E p \in d[n].deps : m \in above(p)
    <3>1. n \in Below(d, {m}) /\ {m} \in SUBSET DOMAIN d BY <2>3
    <3>2. d[n].deps \cap Below(d, {m}) # {} BY <2>3, <3>1, BelowThroughParent
    <3>3. QED BY <2>3, <3>2
  <2>4. QED BY <2>1, <2>2, <2>3
<1>2. ASSUME NEW n \in DOMAIN d
      PROVE  f[n] = own[n] \cup UNION {f[p] : p \in d[n].deps}
  <2>1. \A p \in d[n].deps : f[p] = UNION {own[m] : m \in above(p)} BY DEF Sound
  <2>2. f[n] = UNION {own[m] : m \in above(n)} OBVIOUS
  <2> HIDE DEF f, above
  <2>3. QED BY <1>1, <2>1, <2>2
<1>3. f = [n \in DOMAIN d |-> own[n] \cup UNION {f[p] : p \in d[n].deps}]
  <2>1. f = [n \in DOMAIN d |-> f[n]] OBVIOUS
  <2> HIDE DEF f
  <2>2. QED BY <1>2, <2>1
<1>4. QED BY <1>3 DEF Gathers

LEMMA GathersOnce ==
    ASSUME NEW d, Sound(d), NEW own, NEW f, NEW g, Gathers(d, own, f), Gathers(d, own, g)
    PROVE  f = g
<1>1. ASSUME NEW n \in DOMAIN d, \A p \in d[n].deps : f[p] = g[p]
      PROVE  f[n] = g[n]
  <2>1. {f[p] : p \in d[n].deps} = {g[p] : p \in d[n].deps} BY <1>1
  <2>2. QED BY <2>1 DEF Gathers
<1>2. \A n \in DOMAIN d : f[n] = g[n] BY <1>1, FromAllParents
<1>3. f = [n \in DOMAIN d |-> f[n]] /\ g = [n \in DOMAIN d |-> g[n]] BY DEF Gathers
<1>4. [n \in DOMAIN d |-> f[n]] = [n \in DOMAIN d |-> g[n]] BY <1>2
<1>5. QED BY <1>3, <1>4

-----------------------------------------------------------------------------
(* The planner: replans *)

OwnPrint(d) == [n \in DOMAIN d |-> {<<n, d[n]>>}]
OwnTree(d, e) == [n \in DOMAIN d |-> {<<n, d[n], e[n]>>}]

(* The plan is sound; what was recomputed in parts is what a recomputation of *)
(* all of it gives; a stale node waits for a parent.                         *)
Planned ==
    /\ Sound(defs)
    /\ DOMAIN nodeStatus = DOMAIN defs /\ DOMAIN accepted = DOMAIN defs
    /\ DOMAIN epoch = DOMAIN defs
    /\ \A n \in DOMAIN defs :
          /\ nodeStatus[n] \in {"pending", "stale", "completed", "failed"}
          /\ nodeStatus[n] = "stale" => ~ParentsCompleted(n, nodeStatus)
          /\ nodeStatus[n] = "completed" => accepted[n] = Tree(n)
    /\ Gathers(defs, OwnPrint(defs), prints)

Rests(d, e) ==
    CHOOSE f : f = [m \in DOMAIN d |-> {<<m, d[m], e[m]>>} \cup UNION {f[p] : p \in d[m].deps}]

LEMMA TreeGathers ==
    /\ \A n \in DOMAIN defs : Tree(n) = Rests(defs, epoch)[n]
    /\ \A n \in DOMAIN defs' : Tree(n)' = Rests(defs', epoch')[n]
BY DEF Tree, Rests

LEMMA RestsGathers ==
    ASSUME NEW d, Sound(d), NEW e
    PROVE  Gathers(d, OwnTree(d, e), Rests(d, e))
<1> DEFINE Grows(f) == f = [m \in DOMAIN d |->
                              {<<m, d[m], e[m]>>} \cup UNION {f[p] : p \in d[m].deps}]
<1>1. PICK own : own = OwnTree(d, e) OBVIOUS
<1>2. \A f : Grows(f) <=> Gathers(d, own, f) BY <1>1 DEF Gathers, OwnTree
<1>3. PICK g : Gathers(d, own, g) BY SomeGathers
<1>4. Grows(g) BY <1>2, <1>3
<1>5. Rests(d, e) = CHOOSE f : Grows(f) BY DEF Rests
<1>6. Grows(Rests(d, e))
  <2> HIDE DEF Grows
  <2>1. QED BY <1>4, <1>5
<1>7. PICK r : r = Rests(d, e) OBVIOUS
<1>8. Grows(r) BY <1>6, <1>7
<1>9. Gathers(d, own, r) BY <1>2, <1>8
<1>10. QED BY <1>1, <1>7, <1>9

(* A function that is printed from the old prints outside A: there is one,    *)
(* and it gathers the whole new graph.                                       *)
LEMMA PrintsGather ==
    ASSUME NEW d, NEW d2, Sound(d2), NEW A,
           Gathers(d, OwnPrint(d), prints),
           \A n \in DOMAIN d2 : d2[n].deps \cap A # {} => n \in A,
           \A n \in DOMAIN d2 \ A : n \in DOMAIN d /\ d2[n] = d[n]
    PROVE  Gathers(d2, OwnPrint(d2), Fingerprints(d2, A))
<1> DEFINE Printed(f) == f = [n \in DOMAIN d2 |->
                                IF n \in A THEN {<<n, d2[n]>>} \cup UNION {f[p] : p \in d2[n].deps}
                                ELSE prints[n]]
           F == CHOOSE f : Printed(f)
<1>1. PICK own, g : own = OwnPrint(d2) /\ Gathers(d2, own, g)
  <2>1. PICK own : own = OwnPrint(d2) OBVIOUS
  <2>2. \E g : Gathers(d2, own, g) BY SomeGathers
  <2>3. QED BY <2>1, <2>2
<1>2. \A n \in DOMAIN d2 \ A : g[n] = prints[n]
  <2>1. ASSUME NEW n \in DOMAIN d2 \ A, \A p \in d2[n].deps : g[p] = prints[p]
        PROVE  g[n] = prints[n]
    <3>1. g[n] = {<<n, d2[n]>>} \cup UNION {g[p] : p \in d2[n].deps}
      BY <1>1 DEF Gathers, OwnPrint
    <3>2. prints[n] = {<<n, d2[n]>>} \cup UNION {prints[p] : p \in d2[n].deps}
      BY DEF Gathers, OwnPrint
    <3>3. {g[p] : p \in d2[n].deps} = {prints[p] : p \in d2[n].deps} BY <2>1
    <3>4. QED BY <3>1, <3>2, <3>3
  <2>2. PICK q : q = prints OBVIOUS
  <2>3. QED BY <2>1, <2>2, FromParents
<1>3. Printed(g)
  <2>1. ASSUME NEW n \in DOMAIN d2
        PROVE  g[n] = IF n \in A THEN {<<n, d2[n]>>} \cup UNION {g[p] : p \in d2[n].deps}
                      ELSE prints[n]
    <3>1. g[n] = {<<n, d2[n]>>} \cup UNION {g[p] : p \in d2[n].deps}
      BY <1>1 DEF Gathers, OwnPrint
    <3>2. QED BY <1>2, <3>1
  <2>2. g = [n \in DOMAIN d2 |-> g[n]] BY <1>1 DEF Gathers
  <2>3. QED BY <2>1, <2>2
<1>4. PICK f : f = Fingerprints(d2, A) OBVIOUS
<1>5. Printed(f)
  <2>1. Fingerprints(d2, A) = F BY DEF Fingerprints
  <2> HIDE DEF Printed
  <2>2. Printed(F) BY <1>3
  <2> HIDE DEF F
  <2>3. QED BY <1>4, <2>1, <2>2
<1>6. \A n \in DOMAIN d2 : f[n] = g[n]
  <2>1. ASSUME NEW n \in DOMAIN d2, \A p \in d2[n].deps : f[p] = g[p]
        PROVE  f[n] = g[n]
    <3>1. {f[p] : p \in d2[n].deps} = {g[p] : p \in d2[n].deps} BY <2>1
    <3>2. f[n] = IF n \in A THEN {<<n, d2[n]>>} \cup UNION {f[p] : p \in d2[n].deps}
                 ELSE prints[n]
      BY <1>5
    <3>3. g[n] = IF n \in A THEN {<<n, d2[n]>>} \cup UNION {g[p] : p \in d2[n].deps}
                 ELSE prints[n]
      BY <1>3
    <3>4. QED BY <3>1, <3>2, <3>3
  <2>2. QED BY <2>1, FromAllParents
<1>7. f = g
  <2>1. DOMAIN f = DOMAIN d2 /\ f = [n \in DOMAIN d2 |-> f[n]] BY <1>5
  <2>2. g = [n \in DOMAIN d2 |-> g[n]] BY <1>1 DEF Gathers
  <2> HIDE DEF Printed
  <2>3. [n \in DOMAIN d2 |-> f[n]] = [n \in DOMAIN d2 |-> g[n]] BY <1>6
  <2>4. QED BY <2>1, <2>2, <2>3
<1>8. QED BY <1>1, <1>4, <1>7

(* A change between two sound plans: what was changed, or can be reached from *)
(* there in the one or the other, is affected.                               *)
LEMMA AffectedIs ==
    ASSUME NEW d, NEW d2, Sound(d), Sound(d2), NEW changed \in SUBSET DOMAIN d2,
           \A n \in DOMAIN d2 \ changed : n \in DOMAIN d /\ d2[n] = d[n]
    PROVE  /\ AffectedBy(d, d2, changed) \subseteq DOMAIN d2
           /\ changed \subseteq AffectedBy(d, d2, changed)
           /\ \A n \in DOMAIN d2 : d2[n].deps \cap AffectedBy(d, d2, changed) # {}
                                      => n \in AffectedBy(d, d2, changed)
           /\ \A n \in AffectedBy(d, d2, changed) \ changed :
                 d2[n].deps \cap AffectedBy(d, d2, changed) # {}
<1> DEFINE A == AffectedBy(d, d2, changed)
           R == Below(d, changed \cap DOMAIN d)
           R2 == Below(d2, changed)
<1>1. A = (R \cup R2) \cap DOMAIN d2
  <2>1. WithDescendants(d, changed \cap DOMAIN d) = R BY TraversalIsBelow DEF Sound
  <2>2. changed \cap DOMAIN d2 = changed OBVIOUS
  <2>3. WithDescendants(d2, changed \cap DOMAIN d2) = R2 BY <2>2, TraversalIsBelow DEF Sound
  <2>4. QED BY <2>1, <2>3 DEF AffectedBy, AffectedClosure
<1>2. changed \subseteq R2 /\ R2 \subseteq DOMAIN d2 /\ Children(d2, R2) \subseteq R2
  BY BelowIsLeast
<1>3. R \subseteq DOMAIN d /\ Children(d, R) \subseteq R
  <2>1. changed \cap DOMAIN d \in SUBSET DOMAIN d OBVIOUS
  <2>2. QED BY <2>1, BelowIsLeast
<1> HIDE DEF A, R, R2
<1>4. ASSUME NEW n \in DOMAIN d2, NEW p \in d2[n].deps, p \in A PROVE n \in A
  <2>1. CASE n \in changed BY <1>1, <1>2, <2>1
  <2>2. CASE p \in R2
    <3>1. n \in Children(d2, R2) BY <2>2 DEF Children
    <3>2. QED BY <1>1, <1>2, <3>1
  <2>3. CASE n \notin changed /\ p \in R
    <3>1. n \in DOMAIN d /\ p \in d[n].deps BY <2>3
    <3>2. n \in Children(d, R) BY <2>3, <3>1 DEF Children
    <3>3. QED BY <1>1, <1>3, <3>2
  <2>4. QED BY <1>1, <1>4, <2>1, <2>2, <2>3
<1>5. ASSUME NEW n \in A \ changed PROVE d2[n].deps \cap A # {}
  <2>1. n \in DOMAIN d2 BY <1>1
  <2>2. CASE n \in R2
    <3>1. d2[n].deps \cap R2 # {} BY <1>5, <2>2, BelowThroughParent DEF R2
    <3>2. QED BY <1>1, <1>2, <3>1
  <2>3. CASE n \in R
    <3>1. changed \cap DOMAIN d \in SUBSET DOMAIN d OBVIOUS
    <3>2. d[n].deps \cap R # {} BY <1>5, <2>3, <3>1, BelowThroughParent DEF R
    <3>3. d2[n].deps = d[n].deps /\ d2[n].deps \subseteq DOMAIN d2
      BY <1>5, <2>1 DEF Sound
    <3>4. QED BY <1>1, <3>2, <3>3
  <2>4. QED BY <1>1, <2>2, <2>3
<1>6. A \subseteq DOMAIN d2 /\ changed \subseteq A BY <1>1, <1>2
<1>7. QED BY <1>4, <1>5, <1>6 DEF A

(* One replan keeps the plan sound and what it knows. *)
LEMMA ReplanPlanned ==
    ASSUME Planned, NEW d2, IsFiniteSet(DOMAIN d2), NEW changed \in SUBSET DOMAIN d2,
           Replan(d2, changed),
           \A n \in DOMAIN d2 \ changed : n \in DOMAIN defs /\ d2[n] = defs[n],
           DOMAIN epoch' = DOMAIN d2, \A n \in DOMAIN d2 \ changed : epoch'[n] = epoch[n]
    PROVE  Planned'
<1> DEFINE A == AffectedBy(defs, d2, changed)
<1>1. Sound(defs) BY DEF Planned
<1>2. Sound(d2) BY AcceptedIsSound DEF Replan
<1>3. /\ A \subseteq DOMAIN d2 /\ changed \subseteq A
      /\ \A n \in DOMAIN d2 : d2[n].deps \cap A # {} => n \in A
      /\ \A n \in A \ changed : d2[n].deps \cap A # {}
  BY <1>1, <1>2, AffectedIs
<1>4. /\ defs' = d2
      /\ DOMAIN nodeStatus' = DOMAIN d2 /\ DOMAIN accepted' = DOMAIN d2
      /\ \A n \in DOMAIN d2 :
            /\ nodeStatus'[n] = IF n \in changed THEN "pending"
                                ELSE IF n \in A THEN "stale" ELSE nodeStatus[n]
            /\ accepted'[n] = IF n \in A THEN NoTree ELSE accepted[n]
      /\ prints' = Fingerprints(d2, A)
  BY DEF Replan
<1> HIDE DEF A
<1>5. \A n \in DOMAIN d2 \ A : n \in DOMAIN defs /\ d2[n] = defs[n] /\ epoch'[n] = epoch[n]
  BY <1>3
<1>6. Gathers(d2, OwnPrint(d2), prints')
  <2>1. Gathers(defs, OwnPrint(defs), prints) BY DEF Planned
  <2>2. QED BY <1>2, <1>3, <1>4, <1>5, <2>1, PrintsGather
<1>7. ASSUME NEW n \in DOMAIN d2, nodeStatus'[n] = "stale"
      PROVE  \E p \in d2[n].deps : nodeStatus'[p] # "completed"
  <2>1. CASE n \in A
    <3>1. n \notin changed BY <1>4, <1>7
    <3>2. PICK p \in d2[n].deps : p \in A BY <1>3, <2>1, <3>1
    <3>3. nodeStatus'[p] \in {"pending", "stale"} BY <1>3, <1>4, <3>2
    <3>4. QED BY <3>3
  <2>2. CASE n \notin A
    <3>1. n \in DOMAIN defs /\ d2[n] = defs[n] BY <1>5, <2>2
    <3>2. nodeStatus[n] = "stale" BY <1>3, <1>4, <1>7, <2>2
    <3>3. PICK p \in d2[n].deps : nodeStatus[p] # "completed"
      BY <3>1, <3>2 DEF Planned, ParentsCompleted
    <3>4. p \in DOMAIN d2 BY <1>2 DEF Sound
    <3>5. nodeStatus'[p] # "completed" BY <1>4, <3>3, <3>4
    <3>6. QED BY <3>5
  <2>3. QED BY <2>1, <2>2
<1>8. \A n \in DOMAIN d2 \ A : Tree(n)' = Tree(n)
  <2>1. PICK f : f = Rests(defs, epoch) /\ Gathers(defs, OwnTree(defs, epoch), f)
    BY <1>1, RestsGathers
  <2>2. PICK g : g = Rests(d2, epoch') /\ Gathers(d2, OwnTree(d2, epoch'), g)
    BY <1>2, RestsGathers
  <2>3. ASSUME NEW n \in DOMAIN d2 \ A, \A p \in d2[n].deps : f[p] = g[p]
        PROVE  f[n] = g[n]
    <3>1. f[n] = {<<n, d2[n], epoch[n]>>} \cup UNION {f[p] : p \in d2[n].deps}
      BY <1>5, <2>1 DEF Gathers, OwnTree
    <3>2. g[n] = {<<n, d2[n], epoch[n]>>} \cup UNION {g[p] : p \in d2[n].deps}
      BY <1>5, <2>2 DEF Gathers, OwnTree
    <3>3. {f[p] : p \in d2[n].deps} = {g[p] : p \in d2[n].deps} BY <2>3
    <3>4. QED BY <3>1, <3>2, <3>3
  <2>4. \A n \in DOMAIN d2 \ A : f[n] = g[n]
    <3>1. \A n \in DOMAIN d2 : d2[n].deps \cap A # {} => n \in A BY <1>3
    <3>2. \A n \in DOMAIN d2 \ A : (\A p \in d2[n].deps : f[p] = g[p]) => f[n] = g[n]
      BY <2>3
    <3>3. QED BY <1>2, <3>1, <3>2, FromParents
  <2>5. QED BY <1>4, <1>5, <2>1, <2>2, <2>4, TreeGathers
<1>9. ASSUME NEW n \in DOMAIN d2
      PROVE  /\ nodeStatus'[n] \in {"pending", "stale", "completed", "failed"}
             /\ nodeStatus'[n] = "completed" => accepted'[n] = Tree(n)'
  <2>1. CASE n \in A BY <1>4, <2>1
  <2>2. CASE n \notin A
    <3>1. nodeStatus'[n] = nodeStatus[n] /\ accepted'[n] = accepted[n] BY <1>3, <1>4, <2>2
    <3>2. Tree(n)' = Tree(n) /\ n \in DOMAIN defs BY <1>5, <1>8, <2>2
    <3>3. QED BY <3>1, <3>2 DEF Planned
  <2>3. QED BY <2>1, <2>2
<1>10. Sound(defs)' BY <1>2, <1>4 DEF Sound, Below, Children
<1>11. Gathers(defs, OwnPrint(defs), prints)' BY <1>4, <1>6 DEF Gathers, OwnPrint
<1>12. \A n \in DOMAIN defs' : nodeStatus'[n] = "stale" => ~ParentsCompleted(n, nodeStatus)'
  BY <1>4, <1>7 DEF ParentsCompleted
<1>13. QED BY <1>4, <1>9, <1>10, <1>11, <1>12 DEF Planned

LEMMA InitPlanned == PlannerInit => Planned
<1> SUFFICES ASSUME PlannerInit PROVE Planned OBVIOUS
<1>1. /\ defs = <<>> /\ nodeStatus = <<>> /\ prints = <<>> /\ accepted = <<>> /\ epoch = <<>>
  BY DEF PlannerInit
<1>2. DOMAIN defs = {} BY <1>1
<1>3. Sound(defs) BY <1>2, FS_EmptySet DEF Sound
<1>4. Gathers(defs, OwnPrint(defs), prints)
  <2>1. PICK own : own = OwnPrint(defs) OBVIOUS
  <2>2. PICK g : Gathers(defs, own, g) BY <1>3, SomeGathers
  <2>3. DOMAIN g = {} /\ g = [n \in DOMAIN defs |-> g[n]] BY <1>2, <2>2 DEF Gathers
  <2>4. g = <<>> BY <1>2, <2>3
  <2>5. QED BY <1>1, <2>1, <2>2, <2>4
<1>5. QED BY <1>1, <1>2, <1>3, <1>4 DEF Planned

LEMMA RangeIsFinite ==
    ASSUME NEW f, IsFiniteSet(DOMAIN f), f = [x \in DOMAIN f |-> f[x]]
    PROVE  IsFiniteSet({f[x] : x \in DOMAIN f})
<1> DEFINE S == DOMAIN f
           T == {f[x] : x \in S}
<1>1. f \in [S -> T]
  <2> HIDE DEF T
  <2>1. \A x \in S : f[x] \in T BY DEF T
  <2>2. QED BY <2>1
<1>2. \A y \in T : \E x \in S : f[x] = y OBVIOUS
<1> HIDE DEF T
<1>3. f \in Surjection(S, T) BY <1>1, <1>2 DEF Surjection
<1>4. IsFiniteSet(T) BY <1>3, FS_Surjection
<1>5. QED BY <1>4 DEF T

LEMMA CompiledIsFinite ==
    ASSUME NEW s \in GoalSpecs
    PROVE  IsFiniteSet(DOMAIN Compiled(s))
<1> DEFINE works == {WorkTask(i) : i \in WorkItems(s)}
           checks == {Verification(c) : c \in s.conditions}
<1>1. IsFiniteSet(s.subgoals) /\ IsFiniteSet(s.conditions) BY PlannerAssumption
<1>2. IsFiniteSet({"clarify"}) BY FS_Singleton
<1>3. IsFiniteSet(WorkItems(s)) BY <1>1, <1>2 DEF WorkItems
<1>4. IsFiniteSet(works)
  <2>1. PICK f : f = [i \in WorkItems(s) |-> WorkTask(i)] OBVIOUS
  <2>2. IsFiniteSet({f[i] : i \in DOMAIN f}) BY <1>3, <2>1, RangeIsFinite
  <2>3. {f[i] : i \in DOMAIN f} = works BY <2>1
  <2>4. QED BY <2>2, <2>3
<1>5. IsFiniteSet(checks)
  <2>1. PICK f : f = [c \in s.conditions |-> Verification(c)] OBVIOUS
  <2>2. IsFiniteSet({f[c] : c \in DOMAIN f}) BY <1>1, <2>1, RangeIsFinite
  <2>3. {f[c] : c \in DOMAIN f} = checks BY <2>1
  <2>4. QED BY <2>2, <2>3
<1>6. IsFiniteSet({Requirements}) /\ IsFiniteSet({Final}) BY FS_Singleton
<1>7. DOMAIN Compiled(s) = ({Requirements} \cup {Final}) \cup (works \cup checks)
  BY DEF Compiled
<1> HIDE DEF works, checks
<1>8. QED BY <1>4, <1>5, <1>6, <1>7, FS_Union

LEMMA BuildPlanned ==
    ASSUME Planned, NEW s \in GoalSpecs, Build(s)
    PROVE  Planned'
<1>1. PICK d : d = Compiled(s) OBVIOUS
<1>2. IsFiniteSet(DOMAIN d) BY <1>1, CompiledIsFinite
<1>3. Accepts(d) BY <1>1 DEF Build
<1>4. Sound(d) BY <1>2, <1>3, AcceptedIsSound
<1>5. /\ defs' = d /\ nodeStatus' = [n \in DOMAIN d |-> "pending"]
      /\ prints' = Fingerprints(d, DOMAIN d)
      /\ DOMAIN accepted' = DOMAIN d /\ DOMAIN epoch' = DOMAIN d
  BY <1>1 DEF Build
<1>6. Gathers(d, OwnPrint(d), prints')
  <2>1. PICK A : A = DOMAIN d OBVIOUS
  <2>2. PICK old : old = defs OBVIOUS
  <2>3. Gathers(old, OwnPrint(old), prints) BY <2>2 DEF Planned
  <2>4. /\ \A n \in DOMAIN d : d[n].deps \cap A # {} => n \in A
        /\ \A n \in DOMAIN d \ A : n \in DOMAIN old /\ d[n] = old[n]
    BY <2>1
  <2>5. Gathers(d, OwnPrint(d), Fingerprints(d, A)) BY <1>4, <2>3, <2>4, PrintsGather
  <2>6. QED BY <1>5, <2>1, <2>5
<1>7. Sound(defs)' BY <1>4, <1>5 DEF Sound, Below, Children
<1>8. Gathers(defs, OwnPrint(defs), prints)' BY <1>5, <1>6 DEF Gathers, OwnPrint
<1>9. QED BY <1>5, <1>7, <1>8 DEF Planned

LEMMA UpdateSpecificationPlanned ==
    ASSUME Planned, NEW s \in GoalSpecs, UpdateSpecification(s)
    PROVE  Planned'
<1> DEFINE new == Compiled(s)
           added == DOMAIN new \ DOMAIN defs
           removed == DOMAIN defs \ DOMAIN new
           differing == {n \in (DOMAIN new) \cap (DOMAIN defs) : new[n] # defs[n]}
<1>1. PICK d, changed :
         /\ d = new
         /\ changed = added \cup differing \cup (AffectedClosure(defs, removed) \cap DOMAIN new)
  OBVIOUS
<1>2. IsFiniteSet(DOMAIN d) BY <1>1, CompiledIsFinite
<1>3. changed \in SUBSET DOMAIN d BY <1>1
<1>4. Replan(d, changed) BY <1>1 DEF UpdateSpecification
<1>5. \A n \in DOMAIN d \ changed : n \in DOMAIN defs /\ d[n] = defs[n] BY <1>1
<1>6. epoch' = [n \in DOMAIN d |-> IF n \in added THEN 0 ELSE epoch[n]]
  BY <1>1 DEF UpdateSpecification
<1>7. DOMAIN epoch' = DOMAIN d /\ \A n \in DOMAIN d \ changed : epoch'[n] = epoch[n]
  BY <1>1, <1>6
<1>8. QED BY <1>2, <1>3, <1>4, <1>5, <1>7, ReplanPlanned

LEMMA UpdateNodePlanned ==
    ASSUME Planned, NEW n \in DOMAIN defs, UpdateNode(n)
    PROVE  Planned'
<1>1. PICK patched : Replan([defs EXCEPT ![n] = patched], {n}) /\ UNCHANGED epoch
  BY DEF UpdateNode
<1>2. PICK d : d = [defs EXCEPT ![n] = patched] OBVIOUS
<1>3. DOMAIN d = DOMAIN defs /\ \A m \in DOMAIN d \ {n} : d[m] = defs[m] BY <1>2
<1>4. IsFiniteSet(DOMAIN d) /\ DOMAIN epoch = DOMAIN d BY <1>3 DEF Planned, Sound
<1>5. {n} \in SUBSET DOMAIN d BY <1>3
<1>6. Replan(d, {n}) BY <1>1, <1>2
<1>7. QED BY <1>1, <1>3, <1>4, <1>5, <1>6, ReplanPlanned

LEMMA InvalidateNodePlanned ==
    ASSUME Planned, NEW n \in DOMAIN defs, InvalidateNode(n)
    PROVE  Planned'
<1>1. PICK d : d = defs OBVIOUS
<1>2. IsFiniteSet(DOMAIN d) /\ DOMAIN epoch = DOMAIN d BY <1>1 DEF Planned, Sound
<1>3. {n} \in SUBSET DOMAIN d /\ Replan(d, {n}) BY <1>1 DEF InvalidateNode
<1>4. DOMAIN epoch' = DOMAIN d /\ \A m \in DOMAIN d \ {n} : epoch'[m] = epoch[m]
  BY <1>2 DEF InvalidateNode
<1>5. QED BY <1>1, <1>2, <1>3, <1>4, ReplanPlanned

LEMMA SetNodeResultPlanned ==
    ASSUME Planned, NEW n \in DOMAIN defs, NEW result \in {"completed", "failed"},
           SetNodeResult(n, result)
    PROVE  Planned'
<1>1. UNCHANGED <<defs, prints, epoch>> BY DEF SetNodeResult
<1>2. \A m \in DOMAIN defs : Tree(m)' = Tree(m) BY <1>1, TreeGathers
<1>3. Sound(defs)' BY <1>1 DEF Planned, Sound, Below, Children
<1>4. Gathers(defs, OwnPrint(defs), prints)' BY <1>1 DEF Planned
<1>5. PICK st : st = [nodeStatus EXCEPT ![n] = result] OBVIOUS
<1>6. /\ DOMAIN st = DOMAIN defs
      /\ \A m \in DOMAIN defs : st[m] = IF m = n THEN result ELSE nodeStatus[m]
  BY <1>5 DEF Planned
<1>7. /\ DOMAIN accepted' = DOMAIN defs
      /\ \A m \in DOMAIN defs : accepted'[m] = IF m = n
                                               THEN IF result = "completed" THEN Tree(n) ELSE NoTree
                                               ELSE accepted[m]
  BY DEF SetNodeResult, Planned
<1>8. /\ DOMAIN nodeStatus' = DOMAIN defs
      /\ \A m \in DOMAIN defs :
            \/ nodeStatus'[m] = st[m]
            \/ st[m] = "stale" /\ nodeStatus'[m] = "pending"
      /\ \A m \in DOMAIN defs : nodeStatus'[m] = "stale" =>
            \E p \in defs[m].deps : nodeStatus'[p] # "completed"
  <2>1. CASE result = "failed"
    <3>1. nodeStatus' = st BY <1>5, <2>1 DEF SetNodeResult
    <3>2. ASSUME NEW m \in DOMAIN defs, nodeStatus'[m] = "stale"
          PROVE  \E p \in defs[m].deps : nodeStatus'[p] # "completed"
      <4>1. nodeStatus[m] = "stale" BY <1>6, <2>1, <3>1, <3>2
      <4>2. PICK p \in defs[m].deps : nodeStatus[p] # "completed"
        BY <4>1 DEF Planned, ParentsCompleted
      <4>3. p \in DOMAIN defs BY DEF Planned, Sound
      <4>4. QED BY <1>6, <2>1, <3>1, <4>2, <4>3
    <3>3. QED BY <1>6, <3>1, <3>2
  <2>2. CASE result = "completed"
    <3>1. nodeStatus' = Released(st) BY <1>5, <2>2 DEF SetNodeResult
    <3>2. \A m \in DOMAIN defs :
             nodeStatus'[m] = IF st[m] = "stale" /\ ParentsCompleted(m, st) THEN "pending"
                              ELSE st[m]
      BY <1>6, <3>1 DEF Released
    <3>3. ASSUME NEW m \in DOMAIN defs, nodeStatus'[m] = "stale"
          PROVE  \E p \in defs[m].deps : nodeStatus'[p] # "completed"
      <4>1. ~ParentsCompleted(m, st) BY <3>2, <3>3
      <4>2. PICK p \in defs[m].deps : st[p] # "completed" BY <4>1 DEF ParentsCompleted
      <4>3. p \in DOMAIN defs BY DEF Planned, Sound
      <4>4. QED BY <3>2, <4>2, <4>3
    <3>4. DOMAIN nodeStatus' = DOMAIN defs BY <1>6, <3>1 DEF Released
    <3>5. QED BY <3>2, <3>3, <3>4
  <2>3. QED BY <2>1, <2>2
<1>9. ASSUME NEW m \in DOMAIN defs
      PROVE  /\ nodeStatus'[m] \in {"pending", "stale", "completed", "failed"}
             /\ nodeStatus'[m] = "completed" => accepted'[m] = Tree(m)'
  BY <1>2, <1>6, <1>7, <1>8 DEF Planned
<1>10. \A m \in DOMAIN defs' : nodeStatus'[m] = "stale" => ~ParentsCompleted(m, nodeStatus)'
  BY <1>1, <1>8 DEF ParentsCompleted
<1>11. DOMAIN epoch' = DOMAIN defs BY <1>1 DEF Planned
<1>12. QED BY <1>1, <1>3, <1>4, <1>7, <1>8, <1>9, <1>10, <1>11 DEF Planned

(* The plan stays sound, and what is known of it is known of its present form. *)
LEMMA NextPlanned ==
    ASSUME Planned, [PlannerNext]_plannerVars
    PROVE  Planned'
<1>1. CASE UNCHANGED plannerVars
  <2>1. UNCHANGED <<defs, nodeStatus, prints, accepted, epoch>> BY <1>1 DEF plannerVars
  <2>2. \A m \in DOMAIN defs : Tree(m)' = Tree(m) BY <2>1, TreeGathers
  <2>3. Sound(defs)' BY <2>1 DEF Planned, Sound, Below, Children
  <2>4. Gathers(defs, OwnPrint(defs), prints)' BY <2>1 DEF Planned
  <2>5. \A m \in DOMAIN defs : ParentsCompleted(m, nodeStatus)' = ParentsCompleted(m, nodeStatus)
    BY <2>1 DEF ParentsCompleted
  <2>6. QED BY <2>1, <2>2, <2>3, <2>4, <2>5 DEF Planned
<1>2. CASE \E s \in GoalSpecs : Build(s) BY <1>2, BuildPlanned
<1>3. CASE \E s \in GoalSpecs : UpdateSpecification(s)
  BY <1>3, UpdateSpecificationPlanned
<1>4. CASE \E n \in DOMAIN defs : UpdateNode(n) BY <1>4, UpdateNodePlanned
<1>5. CASE \E n \in DOMAIN defs : InvalidateNode(n) BY <1>5, InvalidateNodePlanned
<1>6. CASE \E n \in DOMAIN defs : SetNodeResult(n, "completed")
  BY <1>6, SetNodeResultPlanned
<1>7. CASE \E n \in DOMAIN defs : SetNodeResult(n, "failed")
  BY <1>7, SetNodeResultPlanned
<1>8. QED BY <1>1, <1>2, <1>3, <1>4, <1>5, <1>6, <1>7 DEF PlannerNext

LEMMA PlanStaysSound == PlannerSpec => []Planned
BY InitPlanned, NextPlanned, PTL DEF PlannerSpec

(* A local replan forgets nothing a full recomputation would have reset: a    *)
(* result that counts rests on the present definitions and evidence of all    *)
(* that is above it, and every fingerprint is the one of the whole graph, for *)
(* any plan and any sequence of updates, patches and invalidations.          *)
THEOREM ResultsStayCurrent == PlannerSpec => []ResultsCurrent
<1>1. ASSUME Planned PROVE ResultsCurrent
  <2>1. PICK A, d : A = DOMAIN defs /\ d = defs OBVIOUS
  <2>2. Sound(d) /\ Gathers(d, OwnPrint(d), prints) BY <1>1, <2>1 DEF Planned
  <2>3. /\ \A n \in DOMAIN d : d[n].deps \cap A # {} => n \in A
        /\ \A n \in DOMAIN d \ A : n \in DOMAIN d /\ d[n] = d[n]
    BY <2>1
  <2>4. Gathers(d, OwnPrint(d), Fingerprints(d, A)) BY <2>2, <2>3, PrintsGather
  <2>5. Fingerprints(d, A) = prints BY <2>2, <2>4, GathersOnce
  <2>6. QED BY <1>1, <2>1, <2>5 DEF Planned, ResultsCurrent
<1>2. QED BY <1>1, PlanStaysSound, PTL

(* The plan never gets stuck: unless a task failed or all are completed, the  *)
(* first of what is not completed is ready, for any plan and any mix of       *)
(* results and replans.                                                     *)
THEOREM PlanIsNeverStuck == PlannerSpec => []ReadyOrDone
<1>1. ASSUME Planned PROVE ReadyOrDone
  <2>1. PICK d, S : d = defs /\ S = {n \in DOMAIN defs : nodeStatus[n] # "completed"} OBVIOUS
  <2>2. CASE S = {} BY <2>1, <2>2 DEF ReadyOrDone
  <2>3. CASE S # {}
    <3>1. Sound(d) /\ S \in SUBSET DOMAIN d BY <1>1, <2>1 DEF Planned
    <3>2. PICK n \in S : d[n].deps \cap S = {} BY <2>3, <3>1, FirstOf
    <3>3. n \in DOMAIN defs /\ defs[n].deps \subseteq DOMAIN defs
      BY <2>1, <3>1, <3>2 DEF Sound
    <3>4. ParentsCompleted(n, nodeStatus) BY <2>1, <3>2, <3>3 DEF ParentsCompleted
    <3>5. nodeStatus[n] \in {"pending", "failed"} BY <1>1, <2>1, <3>2, <3>3, <3>4 DEF Planned
    <3>6. QED BY <3>3, <3>4, <3>5 DEF ReadyOrDone, Ready
  <2>4. QED BY <2>2, <2>3
<1>2. QED BY <1>1, PlanStaysSound, PTL
=============================================================================

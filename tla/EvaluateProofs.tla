---------------------------- MODULE EvaluateProofs ----------------------------
(***************************************************************************)
(* Theorems about Evaluate, for rule lists of any length and any priorities.*)
(***************************************************************************)
EXTENDS Evaluate, TLAPS

(* What the loop knows of the rules it has seen: there is no best match and *)
(* no eligible rule matches, or the best match is eligible, matches, and is *)
(* preferred to every other one that does.                                  *)
Nothing ==
    /\ currentIndex = 0 /\ currentPriority = -1 /\ ~currentIsOverride
    /\ \A k \in 1..i - 1 : ~(rules[k].matches /\ Eligible(k))

Something ==
    /\ currentIndex \in 1..i - 1
    /\ rules[currentIndex].matches /\ Eligible(currentIndex)
    /\ currentPriority = rules[currentIndex].priority
    /\ currentIsOverride = rules[currentIndex].override
    /\ \A k \in 1..i - 1 :
          rules[k].matches /\ Eligible(k) => k = currentIndex \/ Preferred(currentIndex, k)

LoopInv == TypeOK /\ (Nothing \/ Something)

IInv ==
    /\ LoopInv
    /\ matched # -1 => i > Len(rules) /\ matched = currentIndex

(* A rule list is a function on 1..Len of rules with those three fields.    *)
LEMMA RuleTypes ==
  ASSUME NEW s \in Definitions
  PROVE  /\ Len(s) \in Nat
         /\ \A k \in 1..Len(s) :
               s[k].priority \in Int /\ s[k].override \in BOOLEAN /\ s[k].matches \in BOOLEAN
  <1>1. s \in Seq(Rule)
    BY DefinitionsAssumption
  <1>2. Len(s) \in Nat /\ s \in [1..Len(s) -> Rule]
    BY <1>1
  <1>3. ASSUME NEW k \in 1..Len(s)
        PROVE  s[k].priority \in Int /\ s[k].override \in BOOLEAN /\ s[k].matches \in BOOLEAN
    <2>1. s[k] \in Rule
      BY <1>2
    <2>2. QED
      BY <2>1 DEF Rule
  <1>4. QED
    BY <1>2, <1>3

(* Before the first rule nothing has been taken.                            *)
LEMMA InitInvariant == Init => IInv
  <1> SUFFICES ASSUME Init PROVE IInv
    OBVIOUS
  <1>1. Len(rules) \in Nat
    BY RuleTypes DEF Init
  <1>2. TypeOK
    <2>1. currentIsOverride \in BOOLEAN
      BY DEF Init
    <2>2. i \in 1..Len(rules) + 1 /\ currentIndex \in 0..Len(rules) /\ matched \in -1..Len(rules)
      BY <1>1 DEF Init
    <2>3. rules \in Definitions /\ currentPriority \in Int
      BY DEF Init
    <2>4. QED
      BY <2>1, <2>2, <2>3 DEF TypeOK
  <1>3. Nothing
    BY DEF Init, Nothing
  <1>4. QED
    BY <1>2, <1>3 DEF Init, IInv, LoopInv

(* A rule that is skipped, or does not match, changes nothing that is known *)
(* of the best match.                                                       *)
LEMMA PassedOver ==
  ASSUME IInv, i <= Len(rules), i' = i + 1, UNCHANGED <<rules, current, matched>>,
         \/ Skipped(rules[i])
         \/ ~rules[i].matches
  PROVE  IInv'
  <1>1. rules \in Definitions /\ Len(rules) \in Nat /\ i \in 1..Len(rules) /\ rules' = rules
    BY RuleTypes DEF IInv, LoopInv, TypeOK
  <1>2. /\ rules[i].priority \in Int /\ rules[i].override \in BOOLEAN
        /\ rules[i].matches \in BOOLEAN
    BY <1>1, RuleTypes
  <1>3. TypeOK'
    BY <1>1 DEF IInv, LoopInv, TypeOK, current
  <1>4. CASE Nothing
    <2>1. ~(rules[i].matches /\ Eligible(i))
      BY <1>2, <1>4 DEF Nothing, Skipped, Eligible
    <2>2. Nothing'
      BY <1>1, <1>4, <2>1 DEF Nothing, Eligible, current
    <2>3. QED
      BY <1>1, <1>3, <2>2 DEF IInv, LoopInv, current
  <1>5. CASE Something
    <2>1. /\ currentIndex \in 1..i - 1 /\ currentIndex \in 1..Len(rules)
          /\ rules[currentIndex].override \in BOOLEAN
          /\ rules[currentIndex].priority \in Int
      BY <1>1, <1>5, RuleTypes DEF Something
    <2>2. rules[i].matches /\ Eligible(i) => Preferred(currentIndex, i)
      BY <1>1, <1>2, <1>5, <2>1 DEF Something, Skipped, Preferred
    <2>3. Something'
      BY <1>1, <1>5, <2>1, <2>2 DEF Something, Eligible, Preferred, current
    <2>4. QED
      BY <1>1, <1>3, <2>3 DEF IInv, LoopInv, current
  <1>6. QED
    BY <1>4, <1>5 DEF IInv, LoopInv

(* A rule that is not skipped is eligible, and preferred to the best match. *)
LEMMA NotSkipped ==
  ASSUME IInv, i <= Len(rules), ~Skipped(rules[i])
  PROVE  Eligible(i) /\ (Something => Preferred(i, currentIndex))
  <1>1. rules \in Definitions /\ Len(rules) \in Nat /\ i \in 1..Len(rules)
    BY RuleTypes DEF IInv, LoopInv, TypeOK
  <1>2. rules[i].priority \in Int /\ rules[i].override \in BOOLEAN
    BY <1>1, RuleTypes
  <1>3. CASE Nothing
    BY <1>2, <1>3 DEF Nothing, Something, Skipped, Eligible
  <1>4. CASE Something
    <2>1. /\ currentIndex \in 1..Len(rules) /\ currentIndex \in 1..i - 1
          /\ rules[currentIndex].override \in BOOLEAN
          /\ rules[currentIndex].priority \in Int
      BY <1>1, <1>4, RuleTypes DEF Something
    <2>2. QED
      BY <1>2, <1>4, <2>1 DEF Something, Skipped, Eligible, Preferred
  <1>5. QED
    BY <1>3, <1>4 DEF IInv, LoopInv

(* Preference is transitive.                                                *)
LEMMA PreferredTransitive ==
  ASSUME rules \in Definitions, NEW a \in 1..Len(rules), NEW b \in 1..Len(rules),
         NEW c \in 1..Len(rules), Preferred(a, b), Preferred(b, c)
  PROVE  Preferred(a, c)
  <1>1. Len(rules) \in Nat
    BY RuleTypes
  <1>2. \A k \in 1..Len(rules) : rules[k].priority \in Int /\ rules[k].override \in BOOLEAN
    BY RuleTypes
  <1>3. QED
    BY <1>1, <1>2 DEF Preferred

(* A rule that matches is taken only when it is preferred to the last one.  *)
LEMMA Taken == ASSUME IInv, RuleMatches PROVE IInv' /\ (Something => Preferred(i, currentIndex))
  <1>1. /\ rules \in Definitions /\ Len(rules) \in Nat /\ i \in 1..Len(rules)
        /\ rules' = rules /\ i' = i + 1
    BY RuleTypes DEF IInv, LoopInv, TypeOK, RuleMatches
  <1>2. rules[i].priority \in Int /\ rules[i].override \in BOOLEAN
    BY <1>1, RuleTypes
  <1>3. Eligible(i) /\ (Something => Preferred(i, currentIndex))
    BY NotSkipped DEF RuleMatches
  <1>4. TypeOK'
    <2>1. currentIsOverride' \in BOOLEAN /\ currentPriority' \in Int
      BY <1>2 DEF RuleMatches
    <2>2. QED
      BY <1>1, <2>1 DEF IInv, LoopInv, TypeOK, RuleMatches
  <1>5. \A k \in 1..i : rules[k].matches /\ Eligible(k) => k = i \/ Preferred(i, k)
    <2>1. SUFFICES ASSUME NEW k \in 1..i - 1, rules[k].matches, Eligible(k)
                   PROVE  Preferred(i, k)
      BY <1>1
    <2>2. Something /\ currentIndex \in 1..Len(rules) /\ k \in 1..Len(rules)
      BY <1>1, <2>1 DEF IInv, LoopInv, Nothing, Something
    <2>3. k = currentIndex \/ Preferred(currentIndex, k)
      BY <2>1, <2>2 DEF Something
    <2>4. QED
      BY <1>1, <1>3, <2>2, <2>3, PreferredTransitive
  <1>6. Something'
    BY <1>1, <1>3, <1>5 DEF Something, Eligible, Preferred, RuleMatches
  <1>7. QED
    BY <1>1, <1>3, <1>4, <1>6 DEF IInv, LoopInv, RuleMatches

(* Each action of the pass keeps the invariant.                             *)
LEMMA StepInvariant == IInv /\ [Next]_vars => IInv'
  <1> SUFFICES ASSUME IInv, [Next]_vars PROVE IInv'
    OBVIOUS
  <1>1. CASE SkipRule
    BY <1>1, PassedOver DEF SkipRule
  <1>2. CASE RuleDoesNotMatch
    BY <1>2, PassedOver DEF RuleDoesNotMatch
  <1>3. CASE RuleMatches
    BY <1>3, Taken
  <1>4. CASE Return
    <2>1. rules' = rules /\ i' = i /\ Len(rules) \in Nat
      BY <1>4, RuleTypes DEF Return, IInv, LoopInv, TypeOK
    <2>2. TypeOK'
      BY <1>4, <2>1 DEF Return, IInv, LoopInv, TypeOK, current
    <2>3. Nothing' \/ Something'
      BY <1>4, <2>1 DEF Return, IInv, LoopInv, Nothing, Something, Eligible, Preferred, current
    <2>4. QED
      BY <1>4, <2>1, <2>2, <2>3 DEF Return, IInv, LoopInv, current
  <1>5. CASE UNCHANGED vars
    BY <1>5 DEF vars, IInv, LoopInv, TypeOK, Nothing, Something, Eligible, Preferred
  <1>6. QED
    BY <1>1, <1>2, <1>3, <1>4, <1>5 DEF Next

(* The loop invariant holds throughout.                                     *)
THEOREM Invariance == Spec => []IInv
  BY InitInvariant, StepInvariant, PTL DEF Spec

(* Every reachable state is well typed.                                     *)
THEOREM TypeCorrect == Spec => []TypeOK
  BY Invariance, PTL DEF IInv, LoopInv

(* The pass returns the most preferred of the eligible rules that match, for*)
(* any list of rules: skipping a rule unasked never loses the winner.       *)
THEOREM BestEligible == Spec => []ReturnsBestEligible
  <1>1. ASSUME IInv PROVE ReturnsBestEligible
    <2> DEFINE S == {j \in Candidates : Eligible(j)}
    <2>1. SUFFICES ASSUME matched # -1
                   PROVE  IF S = {} THEN matched = 0 ELSE Best(S, matched)
      BY DEF ReturnsBestEligible
    <2>2. i > Len(rules) /\ matched = currentIndex /\ i = Len(rules) + 1 /\ Len(rules) \in Nat
      BY SMTT(30), <1>1, <2>1, RuleTypes DEF IInv, LoopInv, TypeOK
    <2>3. CASE Nothing
      BY <2>2, <2>3 DEF Nothing, Candidates
    <2>4. CASE Something
      <3>1. matched \in S
        BY <2>2, <2>4 DEF Something, Candidates
      <3>2. Best(S, matched)
        BY <2>2, <2>4, <3>1 DEF Something, Best, Candidates
      <3>3. QED
        BY <3>1, <3>2
    <2>5. QED
      BY <1>1, <2>3, <2>4 DEF IInv, LoopInv
  <1>2. QED
    BY <1>1, Invariance, PTL

(* The best match only ever gives way to a rule preferred to it.            *)
THEOREM Improves == Spec => OnlyImproves
  <1>1. ASSUME IInv, [Next]_vars, currentIndex # 0, currentIndex' # currentIndex
        PROVE  Preferred(currentIndex', currentIndex)
    <2>1. RuleMatches
      BY <1>1 DEF Next, SkipRule, RuleDoesNotMatch, Return, vars, current
    <2>2. Something /\ currentIndex' = i
      BY <1>1, <2>1 DEF IInv, LoopInv, Nothing, RuleMatches
    <2>3. QED
      BY <1>1, <2>1, <2>2, Taken
  <1>2. QED
    BY <1>1, Invariance, PTL DEF Spec, OnlyImproves
===============================================================================

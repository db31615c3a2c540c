------------------------------- MODULE Evaluate -------------------------------
(***************************************************************************)
(* src/flag/flag.go, EvaluateWithMatch: one pass over the rules of a flag   *)
(* that keeps the best match so far.  A rule is what the pass asks of it:   *)
(* its priority, whether it is an override (IsOverride: the override field  *)
(* is set, whichever field Unwrap picks) and whether it matches the context.*)
(***************************************************************************)
EXTENDS Integers, Sequences

CONSTANT Definitions        \* the rule lists of the flags that are evaluated

Rule == [priority : Int, override : BOOLEAN, matches : BOOLEAN]

ASSUME DefinitionsAssumption == Definitions \subseteq Seq(Rule)

VARIABLES
    rules,              \* def.Rules, with what each rule says of ctx
    i,                  \* the rule the loop is at
    currentIndex,       \* the best match so far, 0 when there is none
    currentPriority,
    currentIsOverride,
    matched             \* MatchedRuleIndex, 0 for the default; -1 before the end

vars == <<rules, i, currentIndex, currentPriority, currentIsOverride, matched>>
current == <<currentIndex, currentPriority, currentIsOverride>>

TypeOK ==
    /\ rules \in Definitions
    /\ i \in 1..Len(rules) + 1
    /\ currentIndex \in 0..Len(rules)
    /\ currentPriority \in Int
    /\ currentIsOverride \in BOOLEAN
    /\ matched \in -1..Len(rules)

Init ==
    /\ rules \in Definitions
    /\ i = 1
    /\ currentIndex = 0 /\ currentPriority = -1 /\ currentIsOverride = FALSE
    /\ matched = -1

(* Mutant: an override does not win a tie.                                  *)
SkippedTies(r) == r.priority <= currentPriority

(* Rules below the best priority are passed over without being asked, and   *)
(* so are rules at that priority, unless an override meets a best match     *)
(* that is none.                                                            *)
Skipped(r) ==
    \/ r.priority < currentPriority
    \/ r.priority = currentPriority /\ (currentIsOverride \/ ~r.override)

SkipRule ==
    /\ i <= Len(rules) /\ Skipped(rules[i])
    /\ i' = i + 1
    /\ UNCHANGED <<rules, current, matched>>

RuleDoesNotMatch ==
    /\ i <= Len(rules) /\ ~Skipped(rules[i]) /\ ~rules[i].matches
    /\ i' = i + 1
    /\ UNCHANGED <<rules, current, matched>>

RuleMatches ==
    /\ i <= Len(rules) /\ ~Skipped(rules[i]) /\ rules[i].matches
    /\ currentIndex' = i
    /\ currentPriority' = rules[i].priority
    /\ currentIsOverride' = rules[i].override
    /\ i' = i + 1
    /\ UNCHANGED <<rules, matched>>

(* The rule's value and variant, or the definition's default.               *)
Return ==
    /\ i > Len(rules) /\ matched = -1
    /\ matched' = currentIndex
    /\ UNCHANGED <<rules, i, current>>

Next == SkipRule \/ RuleDoesNotMatch \/ RuleMatches \/ Return

Spec == Init /\ [][Next]_vars

-------------------------------------------------------------------------------
(* What the pass computes, stated without the pass *)

(* Rule j is preferred to rule k: a higher priority; at the same priority   *)
(* an override over another rule; then the one that comes first.            *)
Preferred(j, k) ==
    \/ rules[j].priority > rules[k].priority
    \/ /\ rules[j].priority = rules[k].priority
       /\ \/ rules[j].override /\ ~rules[k].override
          \/ rules[j].override = rules[k].override /\ j < k

(* The rules the start value of currentPriority lets in.                    *)
Eligible(j) == rules[j].priority > -1 \/ (rules[j].priority = -1 /\ rules[j].override)

Candidates == {j \in 1..Len(rules) : rules[j].matches}

Best(S, j) == j \in S /\ \A k \in S : k = j \/ Preferred(j, k)

(* The answer is the most preferred of the eligible rules that match, and   *)
(* the default when there is none: a rule is skipped without being asked    *)
(* only when it cannot win (flag.go:45-62).                                 *)
ReturnsBestEligible ==
    matched # -1 =>
        LET S == {j \in Candidates : Eligible(j)}
        IN  IF S = {} THEN matched = 0 ELSE Best(S, matched)

(* A match is never given up for one that is not preferred to it.           *)
OnlyImproves ==
    [][currentIndex # 0 /\ currentIndex' # currentIndex => Preferred(currentIndex', currentIndex)]_vars
===============================================================================

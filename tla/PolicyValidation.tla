-------------------------- MODULE PolicyValidation --------------------------
(***************************************************************************)
(* PolicyValidator: which policies may be loaded at all, and the warnings  *)
(* about rules whose conditions overlap.                                   *)
(*                                                                         *)
(* A policy has rules (id, condition, action), bound (fact -> path in the  *)
(* intent), reasons (the facts left unbound on purpose) and approval (fact *)
(* -> the signal that carries its signed approval).  That names and texts  *)
(* are there and not blank is left out.                                    *)
(***************************************************************************)
EXTENDS PolicyRules

OPERATORS ==
    {"eq", "neq", "gt", "gte", "lt", "lte", "between", "in", "not_in", "contains",
     "not_contains", "contains_all", "contains_any", "starts_with", "ends_with",
     "matches", "exists", "not_exists", "is_true", "is_false", "is_null",
     "is_not_null", "length_eq", "length_gt", "length_gte", "length_lt",
     "length_lte", "type_is"}

(* Short enough, no quantified group that holds a quantifier, and accepted *)
(* by the regular expression engine.                                       *)
ValidateRegex(pattern) == pattern.s \in DOMAIN Language

ValidateCondition(condition) ==
    LET valid[c \in Condition] ==
            CASE c.k = "fact" ->
                    /\ c.op \in OPERATORS
                    /\ c.op = "matches" => IsString(c.value) /\ ValidateRegex(c.value)
              [] c.k \in {"all", "any"} ->
                    c.of # <<>> /\ \A i \in DOMAIN c.of : valid[c.of[i]]
              [] OTHER -> c.k = "always"
    IN valid[condition]

(* A fact is not both bound and excused from being bound.                  *)
ValidateBoundSignals(policy) == policy.reasons \cap DOMAIN policy.bound = {}

ValidateRules(policy) ==
    /\ policy.rules # <<>>
    /\ \A i, j \in DOMAIN policy.rules : policy.rules[i].id = policy.rules[j].id => i = j
    /\ \A i \in DOMAIN policy.rules : ValidateCondition(policy.rules[i].condition)

(* An approval signal is read by a rule, is not bound to the intent, and   *)
(* has a carrier of its own that no rule reads.                            *)
ValidateApprovalSignals(policy) ==
    \A f \in DOMAIN policy.approval :
        /\ f \in CollectReferencedFacts(policy)
        /\ f \notin DOMAIN policy.bound
        /\ policy.approval[f] \notin CollectReferencedFacts(policy)
        /\ policy.approval[f] \notin DOMAIN policy.approval
        /\ \A g \in DOMAIN policy.approval : policy.approval[f] = policy.approval[g] => f = g

IsApprovalLeaf(policy, c) == IsLeaf(c) /\ c.op = "is_true" /\ c.fact \in DOMAIN policy.approval

(* Faulty variant: an approval inside "any" counts as well.                *)
Gated_AnyCounts(policy, c) ==
    \/ IsApprovalLeaf(policy, c)
    \/ c.k \in {"all", "any"} /\ \E i \in DOMAIN c.of : IsApprovalLeaf(policy, c.of[i])

(* The rule needs an approval signal: it is the whole condition, or a      *)
(* direct part of its top level "all".                                     *)
Gated(policy, c) ==
    \/ IsApprovalLeaf(policy, c)
    \/ c.k = "all" /\ \E i \in DOMAIN c.of : IsApprovalLeaf(policy, c.of[i])

ValidateEveryApprovalNeedsSignedApproval(policy) ==
    \A i \in DOMAIN policy.rules :
        policy.rules[i].action = "approve" => Gated(policy, policy.rules[i].condition)

FindUncoveredFacts(policy) ==
    CollectReferencedFacts(policy)
        \ (DOMAIN policy.bound \cup policy.reasons \cup DOMAIN policy.approval)

ValidatePolicy(policy) ==
    /\ ValidateBoundSignals(policy)
    /\ ValidateRules(policy)
    /\ ValidateApprovalSignals(policy)
    /\ ValidateEveryApprovalNeedsSignedApproval(policy)
    /\ FindUncoveredFacts(policy) = {}

---------------------------------------------------------------------------
(* Overlapping rules.                                                      *)

NormalizeBooleanOperator(c) ==
    CASE c.op = "is_true" -> [op |-> "eq", value |-> Bool(TRUE)]
      [] c.op = "is_false" -> [op |-> "eq", value |-> Bool(FALSE)]
      [] OTHER -> [op |-> c.op, value |-> c.value]

POINT_OPS == {"eq", "neq"}

RANGE_OPS == {"gt", "gte", "lt", "lte"}

ToRay(c) ==
    [direction |-> IF c.op \in {"lt", "lte"} THEN "upper" ELSE "lower",
     bound |-> c.value.n,
     inclusive |-> c.op \in {"lte", "gte"}]

(* Faulty variant: equal bounds never overlap.                             *)
RaysOverlap_Strict(a, b) ==
    IF a.direction = b.direction THEN TRUE
    ELSE LET upper == IF a.direction = "upper" THEN a ELSE b
             lower == IF a.direction = "lower" THEN a ELSE b
         IN upper.bound > lower.bound

RaysOverlap(a, b) ==
    \/ a.direction = b.direction
    \/ LET upper == IF a.direction = "upper" THEN a ELSE b
           lower == IF a.direction = "lower" THEN a ELSE b
       IN \/ upper.bound > lower.bound
          \/ upper.bound = lower.bound /\ upper.inclusive /\ lower.inclusive

Verdict(overlap) == IF overlap THEN "DEFINITE_OVERLAP" ELSE "NO_OVERLAP"

(* Two leaves on the same fact.  Values are compared with ===.             *)
Overlap(a, b) ==
    LET point == IF a.op = "eq" THEN a ELSE b
        other == IF a.op = "eq" THEN b ELSE a
    IN
    CASE {a.op, b.op} = {"eq"} -> Verdict(StrictEq(a.value, b.value))
      [] {a.op, b.op} = {"neq"} -> "DEFINITE_OVERLAP"
      [] {a.op, b.op} = POINT_OPS -> Verdict(~StrictEq(a.value, b.value))
      [] {a.op, b.op} \subseteq RANGE_OPS ->
            IF IsNumber(a.value) /\ IsNumber(b.value)
            THEN Verdict(RaysOverlap(ToRay(a), ToRay(b))) ELSE "NEEDS_REVIEW"
      [] point.op = "eq" /\ other.op \in RANGE_OPS ->
            IF IsNumber(point.value) /\ IsNumber(other.value)
            THEN Verdict(Compare(point.value.n, other.op, other.value.n)) ELSE "NEEDS_REVIEW"
      [] OTHER -> "NEEDS_REVIEW"

OperatorOverlap(condA, condB) ==
    Overlap(NormalizeBooleanOperator(condA), NormalizeBooleanOperator(condB))

(* A conjunction is disjoint from a leaf if one of its direct leaves is.   *)
LeafVersusAllOverlap(leaf, conjuncts) ==
    IF \E i \in DOMAIN conjuncts :
          /\ IsLeaf(conjuncts[i]) /\ conjuncts[i].fact = leaf.fact
          /\ OperatorOverlap(conjuncts[i], leaf) = "NO_OVERLAP"
    THEN "NO_OVERLAP" ELSE "NEEDS_REVIEW"

(* Leaves on different facts are answered with no overlap.                 *)
ConditionsOverlap(a, b) ==
    CASE IsLeaf(a) /\ IsLeaf(b) ->
            IF a.fact # b.fact THEN "NO_OVERLAP" ELSE OperatorOverlap(a, b)
      [] IsLeaf(a) /\ b.k = "all" -> LeafVersusAllOverlap(a, b.of)
      [] IsLeaf(b) /\ a.k = "all" -> LeafVersusAllOverlap(b, a.of)
      [] a.k = "all" /\ b.k = "all" ->
            IF \E i \in DOMAIN a.of :
                  IsLeaf(a.of[i]) /\ LeafVersusAllOverlap(a.of[i], b.of) = "NO_OVERLAP"
            THEN "NO_OVERLAP" ELSE "NEEDS_REVIEW"
      [] OTHER -> "NEEDS_REVIEW"

(* The pairs of rules that are reported, with the level of the warning.    *)
FindRuleConflicts(policy) ==
    LET rules == policy.rules
        always(i) == rules[i].condition.k = "always"
        pairs == {p \in (DOMAIN rules) \X (DOMAIN rules) :
                    p[1] < p[2] /\ ~always(p[1]) /\ ~always(p[2])}
        overlap(p) == ConditionsOverlap(rules[p[1]].condition, rules[p[2]].condition)
    IN {<<"WARNING", i, i + 1>> : i \in {j \in 1..(Len(rules) - 1) : always(j)}}
       \cup {<<"WARNING", p[1], p[2]>> : p \in {q \in pairs : overlap(q) = "DEFINITE_OVERLAP"}}
       \cup {<<"INFO", p[1], p[2]>> : p \in {q \in pairs : overlap(q) = "NEEDS_REVIEW"}}
=============================================================================

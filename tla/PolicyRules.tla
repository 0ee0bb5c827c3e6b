---------------------------- MODULE PolicyRules ----------------------------
(***************************************************************************)
(* The policy language: what a rule's operators, conditions and outcome    *)
(* compute (OperatorEvaluator, PolicyEngine), when the signals of a        *)
(* request describe its intent (SignalIntentBinder), and which policies    *)
(* are accepted at all (PolicyValidator).  All of it is pure.              *)
(*                                                                         *)
(* A JSON value is a record with its type t; a string is a sequence of     *)
(* symbols, an object is known by how many keys it has.                    *)
(***************************************************************************)
EXTENDS Integers, Sequences, SequencesExt, FiniteSets

CONSTANTS
    Condition,      \* the conditions that occur, with all their parts
    Language        \* a usable regular expression -> the strings it matches

Undef == [t |-> "undefined"]

NullValue == [t |-> "null"]

Num(n) == [t |-> "number", n |-> n]

Bool(b) == [t |-> "boolean", n |-> IF b THEN 1 ELSE 0]

Str(s) == [t |-> "string", s |-> s]

Arr(e) == [t |-> "array", e |-> e]

(* A signal that is not sent is undefined.                                 *)
Signal(signals, fact) == IF fact \in DOMAIN signals THEN signals[fact] ELSE Undef

---------------------------------------------------------------------------
(* Operators.                                                              *)

(* === is the identity of arrays and objects, and those come from two      *)
(* different documents here.                                               *)
StrictEq(a, b) == a = b /\ a.t \notin {"array", "object"}

Includes(array, v) == \E i \in DOMAIN array.e : StrictEq(array.e[i], v)

Length(v) ==
    CASE v.t = "string" -> Len(v.s)
      [] v.t = "array" -> Len(v.e)
      [] v.t = "object" -> v.keys
      [] OTHER -> 0

TypeOf(v) ==
    IF v.t \in {"null", "array", "string", "number", "boolean", "object"}
    THEN Str(<<v.t>>) ELSE Str(<<"unknown">>)

Matches(actual, pattern) == actual.s \in Language[pattern.s]

IsNumber(v) == v.t = "number"

IsString(v) == v.t = "string"

IsArray(v) == v.t = "array"

(* Numeric comparison of two numbers.                                      *)
Compare(a, op, b) ==
    CASE op = "gt" -> a > b
      [] op = "gte" -> a >= b
      [] op = "lt" -> a < b
      [] op = "lte" -> a <= b

(* OperatorEvaluator.evaluate.                                             *)
EvaluateOperator(actual, op, expected) ==
    CASE op = "eq" -> StrictEq(actual, expected)
      [] op = "neq" -> ~StrictEq(actual, expected)
      [] op \in {"gt", "gte", "lt", "lte"} ->
            IsNumber(actual) /\ IsNumber(expected) /\ Compare(actual.n, op, expected.n)
      [] op = "between" ->
            /\ IsNumber(actual) /\ IsArray(expected) /\ Len(expected.e) = 2
            /\ \A i \in 1..2 : IsNumber(expected.e[i])
            /\ expected.e[1].n <= actual.n /\ actual.n <= expected.e[2].n
      [] op = "in" -> IsArray(expected) /\ Includes(expected, actual)
      [] op = "not_in" -> IsArray(expected) /\ ~Includes(expected, actual)
      [] op = "contains" ->
            IsArray(actual) /\ expected # Undef /\ Includes(actual, expected)
      [] op = "not_contains" ->
            IsArray(actual) /\ expected # Undef /\ ~Includes(actual, expected)
      [] op = "contains_all" ->
            /\ IsArray(actual) /\ IsArray(expected)
            /\ \A i \in DOMAIN expected.e : Includes(actual, expected.e[i])
      [] op = "contains_any" ->
            /\ IsArray(actual) /\ IsArray(expected)
            /\ \E i \in DOMAIN expected.e : Includes(actual, expected.e[i])
      [] op = "starts_with" ->
            IsString(actual) /\ IsString(expected) /\ IsPrefix(expected.s, actual.s)
      [] op = "ends_with" ->
            IsString(actual) /\ IsString(expected) /\ IsSuffix(expected.s, actual.s)
      [] op = "matches" -> IsString(actual) /\ IsString(expected) /\ Matches(actual, expected)
      [] op = "exists" -> actual.t \notin {"undefined", "null"}
      [] op = "not_exists" -> actual.t \in {"undefined", "null"}
      [] op = "is_true" -> actual = Bool(TRUE)
      [] op = "is_false" -> actual = Bool(FALSE)
      [] op = "is_null" -> actual = NullValue
      [] op = "is_not_null" -> actual # NullValue
      [] op = "length_eq" -> IsNumber(expected) /\ Length(actual) = expected.n
      [] op = "length_gt" -> IsNumber(expected) /\ Length(actual) > expected.n
      [] op = "length_gte" -> IsNumber(expected) /\ Length(actual) >= expected.n
      [] op = "length_lt" -> IsNumber(expected) /\ Length(actual) < expected.n
      [] op = "length_lte" -> IsNumber(expected) /\ Length(actual) <= expected.n
      [] op = "type_is" -> IsString(expected) /\ TypeOf(actual) = expected

---------------------------------------------------------------------------
(* Conditions and rules.                                                   *)

Fact(f, op, v) == [k |-> "fact", fact |-> f, op |-> op, value |-> v]

AllOf(cs) == [k |-> "all", of |-> cs]

AnyOf(cs) == [k |-> "any", of |-> cs]

Always == [k |-> "always"]

IsLeaf(c) == c.k = "fact"

(* The conditions a condition is made of.                                  *)
Parts(c) == IF c.k \in {"all", "any"} THEN {c.of[i] : i \in DOMAIN c.of} ELSE {}

Nesting[c \in Condition] ==
    IF Parts(c) = {} THEN 0 ELSE 1 + Max({Nesting[p] : p \in Parts(c)})

(* A condition is a finite tree, as everything that is read from a file    *)
(* is, and what its leaves compare with is a value.                        *)
ASSUME ConditionAssumption ==
    \A c \in Condition :
        /\ c.k \in {"fact", "always", "all", "any"}
        /\ c.k = "fact" => (IsNumber(c.value) => c.value.n \in Int)
        /\ Nesting[c] \in Nat
        /\ \A p \in Parts(c) : p \in Condition /\ Nesting[p] < Nesting[c]

(* What a condition comes to, from what its parts come to: a fact that is  *)
(* missing satisfies no condition on it.                                   *)
Satisfied(holds, signals, c) ==
    CASE c.k = "fact" ->
            /\ Signal(signals, c.fact) # Undef
            /\ EvaluateOperator(Signal(signals, c.fact), c.op, c.value)
      [] c.k = "always" -> TRUE
      [] c.k = "all" -> \A i \in DOMAIN c.of : holds[c.of[i]]
      [] c.k = "any" -> \E i \in DOMAIN c.of : holds[c.of[i]]

(* PolicyEngine.evaluateCondition.                                         *)
EvaluateCondition(condition, signals) ==
    LET holds[c \in Condition] == Satisfied(holds, signals, c)
    IN holds[condition]

(* PolicyEngine.findFirstMatch: the number of the rule that decides, 0 for *)
(* none.                                                                   *)
FindFirstMatch(rules, signals) ==
    SelectInSeq(rules, LAMBDA rule : EvaluateCondition(rule.condition, signals))

(* PolicyEngine.toOutcome: whatever is not an approval rejects.            *)
ToOutcome(action) == IF action = "approve" THEN "APPROVE" ELSE "REJECT"

(* PolicyEngine.evaluate.                                                  *)
EvaluatePolicy(policy, signals) ==
    LET i == FindFirstMatch(policy.rules, signals) IN
    [outcome |-> IF i = 0 THEN "REJECT" ELSE ToOutcome(policy.rules[i].action),
     rule |-> i]

(* The facts a condition reads, from those its parts read.                 *)
Reads(facts, c) ==
    CASE c.k = "fact" -> {c.fact}
      [] c.k \in {"all", "any"} -> UNION {facts[c.of[i]] : i \in DOMAIN c.of}
      [] OTHER -> {}

ReferencedFacts == LET facts[c \in Condition] == Reads(facts, c) IN facts

(* collectReferencedFacts: every fact some rule's condition reads.         *)
CollectReferencedFacts(policy) ==
    UNION {ReferencedFacts[policy.rules[i].condition] : i \in DOMAIN policy.rules}

(* describePolicySignalRequirements.                                       *)
SignalRequirements(policy) ==
    [facts |-> CollectReferencedFacts(policy),
     bound |-> policy.bound,
     approval |-> DOMAIN policy.approval]

(* resolveIntentPath: a path that leads nowhere is undefined.              *)
ResolveIntentPath(intent, path) == IF path \in DOMAIN intent THEN intent[path] ELSE Undef

(* SignalIntentBinder.findViolations: the bound signals that differ from   *)
(* the intent at their path.  Two undefined values are equal.              *)
FindBindingViolations(policy, signals, intent) ==
    {f \in DOMAIN policy.bound :
        LET s == Signal(signals, f)
            v == ResolveIntentPath(intent, policy.bound[f])
        IN ~(s = Undef /\ v = Undef) /\ ~StrictEq(s, v)}
=============================================================================

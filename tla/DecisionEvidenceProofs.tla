---------------------- MODULE DecisionEvidenceProofs ----------------------
(***************************************************************************)
(* Proofs about the decision and about the evidence of what was decided:   *)
(* how a request comes to be authorized (Decision, over the policy         *)
(* language of PolicyRules and PolicyValidation), for any documents,       *)
(* contents, conditions, signals, changes and faults, and what a verifier  *)
(* may conclude from signed evidence (Evidence), for any number of stored  *)
(* rows, contents, message lengths, reconfigurations, key losses and       *)
(* alterations.  The two have no state in common.                          *)
(***************************************************************************)
EXTENDS Decision, Evidence, TLAPS, WellFoundedInduction, SequenceTheorems

---------------------------------------------------------------------------
(* Recursion over conditions.                                              *)

(* A non-empty set of naturals has a least element.                        *)
LEMMA LeastNat ==
    ASSUME NEW T \in SUBSET Nat, T # {}
    PROVE  \E x \in T : \A y \in T : x <= y
<1>. DEFINE R == OpToRel(<, Nat)
<1>1. PICK x \in T : \A y \in T : ~ (<<y, x>> \in R)
  <2>1. T \subseteq Nat
    OBVIOUS
  <2>2. IsWellFoundedOn(R, Nat)
    BY NatLessThanWellFounded
  <2>. HIDE DEF R
  <2>. QED
    BY <2>1, <2>2, WFMin
<1>2. ASSUME NEW y \in T PROVE x <= y
  <2>1. x \in Nat /\ y \in Nat
    OBVIOUS
  <2>2. ~ (y < x)
    BY <1>1, <2>1 DEF OpToRel
  <2>. QED
    BY <2>1, <2>2
<1>. QED
  BY <1>2

(* Induction over conditions: a set of conditions that is not empty has    *)
(* one of least nesting, none of whose parts is in the set.                *)
LEMMA LeastCondition ==
    ASSUME NEW B \in SUBSET Condition, B # {}
    PROVE  \E c \in B : \A p \in Parts(c) : p \in Condition /\ p \notin B
<1>. DEFINE T == {Nesting[c] : c \in B}
<1>1. T \in SUBSET Nat /\ T # {}
  BY ConditionAssumption
<1>2. PICK x \in T : \A y \in T : x <= y
  <2>. HIDE DEF T
  <2>. QED
    BY <1>1, LeastNat
<1>3. PICK c \in B : Nesting[c] = x
  BY <1>2
<1>4. ASSUME NEW p \in Parts(c) PROVE p \in Condition /\ p \notin B
  <2>1. p \in Condition /\ Nesting[p] < Nesting[c] /\ Nesting[p] \in Nat /\ Nesting[c] \in Nat
    BY ConditionAssumption
  <2>2. SUFFICES ASSUME p \in B PROVE FALSE
    BY <2>1
  <2>3. x <= Nesting[p]
    BY <1>2, <2>2
  <2>. QED
    BY <1>3, <2>1, <2>3
<1>. QED
  BY <1>4

(* A definition by recursion over conditions, whose step looks at the      *)
(* parts only, has a solution.                                             *)
IsStep(V, Step) ==
    /\ V # {} /\ Step \in [Condition \X [Condition -> V] -> V]
    /\ \A c \in Condition, g, h \in [Condition -> V] :
          (\A p \in Parts(c) : g[p] = h[p]) => Step[<<c, g>>] = Step[<<c, h>>]

IsSolution(V, Step, h) == h \in [Condition -> V] /\ \A c \in Condition : h[c] = Step[<<c, h>>]

LEMMA Recursion ==
    ASSUME NEW V, NEW Step, IsStep(V, Step)
    PROVE  \E h : IsSolution(V, Step, h)
<1>. USE DEF IsStep, IsSolution
<1>. DEFINE Upto(n, h) == \A c \in Condition : Nesting[c] < n => h[c] = Step[<<c, h>>]
            Stuck == {n \in Nat : ~ \E h \in [Condition -> V] : Upto(n, h)}
            H(n) == CHOOSE h \in [Condition -> V] : Upto(n, h)
            all == [c \in Condition |-> H(Nesting[c] + 1)[c]]
<1>1. \A n \in Nat : \E h \in [Condition -> V] : Upto(n, h)
  <2>1. SUFFICES ASSUME Stuck # {} PROVE FALSE
    OBVIOUS
  <2>2. PICK n \in Stuck : \A m \in Stuck : n <= m
    <3>1. Stuck \in SUBSET Nat
      OBVIOUS
    <3>. HIDE DEF Stuck
    <3>. QED
      BY <2>1, <3>1, LeastNat
  <2>3. n # 0
    <3>1. PICK v \in V : TRUE
      OBVIOUS
    <3>2. [c \in Condition |-> v] \in [Condition -> V]
      OBVIOUS
    <3>3. \A c \in Condition : ~ Nesting[c] < 0
      BY ConditionAssumption
    <3>4. Upto(0, [c \in Condition |-> v])
      BY <3>3
    <3>. QED
      BY <3>2, <3>4
  <2>4. PICK h \in [Condition -> V] : Upto(n - 1, h)
    <3>1. n - 1 \in Nat /\ n - 1 < n
      BY <2>3
    <3>2. n - 1 \notin Stuck
      BY <2>2, <3>1
    <3>. QED
      BY <3>1, <3>2
  <2>. DEFINE k == [c \in Condition |-> Step[<<c, h>>]]
  <2>5. k \in [Condition -> V]
    OBVIOUS
  <2>6. ASSUME NEW c \in Condition, Nesting[c] < n PROVE k[c] = Step[<<c, k>>]
    <3>1. \A p \in Parts(c) : p \in Condition /\ Nesting[p] < n - 1
      BY <2>6, ConditionAssumption
    <3>2. \A p \in Parts(c) : k[p] = h[p]
      BY <2>4, <3>1
    <3>3. Step[<<c, k>>] = Step[<<c, h>>]
      BY <2>5, <3>2
    <3>. QED
      BY <3>3
  <2>. QED
    BY <2>5, <2>6
<1>2. ASSUME NEW m \in Nat, NEW n \in Nat, NEW g \in [Condition -> V], Upto(m, g),
             NEW h \in [Condition -> V], Upto(n, h)
      PROVE  \A c \in Condition : Nesting[c] < m /\ Nesting[c] < n => g[c] = h[c]
  <2>. DEFINE B == {c \in Condition : Nesting[c] < m /\ Nesting[c] < n /\ g[c] # h[c]}
  <2>1. SUFFICES ASSUME B # {} PROVE FALSE
    OBVIOUS
  <2>2. PICK c \in B : \A p \in Parts(c) : p \in Condition /\ p \notin B
    <3>1. B \in SUBSET Condition
      OBVIOUS
    <3>. HIDE DEF B
    <3>. QED
      BY <2>1, <3>1, LeastCondition
  <2>3. c \in Condition
    OBVIOUS
  <2>4. \A p \in Parts(c) : g[p] = h[p]
    <3>1. \A p \in Parts(c) : Nesting[p] < m /\ Nesting[p] < n
      BY <2>3, ConditionAssumption
    <3>. QED
      BY <2>2, <3>1
  <2>5. g[c] = Step[<<c, g>>] /\ h[c] = Step[<<c, h>>]
    BY <1>2, <2>3
  <2>. QED
    BY <2>3, <2>4, <2>5
<1>3. \A n \in Nat : H(n) \in [Condition -> V] /\ Upto(n, H(n))
  BY <1>1
<1>4. ASSUME NEW m \in Nat, NEW n \in Nat, NEW c \in Condition, Nesting[c] < m, Nesting[c] < n
      PROVE  H(m)[c] = H(n)[c]
  <2>1. H(m) \in [Condition -> V] /\ H(n) \in [Condition -> V] /\ Upto(m, H(m)) /\ Upto(n, H(n))
    BY <1>3
  <2>. HIDE DEF H, Upto
  <2>. QED
    BY <1>2, <1>4, <2>1
<1>5. ASSUME NEW n \in Nat, NEW c \in Condition, Nesting[c] < n
      PROVE  H(n)[c] = Step[<<c, H(n)>>]
  BY <1>3, <1>5
<1>6. \A n \in Nat : H(n) \in [Condition -> V]
  BY <1>3
<1>. HIDE DEF H
<1>7. \A c \in Condition : Nesting[c] \in Nat /\ Nesting[c] + 1 \in Nat /\ Nesting[c] < Nesting[c] + 1
  BY ConditionAssumption
<1>8. all \in [Condition -> V]
  BY <1>6, <1>7
<1>9. ASSUME NEW c \in Condition PROVE all[c] = Step[<<c, all>>]
  <2>1. PICK n \in Nat : n = Nesting[c] + 1
    BY <1>7
  <2>2. Nesting[c] < n /\ H(n) \in [Condition -> V]
    BY <1>6, <1>7, <2>1
  <2>3. ASSUME NEW p \in Parts(c) PROVE all[p] = H(n)[p]
    <3>1. p \in Condition /\ Nesting[p] \in Nat /\ Nesting[p] < n
      BY <1>7, <2>1, ConditionAssumption
    <3>2. PICK m \in Nat : m = Nesting[p] + 1
      BY <3>1
    <3>3. H(m)[p] = H(n)[p]
      <4>1. Nesting[p] < m
        BY <3>1, <3>2
      <4>. QED
        BY <1>4, <3>1, <4>1
    <3>. QED
      BY <3>1, <3>2, <3>3
  <2>4. Step[<<c, all>>] = Step[<<c, H(n)>>]
    BY <1>8, <2>2, <2>3
  <2>5. H(n)[c] = Step[<<c, H(n)>>]
    BY <1>5, <2>2
  <2>. QED
    BY <2>1, <2>4, <2>5
<1>. QED
  BY <1>8, <1>9

---------------------------------------------------------------------------
(* What conditions come to.                                                *)

Holds(signals) == CHOOSE f : f = [c \in Condition |-> Satisfied(f, signals, c)]

LEMMA EvaluateConditionIs ==
    ASSUME NEW signals, NEW c
    PROVE  EvaluateCondition(c, signals) = Holds(signals)[c]
BY DEF EvaluateCondition, Holds

LEMMA HoldsExists ==
    ASSUME NEW signals
    PROVE  \E f : f = [c \in Condition |-> Satisfied(f, signals, c)]
<1>. DEFINE V == BOOLEAN \cup {Satisfied(<<>>, signals, c) : c \in Condition}
            Step == [x \in Condition \X [Condition -> V] |-> Satisfied(x[2], signals, x[1])]
<1>1. ASSUME NEW c \in Condition, NEW g, NEW h, \A p \in Parts(c) : g[p] = h[p]
      PROVE  Satisfied(g, signals, c) = Satisfied(h, signals, c)
  <2>1. c.k \in {"fact", "always", "all", "any"}
    BY ConditionAssumption
  <2>2. CASE c.k \in {"fact", "always"}
    BY <2>2 DEF Satisfied
  <2>3. CASE c.k \in {"all", "any"}
    <3>1. \A i \in DOMAIN c.of : g[c.of[i]] = h[c.of[i]]
      BY <1>1, <2>3 DEF Parts
    <3>. QED
      BY <2>3, <3>1 DEF Satisfied
  <2>. QED
    BY <2>1, <2>2, <2>3
<1>2. ASSUME NEW c \in Condition, NEW h PROVE Satisfied(h, signals, c) \in V
  <2>1. c.k \in {"fact", "always", "all", "any"}
    BY ConditionAssumption
  <2>2. CASE c.k \in {"fact", "always"}
    <3>1. Satisfied(h, signals, c) = Satisfied(<<>>, signals, c)
      BY <2>2 DEF Satisfied
    <3>. HIDE DEF Satisfied
    <3>. QED
      BY <3>1
  <2>3. CASE c.k = "all"
    <3>1. Satisfied(h, signals, c) = \A i \in DOMAIN c.of : h[c.of[i]]
      BY <2>3 DEF Satisfied
    <3>. QED
      BY <3>1
  <2>4. CASE c.k = "any"
    <3>1. Satisfied(h, signals, c) = \E i \in DOMAIN c.of : h[c.of[i]]
      BY <2>4 DEF Satisfied
    <3>. QED
      BY <3>1
  <2>. QED
    BY <2>1, <2>2, <2>3, <2>4
<1>3. V # {}
  OBVIOUS
<1>. HIDE DEF V
<1>4. IsStep(V, Step)
  <2>1. Step \in [Condition \X [Condition -> V] -> V]
    BY <1>2
  <2>2. \A c \in Condition, g, h \in [Condition -> V] :
          (\A p \in Parts(c) : g[p] = h[p]) => Step[<<c, g>>] = Step[<<c, h>>]
    BY <1>1
  <2>. QED
    BY <1>3, <2>1, <2>2 DEF IsStep
<1>6. PICK f : IsSolution(V, Step, f)
  <2>. HIDE DEF Step
  <2>. QED
    BY <1>4, Recursion
<1>7. f = [c \in Condition |-> Satisfied(f, signals, c)]
  <2>1. \A c \in Condition : f[c] = Satisfied(f, signals, c)
    BY <1>6 DEF IsSolution
  <2>. QED
    BY <1>6, <2>1 DEF IsSolution
<1>. QED
  BY <1>7

LEMMA HoldsIs ==
    ASSUME NEW signals
    PROVE  Holds(signals) = [c \in Condition |-> Satisfied(Holds(signals), signals, c)]
BY HoldsExists DEF Holds

(* PolicyEngine.evaluateCondition means what its recursion says, for every *)
(* finite condition: a leaf is its operator on a fact that is there,       *)
(* "all" and "any" are all and any of their parts.                         *)
THEOREM EvaluationIsRecursive ==
    ASSUME NEW signals, NEW c \in Condition
    PROVE  /\ c.k = "fact" => EvaluateCondition(c, signals) =
                 (Signal(signals, c.fact) # Undef
                  /\ EvaluateOperator(Signal(signals, c.fact), c.op, c.value))
           /\ c.k = "always" => EvaluateCondition(c, signals) = TRUE
           /\ c.k = "all" => EvaluateCondition(c, signals) =
                 \A i \in DOMAIN c.of : EvaluateCondition(c.of[i], signals)
           /\ c.k = "any" => EvaluateCondition(c, signals) =
                 \E i \in DOMAIN c.of : EvaluateCondition(c.of[i], signals)
<1>1. EvaluateCondition(c, signals) = Satisfied(Holds(signals), signals, c)
  BY HoldsIs, EvaluateConditionIs
<1>2. c.k = "fact" => EvaluateCondition(c, signals) =
         (Signal(signals, c.fact) # Undef
          /\ EvaluateOperator(Signal(signals, c.fact), c.op, c.value))
  BY <1>1 DEF Satisfied
<1>3. c.k = "always" => EvaluateCondition(c, signals) = TRUE
  BY <1>1 DEF Satisfied
<1>4. c.k = "all" => EvaluateCondition(c, signals) =
         \A i \in DOMAIN c.of : EvaluateCondition(c.of[i], signals)
  BY <1>1, EvaluateConditionIs DEF Satisfied
<1>5. c.k = "any" => EvaluateCondition(c, signals) =
         \E i \in DOMAIN c.of : EvaluateCondition(c.of[i], signals)
  BY <1>1, EvaluateConditionIs DEF Satisfied
<1>. QED
  BY <1>2, <1>3, <1>4, <1>5

---------------------------------------------------------------------------
(* The facts a condition reads.                                            *)

LEMMA ReferencedFactsExists == \E f : f = [c \in Condition |-> Reads(f, c)]
<1>. DEFINE V == SUBSET {c.fact : c \in Condition}
            Step == [x \in Condition \X [Condition -> V] |-> Reads(x[2], x[1])]
<1>1. ASSUME NEW c \in Condition, NEW g, NEW h, \A p \in Parts(c) : g[p] = h[p]
      PROVE  Reads(g, c) = Reads(h, c)
  <2>1. CASE c.k \in {"all", "any"}
    <3>1. \A i \in DOMAIN c.of : g[c.of[i]] = h[c.of[i]]
      BY <1>1, <2>1 DEF Parts
    <3>2. {g[c.of[i]] : i \in DOMAIN c.of} = {h[c.of[i]] : i \in DOMAIN c.of}
      BY <3>1
    <3>. QED
      BY <2>1, <3>2 DEF Reads
  <2>2. CASE c.k \notin {"all", "any"}
    BY <2>2 DEF Reads
  <2>. QED
    BY <2>1, <2>2
<1>2. ASSUME NEW c \in Condition, NEW h \in [Condition -> V] PROVE Reads(h, c) \in V
  <2>1. CASE c.k \in {"all", "any"}
    <3>1. \A i \in DOMAIN c.of : c.of[i] \in Condition
      BY <2>1, ConditionAssumption DEF Parts
    <3>2. \A i \in DOMAIN c.of : h[c.of[i]] \in V
      BY <3>1
    <3>3. UNION {h[c.of[i]] : i \in DOMAIN c.of} \in V
      BY <3>2
    <3>4. Reads(h, c) = UNION {h[c.of[i]] : i \in DOMAIN c.of}
      BY <2>1 DEF Reads
    <3>. QED
      BY <3>3, <3>4
  <2>2. CASE c.k \notin {"all", "any"}
    BY <2>2 DEF Reads
  <2>. QED
    BY <2>1, <2>2
<1>3. V # {}
  OBVIOUS
<1>. HIDE DEF V
<1>4. IsStep(V, Step)
  <2>1. Step \in [Condition \X [Condition -> V] -> V]
    BY <1>2
  <2>2. \A c \in Condition, g, h \in [Condition -> V] :
          (\A p \in Parts(c) : g[p] = h[p]) => Step[<<c, g>>] = Step[<<c, h>>]
    BY <1>1
  <2>. QED
    BY <1>3, <2>1, <2>2 DEF IsStep
<1>5. PICK f : IsSolution(V, Step, f)
  <2>. HIDE DEF Step
  <2>. QED
    BY <1>4, Recursion
<1>6. f = [c \in Condition |-> Reads(f, c)]
  <2>1. \A c \in Condition : f[c] = Reads(f, c)
    BY <1>5 DEF IsSolution
  <2>. QED
    BY <1>5, <2>1 DEF IsSolution
<1>. QED
  BY <1>6

LEMMA ReferencedFactsIs == ReferencedFacts = [c \in Condition |-> Reads(ReferencedFacts, c)]
BY ReferencedFactsExists DEF ReferencedFacts

(* A condition comes to the same for signals that agree on the facts it    *)
(* reads.                                                                  *)
LEMMA OnlyReferencedFactsCount ==
    ASSUME NEW s, NEW t, NEW c \in Condition,
           \A f \in ReferencedFacts[c] : Signal(s, f) = Signal(t, f)
    PROVE  EvaluateCondition(c, s) = EvaluateCondition(c, t)
<1>. DEFINE Agree(d) == \A f \in ReferencedFacts[d] : Signal(s, f) = Signal(t, f)
            B == {d \in Condition : Agree(d) /\ EvaluateCondition(d, s) # EvaluateCondition(d, t)}
<1>1. SUFFICES ASSUME B # {} PROVE FALSE
  OBVIOUS
<1>2. PICK d \in B : \A p \in Parts(d) : p \in Condition /\ p \notin B
  <2>1. B \in SUBSET Condition
    OBVIOUS
  <2>. HIDE DEF B
  <2>. QED
    BY <1>1, <2>1, LeastCondition
<1>3. d \in Condition /\ Agree(d) /\ EvaluateCondition(d, s) # EvaluateCondition(d, t)
  OBVIOUS
<1>4. ReferencedFacts[d] = Reads(ReferencedFacts, d)
  BY <1>3, ReferencedFactsIs
<1>5. d.k \in {"fact", "always", "all", "any"}
  BY <1>3, ConditionAssumption
<1>6. CASE d.k = "fact"
  <2>1. Signal(s, d.fact) = Signal(t, d.fact)
    BY <1>3, <1>4, <1>6 DEF Reads
  <2>2. \A r : EvaluateCondition(d, r) =
                 (Signal(r, d.fact) # Undef /\ EvaluateOperator(Signal(r, d.fact), d.op, d.value))
    BY <1>3, <1>6, EvaluationIsRecursive
  <2>. QED
    BY <1>3, <2>1, <2>2
<1>7. CASE d.k = "always"
  BY <1>3, <1>7, EvaluationIsRecursive
<1>8. ASSUME d.k \in {"all", "any"}
      PROVE  \A i \in DOMAIN d.of : EvaluateCondition(d.of[i], s) = EvaluateCondition(d.of[i], t)
  <2>. SUFFICES ASSUME NEW i \in DOMAIN d.of
                PROVE  EvaluateCondition(d.of[i], s) = EvaluateCondition(d.of[i], t)
    OBVIOUS
  <2>1. d.of[i] \in Condition /\ d.of[i] \notin B
    BY <1>2, <1>8 DEF Parts
  <2>2. ReferencedFacts[d.of[i]] \subseteq ReferencedFacts[d]
    BY <1>4, <1>8 DEF Reads
  <2>3. Agree(d.of[i])
    BY <1>3, <2>2
  <2>. QED
    BY <2>1, <2>3
<1>9. CASE d.k = "all"
  <2>1. EvaluateCondition(d, s) = \A i \in DOMAIN d.of : EvaluateCondition(d.of[i], s)
    BY <1>3, <1>9, EvaluationIsRecursive
  <2>2. EvaluateCondition(d, t) = \A i \in DOMAIN d.of : EvaluateCondition(d.of[i], t)
    BY <1>3, <1>9, EvaluationIsRecursive
  <2>. QED
    BY <1>3, <1>8, <1>9, <2>1, <2>2
<1>10. CASE d.k = "any"
  <2>1. EvaluateCondition(d, s) = \E i \in DOMAIN d.of : EvaluateCondition(d.of[i], s)
    BY <1>3, <1>10, EvaluationIsRecursive
  <2>2. EvaluateCondition(d, t) = \E i \in DOMAIN d.of : EvaluateCondition(d.of[i], t)
    BY <1>3, <1>10, EvaluationIsRecursive
  <2>. QED
    BY <1>3, <1>8, <1>10, <2>1, <2>2
<1>. QED
  BY <1>5, <1>6, <1>7, <1>9, <1>10

---------------------------------------------------------------------------
(* The rule that decides.                                                  *)

Matching(rules, signals) == {i \in 1..Len(rules) : EvaluateCondition(rules[i].condition, signals)}

LEMMA FirstMatchIs ==
    ASSUME NEW rules, NEW signals
    PROVE  FindFirstMatch(rules, signals) =
              IF Matching(rules, signals) # {} THEN Min(Matching(rules, signals)) ELSE 0
BY DEF FindFirstMatch, SelectInSeq, Matching

(* A rule decides only if its condition holds.                             *)
LEMMA DecidingRuleHolds ==
    ASSUME NEW rules, Len(rules) \in Nat, NEW signals, FindFirstMatch(rules, signals) # 0
    PROVE  LET i == FindFirstMatch(rules, signals) IN
           i \in 1..Len(rules) /\ EvaluateCondition(rules[i].condition, signals)
<1>. DEFINE M == Matching(rules, signals)
<1>1. M # {} /\ FindFirstMatch(rules, signals) = Min(M)
  BY FirstMatchIs
<1>2. M \in SUBSET Nat
  BY DEF Matching
<1>3. \E x \in M : \A y \in M : x <= y
  BY <1>1, <1>2, LeastNat
<1>4. Min(M) \in M
  BY <1>3 DEF Min
<1>. QED
  BY <1>1, <1>4 DEF Matching

LEMMA SameMatch ==
    ASSUME NEW rules, NEW s, NEW t,
           \A i \in 1..Len(rules) :
              EvaluateCondition(rules[i].condition, s) <=> EvaluateCondition(rules[i].condition, t)
    PROVE  FindFirstMatch(rules, s) = FindFirstMatch(rules, t)
<1>1. Matching(rules, s) = Matching(rules, t)
  BY DEF Matching
<1>. QED
  BY <1>1, FirstMatchIs

---------------------------------------------------------------------------
(* The inductive invariant.                                                *)

Place ==
    {"idle", "load", "anchor", "record", "latest", "bind", "version", "evaluate", "verify",
     "refuse", "notify", "enforce", "sign", "done"}

TypeInv ==
    /\ live \in [Doc -> Content \cup {NoContent}]
    /\ approved \in [Doc -> Content \cup {NoContent}]
    /\ current \in [Name -> Doc \cup {NoDoc}]
    /\ pc \in Place
    /\ pc # "idle" => req.declared \in Doc /\ req.signals \in SignalSets
    /\ policy \in Content \cup {NoContent}
    /\ faults \in Nat

(* The approval records: a document is in effect for its own name, and a   *)
(* name has one as soon as one of its documents is approved.               *)
RecordsInv ==
    /\ \A d \in Doc : approved[d] # NoContent => approved[d].doc = d
    /\ \A n \in Name :
          IF current[n] = NoDoc
          THEN \A d \in Doc : NameOf[d] = n => approved[d] = NoContent
          ELSE NameOf[current[n]] = n /\ approved[current[n]] # NoContent

(* Nothing is decided before the policy is loaded, and whatever is decided *)
(* is decided under a valid one.                                           *)
LoadedInv ==
    /\ pc \in {"idle", "load"} => decision = Undecided /\ notified = {} /\ answer = "none"
    /\ pc \notin {"idle", "load", "done"} \/ answer = "authorized" \/ notified # {} =>
          policy # NoContent /\ ValidatePolicy(policy)

At(labels) == pc \in labels \/ answer = "authorized"

(* What the steps behind the request have found.                           *)
FoundInv ==
    /\ At({"verify", "sign"}) \/ decision.cause \in {"rules", "state"} =>
          FindBindingViolations(policy, req.signals, req.intent) = {}
    /\ At({"verify", "sign"}) => EvaluatePolicy(policy, req.signals).outcome = "APPROVE"
    /\ At({"sign"}) => StateViolations = {}
    /\ notified # {} =>
          /\ FindBindingViolations(policy, req.signals, req.intent) = {}
          /\ EvaluatePolicy(policy, WithApprovals(policy, req.signals)).outcome = "APPROVE"

(* What was approved and in effect since the request came, and what the    *)
(* checks behind it have found among that.                                 *)
SinceInv ==
    /\ pc # "idle" => /\ \A d \in Doc : approved[d] \in since.contents
                      /\ \A n \in Name : current[n] \in since.docs
    /\ pc = "latest" => approved[policy.doc] # NoContent
    /\ At({"latest", "bind", "version", "evaluate", "verify", "sign"}) => policy \in since.contents
    /\ At({"bind", "version", "evaluate", "verify", "sign"}) => policy.doc \in since.docs
    /\ At({"evaluate", "verify", "sign"}) /\ Capability[req.capability] = "canonical" =>
          NameOf[req.declared] = BoundName /\ req.declared \in since.docs

(* A caller that was told the document in effect holds what is approved.   *)
ToldInv ==
    /\ told # NoDoc => told = current[BoundName]
    /\ faults = 0 => live = approved
    /\ pc \notin {"idle", "load"} /\ faults = 0 /\ told = req.declared =>
          policy = approved[req.declared]
    /\ decision.cause \in {"governance", "capability"} /\ faults = 0 => told # req.declared
DecisionInv == TypeInv /\ RecordsInv /\ LoadedInv /\ FoundInv /\ SinceInv /\ ToldInv

LEMMA InitDecision == Init => DecisionInv
<1>. SUFFICES ASSUME Init PROVE DecisionInv
  OBVIOUS
<1>1. live \in [Doc -> Content \cup {NoContent}] /\ approved = live
  BY ContentAssumption DEF Init
<1>2. TypeInv
  BY <1>1, ContentAssumption DEF Init, TypeInv, Place
<1>3. RecordsInv
  BY <1>2, ContentAssumption DEF Init, RecordsInv, TypeInv
<1>4. LoadedInv
  BY DEF Init, LoadedInv
<1>5. FoundInv
  BY DEF Init, FoundInv, At, Undecided
<1>6. SinceInv
  BY DEF Init, SinceInv, At
<1>7. ToldInv
  BY DEF Init, ToldInv, Undecided
<1>. QED
  BY <1>2, <1>3, <1>4, <1>5, <1>6, <1>7 DEF DecisionInv

LEMMA TypeStep ==
    ASSUME TypeInv, [Next]_vars
    PROVE  TypeInv'
<1>1. ASSUME NEW c \in DOMAIN Capability, NEW d \in Doc, NEW s \in SignalSets, NEW i \in Intents,
             NEW g \in SUBSET {f \in DOMAIN s : s[f] = Bool(TRUE)}, Submit(c, d, s, i, g)
      PROVE  TypeInv'
  BY <1>1 DEF Submit, TypeInv, Place, Goto, Answer, Reject, govVars
<1>2. CASE Load
  BY <1>2 DEF Load, TypeInv, Place, Goto, Answer, Reject, govVars
<1>3. CASE Anchor
  BY <1>3 DEF Anchor, TypeInv, Place, Goto, Answer, Reject, govVars, Fail
<1>4. CASE VerifyApproved
  BY <1>4 DEF VerifyApproved, TypeInv, Place, Goto, Answer, Reject, govVars, Fail
<1>5. CASE VerifyCurrent
  BY <1>5 DEF VerifyCurrent, TypeInv, Place, Goto, Answer, Reject, govVars, Fail
<1>6. CASE BindCapability
  BY <1>6 DEF BindCapability, TypeInv, Place, Goto, Answer, Reject, govVars, Fail
<1>7. CASE BindVersion
  BY <1>7 DEF BindVersion, TypeInv, Place, Goto, Answer, Reject, govVars, Fail
<1>8. CASE Evaluate
  BY <1>8 DEF Evaluate, TypeInv, Place, Goto, Answer, Reject, govVars
<1>9. CASE VerifySignals
  BY <1>9 DEF VerifySignals, TypeInv, Place, Goto, Answer, Reject, govVars, Fail
<1>10. CASE WriteRefusalRecord
  <2>1. UNCHANGED <<govVars, req, policy>> /\ pc' = "notify" /\ pc = "refuse" /\ faults' \in Nat
    BY <1>10 DEF WriteRefusalRecord, TypeInv, Goto, Fail
  <2>. QED
    BY <2>1 DEF TypeInv, Place, govVars
<1>11. CASE NotifyApprovalNeeded
  BY <1>11 DEF NotifyApprovalNeeded, TypeInv, Place, Goto, Answer, Reject, govVars, Fail
<1>12. CASE Enforce
  BY <1>12 DEF Enforce, TypeInv, Place, Goto, Answer, Reject, govVars
<1>13. CASE SignAuthorization
  BY <1>13 DEF SignAuthorization, TypeInv, Place, Goto, Answer, Reject, govVars, Fail
<1>14. ASSUME NEW d \in Doc, NEW c \in Proposals, ApproveChange(d, c) PROVE TypeInv'
  <2>1. c \in Content
    BY DecisionAssumption DEF Content
  <2>2. live' \in [Doc -> Content \cup {NoContent}]
    BY <1>14, <2>1 DEF ApproveChange, TypeInv
  <2>3. approved' \in [Doc -> Content \cup {NoContent}] /\ current' \in [Name -> Doc \cup {NoDoc}]
    BY <1>14, <2>1 DEF ApproveChange, TypeInv
  <2>. QED
    BY <1>14, <2>2, <2>3 DEF ApproveChange, TypeInv, Fail
<1>15. ASSUME NEW d \in Doc, NEW c \in Proposals, EditFile(d, c) PROVE TypeInv'
  <2>1. c \in Content
    BY DecisionAssumption DEF Content
  <2>2. live' \in [Doc -> Content \cup {NoContent}]
    BY <1>15, <2>1 DEF EditFile, TypeInv
  <2>3. approved' \in [Doc -> Content \cup {NoContent}] /\ current' \in [Name -> Doc \cup {NoDoc}]
    BY <1>15, <2>1 DEF EditFile, TypeInv
  <2>. QED
    BY <1>15, <2>2, <2>3 DEF EditFile, TypeInv, Fail
<1>16. CASE RevokeConnector
  BY <1>16 DEF RevokeConnector, TypeInv, Place, Goto, Answer, Reject, govVars
<1>17. CASE AskInEffect
  BY <1>17 DEF AskInEffect, TypeInv, Place, Goto, Answer, Reject, govVars
<1>18. CASE UNCHANGED vars
  BY <1>18 DEF vars, TypeInv, Place, Goto, Answer, Reject, govVars
<1>. QED
  BY <1>1, <1>2, <1>3, <1>4, <1>5, <1>6, <1>7, <1>8, <1>9, <1>10, <1>11, <1>12, <1>13, <1>14, <1>15, <1>16, <1>17, <1>18 DEF Next, RequestStep

LEMMA RecordsStep ==
    ASSUME TypeInv, RecordsInv, [Next]_vars
    PROVE  RecordsInv'
<1>1. ASSUME NEW c \in DOMAIN Capability, NEW d \in Doc, NEW s \in SignalSets, NEW i \in Intents,
             NEW g \in SUBSET {f \in DOMAIN s : s[f] = Bool(TRUE)}, Submit(c, d, s, i, g)
      PROVE  RecordsInv'
  BY <1>1 DEF Submit, RecordsInv, govVars
<1>2. CASE Load
  BY <1>2 DEF Load, RecordsInv, govVars
<1>3. CASE Anchor
  BY <1>3 DEF Anchor, RecordsInv, govVars
<1>4. CASE VerifyApproved
  BY <1>4 DEF VerifyApproved, RecordsInv, govVars
<1>5. CASE VerifyCurrent
  BY <1>5 DEF VerifyCurrent, RecordsInv, govVars
<1>6. CASE BindCapability
  BY <1>6 DEF BindCapability, RecordsInv, govVars
<1>7. CASE BindVersion
  BY <1>7 DEF BindVersion, RecordsInv, govVars
<1>8. CASE Evaluate
  BY <1>8 DEF Evaluate, RecordsInv, govVars
<1>9. CASE VerifySignals
  BY <1>9 DEF VerifySignals, RecordsInv, govVars
<1>10. CASE WriteRefusalRecord
  BY <1>10 DEF WriteRefusalRecord, RecordsInv, govVars
<1>11. CASE NotifyApprovalNeeded
  BY <1>11 DEF NotifyApprovalNeeded, RecordsInv, govVars
<1>12. CASE Enforce
  BY <1>12 DEF Enforce, RecordsInv, govVars
<1>13. CASE SignAuthorization
  BY <1>13 DEF SignAuthorization, RecordsInv, govVars
<1>14. ASSUME NEW d \in Doc, NEW c \in Proposals, ApproveChange(d, c) PROVE RecordsInv'
  BY <1>14, DecisionAssumption DEF ApproveChange, RecordsInv, govVars, TypeInv, Name
<1>15. ASSUME NEW d \in Doc, NEW c \in Proposals, EditFile(d, c) PROVE RecordsInv'
  BY <1>15 DEF EditFile, RecordsInv, govVars
<1>16. CASE RevokeConnector
  BY <1>16 DEF RevokeConnector, RecordsInv, govVars
<1>17. CASE AskInEffect
  BY <1>17 DEF AskInEffect, RecordsInv, govVars
<1>18. CASE UNCHANGED vars
  BY <1>18 DEF vars, RecordsInv, govVars
<1>. QED
  BY <1>1, <1>2, <1>3, <1>4, <1>5, <1>6, <1>7, <1>8, <1>9, <1>10, <1>11, <1>12, <1>13, <1>14, <1>15, <1>16, <1>17, <1>18 DEF Next, RequestStep

LEMMA LoadedStep ==
    ASSUME TypeInv, LoadedInv, [Next]_vars
    PROVE  LoadedInv'
<1>1. ASSUME NEW c \in DOMAIN Capability, NEW d \in Doc, NEW s \in SignalSets, NEW i \in Intents,
             NEW g \in SUBSET {f \in DOMAIN s : s[f] = Bool(TRUE)}, Submit(c, d, s, i, g)
      PROVE  LoadedInv'
  BY <1>1 DEF Submit, LoadedInv, Goto, Answer, Reject, TypeInv, Place
<1>2. CASE Load
  BY <1>2 DEF Load, LoadedInv, Goto, Answer, Reject, TypeInv, Place
<1>3. CASE Anchor
  BY <1>3 DEF Anchor, LoadedInv, Goto, Answer, Reject, TypeInv, Place
<1>4. CASE VerifyApproved
  BY <1>4 DEF VerifyApproved, LoadedInv, Goto, Answer, Reject, TypeInv, Place
<1>5. CASE VerifyCurrent
  BY <1>5 DEF VerifyCurrent, LoadedInv, Goto, Answer, Reject, TypeInv, Place
<1>6. CASE BindCapability
  BY <1>6 DEF BindCapability, LoadedInv, Goto, Answer, Reject, TypeInv, Place
<1>7. CASE BindVersion
  BY <1>7 DEF BindVersion, LoadedInv, Goto, Answer, Reject, TypeInv, Place
<1>8. CASE Evaluate
  BY <1>8 DEF Evaluate, LoadedInv, Goto, Answer, Reject, TypeInv, Place
<1>9. CASE VerifySignals
  BY <1>9 DEF VerifySignals, LoadedInv, Goto, Answer, Reject, TypeInv, Place
<1>10. CASE WriteRefusalRecord
  BY <1>10 DEF WriteRefusalRecord, LoadedInv, Goto, Answer, Reject, TypeInv, Place
<1>11. CASE NotifyApprovalNeeded
  BY <1>11 DEF NotifyApprovalNeeded, LoadedInv, Goto, Answer, Reject, TypeInv, Place
<1>12. CASE Enforce
  BY <1>12 DEF Enforce, LoadedInv, Goto, Answer, Reject, TypeInv, Place
<1>13. CASE SignAuthorization
  BY <1>13 DEF SignAuthorization, LoadedInv, Goto, Answer, Reject, TypeInv, Place
<1>14. ASSUME NEW d \in Doc, NEW c \in Proposals, ApproveChange(d, c) PROVE LoadedInv'
  BY <1>14 DEF ApproveChange, LoadedInv, Goto, Answer, Reject, TypeInv, Place
<1>15. ASSUME NEW d \in Doc, NEW c \in Proposals, EditFile(d, c) PROVE LoadedInv'
  BY <1>15 DEF EditFile, LoadedInv, Goto, Answer, Reject, TypeInv, Place
<1>16. CASE RevokeConnector
  BY <1>16 DEF RevokeConnector, LoadedInv, Goto, Answer, Reject, TypeInv, Place
<1>17. CASE AskInEffect
  BY <1>17 DEF AskInEffect, LoadedInv, Goto, Answer, Reject, TypeInv, Place
<1>18. CASE UNCHANGED vars
  BY <1>18 DEF vars, LoadedInv, Goto, Answer, Reject, TypeInv, Place
<1>. QED
  BY <1>1, <1>2, <1>3, <1>4, <1>5, <1>6, <1>7, <1>8, <1>9, <1>10, <1>11, <1>12, <1>13, <1>14, <1>15, <1>16, <1>17, <1>18 DEF Next, RequestStep

LEMMA FoundStep ==
    ASSUME TypeInv, LoadedInv, FoundInv, [Next]_vars
    PROVE  FoundInv'
<1>1. ASSUME NEW c \in DOMAIN Capability, NEW d \in Doc, NEW s \in SignalSets, NEW i \in Intents,
             NEW g \in SUBSET {f \in DOMAIN s : s[f] = Bool(TRUE)}, Submit(c, d, s, i, g)
      PROVE  FoundInv'
  BY <1>1 DEF Submit, FoundInv, LoadedInv, Goto, Answer, Reject, At, StateViolations, Undecided
<1>2. CASE Load
  <2>1. decision' = Undecided /\ notified' = {} /\ answer' # "authorized" /\ pc' \notin {"verify", "sign"}
    BY <1>2 DEF Load, LoadedInv, Goto, Answer
  <2>. QED
    BY <2>1 DEF FoundInv, At, Undecided
<1>3. CASE Anchor
  BY <1>3 DEF Anchor, FoundInv, LoadedInv, Goto, Answer, Reject, At, StateViolations, Undecided
<1>4. CASE VerifyApproved
  <2>1. /\ pc' \notin {"verify", "sign"} /\ UNCHANGED <<policy, req, notified>>
        /\ answer' = "authorized" => answer = "authorized"
        /\ decision'.cause \in {"rules", "state"} => decision.cause \in {"rules", "state"}
    BY <1>4 DEF VerifyApproved, Goto, Answer, Reject
  <2>. QED
    BY <2>1 DEF FoundInv, At, StateViolations
<1>5. CASE VerifyCurrent
  <2>1. /\ pc' \notin {"verify", "sign"} /\ UNCHANGED <<policy, req, notified>>
        /\ answer' = "authorized" => answer = "authorized"
        /\ decision'.cause \in {"rules", "state"} => decision.cause \in {"rules", "state"}
    BY <1>5 DEF VerifyCurrent, Goto, Answer, Reject
  <2>. QED
    BY <2>1 DEF FoundInv, At, StateViolations
<1>6. CASE BindCapability
  <2>1. /\ pc' \notin {"verify", "sign"} /\ UNCHANGED <<policy, req, notified>>
        /\ answer' = "authorized" => answer = "authorized"
        /\ decision'.cause \in {"rules", "state"} => decision.cause \in {"rules", "state"}
    BY <1>6 DEF BindCapability, Goto, Answer, Reject
  <2>. QED
    BY <2>1 DEF FoundInv, At, StateViolations
<1>7. CASE BindVersion
  <2>1. /\ pc' \notin {"verify", "sign"} /\ UNCHANGED <<policy, req, notified>>
        /\ answer' = "authorized" => answer = "authorized"
        /\ decision'.cause \in {"rules", "state"} => decision.cause \in {"rules", "state"}
    BY <1>7 DEF BindVersion, Goto, Answer, Reject
  <2>. QED
    BY <2>1 DEF FoundInv, At, StateViolations
<1>8. CASE Evaluate
  <2>1. /\ UNCHANGED <<policy, req, notified, answer>>
        /\ pc' = "verify" => EvaluatePolicy(policy, req.signals).outcome = "APPROVE"
        /\ pc' = "verify" \/ decision'.cause \in {"rules", "state"} =>
              FindBindingViolations(policy, req.signals, req.intent) = {}
        /\ pc' # "sign"
    BY <1>8 DEF Evaluate, Goto, Reject
  <2>. QED
    BY <2>1 DEF FoundInv, At, StateViolations
<1>9. CASE VerifySignals
  BY <1>9 DEF VerifySignals, FoundInv, LoadedInv, Goto, Answer, Reject, At, StateViolations, Undecided
<1>10. CASE WriteRefusalRecord
  BY <1>10 DEF WriteRefusalRecord, FoundInv, LoadedInv, Goto, Answer, Reject, At, StateViolations, Undecided
<1>11. CASE NotifyApprovalNeeded
  BY <1>11 DEF NotifyApprovalNeeded, FoundInv, LoadedInv, Goto, Answer, Reject, At, StateViolations, Undecided, FindNeededApprovals
<1>12. CASE Enforce
  BY <1>12 DEF Enforce, FoundInv, LoadedInv, Goto, Answer, Reject, At, StateViolations, Undecided
<1>13. CASE SignAuthorization
  BY <1>13 DEF SignAuthorization, FoundInv, LoadedInv, Goto, Answer, Reject, At, StateViolations, Undecided
<1>14. ASSUME NEW d \in Doc, NEW c \in Proposals, ApproveChange(d, c) PROVE FoundInv'
  BY <1>14 DEF ApproveChange, FoundInv, LoadedInv, Goto, Answer, Reject, At, StateViolations, Undecided
<1>15. ASSUME NEW d \in Doc, NEW c \in Proposals, EditFile(d, c) PROVE FoundInv'
  BY <1>15 DEF EditFile, FoundInv, LoadedInv, Goto, Answer, Reject, At, StateViolations, Undecided
<1>16. CASE RevokeConnector
  BY <1>16 DEF RevokeConnector, FoundInv, LoadedInv, Goto, Answer, Reject, At, StateViolations, Undecided
<1>17. CASE AskInEffect
  BY <1>17 DEF AskInEffect, FoundInv, LoadedInv, Goto, Answer, Reject, At, StateViolations, Undecided
<1>18. CASE UNCHANGED vars
  BY <1>18 DEF vars, FoundInv, LoadedInv, Goto, Answer, Reject, At, StateViolations, Undecided
<1>. QED
  BY <1>1, <1>2, <1>3, <1>4, <1>5, <1>6, <1>7, <1>8, <1>9, <1>10, <1>11, <1>12, <1>13, <1>14, <1>15, <1>16, <1>17, <1>18 DEF Next, RequestStep

LEMMA SinceStep ==
    ASSUME TypeInv, RecordsInv, LoadedInv, SinceInv, [Next]_vars
    PROVE  SinceInv'
<1>1. ASSUME NEW c \in DOMAIN Capability, NEW d \in Doc, NEW s \in SignalSets, NEW i \in Intents,
             NEW g \in SUBSET {f \in DOMAIN s : s[f] = Bool(TRUE)}, Submit(c, d, s, i, g)
      PROVE  SinceInv'
  <2>1. /\ pc' = "load" /\ answer' # "authorized" /\ UNCHANGED <<approved, current>>
        /\ since' = Governed
    BY <1>1 DEF Submit, LoadedInv, Goto, govVars
  <2>2. since'.contents = {approved[e] : e \in Doc} /\ since'.docs = {current[n] : n \in Name}
    BY <2>1 DEF Governed, TypeInv
  <2>. QED
    BY <2>1, <2>2 DEF SinceInv, At
<1>2. CASE Load
  BY <1>2 DEF Load, SinceInv, LoadedInv, Goto, Answer, Reject, At, govVars
<1>3. CASE Anchor
  BY <1>3 DEF Anchor, SinceInv, LoadedInv, Goto, Answer, Reject, At, govVars
<1>4. CASE VerifyApproved
  <2>1. policy.doc \in Doc /\ policy # NoContent
    BY <1>4, ContentAssumption DEF VerifyApproved, LoadedInv, TypeInv
  <2>2. /\ pc = "record" /\ pc' \in {"latest", "refuse", "done"} /\ UNCHANGED <<govVars, req, policy, since>>
        /\ pc' = "latest" => approved[policy.doc] = policy
        /\ answer' = "authorized" => answer = "authorized"
    BY <1>4 DEF VerifyApproved, Goto, Answer, Reject
  <2>. QED
    BY <2>1, <2>2 DEF SinceInv, At, govVars
<1>5. CASE VerifyCurrent
  <2>1. policy.doc \in Doc /\ NameOf[policy.doc] \in Name
    BY <1>5, ContentAssumption DEF VerifyCurrent, LoadedInv, TypeInv, Name
  <2>2. /\ pc = "latest" /\ pc' \in {"bind", "refuse", "done"} /\ UNCHANGED <<govVars, req, policy, since>>
        /\ pc' = "bind" => current[NameOf[policy.doc]] \in {policy.doc, NoDoc}
        /\ answer' = "authorized" => answer = "authorized"
    BY <1>5 DEF VerifyCurrent, Goto, Answer, Reject
  <2>3. current[NameOf[policy.doc]] # NoDoc
    BY <2>1, <2>2 DEF RecordsInv, SinceInv
  <2>4. pc' = "bind" => policy.doc \in since.docs
    BY <2>1, <2>2, <2>3 DEF SinceInv
  <2>. QED
    BY <2>2, <2>4 DEF SinceInv, At, govVars
<1>6. CASE BindCapability
  BY <1>6 DEF BindCapability, SinceInv, LoadedInv, Goto, Answer, Reject, At, govVars
<1>7. CASE BindVersion
  <2>1. /\ pc = "version" /\ pc' \in {"evaluate", "refuse"} /\ UNCHANGED <<govVars, req, policy, since, answer>>
        /\ pc' = "evaluate" => current[BoundName] = req.declared
    BY <1>7 DEF BindVersion, Goto, Reject
  <2>2. BoundName \in Name /\ req.declared \in Doc /\ req.declared # NoDoc
    BY <2>1, DecisionAssumption DEF TypeInv, Name
  <2>3. pc' = "evaluate" => NameOf[req.declared] = BoundName /\ req.declared \in since.docs
    BY <2>1, <2>2 DEF RecordsInv, SinceInv
  <2>. QED
    BY <2>1, <2>3 DEF SinceInv, At, govVars
<1>8. CASE Evaluate
  BY <1>8 DEF Evaluate, SinceInv, LoadedInv, Goto, Answer, Reject, At, govVars
<1>9. CASE VerifySignals
  BY <1>9 DEF VerifySignals, SinceInv, LoadedInv, Goto, Answer, Reject, At, govVars
<1>10. CASE WriteRefusalRecord
  BY <1>10 DEF WriteRefusalRecord, SinceInv, LoadedInv, Goto, Answer, Reject, At, govVars
<1>11. CASE NotifyApprovalNeeded
  BY <1>11 DEF NotifyApprovalNeeded, SinceInv, LoadedInv, Goto, Answer, Reject, At, govVars
<1>12. CASE Enforce
  BY <1>12 DEF Enforce, SinceInv, LoadedInv, Goto, Answer, Reject, At, govVars
<1>13. CASE SignAuthorization
  BY <1>13 DEF SignAuthorization, SinceInv, LoadedInv, Goto, Answer, Reject, At, govVars
<1>14. ASSUME NEW d \in Doc, NEW c \in Proposals, ApproveChange(d, c) PROVE SinceInv'
  <2>. DEFINE contents == since.contents \cup {c}
              docs == since.docs \cup {d}
  <2>1. /\ pc \in {"idle", "load", "anchor", "record", "latest", "bind", "version"}
        /\ UNCHANGED <<pc, req, policy, answer>>
        /\ approved' = [approved EXCEPT ![d] = c] /\ current' = [current EXCEPT ![NameOf[d]] = d]
        /\ pc = "idle" => since' = since
        /\ pc # "idle" => since'.contents = contents /\ since'.docs = docs
    BY <1>14 DEF ApproveChange, RecordsNeeded
  <2>2. c # NoContent
    BY DecisionAssumption
  <2>3. pc # "idle" => /\ \A e \in Doc : approved'[e] \in since'.contents
                      /\ \A n \in Name : current'[n] \in since'.docs
    BY <2>1 DEF SinceInv, TypeInv
  <2>4. pc = "latest" => approved'[policy.doc] # NoContent
    <3>1. pc = "latest" => policy.doc \in Doc /\ approved[policy.doc] # NoContent
      BY ContentAssumption DEF SinceInv, LoadedInv, TypeInv
    <3>. QED
      BY <2>1, <2>2, <3>1 DEF TypeInv
  <2>5. CASE pc = "idle"
    BY <2>1, <2>5 DEF SinceInv, At, LoadedInv
  <2>6. CASE pc # "idle"
    <3>1. since.contents \subseteq since'.contents /\ since.docs \subseteq since'.docs
      BY <2>1, <2>6
    <3>. QED
      BY <2>1, <2>3, <2>4, <2>6, <3>1 DEF SinceInv, At
  <2>. QED
    BY <2>5, <2>6
<1>15. ASSUME NEW d \in Doc, NEW c \in Proposals, EditFile(d, c) PROVE SinceInv'
  BY <1>15 DEF EditFile, SinceInv, LoadedInv, Goto, Answer, Reject, At, govVars
<1>16. CASE RevokeConnector
  BY <1>16 DEF RevokeConnector, SinceInv, LoadedInv, Goto, Answer, Reject, At, govVars
<1>17. CASE AskInEffect
  BY <1>17 DEF AskInEffect, SinceInv, LoadedInv, Goto, Answer, Reject, At, govVars
<1>18. CASE UNCHANGED vars
  BY <1>18 DEF vars, SinceInv, LoadedInv, Goto, Answer, Reject, At, govVars
<1>. QED
  BY <1>1, <1>2, <1>3, <1>4, <1>5, <1>6, <1>7, <1>8, <1>9, <1>10, <1>11, <1>12, <1>13, <1>14, <1>15, <1>16, <1>17, <1>18 DEF Next, RequestStep

(* What a caller that was told the document in effect has loaded is        *)
(* approved and in effect.                                                 *)
LEMMA ToldFacts ==
    ASSUME TypeInv, RecordsInv, LoadedInv, ToldInv, faults = 0, told = req.declared,
           pc \notin {"idle", "load", "done"}
    PROVE  /\ approved[policy.doc] = policy /\ current[NameOf[policy.doc]] = policy.doc
           /\ current[BoundName] = req.declared
<1>1. req.declared \in Doc /\ told # NoDoc /\ BoundName \in Name
  BY DecisionAssumption DEF TypeInv, Name
<1>2. current[BoundName] = req.declared /\ policy = approved[req.declared]
  BY <1>1 DEF ToldInv
<1>3. NameOf[req.declared] = BoundName /\ policy # NoContent /\ policy.doc = req.declared
  BY <1>1, <1>2, DecisionAssumption DEF RecordsInv, LoadedInv
<1>. QED
  BY <1>2, <1>3

LEMMA ToldStep ==
    ASSUME TypeInv, RecordsInv, LoadedInv, ToldInv, [Next]_vars
    PROVE  ToldInv'
<1>1. ASSUME NEW c \in DOMAIN Capability, NEW d \in Doc, NEW s \in SignalSets, NEW i \in Intents,
             NEW g \in SUBSET {f \in DOMAIN s : s[f] = Bool(TRUE)}, Submit(c, d, s, i, g)
      PROVE  ToldInv'
  BY <1>1 DEF Submit, ToldInv, LoadedInv, TypeInv, Undecided, Goto, Answer, Reject, govVars, Fail
<1>2. CASE Load
  BY <1>2 DEF Load, ToldInv, LoadedInv, TypeInv, Undecided, Goto, Answer, Reject, govVars, Fail
<1>3. CASE Anchor
  BY <1>3 DEF Anchor, ToldInv, LoadedInv, TypeInv, Undecided, Goto, Answer, Reject, govVars, Fail
<1>4. CASE VerifyApproved
  <2>1. /\ pc = "record" /\ UNCHANGED <<govVars, told, req, policy>>
        /\ faults' \in {faults, faults + 1}
        /\ decision' = decision \/ (approved[policy.doc] # policy /\ decision'.cause = "governance")
        /\ faults' # faults => decision' = decision
    BY <1>4 DEF VerifyApproved, Goto, Answer, Reject, Fail
  <2>2. faults' = 0 => faults = 0
    BY <2>1 DEF TypeInv
  <2>3. ASSUME faults = 0, told = req.declared PROVE approved[policy.doc] = policy
    BY <2>1, <2>3, ToldFacts
  <2>. QED
    BY <2>1, <2>2, <2>3 DEF ToldInv, govVars
<1>5. CASE VerifyCurrent
  <2>1. /\ pc = "latest" /\ UNCHANGED <<govVars, told, req, policy>>
        /\ faults' \in {faults, faults + 1}
        /\ decision' = decision \/ (current[NameOf[policy.doc]] # policy.doc /\ decision'.cause = "governance")
        /\ faults' # faults => decision' = decision
    BY <1>5 DEF VerifyCurrent, Goto, Answer, Reject, Fail
  <2>2. faults' = 0 => faults = 0
    BY <2>1 DEF TypeInv
  <2>3. ASSUME faults = 0, told = req.declared PROVE current[NameOf[policy.doc]] = policy.doc
    BY <2>1, <2>3, ToldFacts
  <2>. QED
    BY <2>1, <2>2, <2>3 DEF ToldInv, govVars
<1>6. CASE BindCapability
  BY <1>6 DEF BindCapability, ToldInv, LoadedInv, TypeInv, Undecided, Goto, Answer, Reject, govVars, Fail
<1>7. CASE BindVersion
  <2>1. /\ pc = "version" /\ UNCHANGED <<govVars, told, req, policy>>
        /\ faults' \in {faults, faults + 1}
        /\ faults' = faults => decision' = decision \/ current[BoundName] # req.declared
    BY <1>7 DEF BindVersion, Goto, Reject, Fail, TypeInv
  <2>2. faults' = 0 => faults = 0 /\ faults' = faults
    BY <2>1 DEF TypeInv
  <2>3. ASSUME faults = 0, told = req.declared PROVE current[BoundName] = req.declared
    BY <2>1, <2>3, ToldFacts
  <2>4. pc' \notin {"idle", "load"} /\ pc # "idle"
    BY <1>7 DEF BindVersion, Goto, Reject
  <2>. QED
    BY <2>1, <2>2, <2>3, <2>4 DEF ToldInv, govVars
<1>8. CASE Evaluate
  BY <1>8 DEF Evaluate, ToldInv, LoadedInv, TypeInv, Undecided, Goto, Answer, Reject, govVars, Fail
<1>9. CASE VerifySignals
  BY <1>9 DEF VerifySignals, ToldInv, LoadedInv, TypeInv, Undecided, Goto, Answer, Reject, govVars, Fail
<1>10. CASE WriteRefusalRecord
  BY <1>10 DEF WriteRefusalRecord, ToldInv, LoadedInv, TypeInv, Undecided, Goto, Answer, Reject, govVars, Fail
<1>11. CASE NotifyApprovalNeeded
  BY <1>11 DEF NotifyApprovalNeeded, ToldInv, LoadedInv, TypeInv, Undecided, Goto, Answer, Reject, govVars, Fail
<1>12. CASE Enforce
  BY <1>12 DEF Enforce, ToldInv, LoadedInv, TypeInv, Undecided, Goto, Answer, Reject, govVars, Fail
<1>13. CASE SignAuthorization
  BY <1>13 DEF SignAuthorization, ToldInv, LoadedInv, TypeInv, Undecided, Goto, Answer, Reject, govVars, Fail
<1>14. ASSUME NEW d \in Doc, NEW c \in Proposals, ApproveChange(d, c) PROVE ToldInv'
  <2>1. /\ UNCHANGED <<pc, req, decision, faults>> /\ told' = NoDoc
        /\ live' = [live EXCEPT ![d] = c] /\ approved' = [approved EXCEPT ![d] = c]
    BY <1>14 DEF ApproveChange
  <2>2. pc # "idle" => req.declared # NoDoc
    BY DecisionAssumption DEF TypeInv
  <2>3. pc = "idle" => decision.cause = "none"
    BY DEF LoadedInv, Undecided
  <2>. QED
    BY <2>1, <2>2, <2>3 DEF ToldInv
<1>15. ASSUME NEW d \in Doc, NEW c \in Proposals, EditFile(d, c) PROVE ToldInv'
  BY <1>15 DEF EditFile, ToldInv, LoadedInv, TypeInv, Undecided, Goto, Answer, Reject, govVars, Fail
<1>16. CASE RevokeConnector
  BY <1>16 DEF RevokeConnector, ToldInv, LoadedInv, TypeInv, Undecided, Goto, Answer, Reject, govVars, Fail
<1>17. CASE AskInEffect
  BY <1>17 DEF AskInEffect, ToldInv, LoadedInv, TypeInv, Undecided, Goto, Answer, Reject, govVars, Fail
<1>18. CASE UNCHANGED vars
  BY <1>18 DEF vars, ToldInv, LoadedInv, TypeInv, Undecided, Goto, Answer, Reject, govVars, Fail
<1>. QED
  BY <1>1, <1>2, <1>3, <1>4, <1>5, <1>6, <1>7, <1>8, <1>9, <1>10, <1>11, <1>12, <1>13, <1>14, <1>15, <1>16, <1>17, <1>18 DEF Next, RequestStep


LEMMA DecisionAlways == Spec => []DecisionInv
<1>1. Init => DecisionInv
  BY InitDecision
<1>2. DecisionInv /\ [Next]_vars => DecisionInv'
  BY TypeStep, RecordsStep, LoadedStep, FoundStep, SinceStep, ToldStep DEF DecisionInv
<1>. QED
  BY <1>1, <1>2, PTL DEF Spec

(* Files and records hold contents, names lead to documents, and a request *)
(* is about a document.                                                    *)
THEOREM DecisionTypes == Spec => []TypeInv
BY DecisionAlways, PTL DEF DecisionInv

---------------------------------------------------------------------------
(* Properties of the policy language.                                      *)

LEMMA RuleConditions ==
    ASSUME NEW p \in Content
    PROVE  /\ Len(p.rules) \in Nat /\ DOMAIN p.rules = 1..Len(p.rules)
           /\ \A i \in DOMAIN p.rules : p.rules[i].condition \in Condition
<1>. DEFINE R == [id : STRING, condition : Condition, action : STRING]
<1>1. p.rules \in Seq(R)
  BY ContentAssumption
<1>2. \A r \in R : r.condition \in Condition
  OBVIOUS
<1>. HIDE DEF R
<1>3. Len(p.rules) \in Nat /\ DOMAIN p.rules = 1..Len(p.rules)
  BY <1>1
<1>4. \A i \in DOMAIN p.rules : p.rules[i] \in R
  BY <1>1
<1>. QED
  BY <1>2, <1>3, <1>4

(* An approval rests on a rule that asks for a signed approval: whatever   *)
(* valid policy approves the signals, an approval signal is set.           *)
LEMMA ApprovalIsSet ==
    ASSUME NEW p \in Content, ValidatePolicy(p), NEW s, EvaluatePolicy(p, s).outcome = "APPROVE"
    PROVE  \E f \in DOMAIN p.approval : Signal(s, f) = Bool(TRUE)
<1>. DEFINE i == FindFirstMatch(p.rules, s)
            c == p.rules[i].condition
<1>1. Len(p.rules) \in Nat /\ DOMAIN p.rules = 1..Len(p.rules)
  BY RuleConditions
<1>2. i # 0 /\ p.rules[i].action = "approve"
  BY DEF EvaluatePolicy, ToOutcome
<1>3. i \in DOMAIN p.rules /\ EvaluateCondition(c, s)
  BY <1>1, <1>2, DecidingRuleHolds
<1>4. c \in Condition
  BY <1>3, RuleConditions
<1>5. Gated(p, c)
  BY <1>2, <1>3 DEF ValidatePolicy, ValidateEveryApprovalNeedsSignedApproval
<1>6. ASSUME NEW leaf \in Condition, IsApprovalLeaf(p, leaf), EvaluateCondition(leaf, s)
      PROVE  leaf.fact \in DOMAIN p.approval /\ Signal(s, leaf.fact) = Bool(TRUE)
  <2>1. leaf.k = "fact" /\ leaf.op = "is_true" /\ leaf.fact \in DOMAIN p.approval
    BY <1>6 DEF IsApprovalLeaf, IsLeaf
  <2>2. EvaluateOperator(Signal(s, leaf.fact), "is_true", leaf.value)
    BY <1>6, <2>1, EvaluationIsRecursive
  <2>. QED
    BY <2>1, <2>2 DEF EvaluateOperator
<1>7. CASE IsApprovalLeaf(p, c)
  BY <1>3, <1>4, <1>6, <1>7
<1>8. CASE c.k = "all" /\ \E j \in DOMAIN c.of : IsApprovalLeaf(p, c.of[j])
  <2>1. PICK j \in DOMAIN c.of : IsApprovalLeaf(p, c.of[j])
    BY <1>8
  <2>2. c.of[j] \in Condition
    BY <1>4, <1>8, ConditionAssumption DEF Parts
  <2>3. EvaluateCondition(c.of[j], s)
    BY <1>3, <1>4, <1>8, EvaluationIsRecursive
  <2>. QED
    BY <1>6, <2>1, <2>2, <2>3
<1>. QED
  BY <1>5, <1>7, <1>8 DEF Gated

(* The rules decide by the facts collectReferencedFacts finds in them, and *)
(* by no other signal.                                                     *)
THEOREM OnlyReadFactsDecide ==
    ASSUME NEW p \in Content, NEW s, NEW t,
           \A f \in CollectReferencedFacts(p) : Signal(s, f) = Signal(t, f)
    PROVE  EvaluatePolicy(p, s) = EvaluatePolicy(p, t)
<1>1. ASSUME NEW i \in 1..Len(p.rules)
      PROVE  EvaluateCondition(p.rules[i].condition, s) = EvaluateCondition(p.rules[i].condition, t)
  <2>1. i \in DOMAIN p.rules /\ p.rules[i].condition \in Condition
    BY RuleConditions
  <2>2. ReferencedFacts[p.rules[i].condition] \subseteq CollectReferencedFacts(p)
    BY <2>1 DEF CollectReferencedFacts
  <2>. QED
    BY <2>1, <2>2, OnlyReferencedFactsCount
<1>2. FindFirstMatch(p.rules, s) = FindFirstMatch(p.rules, t)
  BY <1>1, SameMatch
<1>. QED
  BY <1>2 DEF EvaluatePolicy

(* Giving the approvals changes no signal that is bound to the intent.     *)
LEMMA ApprovalsAreNotBound ==
    ASSUME NEW p, ValidatePolicy(p), NEW s, NEW intent
    PROVE  FindBindingViolations(p, WithApprovals(p, s), intent) = FindBindingViolations(p, s, intent)
<1>1. \A f \in DOMAIN p.bound : f \notin DOMAIN p.approval
  BY DEF ValidatePolicy, ValidateApprovalSignals
<1>2. \A f \in DOMAIN p.bound : Signal(WithApprovals(p, s), f) = Signal(s, f)
  BY <1>1 DEF Signal, WithApprovals
<1>. QED
  BY <1>2 DEF FindBindingViolations

LEMMA PointOperators ==
    ASSUME NEW v, NEW w
    PROVE  /\ EvaluateOperator(v, "eq", w) = StrictEq(v, w)
           /\ EvaluateOperator(v, "neq", w) = ~StrictEq(v, w)
BY DEF EvaluateOperator

LEMMA RangeOperators ==
    ASSUME NEW v, NEW w, NEW op \in RANGE_OPS, EvaluateOperator(v, op, w)
    PROVE  IsNumber(v) /\ IsNumber(w) /\ Compare(v.n, op, w.n)
BY DEF EvaluateOperator, RANGE_OPS

LEMMA OverlapIsRight ==
    ASSUME NEW a, NEW b, NEW v, Overlap(a, b) = "NO_OVERLAP",
           IsNumber(v) => v.n \in Int, IsNumber(a.value) => a.value.n \in Int,
           IsNumber(b.value) => b.value.n \in Int
    PROVE  ~(EvaluateOperator(v, a.op, a.value) /\ EvaluateOperator(v, b.op, b.value))
<1>1. SUFFICES ASSUME EvaluateOperator(v, a.op, a.value), EvaluateOperator(v, b.op, b.value)
               PROVE  FALSE
  OBVIOUS
<1>2. CASE a.op = "eq" /\ b.op = "eq"
  <2>1. ~StrictEq(a.value, b.value)
    <3>1. {a.op, b.op} = {"eq"}
      BY <1>2
    <3>2. Overlap(a, b) = Verdict(StrictEq(a.value, b.value))
      BY <1>2, <3>1 DEF Overlap, POINT_OPS, RANGE_OPS
    <3>. QED
      BY <3>2 DEF Verdict
  <2>2. StrictEq(v, a.value) /\ StrictEq(v, b.value)
    BY <1>1, <1>2, PointOperators
  <2>. QED
    BY <2>1, <2>2 DEF StrictEq
<1>3. CASE {a.op, b.op} = POINT_OPS
  <2>1. StrictEq(a.value, b.value)
    <3>1. {a.op, b.op} # {"eq"} /\ {a.op, b.op} # {"neq"} /\ ~({a.op, b.op} \subseteq RANGE_OPS)
      BY <1>3 DEF POINT_OPS, RANGE_OPS
    <3>2. Overlap(a, b) = Verdict(~StrictEq(a.value, b.value))
      BY <1>3, <3>1 DEF Overlap, POINT_OPS, RANGE_OPS
    <3>. QED
      BY <3>2 DEF Verdict
  <2>2. \/ StrictEq(v, a.value) /\ ~StrictEq(v, b.value)
        \/ ~StrictEq(v, a.value) /\ StrictEq(v, b.value)
    BY <1>1, <1>3, PointOperators DEF POINT_OPS
  <2>. QED
    BY <2>1, <2>2 DEF StrictEq
<1>4. CASE a.op \in RANGE_OPS /\ b.op \in RANGE_OPS
  <2>1. /\ IsNumber(v) /\ IsNumber(a.value) /\ IsNumber(b.value)
        /\ Compare(v.n, a.op, a.value.n) /\ Compare(v.n, b.op, b.value.n)
    BY <1>1, <1>4, RangeOperators
  <2>2. ~RaysOverlap(ToRay(a), ToRay(b))
    BY <1>4, <2>1 DEF Overlap, Verdict, RANGE_OPS, POINT_OPS
  <2>3. CASE a.op \in {"lt", "lte"} /\ b.op \in {"gt", "gte"}
    <3>1. a.value.n \in Int /\ b.value.n \in Int /\ v.n \in Int
      BY <2>1
    <3>2. ToRay(a).direction = "upper" /\ ToRay(b).direction = "lower"
      BY <2>3 DEF ToRay
    <3>3. /\ ToRay(a).bound = a.value.n /\ ToRay(b).bound = b.value.n
          /\ ToRay(a).inclusive = (a.op \in {"lte", "gte"})
          /\ ToRay(b).inclusive = (b.op \in {"lte", "gte"})
      BY DEF ToRay
    <3>4. ~(a.value.n > b.value.n) /\ ~(a.value.n = b.value.n /\ a.op = "lte" /\ b.op = "gte")
      BY <2>2, <3>2, <3>3 DEF RaysOverlap
    <3>5. /\ a.op = "lt" => v.n < a.value.n
          /\ a.op = "lte" => v.n <= a.value.n
      BY <2>1 DEF Compare
    <3>6. /\ b.op = "gt" => v.n > b.value.n
          /\ b.op = "gte" => v.n >= b.value.n
      BY <2>1 DEF Compare
    <3>. QED
      BY <2>3, <3>1, <3>4, <3>5, <3>6
  <2>4. CASE a.op \in {"gt", "gte"} /\ b.op \in {"lt", "lte"}
    <3>1. b.value.n \in Int /\ a.value.n \in Int /\ v.n \in Int
      BY <2>1
    <3>2. ToRay(b).direction = "upper" /\ ToRay(a).direction = "lower"
      BY <2>4 DEF ToRay
    <3>3. /\ ToRay(b).bound = b.value.n /\ ToRay(a).bound = a.value.n
          /\ ToRay(b).inclusive = (b.op \in {"lte", "gte"})
          /\ ToRay(a).inclusive = (a.op \in {"lte", "gte"})
      BY DEF ToRay
    <3>4. ~(b.value.n > a.value.n) /\ ~(b.value.n = a.value.n /\ b.op = "lte" /\ a.op = "gte")
      BY <2>2, <3>2, <3>3 DEF RaysOverlap
    <3>5. /\ b.op = "lt" => v.n < b.value.n
          /\ b.op = "lte" => v.n <= b.value.n
      BY <2>1 DEF Compare
    <3>6. /\ a.op = "gt" => v.n > a.value.n
          /\ a.op = "gte" => v.n >= a.value.n
      BY <2>1 DEF Compare
    <3>. QED
      BY <2>4, <3>1, <3>4, <3>5, <3>6
  <2>5. CASE {a.op, b.op} \subseteq {"gt", "gte"} \/ {a.op, b.op} \subseteq {"lt", "lte"}
    BY <2>2, <2>5 DEF RaysOverlap, ToRay
  <2>. QED
    BY <1>4, <2>3, <2>4, <2>5 DEF RANGE_OPS
<1>5. CASE a.op = "eq" /\ b.op \in RANGE_OPS
  <2>1. StrictEq(v, a.value) /\ IsNumber(b.value) /\ Compare(v.n, b.op, b.value.n) /\ IsNumber(v)
    BY <1>1, <1>5, PointOperators, RangeOperators
  <2>2. v = a.value
    BY <2>1 DEF StrictEq
  <2>3. ~Compare(a.value.n, b.op, b.value.n)
    BY <1>5, <2>1, <2>2 DEF Overlap, Verdict, RANGE_OPS, POINT_OPS
  <2>. QED
    BY <2>1, <2>2, <2>3
<1>6. CASE b.op = "eq" /\ a.op \in RANGE_OPS
  <2>1. StrictEq(v, b.value) /\ IsNumber(a.value) /\ Compare(v.n, a.op, a.value.n) /\ IsNumber(v)
    BY <1>1, <1>6, PointOperators, RangeOperators
  <2>2. v = b.value
    BY <2>1 DEF StrictEq
  <2>3. ~Compare(b.value.n, a.op, a.value.n)
    BY <1>6, <2>1, <2>2 DEF Overlap, Verdict, RANGE_OPS, POINT_OPS
  <2>. QED
    BY <2>1, <2>2, <2>3
<1>7. \/ a.op = "eq" /\ b.op = "eq"
      \/ {a.op, b.op} = POINT_OPS
      \/ a.op \in RANGE_OPS /\ b.op \in RANGE_OPS
      \/ a.op = "eq" /\ b.op \in RANGE_OPS
      \/ b.op = "eq" /\ a.op \in RANGE_OPS
  BY DEF Overlap, RANGE_OPS, POINT_OPS
<1>. QED
  BY <1>2, <1>3, <1>4, <1>5, <1>6, <1>7

(* What the report says about two leaves is right when it says that they   *)
(* do not overlap.                                                         *)
LEMMA LeavesAreDisjoint ==
    ASSUME NEW a \in Condition, NEW b \in Condition, IsLeaf(a), IsLeaf(b), a.fact = b.fact,
           OperatorOverlap(a, b) = "NO_OVERLAP", NEW s \in SignalSets
    PROVE  ~(EvaluateCondition(a, s) /\ EvaluateCondition(b, s))
<1>. DEFINE v == Signal(s, a.fact)
            x == NormalizeBooleanOperator(a)
            y == NormalizeBooleanOperator(b)
<1>1. SUFFICES ASSUME EvaluateCondition(a, s), EvaluateCondition(b, s) PROVE FALSE
  OBVIOUS
<1>2. v # Undef /\ EvaluateOperator(v, a.op, a.value) /\ EvaluateOperator(v, b.op, b.value)
  BY <1>1, EvaluationIsRecursive DEF IsLeaf
<1>3. IsNumber(v) => v.n \in Int
  BY <1>2, SignalAssumption DEF Signal
<1>4. /\ IsNumber(x.value) => x.value.n \in Int
      /\ IsNumber(y.value) => y.value.n \in Int
  BY ConditionAssumption DEF NormalizeBooleanOperator, IsLeaf, Bool, IsNumber
<1>5. ASSUME NEW c \in {a, b}, EvaluateOperator(v, c.op, c.value)
      PROVE  EvaluateOperator(v, NormalizeBooleanOperator(c).op, NormalizeBooleanOperator(c).value)
  <2>1. CASE c.op = "is_true"
    <3>1. v = Bool(TRUE)
      BY <1>5, <2>1 DEF EvaluateOperator
    <3>2. StrictEq(v, Bool(TRUE))
      BY <3>1 DEF StrictEq, Bool
    <3>. QED
      BY <2>1, <3>2, PointOperators DEF NormalizeBooleanOperator
  <2>2. CASE c.op = "is_false"
    <3>1. v = Bool(FALSE)
      BY <1>5, <2>2 DEF EvaluateOperator
    <3>2. StrictEq(v, Bool(FALSE))
      BY <3>1 DEF StrictEq, Bool
    <3>. QED
      BY <2>2, <3>2, PointOperators DEF NormalizeBooleanOperator
  <2>3. CASE c.op \notin {"is_true", "is_false"}
    <3>1. NormalizeBooleanOperator(c).op = c.op /\ NormalizeBooleanOperator(c).value = c.value
      BY <2>3 DEF NormalizeBooleanOperator
    <3>. QED
      BY <1>5, <3>1
  <2>. QED
    BY <2>1, <2>2, <2>3
<1>6. EvaluateOperator(v, x.op, x.value) /\ EvaluateOperator(v, y.op, y.value)
  BY <1>2, <1>5
<1>7. PICK n, m : n = x /\ m = y
  OBVIOUS
<1>. HIDE DEF x, y
<1>8. Overlap(n, m) = "NO_OVERLAP"
  BY <1>7 DEF OperatorOverlap, x, y
<1>. QED
  BY <1>3, <1>4, <1>6, <1>7, <1>8, OverlapIsRight

(* ... about a leaf and a conjunction ...                                  *)
LEMMA LeafAndAllAreDisjoint ==
    ASSUME NEW leaf \in Condition, NEW c \in Condition, IsLeaf(leaf), c.k = "all",
           LeafVersusAllOverlap(leaf, c.of) = "NO_OVERLAP", NEW s \in SignalSets
    PROVE  ~(EvaluateCondition(leaf, s) /\ EvaluateCondition(c, s))
<1>1. PICK i \in DOMAIN c.of :
        /\ IsLeaf(c.of[i]) /\ c.of[i].fact = leaf.fact
        /\ OperatorOverlap(c.of[i], leaf) = "NO_OVERLAP"
  BY DEF LeafVersusAllOverlap
<1>2. c.of[i] \in Condition
  BY ConditionAssumption DEF Parts
<1>3. ~(EvaluateCondition(c.of[i], s) /\ EvaluateCondition(leaf, s))
  BY <1>1, <1>2, LeavesAreDisjoint
<1>4. EvaluateCondition(c, s) = \A j \in DOMAIN c.of : EvaluateCondition(c.of[j], s)
  BY EvaluationIsRecursive
<1>. QED
  BY <1>3, <1>4

(* ... and about any two conditions: where conditionsOverlap answers that  *)
(* they do not overlap, no signals satisfy both, except that two leaves on *)
(* different facts are answered so as well.                                *)
THEOREM NoOverlapIsDisjoint ==
    ASSUME NEW a \in Condition, NEW b \in Condition, ConditionsOverlap(a, b) = "NO_OVERLAP",
           ~(IsLeaf(a) /\ IsLeaf(b) /\ a.fact # b.fact), NEW s \in SignalSets
    PROVE  ~(EvaluateCondition(a, s) /\ EvaluateCondition(b, s))
<1>1. CASE IsLeaf(a) /\ IsLeaf(b)
  <2>1. OperatorOverlap(a, b) = "NO_OVERLAP"
    BY <1>1 DEF ConditionsOverlap, IsLeaf
  <2>. QED
    BY <1>1, <2>1, LeavesAreDisjoint
<1>2. CASE IsLeaf(a) /\ b.k = "all"
  <2>1. LeafVersusAllOverlap(a, b.of) = "NO_OVERLAP"
    BY <1>2 DEF ConditionsOverlap, IsLeaf
  <2>. QED
    BY <1>2, <2>1, LeafAndAllAreDisjoint
<1>3. CASE IsLeaf(b) /\ a.k = "all"
  <2>1. LeafVersusAllOverlap(b, a.of) = "NO_OVERLAP"
    BY <1>3 DEF ConditionsOverlap, IsLeaf
  <2>. QED
    BY <1>3, <2>1, LeafAndAllAreDisjoint
<1>4. CASE a.k = "all" /\ b.k = "all"
  <2>1. PICK i \in DOMAIN a.of : IsLeaf(a.of[i]) /\ LeafVersusAllOverlap(a.of[i], b.of) = "NO_OVERLAP"
    BY <1>4 DEF ConditionsOverlap, IsLeaf
  <2>2. a.of[i] \in Condition
    BY <1>4, ConditionAssumption DEF Parts
  <2>3. ~(EvaluateCondition(a.of[i], s) /\ EvaluateCondition(b, s))
    BY <1>4, <2>1, <2>2, LeafAndAllAreDisjoint
  <2>4. EvaluateCondition(a, s) = \A j \in DOMAIN a.of : EvaluateCondition(a.of[j], s)
    BY <1>4, EvaluationIsRecursive
  <2>. QED
    BY <2>3, <2>4
<1>5. \/ IsLeaf(a) /\ IsLeaf(b)
      \/ IsLeaf(a) /\ b.k = "all"
      \/ IsLeaf(b) /\ a.k = "all"
      \/ a.k = "all" /\ b.k = "all"
  BY DEF ConditionsOverlap
<1>. QED
  BY <1>1, <1>2, <1>3, <1>4, <1>5

(* A pair of rules with conditions of their own that is not reported is    *)
(* one the report found not to overlap.                                    *)
LEMMA UnreportedMeansNoOverlap ==
    ASSUME NEW p, NEW i \in DOMAIN p.rules, NEW j \in DOMAIN p.rules, i < j,
           p.rules[i].condition.k # "always", p.rules[j].condition.k # "always",
           \A w \in FindRuleConflicts(p) : <<w[2], w[3]>> # <<i, j>>
    PROVE  ConditionsOverlap(p.rules[i].condition, p.rules[j].condition) = "NO_OVERLAP"
<1>. DEFINE o == ConditionsOverlap(p.rules[i].condition, p.rules[j].condition)
<1>. DEFINE pairs == {x \in (DOMAIN p.rules) \X (DOMAIN p.rules) :
                       /\ x[1] < x[2] /\ ~(p.rules[x[1]].condition.k = "always")
                       /\ ~(p.rules[x[2]].condition.k = "always")}
            overlap(x) == ConditionsOverlap(p.rules[x[1]].condition, p.rules[x[2]].condition)
            warned == {q \in pairs : overlap(q) = "DEFINITE_OVERLAP"}
            noted == {q \in pairs : overlap(q) = "NEEDS_REVIEW"}
<1>1. /\ <<i, j>> \in pairs /\ overlap(<<i, j>>) = o
      /\ {<<"WARNING", x[1], x[2]>> : x \in warned} \subseteq FindRuleConflicts(p)
      /\ {<<"INFO", x[1], x[2]>> : x \in noted} \subseteq FindRuleConflicts(p)
  BY DEF FindRuleConflicts
<1>2. o = "DEFINITE_OVERLAP" => <<"WARNING", i, j>> \in FindRuleConflicts(p)
  <2>1. o = "DEFINITE_OVERLAP" => <<i, j>> \in warned
    BY <1>1
  <2>. HIDE DEF warned, noted, o
  <2>2. <<i, j>> \in warned => <<"WARNING", i, j>> \in {<<"WARNING", x[1], x[2]>> : x \in warned}
    OBVIOUS
  <2>. QED
    BY <1>1, <2>1, <2>2
<1>3. o = "NEEDS_REVIEW" => <<"INFO", i, j>> \in FindRuleConflicts(p)
  <2>1. o = "NEEDS_REVIEW" => <<i, j>> \in noted
    BY <1>1
  <2>. HIDE DEF warned, noted, o
  <2>2. <<i, j>> \in noted => <<"INFO", i, j>> \in {<<"INFO", x[1], x[2]>> : x \in noted}
    OBVIOUS
  <2>. QED
    BY <1>1, <2>1, <2>2
<1>4. o \in {"NO_OVERLAP", "DEFINITE_OVERLAP", "NEEDS_REVIEW"}
  BY DEF ConditionsOverlap, LeafVersusAllOverlap, OperatorOverlap, Overlap, Verdict
<1>. QED
  BY <1>2, <1>3, <1>4

---------------------------------------------------------------------------
(* The theorems.                                                           *)

(* No agent action is authorized without a signed human approval, whatever *)
(* policies there are.  A valid policy approves only by a rule that needs  *)
(* an approval signal, and the verifier found the approval of each that is *)
(* set.                                                                    *)
THEOREM AuthorizedOnApprovalHolds == Spec => []AuthorizedOnApproval
<1>1. DecisionInv => AuthorizedOnApproval
  <2>. SUFFICES ASSUME DecisionInv, answer = "authorized"
                PROVE  \E f \in DOMAIN policy.approval : req.signals[f] = Bool(TRUE) /\ f \in req.genuine
    BY DEF AuthorizedOnApproval
  <2>1. policy \in Content /\ ValidatePolicy(policy)
    BY DEF DecisionInv, LoadedInv, TypeInv
  <2>2. EvaluatePolicy(policy, req.signals).outcome = "APPROVE" /\ StateViolations = {}
    BY DEF DecisionInv, FoundInv, At
  <2>3. PICK f \in DOMAIN policy.approval : Signal(req.signals, f) = Bool(TRUE)
    BY <2>1, <2>2, ApprovalIsSet
  <2>4. f \in req.genuine
    BY <2>2, <2>3 DEF StateViolations
  <2>5. req.signals[f] = Bool(TRUE)
    BY <2>3 DEF Signal, Undef, Bool
  <2>. QED
    BY <2>4, <2>5
<1>. QED
  BY <1>1, DecisionAlways, PTL

(* An authorization rests on approved content and on documents in effect,  *)
(* however many changes are approved while the request is on its way.      *)
THEOREM AuthorizedUnderGovernanceHolds == Spec => []AuthorizedUnderGovernance
<1>1. DecisionInv => AuthorizedUnderGovernance
  BY DEF DecisionInv, SinceInv, At, AuthorizedUnderGovernance
<1>. QED
  BY <1>1, DecisionAlways, PTL

(* findRuleConflicts leaves out no pair of rules on a common fact that     *)
(* both hold for some signals, for rules of any shape and depth.           *)
THEOREM UnreportedRulesAreDisjointHolds == Spec => []UnreportedRulesAreDisjoint
<1>1. DecisionInv => UnreportedRulesAreDisjoint
  <2>. SUFFICES ASSUME DecisionInv, pc = "evaluate", NEW i \in DOMAIN policy.rules, NEW j \in DOMAIN policy.rules,
                       i < j, \A w \in FindRuleConflicts(policy) : <<w[2], w[3]>> # <<i, j>>,
                       policy.rules[i].condition.k # "always", policy.rules[j].condition.k # "always",
                       ~(/\ IsLeaf(policy.rules[i].condition) /\ IsLeaf(policy.rules[j].condition)
                         /\ policy.rules[i].condition.fact # policy.rules[j].condition.fact)
                PROVE  ~(/\ EvaluateCondition(policy.rules[i].condition, req.signals)
                         /\ EvaluateCondition(policy.rules[j].condition, req.signals))
    BY DEF UnreportedRulesAreDisjoint
  <2>1. policy \in Content /\ req.signals \in SignalSets
    BY DEF DecisionInv, LoadedInv, TypeInv
  <2>2. policy.rules[i].condition \in Condition /\ policy.rules[j].condition \in Condition
    BY <2>1, RuleConditions
  <2>3. ConditionsOverlap(policy.rules[i].condition, policy.rules[j].condition) = "NO_OVERLAP"
    BY UnreportedMeansNoOverlap
  <2>. QED
    BY <2>1, <2>2, <2>3, NoOverlapIsDisjoint
<1>. QED
  BY <1>1, DecisionAlways, PTL

(* Whoever is asked for an approval can cure the refusal: approval signals *)
(* are never bound to the intent.                                          *)
THEOREM NotifiedIsCurableHolds == Spec => []NotifiedIsCurable
<1>1. DecisionInv => NotifiedIsCurable
  <2>. SUFFICES ASSUME DecisionInv, notified # {} PROVE NotifiedIsCurable
    BY DEF NotifiedIsCurable
  <2>1. ValidatePolicy(policy)
    BY DEF DecisionInv, LoadedInv
  <2>2. FindBindingViolations(policy, WithApprovals(policy, req.signals), req.intent) = {}
    BY <2>1, ApprovalsAreNotBound DEF DecisionInv, FoundInv
  <2>. QED
    BY <2>2 DEF DecisionInv, FoundInv, NotifiedIsCurable
<1>. QED
  BY <1>1, DecisionAlways, PTL

(* A caller that names the document it was told is refused neither by the  *)
(* governance check nor for its capability, and signals the answer does    *)
(* not name never change what the rules decide.                            *)
THEOREM ToldIsAcceptedHolds == Spec => []ToldIsAccepted
<1>1. DecisionInv => ToldIsAccepted
  <2>. SUFFICES ASSUME DecisionInv PROVE ToldIsAccepted
    OBVIOUS
  <2>. DEFINE named == DOMAIN req.signals \cap SignalRequirements(policy).facts
              sent == [f \in named |-> req.signals[f]]
  <2>1. decision.cause \in {"governance", "capability"} /\ faults = 0 => told # req.declared
    BY DEF DecisionInv, ToldInv
  <2>2. ASSUME pc = "evaluate"
        PROVE  EvaluatePolicy(policy, sent) = EvaluatePolicy(policy, req.signals)
    <3>1. policy \in Content
      BY <2>2 DEF DecisionInv, LoadedInv, TypeInv
    <3>2. \A f \in CollectReferencedFacts(policy) : Signal(sent, f) = Signal(req.signals, f)
      BY DEF Signal, SignalRequirements
    <3>. QED
      BY <3>1, <3>2, OnlyReadFactsDecide
  <2>. QED
    BY <2>1, <2>2 DEF ToldIsAccepted
<1>. QED
  BY <1>1, DecisionAlways, PTL
---------------------------------------------------------------------------
(* Evidence: "valid" is only said of content that was signed, and genuine  *)
(* evidence is answered "valid" by every verifier that holds its keys.     *)

(* A signature value over this message, in a form its verifiers accept. *)
Fits(value, m) ==
    /\ value.msg = m
    /\ \/ value.form = "raw"
       \/ value.form = "commitment" /\ RequiresCommitment(m)

(* Evidence as it is produced. *)
Made(r) ==
    /\ r \in Row
    /\ r.kind # "event" => r.hash = CanonicalRecord(r)
    /\ r.sig.algorithm = "ed25519" /\ r.sig.key \in KmsKeys
    /\ Fits(r.sig.value, CanonicalRecord(r))
    /\ r.body.chain # None => Fits(r.body.chain.value, CanonicalChainEntry(r.body))
    /\ \/ r.entries = <<>>
       \/ /\ r.kind = "record" /\ r.ver = 2
          /\ \E k \in KmsKeys : r.entries = <<Entry(k, HybridCanonicalRecord(r, 2)),
                                              Entry("secondary", HybridCanonicalRecord(r, 2))>>

(* Whatever became of a row, the signatures it carries were made for       *)
(* evidence that was produced, perhaps for other evidence than this.       *)
Derived(r) ==
    /\ r \in Row
    /\ \E i \in issued : r.sig.value.msg = CanonicalRecord(i)
    /\ \A n \in DOMAIN r.entries :
          \E i \in issued : Len(i.entries) = 2 /\ r.entries[n].value.msg = HybridCanonicalRecord(i, 2)
    /\ r.kind # "record" => r.entries = <<>>

RowInv ==
    /\ \A r \in issued : Made(r)
    /\ \A s \in Slot : row[s] # None => Derived(row[s])

EvidenceInv == TypeOK /\ RowInv

-----------------------------------------------------------------------------
LEMMA KeysAre ==
    /\ KmsKeys \subseteq KeyId /\ "secondary" \in KeyId /\ "default" \in KmsKeys
    /\ \A k \in KeyId : AlgorithmOf(k) \in Algorithms /\ File(k) \in Material
    /\ \A k \in KmsKeys : AlgorithmOf(k) = "ed25519" /\ Kms(k) \in Material
    /\ AlgorithmOf("secondary") = "dilithium3"
BY DEF KmsKeys, KeyId, AlgorithmOf, Algorithms, Material

(* The message signed is the one to be verified, in an accepted form. *)
LEMMA SignFits ==
    ASSUME TypeOK, NEW m, NEW k \in KmsKeys
    PROVE  /\ Fits(SignWith(k, m), m)
           /\ \A V : m \in V => SignWith(k, m) \in ValueOf(V)
<1>1. \/ SignWith(k, m) = [key |-> Kms(k), msg |-> m, form |-> "raw"]
      \/ /\ SignWith(k, m) = [key |-> Kms(k), msg |-> m, form |-> "commitment"]
         /\ RequiresCommitment(m)
      \/ SignWith(k, m) = [key |-> File(k), msg |-> m, form |-> "raw"]
  <2> HIDE DEF RequiresCommitment, Kms, File
  <2> QED BY DEF SignWith, KmsSign, FileSign
<1>2. Kms(k) \in Material /\ File(k) \in Material
  BY KeysAre
<1> QED BY <1>1, <1>2 DEF Fits, ValueOf

LEMMA EntryType ==
    ASSUME NEW m \in View, NEW k \in KeyId
    PROVE  Entry(k, m) \in Signature
BY KeysAre DEF Entry, FileSign, Signature, ValueOf

LEMMA ViewType ==
    ASSUME NEW r, r.kind \in Kind, r.body \in Body
    PROVE  CanonicalRecord(r) \in View /\ HybridCanonicalRecord(r, 2) \in View
BY DEF CanonicalRecord, HybridCanonicalRecord, View

(* What Produce stores: the body with its chain signature, signed. *)
LEMMA DraftIs ==
    ASSUME TypeOK, NEW kind \in Kind, NEW doc \in Payload
    PROVE  \E b \in Body : /\ Draft(kind, doc) = [kind |-> kind, body |-> b, hash |-> None, sig |-> None,
                                                  entries |-> <<>>, ver |-> None]
                           /\ b.chain # None => Fits(b.chain.value, CanonicalChainEntry(b))
<1> DEFINE bare == [doc |-> doc, chain |-> None]
           v == SignWith("default", CanonicalChainEntry(bare))
           chained == [bare EXCEPT !.chain = Chain(bare)]
<1>1. CanonicalChainEntry(bare) = [of |-> "chain", body |-> bare, ver |-> None]
  BY DEF CanonicalChainEntry
<1>2. CanonicalChainEntry(bare) \in ChainView
  BY <1>1 DEF ChainView
<1>3. v \in ValueOf(ChainView) /\ Fits(v, CanonicalChainEntry(bare))
  BY <1>2, SignFits, KeysAre
<1>4. chained = [doc |-> doc, chain |-> [key |-> "default", value |-> v]]
  BY DEF Chain
<1>5. chained \in Body /\ bare \in Body
  BY <1>3, <1>4 DEF Body
<1>6. CanonicalChainEntry(chained) = CanonicalChainEntry(bare)
  BY <1>4 DEF CanonicalChainEntry
<1>7. chained.chain.value = v
  BY <1>4
<1>8. PICK b : b = IF kind = "record" THEN chained ELSE bare
  OBVIOUS
<1>9. Draft(kind, doc) = [kind |-> kind, body |-> b, hash |-> None, sig |-> None,
                          entries |-> <<>>, ver |-> None]
  BY <1>8 DEF Draft
<1>10. b \in Body
  BY <1>5, <1>8
<1>11. b.chain # None => Fits(b.chain.value, CanonicalChainEntry(b))
  <2>1. CASE b = chained
    BY <1>3, <1>6, <1>7, <2>1
  <2>2. CASE b = bare
    BY <2>2
  <2> QED BY <1>8, <2>1, <2>2
<1> QED BY <1>9, <1>10, <1>11

LEMMA SignedMade ==
    ASSUME TypeOK, NEW kind \in Kind, NEW doc \in Payload
    PROVE  /\ Made(Signed(Draft(kind, doc)))
           /\ kind = "record" => Made(SignHybrid(Signed(Draft(kind, doc))))
<1>1. PICK b \in Body : /\ Draft(kind, doc) = [kind |-> kind, body |-> b, hash |-> None, sig |-> None,
                                               entries |-> <<>>, ver |-> None]
                        /\ b.chain # None => Fits(b.chain.value, CanonicalChainEntry(b))
  BY DraftIs
<1>2. PICK m : m = [of |-> kind, body |-> b, ver |-> None]
  OBVIOUS
<1>3. m \in View /\ CanonicalRecord(Draft(kind, doc)) = m
  BY <1>1, <1>2 DEF View, CanonicalRecord
<1>4. PICK k \in KmsKeys : k = config.keyId
  BY DEF TypeOK, Config
<1>5. PICK v \in ValueOf(View) : v = SignWith(k, m) /\ Fits(v, m)
  BY <1>3, SignFits
<1>6. PICK h \in View \cup {None} : h = IF kind = "event" THEN None ELSE m
  BY <1>3
<1>7. PICK sig \in Signature : sig = [algorithm |-> "ed25519", key |-> k, value |-> v]
  BY KeysAre DEF Signature, Algorithms
<1>8. PICK r : r = [kind |-> kind, body |-> b, hash |-> h, sig |-> sig, entries |-> <<>>, ver |-> None]
  OBVIOUS
<1>9. Signed(Draft(kind, doc)) = r
  <2>1. PICK d : d = Draft(kind, doc) /\ d.kind = kind /\ CanonicalRecord(d) = m
    BY <1>1, <1>3
  <2>2. Signed(d) = [d EXCEPT !.hash = IF d.kind = "event" THEN None ELSE m,
                              !.sig = [algorithm |-> "ed25519", key |-> k, value |-> v]]
    BY <1>4, <1>5, <2>1 DEF Signed
  <2>3. Signed(d) = [d EXCEPT !.hash = h, !.sig = sig]
    BY <1>6, <1>7, <2>1, <2>2
  <2>4. PICK e : e = [d EXCEPT !.hash = h]
    OBVIOUS
  <2>5. e = [kind |-> kind, body |-> b, hash |-> h, sig |-> None, entries |-> <<>>, ver |-> None]
    BY <1>1, <2>1, <2>4
  <2>6. [e EXCEPT !.sig = sig] = r
    BY <1>8, <2>5
  <2>7. Signed(Draft(kind, doc)) = [e EXCEPT !.sig = sig]
    BY <2>1, <2>3, <2>4
  <2> QED BY <2>6, <2>7
<1>10. r \in Row
  <2>1. <<>> \in Seq(Signature)
    OBVIOUS
  <2> QED BY <1>8, <2>1 DEF Row
<1>11. CanonicalRecord(r) = m
  BY <1>2, <1>8 DEF CanonicalRecord
<1>12. Made(r)
  BY <1>1, <1>5, <1>6, <1>7, <1>8, <1>10, <1>11 DEF Made
<1>13. ASSUME kind = "record" PROVE Made(SignHybrid(r))
  <2>1. PICK g : g = HybridCanonicalRecord(r, 2)
    OBVIOUS
  <2>2. g \in View
    BY <1>8, <2>1, ViewType
  <2>3. PICK es : es = <<Entry(k, g), Entry("secondary", g)>>
    OBVIOUS
  <2>4. es \in Seq(Signature)
    <3>1. Entry(k, g) \in Signature /\ Entry("secondary", g) \in Signature
      BY <2>2, EntryType, KeysAre
    <3> QED BY <2>3, <3>1
  <2>5. PICK q : q = [kind |-> kind, body |-> b, hash |-> h, sig |-> sig, entries |-> es, ver |-> 2]
    OBVIOUS
  <2>6. SignHybrid(r) = q
    <3>1. SignHybrid(r) = [r EXCEPT !.ver = 2, !.entries = es]
      BY <1>4, <2>1, <2>3 DEF SignHybrid
    <3> QED BY <1>8, <2>5, <3>1
  <2>7. q \in Row
    BY <2>4, <2>5 DEF Row
  <2>8. CanonicalRecord(q) = m /\ HybridCanonicalRecord(q, 2) = g
    BY <1>2, <1>8, <2>1, <2>5 DEF CanonicalRecord, HybridCanonicalRecord
  <2> QED BY <1>1, <1>5, <1>6, <1>7, <1>13, <2>3, <2>5, <2>6, <2>7, <2>8 DEF Made
<1> QED BY <1>9, <1>12, <1>13

(* Evidence as produced is a stored row like any other. *)
LEMMA MadeIsDerived ==
    ASSUME NEW r, Made(r), r \in issued'
    PROVE  Derived(r)'
<1>1. r.sig.value.msg = CanonicalRecord(r)
  BY DEF Made, Fits
<1>2. CASE r.entries = <<>>
  BY <1>1, <1>2 DEF Made, Derived
<1>3. ASSUME r.kind = "record", NEW k \in KmsKeys,
             r.entries = <<Entry(k, HybridCanonicalRecord(r, 2)),
                           Entry("secondary", HybridCanonicalRecord(r, 2))>>
      PROVE  Derived(r)'
  <2>1. Len(r.entries) = 2 /\ DOMAIN r.entries = {1, 2}
    BY <1>3
  <2>2. ASSUME NEW n \in DOMAIN r.entries PROVE r.entries[n].value.msg = HybridCanonicalRecord(r, 2)
    <3>1. \/ r.entries[n] = Entry(k, HybridCanonicalRecord(r, 2))
          \/ r.entries[n] = Entry("secondary", HybridCanonicalRecord(r, 2))
      BY <1>3, <2>1
    <3> QED BY <3>1 DEF Entry, FileSign
  <2> QED BY <1>1, <1>3, <2>1, <2>2 DEF Made, Derived
<1> QED BY <1>2, <1>3 DEF Made

(* The evidence produced only grows. *)
LEMMA DerivedKept ==
    ASSUME NEW r, Derived(r), issued \subseteq issued'
    PROVE  Derived(r)'
BY DEF Derived

(* An alteration leaves evidence that is still made of produced parts. *)
LEMMA AlteredDerived ==
    ASSUME EvidenceInv, NEW r, Derived(r), NEW x \in Altered(r)
    PROVE  Derived(x)
<1>1. /\ r \in Row /\ r.kind \in Kind /\ r.body \in Body /\ r.hash \in View \cup {None}
      /\ r.sig \in Signature /\ r.entries \in Seq(Signature) /\ r.ver \in Nat \cup {None}
  BY DEF Derived, Row
<1> DEFINE Other == {[r EXCEPT !.body.doc = d] : d \in Payload}
           Take(o, p) == [r EXCEPT !.sig = row[o].sig, !.entries = row[p].entries, !.ver = row[p].ver]
           Taken == UNION {{Take(o, p) : o \in Stored} : p \in {t \in Stored : row[t].kind = r.kind}}
           Cut == IF r.entries = <<>> THEN {}
                  ELSE {[r EXCEPT !.entries = SubSeq(r.entries, 1, 1)],
                        [r EXCEPT !.entries = <<r.entries[1], r.entries[1]>>]}
<1>2. CASE x \in Other \cup {[r EXCEPT !.body.chain = None]}
  <2>1. PICK b \in Body : x = [r EXCEPT !.body = b]
    BY <1>1, <1>2 DEF Body
  <2>2. x \in Row
    BY <1>1, <2>1 DEF Row
  <2> QED BY <1>1, <2>1, <2>2 DEF Derived, Row
<1>3. CASE x = [r EXCEPT !.hash = CanonicalRecord(r)]
  <2>1. PICK h \in View : x = [r EXCEPT !.hash = h]
    BY <1>1, <1>3, ViewType
  <2>2. x \in Row
    BY <1>1, <2>1 DEF Row
  <2> QED BY <1>1, <2>1, <2>2 DEF Derived, Row
<1>4. CASE x \in Taken
  <2>1. PICK o \in Stored, p \in Stored : row[p].kind = r.kind /\ x = Take(o, p)
    <3> HIDE DEF Take
    <3> QED BY <1>4
  <2>2. PICK a, b : a = row[o] /\ b = row[p] /\ Derived(a) /\ Derived(b)
    BY <2>1 DEF EvidenceInv, RowInv, Stored
  <2>3. x = [r EXCEPT !.sig = a.sig, !.entries = b.entries, !.ver = b.ver] /\ b.kind = r.kind
    BY <2>1, <2>2
  <2>4. x \in Row
    BY <1>1, <2>2, <2>3 DEF Derived, Row
  <2> QED BY <1>1, <2>2, <2>3, <2>4 DEF Derived, Row
<1>5. CASE x = [r EXCEPT !.entries = <<>>, !.ver = None]
  <2>1. x \in Row
    <3>1. <<>> \in Seq(Signature)
      OBVIOUS
    <3> QED BY <1>1, <1>5, <3>1 DEF Row
  <2> QED BY <1>1, <1>5, <2>1 DEF Derived, Row
<1>6. CASE x \in Cut
  <2>0. r.entries # <<>> /\ 1 \in DOMAIN r.entries /\ r.entries[1] \in Signature
    BY <1>1, <1>6
  <2>1. PICK e \in Signature : e = r.entries[1]
    BY <2>0
  <2>2. /\ SubSeq(r.entries, 1, 1) \in Seq(Signature) /\ Len(SubSeq(r.entries, 1, 1)) = 1
        /\ SubSeq(r.entries, 1, 1)[1] = e
    <3>1. Len(r.entries) >= 1
      BY <1>1, <2>0
    <3> QED BY <1>1, <2>1, <3>1, SubSeqProperties
  <2>3. PICK es \in {SubSeq(r.entries, 1, 1), <<e, e>>} : x = [r EXCEPT !.entries = es]
    BY <1>6, <2>1
  <2>4. es \in Seq(Signature) /\ \A n \in DOMAIN es : es[n] = e
    <3>1. CASE es = SubSeq(r.entries, 1, 1)
      <4>1. PICK q \in Seq(Signature) : q = es /\ Len(q) = 1 /\ q[1] = e
        BY <2>2, <3>1
      <4> QED BY <4>1
    <3>2. CASE es = <<e, e>>
      BY <3>2
    <3> QED BY <2>3, <3>1, <3>2
  <2>5. x \in Row
    BY <1>1, <2>3, <2>4 DEF Row
  <2> QED BY <1>1, <2>0, <2>1, <2>3, <2>4, <2>5 DEF Derived, Row
<1>7. CASE x = [r EXCEPT !.sig.algorithm = "dilithium3"]
  <2>0. PICK o \in Signature : o = r.sig
    BY <1>1
  <2>1. PICK g : g = [o EXCEPT !.algorithm = "dilithium3"]
    OBVIOUS
  <2>2. g \in Signature /\ g.value = r.sig.value
    BY <2>0, <2>1 DEF Signature, Algorithms
  <2>3. x = [r EXCEPT !.sig = g]
    BY <1>7, <2>0, <2>1
  <2>4. x \in Row
    BY <1>1, <2>2, <2>3 DEF Row
  <2> QED BY <1>1, <2>2, <2>3, <2>4 DEF Derived, Row
<1>8. CASE x = [r EXCEPT !.ver = 1]
  <2>1. x \in Row
    BY <1>1, <1>8 DEF Row
  <2> QED BY <1>1, <1>8, <2>1 DEF Derived, Row
<1> QED
  <2>1. x \in Other \cup {[r EXCEPT !.body.chain = None]} \cup {[r EXCEPT !.hash = CanonicalRecord(r)]}
               \cup Taken \cup {[r EXCEPT !.entries = <<>>, !.ver = None]} \cup Cut
               \cup {[r EXCEPT !.sig.algorithm = "dilithium3"]} \cup {[r EXCEPT !.ver = 1]}
    BY Zenon DEF Altered
  <2> HIDE DEF Other, Taken, Cut
  <2> QED BY <1>2, <1>3, <1>4, <1>5, <1>6, <1>7, <1>8, <2>1

LEMMA SignerKeyType ==
    ASSUME TypeOK, NEW k \in KeyId
    PROVE  SignerPublicKey(k) \in Material \cup {None}
BY KeysAre DEF SignerPublicKey, TypeOK

LEMMA AnswerType ==
    ASSUME NEW r \in Row, NEW a \in Answers(r)
    PROVE  /\ a \in [by : {"server", "offline", "typescript", "python"}, of : Row,
                     says : {"valid", "invalid", "error"}]
           /\ a.of = r
           /\ a.by = "server" => a.says = VerifyOnline(r)
           /\ a.by = "offline" => r.kind \in OfflineKinds /\ a.says = OfflineAnswer(VerifyOffline(r))
           /\ a.by = "typescript" => r.kind \in OfflineKinds /\ a.says = OfflineAnswer(VerifyTypeScript(r))
           /\ a.by = "python" => r.kind \in OfflineKinds /\ a.says = OfflineAnswer(VerifyPython(r))
<1>1. VerifyOnline(r) \in {"valid", "invalid", "error"}
  <2>1. VerifyRecord(r) \in {"valid", "invalid", "error"}
    BY DEF VerifyRecord
  <2>2. VerifyArtifact(r) \in {"valid", "invalid", "error"}
    BY DEF VerifyArtifact
  <2> QED BY <2>1, <2>2 DEF VerifyOnline
<1>2. \A v : OfflineAnswer(v) \in {"valid", "invalid"}
  BY DEF OfflineAnswer
<1>3. PICK v, o, t, p : /\ v = VerifyOnline(r) /\ o = OfflineAnswer(VerifyOffline(r))
                        /\ t = OfflineAnswer(VerifyTypeScript(r)) /\ p = OfflineAnswer(VerifyPython(r))
  OBVIOUS
<1>4. \/ a = [by |-> "server", of |-> r, says |-> v]
      \/ r.kind \in OfflineKinds /\ a \in {[by |-> "offline", of |-> r, says |-> o],
                                          [by |-> "typescript", of |-> r, says |-> t],
                                          [by |-> "python", of |-> r, says |-> p]}
  BY <1>3 DEF Answers
<1>5. v \in {"valid", "invalid", "error"} /\ {o, t, p} \subseteq {"valid", "invalid"}
  BY <1>1, <1>2, <1>3
<1> QED BY <1>3, <1>4, <1>5

-----------------------------------------------------------------------------
LEMMA InitEvidence == EvidenceInit => EvidenceInv
BY EvidenceAssumption DEF EvidenceInit, EvidenceInv, TypeOK, RowInv, KmsKeys

LEMMA ProduceStep ==
    ASSUME EvidenceInv, NEW s \in Slot, Produce(s)
    PROVE  EvidenceInv'
<1>0. PICK kind \in Kind, doc \in Payload :
        LET done == Signed(Draft(kind, doc))
            r    == IF IsHybrid(kind) THEN SignHybrid(done) ELSE done
        IN  row' = [row EXCEPT ![s] = r] /\ issued' = issued \cup {r}
  BY EvidenceAssumption, ZenonT(60) DEF Produce, Kind
<1>1. PICK r : /\ r \in {SignHybrid(Signed(Draft(kind, doc))), Signed(Draft(kind, doc))}
               /\ r = SignHybrid(Signed(Draft(kind, doc))) => IsHybrid(kind) \/ r = Signed(Draft(kind, doc))
               /\ row' = [row EXCEPT ![s] = r] /\ issued' = issued \cup {r}
  BY <1>0
<1>2. UNCHANGED <<config, priv, pub, collected, reconfigs, alters>> /\ last' = None
  BY DEF Produce
<1>3. Made(r) /\ r \in Row
  <2>1. Made(r)
    BY <1>1, SignedMade DEF EvidenceInv, IsHybrid
  <2> QED BY <2>1 DEF Made
<1>4. TypeOK'
  BY <1>1, <1>2, <1>3 DEF EvidenceInv, TypeOK
<1>5. \A i \in issued' : Made(i)
  BY <1>1, <1>3 DEF EvidenceInv, RowInv
<1>6. Derived(r)'
  <2>1. r \in issued'
    BY <1>1
  <2> QED BY <1>3, <2>1, MadeIsDerived
<1>7. ASSUME NEW t \in Slot, row'[t] # None PROVE Derived(row[t])'
  <2>1. CASE t = s
    <3>1. row'[t] = r
      BY <1>1, <2>1 DEF EvidenceInv, TypeOK
    <3> QED BY <1>6, <3>1 DEF Derived
  <2>2. CASE t # s
    <3>1. PICK x : x = row[t] /\ row'[t] = x
      BY <1>1, <2>2 DEF EvidenceInv, TypeOK
    <3>2. Derived(x)'
      BY <1>1, <1>7, <3>1, DerivedKept DEF EvidenceInv, RowInv
    <3> QED BY <3>1, <3>2 DEF Derived
  <2> QED BY <2>1, <2>2
<1> QED BY <1>4, <1>5, <1>7 DEF EvidenceInv, RowInv

LEMMA AlterStep ==
    ASSUME EvidenceInv, NEW s \in Slot, Alter(s)
    PROVE  EvidenceInv'
<1>1. PICK r, x : /\ r = row[s] /\ r # None /\ x \in Altered(r)
                  /\ row' = [row EXCEPT ![s] = x]
  BY DEF Alter
<1>2. /\ UNCHANGED <<config, priv, pub, collected, reconfigs, issued>> /\ last' = None
      /\ alters < MaxAlters /\ alters' = alters + 1
  BY DEF Alter
<1>3. Derived(x) /\ x \in Row
  <2>1. Derived(x)
    BY <1>1, AlteredDerived DEF EvidenceInv, RowInv
  <2> QED BY <2>1 DEF Derived
<1>4. TypeOK'
  BY <1>1, <1>2, <1>3, EvidenceAssumption DEF EvidenceInv, TypeOK
<1>5. ASSUME NEW t \in Slot, row'[t] # None PROVE Derived(row[t])'
  <2>1. PICK y : y = row'[t] /\ Derived(y)
    BY <1>1, <1>3, <1>5 DEF EvidenceInv, RowInv, TypeOK
  <2>2. Derived(y)'
    BY <1>2, <2>1, DerivedKept
  <2> QED BY <2>1, <2>2 DEF Derived
<1> QED BY <1>2, <1>4, <1>5 DEF EvidenceInv, RowInv

LEMMA RestStep ==
    ASSUME EvidenceInv, UNCHANGED <<row, issued>>, TypeOK'
    PROVE  EvidenceInv'
<1>1. ASSUME NEW t \in Slot, row'[t] # None PROVE Derived(row[t])'
  <2>1. PICK y : y = row'[t] /\ y = row[t] /\ Derived(y)
    BY <1>1 DEF EvidenceInv, RowInv
  <2>2. Derived(y)'
    BY <2>1, DerivedKept
  <2> QED BY <2>1, <2>2 DEF Derived
<1> QED BY <1>1 DEF EvidenceInv, RowInv

LEMMA EvidenceStep == EvidenceInv /\ [EvidenceNext]_evidenceVars => EvidenceInv'
<1> SUFFICES ASSUME EvidenceInv, [EvidenceNext]_evidenceVars PROVE EvidenceInv'
  OBVIOUS
<1>t. TypeOK
  BY DEF EvidenceInv
<1>1. ASSUME NEW s \in Slot, Verify(s) PROVE EvidenceInv'
  <2>1. PICK r \in Row : r = row[s] /\ last' \in Answers(r)
    BY <1>1, <1>t DEF Verify, TypeOK
  <2>2. last' \in [by : {"server", "offline", "typescript", "python"}, of : Row,
                   says : {"valid", "invalid", "error"}]
    BY <2>1, AnswerType
  <2>3. TypeOK'
    BY <1>1, <1>t, <2>2 DEF Verify, TypeOK
  <2> QED BY <1>1, <2>3, RestStep DEF Verify
<1>2. ASSUME NEW s \in Slot, CollectKeys(s) PROVE EvidenceInv'
  <2>1. collected' \in [KeyId -> Material \cup {None}]
    BY <1>2, <1>t, SignerKeyType DEF CollectKeys, TypeOK
  <2>2. TypeOK'
    BY <1>2, <1>t, <2>1 DEF CollectKeys, TypeOK
  <2> QED BY <1>2, <2>2, RestStep DEF CollectKeys
<1>3. ASSUME NEW k \in KeyId, RemoveKey(k) PROVE EvidenceInv'
  <2>1. TypeOK'
    BY <1>3, <1>t, EvidenceAssumption DEF RemoveKey, TypeOK
  <2> QED BY <1>3, <2>1, RestStep DEF RemoveKey
<1>4. ASSUME NEW c \in Config, Redeploy(c) PROVE EvidenceInv'
  <2>1. TypeOK'
    BY <1>4, <1>t, EvidenceAssumption DEF Redeploy, TypeOK
  <2> QED BY <1>4, <2>1, RestStep DEF Redeploy
<1>5. CASE UNCHANGED evidenceVars
  <2>1. TypeOK'
    BY <1>5, <1>t DEF evidenceVars, TypeOK
  <2> QED BY <1>5, <2>1, RestStep DEF evidenceVars
<1> QED BY <1>1, <1>2, <1>3, <1>4, <1>5, ProduceStep, AlterStep DEF EvidenceNext

LEMMA EvidenceAlways == EvidenceSpec => []EvidenceInv
BY InitEvidence, EvidenceStep, PTL DEF EvidenceSpec

(***************************************************************************)
(* Every variable keeps its type.                                          *)
(***************************************************************************)
THEOREM EvidenceTypes == EvidenceSpec => []TypeOK
<1>1. EvidenceInv => TypeOK
  BY DEF EvidenceInv
<1> QED BY <1>1, EvidenceAlways, PTL

-----------------------------------------------------------------------------
(* Every verifier checks the signature against the row's own view, and     *)
(* where the row has entries, one of these too.                            *)
LEMMA VerifiersCheck ==
    ASSUME NEW r \in Row, NEW a \in Answers(r), a.says = "valid"
    PROVE  /\ r.sig.value.msg = CanonicalRecord(r)
           /\ r.entries # <<>> /\ r.kind = "record" =>
                 \E n \in DOMAIN r.entries : \E version :
                    r.entries[n].value.msg = HybridCanonicalRecord(r, version)
           /\ r.entries = <<>> /\ r.kind = "record" /\ a.by = "server" => ~config.require
<1>e. r.entries \in Seq(Signature) /\ (r.entries # <<>> => 1 \in DOMAIN r.entries)
  BY DEF Row
<1>1. CASE a.by = "server" /\ r.kind = "record"
  <2>1. VerifySignature(r) = "valid"
    BY <1>1, AnswerType DEF VerifyOnline, VerifyRecord
  <2>2. ProviderVerifies("ed25519", CanonicalRecord(r), r.sig.value, SignerPublicKey(r.sig.key))
    BY <2>1 DEF VerifySignature
  <2>3. CASE r.entries = <<>>
    BY <2>1, <2>2, <2>3 DEF VerifySignature, ProviderVerifies
  <2>4. CASE r.entries # <<>>
    <3>1. HybridVerify(r) = "valid"
      BY <2>1, <2>4 DEF VerifySignature
    <3>2. /\ Len(r.entries) = 2
          /\ \E n \in DOMAIN r.entries : r.entries[n].algorithm = "ed25519"
          /\ \E version : EntryOf(r, "ed25519").value.msg = HybridCanonicalRecord(r, version)
      BY <3>1 DEF HybridVerify, Algorithms, ProviderVerifies
    <3>3. DOMAIN r.entries = {1, 2}
      BY <1>e, <3>2
    <3>4. \E n \in DOMAIN r.entries : EntryOf(r, "ed25519") = r.entries[n]
      <4>1. \E j \in DOMAIN r.entries : /\ r.entries[j].algorithm = "ed25519"
                                       /\ \A k \in 1 .. j - 1 : r.entries[k].algorithm # "ed25519"
        BY <3>2, <3>3
      <4> QED BY <4>1 DEF EntryOf
    <3> QED BY <2>2, <2>4, <3>2, <3>4 DEF ProviderVerifies
  <2> QED BY <2>3, <2>4
<1>2. CASE a.by = "server" /\ r.kind # "record"
  <2>1. VerifyArtifact(r) = "valid"
    BY <1>2, AnswerType DEF VerifyOnline
  <2> QED BY <1>2, <2>1 DEF VerifyArtifact, ProviderVerifies
<1>3. CASE a.by = "offline"
  <2>1. VerifyOffline(r)
    BY <1>3, AnswerType DEF OfflineAnswer
  <2>2. r.entries # <<>> => \E version : VerifyOneEntry(r.entries[1], HybridCanonicalRecord(r, version))
    BY <1>e, <2>1 DEF VerifyOffline, VerifyHybridEntries
  <2> QED BY <1>e, <1>3, <2>1, <2>2 DEF VerifyOffline, VerifyOneEntry, ProviderVerifies
<1>4. CASE a.by = "typescript"
  <2>1. VerifyTypeScript(r)
    BY <1>4, AnswerType DEF OfflineAnswer
  <2> QED BY <1>4, <2>1 DEF VerifyTypeScript, VerifyEd25519
<1>5. CASE a.by = "python"
  <2>1. VerifyPython(r)
    BY <1>5, AnswerType DEF OfflineAnswer
  <2> QED BY <1>5, <2>1 DEF VerifyPython, VerifyEd25519WithCommitment
<1>6. a.by \in {"server", "offline", "typescript", "python"}
  BY AnswerType
<1> QED BY <1>1, <1>2, <1>3, <1>4, <1>5, <1>6

LEMMA ValidAnswer ==
    ASSUME EvidenceInv, NEW s \in Slot, row[s] # None, NEW a \in Answers(row[s]), a.says = "valid"
    PROVE  \E i \in issued :
             /\ i.kind = a.of.kind /\ i.body = a.of.body
             /\ \/ a.of.entries # <<>>
                \/ a.by = "server" /\ config.require /\ i.kind = "record"
                => Len(i.entries) = 2
<1>1. PICK r \in Row : r = row[s] /\ Derived(r)
  BY DEF EvidenceInv, TypeOK, RowInv
<1>2. a.of = r /\ a \in Answers(r)
  BY <1>1, AnswerType
<1>3. CASE r.entries = <<>>
  <2>1. PICK i \in issued : r.sig.value.msg = CanonicalRecord(i)
    BY <1>1 DEF Derived
  <2>2. CanonicalRecord(r) = CanonicalRecord(i)
    BY <1>2, <2>1, VerifiersCheck
  <2>3. i.kind = r.kind /\ i.body = r.body
    BY <2>2 DEF CanonicalRecord
  <2> QED BY <1>2, <1>3, <2>3, VerifiersCheck
<1>4. CASE r.entries # <<>>
  <2>1. r.kind = "record"
    BY <1>1, <1>4 DEF Derived
  <2>2. PICK n \in DOMAIN r.entries : \E version :
          r.entries[n].value.msg = HybridCanonicalRecord(r, version)
    BY <1>2, <1>4, <2>1, VerifiersCheck
  <2>3. PICK i \in issued : Len(i.entries) = 2 /\ r.entries[n].value.msg = HybridCanonicalRecord(i, 2)
    BY <1>1 DEF Derived
  <2>4. i.kind = r.kind /\ i.body = r.body
    BY <2>2, <2>3 DEF HybridCanonicalRecord
  <2> QED BY <1>2, <2>3, <2>4
<1> QED BY <1>3, <1>4

(***************************************************************************)
(* "valid" is said only of content this deployment signed, and with both   *)
(* algorithms where the row carries hybrid entries or the server requires  *)
(* them, whichever signatures and entries of other evidence a row was      *)
(* given (verifySignature, HybridSignatureProvider.verify, verifyOneEntry, *)
(* the SDKs' verifySigned).                                                *)
(***************************************************************************)
THEOREM ValidWasSigned == EvidenceSpec => []ValidIsSigned
<1>1. EvidenceInit => ValidIsSigned
  BY DEF EvidenceInit, ValidIsSigned
<1>2. EvidenceInv /\ ValidIsSigned /\ [EvidenceNext]_evidenceVars => ValidIsSigned'
  <2> SUFFICES ASSUME EvidenceInv, ValidIsSigned, [EvidenceNext]_evidenceVars PROVE ValidIsSigned'
    OBVIOUS
  <2>1. ASSUME NEW s \in Slot, Verify(s) PROVE ValidIsSigned'
    <3>1. PICK a \in Answers(row[s]) : last' = a
      BY <2>1 DEF Verify
    <3>2. UNCHANGED <<config, issued>> /\ row[s] # None
      BY <2>1 DEF Verify
    <3> QED BY <3>1, <3>2, ValidAnswer DEF ValidIsSigned
  <2>2. CASE UNCHANGED evidenceVars
    BY <2>2 DEF evidenceVars, ValidIsSigned
  <2>3. CASE last' = None
    BY <2>3 DEF ValidIsSigned
  <2> QED BY <2>1, <2>2, <2>3 DEF EvidenceNext, Produce, CollectKeys, Alter, RemoveKey, Redeploy
<1> QED BY <1>1, <1>2, EvidenceAlways, PTL DEF EvidenceSpec

-----------------------------------------------------------------------------
LEMMA FitsVerifies ==
    ASSUME NEW value, NEW m, Fits(value, m)
    PROVE  ProviderVerifies("ed25519", m, value, value.key)
BY DEF Fits, ProviderVerifies

(* The two entries of a hybrid record are found by their algorithms. *)
LEMMA HybridEntries ==
    ASSUME NEW r, NEW k \in KmsKeys, NEW m, r.entries = <<Entry(k, m), Entry("secondary", m)>>
    PROVE  /\ Len(r.entries) = 2 /\ DOMAIN r.entries = {1, 2}
           /\ r.entries[1] = Entry(k, m) /\ r.entries[2] = Entry("secondary", m)
           /\ EntryOf(r, "ed25519") = Entry(k, m)
           /\ EntryOf(r, "dilithium3") = Entry("secondary", m)
           /\ Entry(k, m).algorithm = "ed25519" /\ Entry("secondary", m).algorithm = "dilithium3"
           /\ Entry(k, m).key = k /\ Entry("secondary", m).key = "secondary"
           /\ \A x \in {k, "secondary"} : /\ Entry(x, m).value.key = File(x)
                                         /\ Entry(x, m).value.msg = m
                                         /\ Entry(x, m).value.form = "raw"
<1>1. /\ Len(r.entries) = 2 /\ DOMAIN r.entries = {1, 2}
      /\ r.entries[1] = Entry(k, m) /\ r.entries[2] = Entry("secondary", m)
  OBVIOUS
<1>2. /\ Entry(k, m).algorithm = "ed25519" /\ Entry("secondary", m).algorithm = "dilithium3"
      /\ Entry(k, m).key = k /\ Entry("secondary", m).key = "secondary"
      /\ \A x \in {k, "secondary"} : /\ Entry(x, m).value.key = File(x)
                                    /\ Entry(x, m).value.msg = m
                                    /\ Entry(x, m).value.form = "raw"
  BY KeysAre DEF Entry, FileSign
<1>3. ASSUME NEW n \in {1, 2}, NEW al, \A j \in {1, 2} : r.entries[j].algorithm = al <=> j = n
      PROVE  EntryOf(r, al) = r.entries[n]
  <2>1. \A j : (/\ j \in DOMAIN r.entries /\ r.entries[j].algorithm = al
                /\ \A i \in 1 .. j - 1 : r.entries[i].algorithm # al) <=> j = n
    <3>1. \A i \in 1 .. n - 1 : i \in {1, 2} /\ i # n
      BY <1>3
    <3> QED BY <1>1, <1>3, <3>1
  <2>2. (CHOOSE j \in DOMAIN r.entries :
            /\ r.entries[j].algorithm = al
            /\ \A i \in 1 .. j - 1 : r.entries[i].algorithm # al) = n
    BY <2>1
  <2> QED BY <2>2 DEF EntryOf
<1>4. EntryOf(r, "ed25519") = r.entries[1] /\ EntryOf(r, "dilithium3") = r.entries[2]
  BY <1>1, <1>2, <1>3
<1> QED BY <1>1, <1>2, <1>4

LEMMA GenuineSignature ==
    ASSUME TypeOK, NEW r, Made(r), r.kind = "record", KeysKept("server", r), Supported("server", r)
    PROVE  VerifySignature(r) = "valid"
<1>1. PICK key \in Material : key = SignerPublicKey(r.sig.key) /\ key = r.sig.value.key
  <2>1. r.sig.value.key \in Material
    BY DEF Made, Row, Signature, ValueOf
  <2> QED BY <2>1 DEF KeysKept
<1>2. ProviderVerifies("ed25519", CanonicalRecord(r), r.sig.value, key) /\ key # None
  BY <1>1, FitsVerifies, MaterialAssumption DEF Made
<1>3. CASE r.entries = <<>>
  BY <1>1, <1>2, <1>3 DEF VerifySignature, Supported
<1>4. CASE r.entries # <<>>
  <2>1. PICK m, k : /\ k \in KmsKeys /\ m = HybridCanonicalRecord(r, 2)
                    /\ r.entries = <<Entry(k, m), Entry("secondary", m)>>
    BY <1>4 DEF Made
  <2>2. r.ver = 2 /\ config.secondary
    BY <1>4 DEF Made, Supported
  <2>3. HybridCanonicalRecord(r, IF r.ver = None THEN 2 ELSE r.ver) = m
    BY <2>1, <2>2
  <2>4. k \in pub /\ "secondary" \in pub
    BY <2>1, HybridEntries DEF KeysKept
  <2>5. HybridVerify(r) = "valid"
    <3>1. /\ ProviderVerifies("ed25519", m, Entry(k, m).value, File(k))
          /\ ProviderVerifies("dilithium3", m, Entry("secondary", m).value, File("secondary"))
      BY <2>1, HybridEntries DEF ProviderVerifies
    <3>2. ~(\/ Len(r.entries) # 2
            \/ \E al \in Algorithms : \A i \in DOMAIN r.entries : r.entries[i].algorithm # al)
      BY <2>1, HybridEntries DEF Algorithms
    <3>3. ~(\E al \in Algorithms : \/ EntryOf(r, al).key \notin pub
                                  \/ AlgorithmOf(EntryOf(r, al).key) # al)
      <4>1. EntryOf(r, "ed25519").key \in pub /\ AlgorithmOf(EntryOf(r, "ed25519").key) = "ed25519"
        BY <2>1, <2>4, HybridEntries, KeysAre
      <4>2. EntryOf(r, "dilithium3").key \in pub /\ AlgorithmOf(EntryOf(r, "dilithium3").key) = "dilithium3"
        BY <2>1, <2>4, HybridEntries, KeysAre
      <4> QED BY <4>1, <4>2 DEF Algorithms
    <3>4. \A al \in Algorithms :
             ProviderVerifies(al, m, EntryOf(r, al).value, File(EntryOf(r, al).key))
      BY <2>1, <3>1, HybridEntries DEF Algorithms
    <3> QED BY <2>2, <2>3, <3>2, <3>3, <3>4 DEF HybridVerify
  <2> QED BY <1>1, <1>2, <1>4, <2>5 DEF VerifySignature
<1> QED BY <1>3, <1>4

LEMMA GenuineAnswer ==
    ASSUME TypeOK, NEW r, Made(r), NEW a \in Answers(r), KeysKept(a.by, r), Supported(a.by, r)
    PROVE  a.says = "valid"
<1>r. r \in Row /\ r.sig.value.key \in Material /\ r.sig.algorithm = "ed25519"
      /\ AlgorithmOf(r.sig.key) = "ed25519" /\ Fits(r.sig.value, CanonicalRecord(r))
      /\ (r.kind # "event" => r.hash = CanonicalRecord(r))
  BY KeysAre DEF Made, Row, Signature, ValueOf
<1>1. CASE a.by = "server" /\ r.kind = "record"
  <2>1. VerifySignature(r) = "valid"
    BY <1>1, GenuineSignature
  <2>2. VerifyChain(r) = "valid"
    <3>1. CASE r.body.chain = None
      BY <3>1 DEF VerifyChain
    <3>2. CASE r.body.chain # None
      <4>1. PICK c : c = r.body.chain /\ c # None
        BY <3>2
      <4>2. c.value.key \in Material
        BY <1>r, <4>1 DEF Row, Body, ValueOf
      <4>3. SignerPublicKey(c.key) = c.value.key
        BY <1>1, <4>1 DEF KeysKept
      <4>4. Fits(c.value, CanonicalChainEntry(r.body))
        BY <4>1 DEF Made
      <4>5. ProviderVerifies("ed25519", CanonicalChainEntry(r.body), c.value, SignerPublicKey(c.key))
        BY <4>3, <4>4, FitsVerifies
      <4> QED BY <4>1, <4>2, <4>3, <4>4, <4>5, MaterialAssumption DEF VerifyChain, Fits
    <3> QED BY <3>1, <3>2
  <2> QED BY <1>r, <1>1, <2>1, <2>2, AnswerType DEF VerifyOnline, VerifyRecord
<1>2. CASE a.by = "server" /\ r.kind # "record"
  <2>1. SignerPublicKey(r.sig.key) = r.sig.value.key
    BY <1>2 DEF KeysKept
  <2>2. ProviderVerifies("ed25519", CanonicalRecord(r), r.sig.value, SignerPublicKey(r.sig.key))
    BY <1>r, <2>1, FitsVerifies
  <2>3. VerifyArtifact(r) = "valid"
    BY <1>r, <2>1, <2>2, MaterialAssumption DEF VerifyArtifact
  <2> QED BY <1>r, <1>2, <2>3, AnswerType DEF VerifyOnline
<1>k. ASSUME a.by # "server"
      PROVE  /\ r.hash = CanonicalRecord(r)
             /\ collected[r.sig.key] = r.sig.value.key /\ collected[r.sig.key] # None
             /\ \A i \in DOMAIN r.entries : collected[r.entries[i].key] = r.entries[i].value.key
  <2>1. r.kind \in OfflineKinds
    BY <1>r, <1>k, AnswerType
  <2>2. collected[r.sig.key] = r.sig.value.key
        /\ \A i \in DOMAIN r.entries : collected[r.entries[i].key] = r.entries[i].value.key
    BY <1>k DEF KeysKept
  <2> QED BY <1>r, <2>1, <2>2, MaterialAssumption DEF OfflineKinds
<1>3. CASE a.by = "offline"
  <2>1. VerifyOneEntry(r.sig, CanonicalRecord(r))
    BY <1>3, <1>r, <1>k, FitsVerifies DEF VerifyOneEntry
  <2>2. ASSUME r.entries # <<>> PROVE VerifyHybridEntries(r)
    <3>1. PICK m, k : /\ k \in KmsKeys /\ m = HybridCanonicalRecord(r, 2)
                      /\ r.entries = <<Entry(k, m), Entry("secondary", m)>>
      BY <2>2 DEF Made
    <3>2. HybridCanonicalRecord(r, IF r.ver = None THEN 2 ELSE r.ver) = m
      BY <2>2, <3>1 DEF Made
    <3>3. /\ collected[k] = File(k) /\ collected["secondary"] = File("secondary")
          /\ File(k) # None /\ File("secondary") # None
      BY <1>3, <1>k, <3>1, HybridEntries, KeysAre, MaterialAssumption
    <3>4. \A i \in DOMAIN r.entries : VerifyOneEntry(r.entries[i], m)
      <4>1. VerifyOneEntry(Entry(k, m), m) /\ VerifyOneEntry(Entry("secondary", m), m)
        BY <3>1, <3>3, HybridEntries, KeysAre DEF VerifyOneEntry, ProviderVerifies
      <4> QED BY <3>1, <4>1, HybridEntries
    <3>5. /\ Len(r.entries) >= 2
          /\ \A i, j \in DOMAIN r.entries : r.entries[i].algorithm = r.entries[j].algorithm => i = j
      BY <3>1, HybridEntries
    <3> QED BY <3>2, <3>4, <3>5 DEF VerifyHybridEntries
  <2>3. VerifyOffline(r)
    BY <1>3, <1>k, <2>1, <2>2 DEF VerifyOffline
  <2> QED BY <1>r, <1>3, <2>3, AnswerType DEF OfflineAnswer
<1>l. MessageLength(CanonicalRecord(r)) \in Nat /\ RawLimit \in Nat
  <2>1. r.body.doc \in Payload
    BY <1>r DEF Row, Body
  <2> QED BY <2>1, EvidenceAssumption DEF MessageLength, CanonicalRecord
<1>4. CASE a.by = "typescript"
  <2>1. VerifyEd25519(CanonicalRecord(r), r.sig.value, collected[r.sig.key])
    BY <1>4, <1>r, <1>k, <1>l DEF VerifyEd25519, Fits, RequiresCommitment
  <2>2. VerifyTypeScript(r)
    BY <1>4, <1>r, <1>k, <2>1 DEF VerifyTypeScript, Supported
  <2> QED BY <1>r, <1>4, <2>2, AnswerType DEF OfflineAnswer
<1>5. CASE a.by = "python"
  <2>1. VerifyEd25519WithCommitment(CanonicalRecord(r), r.sig.value, collected[r.sig.key])
    BY <1>5, <1>r, <1>k, <1>l DEF VerifyEd25519WithCommitment, Fits, RequiresCommitment
  <2>2. VerifyPython(r)
    BY <1>5, <1>r, <1>k, <2>1 DEF VerifyPython, Supported
  <2> QED BY <1>r, <1>5, <2>2, AnswerType DEF OfflineAnswer
<1>6. a.by \in {"server", "offline", "typescript", "python"}
  BY <1>r, AnswerType
<1> QED BY <1>1, <1>2, <1>3, <1>4, <1>5, <1>6

(***************************************************************************)
(* Evidence that nobody altered is answered "valid" by every verifier that *)
(* still holds its public keys, whatever was redeployed, rotated, retired  *)
(* or lost since, and at every message length (VerificationCrypto, the     *)
(* commitment rule of SignatureCommitment and its two copies in the SDKs). *)
(***************************************************************************)
THEOREM GenuineIsValid == EvidenceSpec => []GenuineVerifies
<1>1. EvidenceInit => GenuineVerifies
  BY DEF EvidenceInit, GenuineVerifies
<1>2. EvidenceInv /\ GenuineVerifies /\ [EvidenceNext]_evidenceVars => GenuineVerifies'
  <2> SUFFICES ASSUME EvidenceInv, GenuineVerifies, [EvidenceNext]_evidenceVars PROVE GenuineVerifies'
    OBVIOUS
  <2> USE DEF KeysKept, Supported, SignerPublicKey
  <2>1. ASSUME NEW s \in Slot, Verify(s) PROVE GenuineVerifies'
    <3>1. PICK a : last' = a /\ a \in Answers(row[s]) /\ row[s] \in Row
      BY <2>1 DEF Verify, EvidenceInv, TypeOK
    <3>2. UNCHANGED <<config, pub, collected, issued>>
      BY <2>1 DEF Verify
    <3>3. ASSUME a.of \in issued, KeysKept(a.by, a.of), Supported(a.by, a.of) PROVE a.says = "valid"
      <4>1. PICK r : r = a.of /\ Made(r) /\ a \in Answers(r)
        BY <3>1, <3>3, AnswerType DEF EvidenceInv, RowInv
      <4> QED BY <3>3, <4>1, GenuineAnswer DEF EvidenceInv
    <3> QED BY <3>1, <3>2, <3>3 DEF GenuineVerifies
  <2>2. CASE UNCHANGED evidenceVars
    BY <2>2 DEF evidenceVars, GenuineVerifies
  <2>3. CASE last' = None
    BY <2>3 DEF GenuineVerifies
  <2> QED BY <2>1, <2>2, <2>3 DEF EvidenceNext, Produce, CollectKeys, Alter, RemoveKey, Redeploy
<1> QED BY <1>1, <1>2, EvidenceAlways, PTL DEF EvidenceSpec
=============================================================================

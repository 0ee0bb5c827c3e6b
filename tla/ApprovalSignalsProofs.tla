---------------------- MODULE ApprovalSignalsProofs ----------------------
(***************************************************************************)
(* Proofs about ApprovalSignals, for any policy, any approvals and scopes, *)
(* any contents of any number of requests and any number of faults.        *)
(***************************************************************************)
EXTENDS ApprovalSignals, TLAPS, WellFoundedInduction

---------------------------------------------------------------------------
(* Type correctness.                                                       *)

(* A nonce is recorded for an approval that is still to be used. *)
AtWork == \A r \in Request : pc[r] = "record" => Remaining(r) # {}
TypeInv == TypeOK /\ AtWork
Place == {"idle", "check", "use", "record", "others", "authorized"} \cup Ended

LEMMA TypeInit == Init => TypeInv
<1>. SUFFICES ASSUME Init PROVE TypeInv
  OBVIOUS
<1>1. Len(Signals) \in Nat
  BY ApprovalAssumption
<1>. QED
  BY <1>1, ApprovalAssumption DEF Init, TypeInv, TypeOK, AtWork, Ended

(* A non-empty set of naturals has a least element.                        *)
LEMMA LeastNat ==
    ASSUME NEW T \in SUBSET Nat, T # {}
    PROVE  \E x \in T : \A y \in T : x <= y
<1>. DEFINE R == OpToRel(<, Nat)
<1>1. PICK x \in T : \A y \in T : ~ (<<y, x>> \in R)
  <2>1. T \subseteq Nat
    OBVIOUS
  <2>2. IsWellFoundedOn(R, Nat)
    BY NatLessThanWellFounded
  <2>. HIDE DEF R
  <2>. QED
    BY <2>1, <2>2, WFMin
<1>2. ASSUME NEW y \in T PROVE x <= y
  <2>1. x \in Nat /\ y \in Nat
    OBVIOUS
  <2>2. ~ (y < x)
    BY <1>1, <2>1 DEF OpToRel
  <2>. QED
    BY <2>1, <2>2
<1>. QED
  BY <1>2

(* The approval being verified is the first that remains: the loops over   *)
(* pending approvals leave none out.                                       *)
LEMMA PositionIsFirst ==
    ASSUME TypeOK, NEW r \in Request, Remaining(r) # {}
    PROVE  /\ Position(r) \in Pending(r) /\ Position(r) \in 1 .. Len(Signals)
           /\ at[r] <= Position(r)
           /\ \A j \in Pending(r) : j < Position(r) + 1 => j < at[r] \/ j = Position(r)
<1>1. Len(Signals) \in Nat /\ at[r] \in 1 .. Len(Signals) + 1
  BY ApprovalAssumption DEF TypeOK
<1>2. Pending(r) \subseteq 1 .. Len(Signals) /\ Remaining(r) \subseteq Pending(r)
  BY DEF Pending, Remaining
<1>3. Remaining(r) \in SUBSET Nat
  BY <1>1, <1>2
<1>4. \E i \in Remaining(r) : \A j \in Remaining(r) : i <= j
  BY <1>3, LeastNat
<1>5. Position(r) \in Remaining(r) /\ \A j \in Remaining(r) : Position(r) <= j
  BY <1>4 DEF Position
<1>6. at[r] <= Position(r)
  BY <1>5 DEF Remaining
<1>7. ASSUME NEW j \in Pending(r), j < Position(r) + 1, ~ (j < at[r])
      PROVE  j = Position(r)
  <2>1. j \in Remaining(r)
    BY <1>1, <1>2, <1>7 DEF Remaining
  <2>2. Position(r) <= j /\ Position(r) \in Nat /\ j \in Nat
    BY <1>1, <1>2, <1>5, <2>1
  <2>. QED
    BY <1>7, <2>2
<1>. QED
  BY <1>2, <1>5, <1>6, <1>7

LEMMA AllPast ==
    ASSUME TypeOK, NEW r \in Request, AtEnd(r)
    PROVE  \A i \in Pending(r) : i < at[r]
<1>1. Len(Signals) \in Nat /\ at[r] \in 1 .. Len(Signals) + 1
  BY ApprovalAssumption DEF TypeOK
<1>2. Pending(r) \subseteq 1 .. Len(Signals)
  BY DEF Pending
<1>. QED
  BY <1>1, <1>2 DEF AtEnd, Remaining

LEMMA GotoType ==
    ASSUME TypeOK, NEW r \in Request, NEW label \in Place, Goto(r, label)
    PROVE  pc' \in [Request -> Place]
BY DEF TypeOK, Goto, Place

LEMMA LookupType ==
    ASSUME TypeOK, NEW r \in Request, NEW passed \in BOOLEAN, Lookup(r, passed)
    PROVE  faults' \in 0 .. MaxFaults
BY ApprovalAssumption DEF TypeOK, Lookup

LEMMA AtType ==
    ASSUME TypeOK, NEW r \in Request,
           \/ Rewind(r) \/ UNCHANGED at
           \/ Step(r) /\ Remaining(r) # {}
    PROVE  at' \in [Request -> 1 .. Len(Signals) + 1]
<1>1. Len(Signals) \in Nat /\ at \in [Request -> 1 .. Len(Signals) + 1]
  BY ApprovalAssumption DEF TypeOK
<1>2. CASE Rewind(r) \/ UNCHANGED at
  BY <1>1, <1>2 DEF Rewind
<1>3. CASE Step(r) /\ Remaining(r) # {}
  <2>1. Position(r) + 1 \in 1 .. Len(Signals) + 1
    BY <1>1, <1>3, PositionIsFirst
  <2>. QED
    BY <1>1, <1>3, <2>1 DEF Step
<1>. QED
  BY <1>2, <1>3

LEMMA SpentType ==
    ASSUME TypeOK, NEW r \in Request, NEW a, NEW unseen \in BOOLEAN,
           CheckAndRecord(r, a, unseen)
    PROVE  spent' \in [Approval -> SUBSET Request]
BY DEF TypeOK, CheckAndRecord

(* What a request holds never changes.                                     *)
LEMMA ContentFixed ==
    ASSUME [Next]_vars
    PROVE  content' = content
BY DEF Next, vars, AddKey, RevokeKey, Expire, Submit, Proceed, CheckOne, EndCheck, UseOne,
   RecordNonce, RecordNonceFails, EndUse, OtherVerifiers, Release, Crash, Done

LEMMA Fixed ==
    ASSUME [Next]_vars, NEW r \in Request
    PROVE  /\ Declared(r)' = Declared(r) /\ Pending(r)' = Pending(r)
           /\ \A s : Artifact(r, s)' = Artifact(r, s)
           /\ \A s : Prepared(r, s)' <=> Prepared(r, s)
           /\ \A s : Fits(r, s)' <=> Fits(r, s)
BY ContentFixed DEF Declared, Pending, Artifact, Prepared, Fits, RequestedValue

(* A request is moved by its own steps only.                               *)
LEMMA Moves ==
    ASSUME TypeOK, [Next]_vars, NEW r \in Request
    PROVE  \/ UNCHANGED <<pc[r], stage[r], at[r], bad[r], prior[r], gone[r]>>
           \/ Submit(r) \/ Proceed(r) \/ RecordNonceFails(r) \/ Crash(r)
<1>. DEFINE Same == UNCHANGED <<pc[r], stage[r], at[r], bad[r], prior[r], gone[r]>>
<1>. USE DEF TypeOK
<1>1. ASSUME NEW q \in Request, q # r, Submit(q) \/ Release(q) PROVE Same
  BY <1>1 DEF Submit, Release, Begin, Goto, Rewind
<1>2. ASSUME NEW q \in Request, q # r, CheckOne(q) \/ EndCheck(q) \/ UseOne(q) PROVE Same
  BY <1>2 DEF CheckOne, EndCheck, UseOne, Goto, Rewind, Step, Violation
<1>3. ASSUME NEW q \in Request, q # r,
             \/ RecordNonce(q) \/ RecordNonceFails(q) \/ EndUse(q) \/ OtherVerifiers(q)
             \/ Crash(q)
      PROVE Same
  BY <1>3 DEF RecordNonce, RecordNonceFails, EndUse, OtherVerifiers, Crash, Goto, Step,
     Violation
<1>4. CASE \/ UNCHANGED vars \/ Done
           \/ \E k \in Key : AddKey(k) \/ RevokeKey(k)
           \/ \E a \in Approval : Expire(a)
  BY <1>4 DEF vars, localVars, AddKey, RevokeKey, Expire, Done
<1>. QED
  BY <1>1, <1>2, <1>3, <1>4 DEF Next, Proceed

LEMMA TypeStep == TypeInv /\ [Next]_vars => TypeInv'
<1>. SUFFICES ASSUME TypeInv, [Next]_vars PROVE TypeInv'
  OBVIOUS
<1>. USE DEF TypeInv
<1>1. TypeOK'
  <2>. USE DEF localVars
  <2>1. CASE UNCHANGED vars \/ Done
    BY <2>1 DEF vars, Done, TypeOK
  <2>2. ASSUME NEW k \in Key, AddKey(k) \/ RevokeKey(k) PROVE TypeOK'
    BY <2>2 DEF AddKey, RevokeKey, TypeOK
  <2>3. ASSUME NEW a \in Approval, Expire(a) PROVE TypeOK'
    BY <2>3 DEF Expire, TypeOK
  <2>4. ASSUME NEW r \in Request, Submit(r) \/ Proceed(r) \/ RecordNonceFails(r) \/ Crash(r)
        PROVE  TypeOK'
    <3>1. CASE Submit(r) \/ Release(r)
      <4>1. pc' \in [Request -> Place] /\ at' \in [Request -> 1 .. Len(Signals) + 1]
        BY <3>1, GotoType, AtType DEF Submit, Release, Begin, Place
      <4>2. bad' \in [Request -> BOOLEAN]
        BY <3>1 DEF Submit, Release, Begin, TypeOK
      <4>3. stage' \in [Request -> {"authorize", "release"}]
        BY <3>1 DEF Submit, Release, TypeOK
      <4>4. gone' \in [Request -> SUBSET Key]
        <5>1. PICK G \in SUBSET Key : G = {k \in Key : keys[k] = "revoked"}
          OBVIOUS
        <5>2. gone' = [gone EXCEPT ![r] = G] \/ gone' = gone
          BY <3>1, <5>1 DEF Submit, Release
        <5>. QED
          BY <5>2 DEF TypeOK
      <4>. QED
        BY <3>1, <4>1, <4>2, <4>3, <4>4 DEF Submit, Release, TypeOK, Place
    <3>2. CASE CheckOne(r)
      <4>1. at' \in [Request -> 1 .. Len(Signals) + 1]
        BY <3>2, AtType DEF CheckOne, AtEnd
      <4>2. bad' \in [Request -> BOOLEAN]
        BY <3>2 DEF CheckOne, Violation, TypeOK
      <4>3. faults' \in 0 .. MaxFaults
        BY <3>2, LookupType DEF CheckOne
      <4>. QED
        BY <3>2, <4>1, <4>2, <4>3 DEF CheckOne, TypeOK
    <3>3. CASE EndCheck(r) \/ EndUse(r) \/ OtherVerifiers(r)
      <4>1. pc' \in [Request -> Place] /\ at' \in [Request -> 1 .. Len(Signals) + 1]
        BY <3>3, GotoType, AtType DEF EndCheck, EndUse, OtherVerifiers, Place, Ended
      <4>. QED
        BY <3>3, <4>1 DEF EndCheck, EndUse, OtherVerifiers, TypeOK, Place
    <3>4. CASE UseOne(r)
      <4>1. pc' \in [Request -> Place] /\ faults' \in 0 .. MaxFaults
        BY <3>4, GotoType, LookupType DEF UseOne, Place
      <4>2. prior' \in [Request -> BOOLEAN]
        BY <3>4 DEF UseOne, TypeOK
      <4>. QED
        BY <3>4, <4>1, <4>2 DEF UseOne, TypeOK, Place
    <3>5. CASE RecordNonce(r)
      <4>1. pc' \in [Request -> Place] /\ at' \in [Request -> 1 .. Len(Signals) + 1]
        BY <3>5, GotoType, AtType DEF RecordNonce, AtWork, Place
      <4>2. spent' \in [Approval -> SUBSET Request]
        <5>1. CASE UNCHANGED spent
          BY <5>1 DEF TypeOK
        <5>2. ASSUME NEW unseen \in BOOLEAN,
                     CheckAndRecord(r, Artifact(r, Current(r)), unseen)
              PROVE  spent' \in [Approval -> SUBSET Request]
          BY <5>2, SpentType
        <5>. QED
          BY <3>5, <5>1, <5>2 DEF RecordNonce
      <4>3. bad' \in [Request -> BOOLEAN]
        BY <3>5 DEF RecordNonce, Violation, TypeOK
      <4>. QED
        BY <3>5, <4>1, <4>2, <4>3 DEF RecordNonce, TypeOK, Place
    <3>6. CASE RecordNonceFails(r)
      <4>1. pc' \in [Request -> Place]
        BY <3>6, GotoType DEF RecordNonceFails, Place, Ended
      <4>2. spent' \in [Approval -> SUBSET Request]
        BY <3>6, SpentType DEF RecordNonceFails, TypeOK
      <4>3. faults' \in 0 .. MaxFaults
        BY <3>6, ApprovalAssumption DEF RecordNonceFails, TypeOK
      <4>. QED
        BY <3>6, <4>1, <4>2, <4>3 DEF RecordNonceFails, TypeOK, Place
    <3>7. CASE Crash(r)
      <4>1. faults' \in 0 .. MaxFaults
        BY <3>7, ApprovalAssumption DEF Crash, TypeOK
      <4>. QED
        BY <3>7, <4>1 DEF Crash, TypeOK, Ended
    <3>. QED
      BY <2>4, <3>1, <3>2, <3>3, <3>4, <3>5, <3>6, <3>7 DEF Proceed
  <2>. QED
    BY <2>1, <2>2, <2>3, <2>4 DEF Next
<1>2. AtWork'
  <2>. SUFFICES ASSUME NEW r \in Request, pc'[r] = "record"
                PROVE  Remaining(r)' # {}
    BY DEF AtWork
  <2>1. pc \in [Request -> Place]
    BY DEF TypeOK, Place
  <2>2. at'[r] = at[r] /\ Remaining(r) # {}
    <3>1. CASE UNCHANGED <<pc[r], stage[r], at[r], bad[r], prior[r], gone[r]>>
      BY <3>1 DEF AtWork
    <3>2. CASE UseOne(r)
      BY <3>2 DEF UseOne, AtEnd
    <3>3. CASE CheckOne(r)
      BY <3>3 DEF CheckOne
    <3>4. CASE \/ Submit(r) \/ Release(r) \/ EndCheck(r) \/ RecordNonce(r) \/ EndUse(r)
               \/ OtherVerifiers(r) \/ RecordNonceFails(r) \/ Crash(r)
      BY <2>1, <3>4 DEF Submit, Release, Begin, EndCheck, RecordNonce, EndUse, OtherVerifiers,
         RecordNonceFails, Crash, Goto
    <3>. QED
      BY <3>1, <3>2, <3>3, <3>4, Moves DEF Proceed
  <2>. QED
    BY <2>2, Fixed DEF Remaining
<1>. QED
  BY <1>1, <1>2

LEMMA TypeAlways == Spec => []TypeInv
BY TypeInit, TypeStep, PTL DEF Spec

(* Every variable keeps its type: the position of a verification stays     *)
(* within the policy's signals, and a nonce row names requests.            *)
THEOREM ApprovalTypes == Spec => []TypeOK
BY TypeAlways, PTL DEF TypeInv

---------------------------------------------------------------------------
(* Fitting approvals.  What a request holds never changes, so the outcome  *)
(* of pass 1 still stands when pass 2 uses the approvals.                  *)

AllPrepared(r) == \A s \in Declared(r) : Prepared(r, s)
AllFit(r) == \A s \in Declared(r) : Prepared(r, s) /\ Fits(r, s)

CheckedFit == \A r \in Request : pc[r] = "check" /\ ~bad[r] =>
    /\ AllPrepared(r)
    /\ \A i \in Pending(r) : i < at[r] => Fits(r, Signals[i])
PassedFit == \A r \in Request :
    \/ pc[r] \in {"use", "record", "others", "authorized", "executed"}
    \/ stage[r] = "release"
    => AllFit(r)
SpentFit == \A a \in Approval : \A r \in spent[a] : AllFit(r)

FitInv == CheckedFit /\ PassedFit /\ SpentFit

LEMMA FitFixed ==
    ASSUME [Next]_vars, NEW r \in Request
    PROVE  (AllPrepared(r)' <=> AllPrepared(r)) /\ (AllFit(r)' <=> AllFit(r))
BY Fixed DEF AllPrepared, AllFit

(* The nonce table only ever gets a row for an approval that has none.     *)
LEMMA SpentStep ==
    ASSUME TypeInv, [Next]_vars, NEW a \in Approval
    PROVE  \/ spent'[a] = spent[a]
           \/ /\ spent[a] = {}
              /\ \E r \in Request : /\ pc[r] = "record" /\ prior[r]
                                    /\ a = Artifact(r, Current(r)) /\ spent'[a] = {r}
<1>. DEFINE New(r) == /\ pc[r] = "record" /\ prior[r]
                      /\ a = Artifact(r, Current(r)) /\ spent'[a] = {r}
<1>1. spent \in [Approval -> SUBSET Request]
  BY DEF TypeInv, TypeOK
<1>2. ASSUME NEW r \in Request, NEW b, NEW unseen \in BOOLEAN, CheckAndRecord(r, b, unseen)
      PROVE  spent'[a] = spent[a] \/ (spent[a] = {} /\ a = b /\ spent'[a] = {r})
  BY <1>1, <1>2 DEF CheckAndRecord
<1>3. ASSUME NEW r \in Request, RecordNonce(r) \/ RecordNonceFails(r)
      PROVE  spent'[a] = spent[a] \/ (spent[a] = {} /\ New(r))
  <2>1. PICK b : b = Artifact(r, Current(r))
    OBVIOUS
  <2>2. CASE UNCHANGED spent
    BY <2>2
  <2>3. CASE /\ pc[r] = "record" /\ prior[r]
             /\ \E unseen \in BOOLEAN : CheckAndRecord(r, b, unseen)
    BY <1>2, <2>1, <2>3
  <2>. QED
    BY <1>3, <2>1, <2>2, <2>3 DEF RecordNonce, RecordNonceFails
<1>. QED
  BY <1>3 DEF Next, vars, AddKey, RevokeKey, Expire, Submit, Proceed, CheckOne, EndCheck,
     UseOne, EndUse, OtherVerifiers, Release, Crash, Done

(* A verification that has found no violation so far has passed the        *)
(* approval it has just looked at.                                         *)
LEMMA CheckPassed ==
    ASSUME TypeInv, NEW r \in Request, CheckOne(r), ~ bad'[r]
    PROVE  ~ bad[r] /\ Passes(r, Current(r)) /\ at'[r] = Position(r) + 1
<1>1. PICK passed \in BOOLEAN : Lookup(r, passed) /\ Violation(r, ~passed)
  BY DEF CheckOne
<1>2. bad'[r] = (bad[r] \/ ~passed)
  BY <1>1 DEF Violation, TypeInv, TypeOK
<1>3. at'[r] = Position(r) + 1
  BY DEF CheckOne, Step, TypeInv, TypeOK
<1>. QED
  BY <1>1, <1>2, <1>3 DEF Lookup

LEMMA FitStep == TypeInv /\ FitInv /\ [Next]_vars => FitInv'
<1>. SUFFICES ASSUME TypeInv, FitInv, [Next]_vars PROVE FitInv'
  OBVIOUS
<1>. USE DEF FitInv
<1>1. /\ pc \in [Request -> Place] /\ stage \in [Request -> {"authorize", "release"}]
      /\ bad \in [Request -> BOOLEAN]
  BY DEF TypeInv, TypeOK, Place
<1>2. Len(Signals) \in Nat /\ at \in [Request -> 1 .. Len(Signals) + 1]
  BY ApprovalAssumption DEF TypeInv, TypeOK
<1>3. CheckedFit'
  <2>. SUFFICES ASSUME NEW r \in Request, pc'[r] = "check", ~ bad'[r]
                PROVE  /\ AllPrepared(r)
                       /\ \A i \in Pending(r) : i < at'[r] => Fits(r, Signals[i])
    BY FitFixed, Fixed DEF CheckedFit
  <2>1. CASE UNCHANGED <<pc[r], stage[r], at[r], bad[r], prior[r], gone[r]>>
    BY <2>1 DEF CheckedFit
  <2>2. CASE Submit(r) \/ Release(r)
    <3>1. at'[r] = 1 /\ ~ \E s \in Declared(r) : ~ Prepared(r, s)
      BY <1>1, <1>2, <2>2 DEF Submit, Release, Begin, Rewind
    <3>2. \A i \in Pending(r) : i \in 1 .. Len(Signals)
      BY DEF Pending
    <3>. QED
      BY <1>2, <3>1, <3>2 DEF AllPrepared
  <2>3. CASE CheckOne(r)
    <3>1. /\ ~ bad[r] /\ pc[r] = "check" /\ Fits(r, Signals[Position(r)])
          /\ at'[r] = Position(r) + 1
      BY <2>3, CheckPassed DEF CheckOne, Passes, Current
    <3>2. \A j \in Pending(r) : j < Position(r) + 1 => j < at[r] \/ j = Position(r)
      BY <2>3, PositionIsFirst DEF CheckOne, AtEnd, TypeInv
    <3>. QED
      BY <3>1, <3>2 DEF CheckedFit
  <2>4. CASE \/ EndCheck(r) \/ UseOne(r) \/ RecordNonce(r) \/ EndUse(r)
             \/ OtherVerifiers(r) \/ RecordNonceFails(r) \/ Crash(r)
    BY <1>1, <2>4 DEF EndCheck, UseOne, RecordNonce, EndUse, OtherVerifiers,
       RecordNonceFails, Crash, Goto
  <2>. QED
    BY <2>1, <2>2, <2>3, <2>4, Moves DEF Proceed, TypeInv
<1>4. PassedFit'
  <2>. SUFFICES ASSUME NEW r \in Request,
                       \/ pc'[r] \in {"use", "record", "others", "authorized", "executed"}
                       \/ stage'[r] = "release"
                PROVE  AllFit(r)
    BY FitFixed DEF PassedFit
  <2>1. CASE stage[r] = "release"
    BY <2>1 DEF PassedFit
  <2>2. CASE stage'[r] = "release" /\ stage[r] # "release"
    <3>1. Release(r)
      BY <1>1, <2>2, Moves DEF Submit, Proceed, CheckOne, EndCheck, UseOne, RecordNonce,
         EndUse, OtherVerifiers, RecordNonceFails, Crash, TypeInv
    <3>. QED
      BY <3>1 DEF Release, PassedFit
  <2>3. CASE pc'[r] \in {"use", "record", "others", "authorized", "executed"}
    <3>1. CASE UNCHANGED <<pc[r], stage[r], at[r], bad[r], prior[r], gone[r]>>
      BY <2>3, <3>1 DEF PassedFit
    <3>2. CASE EndCheck(r)
      <4>1. ~ bad[r] /\ pc[r] = "check"
        BY <1>1, <2>3, <3>2 DEF EndCheck, Goto
      <4>2. \A i \in Pending(r) : i < at[r]
        BY <3>2, AllPast DEF EndCheck, TypeInv
      <4>3. AllPrepared(r) /\ \A i \in Pending(r) : Fits(r, Signals[i])
        BY <4>1, <4>2 DEF CheckedFit
      <4>4. ASSUME NEW s \in Declared(r) PROVE Prepared(r, s) /\ Fits(r, s)
        <5>1. Declared(r) \subseteq Signal
          BY ApprovalAssumption DEF TypeInv, TypeOK, Declared
        <5>2. PICK i \in 1 .. Len(Signals) : s = Signals[i]
          BY <5>1 DEF Signal
        <5>3. i \in Pending(r)
          BY <4>3, <5>2 DEF Pending, AllPrepared
        <5>. QED
          BY <4>3, <5>2, <5>3 DEF AllPrepared
      <4>. QED
        BY <4>4 DEF AllFit
    <3>3. CASE \/ UseOne(r) \/ RecordNonce(r) \/ EndUse(r) \/ OtherVerifiers(r)
      BY <3>3 DEF UseOne, RecordNonce, EndUse, OtherVerifiers, PassedFit
    <3>4. CASE Submit(r) \/ Release(r) \/ RecordNonceFails(r) \/ Crash(r)
      BY <1>1, <2>3, <3>4 DEF Submit, Release, Begin, RecordNonceFails, Crash, Goto
    <3>5. CASE CheckOne(r)
      BY <2>3, <3>5 DEF CheckOne
    <3>. QED
      BY <3>1, <3>2, <3>3, <3>4, <3>5, Moves DEF Proceed, TypeInv
  <2>. QED
    BY <2>1, <2>2, <2>3
<1>5. SpentFit'
  <2>. SUFFICES ASSUME NEW a \in Approval, NEW r \in spent'[a]
                PROVE  AllFit(r)
    <3>1. spent' \in [Approval -> SUBSET Request]
      BY TypeStep DEF TypeInv, TypeOK
    <3>. QED
      BY <3>1, FitFixed DEF SpentFit
  <2>1. CASE spent'[a] = spent[a]
    BY <2>1 DEF SpentFit
  <2>2. ASSUME NEW q \in Request, pc[q] = "record", spent'[a] = {q}
        PROVE  AllFit(r)
    BY <2>2 DEF PassedFit
  <2>. QED
    BY <2>1, <2>2, SpentStep
<1>. QED
  BY <1>3, <1>4, <1>5

LEMMA FitInit == Init => FitInv
BY DEF Init, FitInv, CheckedFit, PassedFit, SpentFit

LEMMA FitAlways == Spec => []FitInv
<1>1. TypeInv /\ FitInv /\ [Next]_vars => FitInv'
  BY FitStep
<1>. QED
  BY <1>1, FitInit, TypeAlways, PTL DEF Spec

(* The comparators of evaluateApprovalScope allow just the numbers they    *)
(* are named for.                                                          *)
LEMMA ScopeAllows ==
    ASSUME NEW actual, NEW scope, evaluateApprovalScope(actual, scope)
    PROVE  actual \in Allowed(scope)
<1>1. CASE scope.comparator = "eq"
  BY <1>1 DEF evaluateApprovalScope, Allowed
<1>2. CASE scope.comparator = "between"
  BY <1>2 DEF evaluateApprovalScope, Allowed
<1>3. CASE scope.comparator = "lte"
  BY <1>3 DEF evaluateApprovalScope, Allowed
<1>4. CASE scope.comparator = "gte"
  BY <1>4 DEF evaluateApprovalScope, Allowed
<1>5. CASE scope.comparator = "lt"
  BY <1>5 DEF evaluateApprovalScope, Allowed
<1>6. CASE scope.comparator = "gt"
  BY <1>6 DEF evaluateApprovalScope, Allowed
<1>. QED
  BY <1>1, <1>2, <1>3, <1>4, <1>5, <1>6 DEF evaluateApprovalScope

(* A request that is executed holds an approval for every signal it        *)
(* declares, of its resource and with a scope that allows its value,       *)
(* although ApprovalSignalVerifier checks them one await at a time.        *)
THEOREM ScopeIsKept == Spec => []ExecutedWithinScope
<1>1. FitInv => ExecutedWithinScope
  BY ScopeAllows DEF FitInv, PassedFit, AllFit, Fits, ExecutedWithinScope
<1>. QED
  BY <1>1, FitAlways, PTL

---------------------------------------------------------------------------
(* Using up approvals.  A nonce row is written once and stays, so what a   *)
(* request recorded without a violation is its own, and for one signal.    *)

Holds(r, i) == spent[Artifact(r, Signals[i])] = {r}

(* The first n - 1 signals of r have an approval each, used by r alone. *)
UsedUpTo(r, n) == \A i \in Pending(r) : i < n =>
    /\ Holds(r, i)
    /\ \A j \in Pending(r) :
          j < n /\ Artifact(r, Signals[i]) = Artifact(r, Signals[j]) => i = j

UseBeforeRelease == \A r \in Request :
    pc[r] \in {"idle", "use", "record", "authorized"} => stage[r] = "authorize"
UsedSoFar == \A r \in Request : pc[r] \in {"use", "record"} /\ ~bad[r] =>
    UsedUpTo(r, at[r])
AllUsed == \A r \in Request :
    pc[r] \in {"others", "authorized"} \/ stage[r] = "release" =>
        UsedUpTo(r, Len(Signals) + 1)

UseInv == UseBeforeRelease /\ UsedSoFar /\ AllUsed

LEMMA PendingApproval ==
    ASSUME TypeInv, NEW r \in Request, NEW i \in Pending(r)
    PROVE  Artifact(r, Signals[i]) \in Approval /\ i \in 1 .. Len(Signals)
<1>1. i \in 1 .. Len(Signals) /\ Artifact(r, Signals[i]) # Absent
  BY DEF Pending, Prepared
<1>2. content[r] \in Contents /\ Signals[i] \in Signal
  BY <1>1 DEF TypeInv, TypeOK, Signal
<1>. QED
  BY <1>1, <1>2, ApprovalAssumption DEF Artifact

LEMMA DeclaredIsPending ==
    ASSUME TypeInv, NEW r \in Request, AllFit(r), NEW s \in Declared(r)
    PROVE  \E i \in Pending(r) : s = Signals[i]
<1>1. Declared(r) \subseteq Signal
  BY ApprovalAssumption DEF TypeInv, TypeOK, Declared
<1>2. PICK i \in 1 .. Len(Signals) : s = Signals[i]
  BY <1>1 DEF Signal
<1>. QED
  BY <1>2 DEF Pending, AllFit

LEMMA UsedKept ==
    ASSUME TypeInv, [Next]_vars, NEW r \in Request, NEW n, UsedUpTo(r, n)
    PROVE  UsedUpTo(r, n)'
<1>1. ASSUME NEW i \in Pending(r), i < n
      PROVE  spent'[Artifact(r, Signals[i])] = {r}
  <2>1. spent[Artifact(r, Signals[i])] = {r}
    BY <1>1 DEF UsedUpTo, Holds
  <2>2. PICK a \in Approval : a = Artifact(r, Signals[i])
    BY PendingApproval
  <2>. QED
    BY <2>1, <2>2, SpentStep
<1>. QED
  BY <1>1, Fixed DEF UsedUpTo, Holds

(* A nonce recorded without a violation was not in the table before.       *)
LEMMA RecordedNew ==
    ASSUME TypeInv, NEW r \in Request, RecordNonce(r), ~ bad'[r]
    PROVE  /\ ~ bad[r] /\ at'[r] = Position(r) + 1
           /\ spent[Artifact(r, Current(r))] = {}
           /\ Artifact(r, Current(r)) \in Approval =>
                 spent'[Artifact(r, Current(r))] = {r}
<1>1. bad \in [Request -> BOOLEAN] /\ spent \in [Approval -> SUBSET Request]
  BY DEF TypeInv, TypeOK
<1>2. at'[r] = Position(r) + 1
  BY DEF RecordNonce, Step, TypeInv, TypeOK
<1>3. PICK a : a = Artifact(r, Current(r))
  OBVIOUS
<1>4. CASE Violation(r, TRUE)
  BY <1>1, <1>4 DEF Violation
<1>5. ASSUME NEW unseen \in BOOLEAN, CheckAndRecord(r, a, unseen), Violation(r, ~unseen)
      PROVE  ~ bad[r] /\ spent[a] = {} /\ (a \in Approval => spent'[a] = {r})
  <2>1. bad'[r] = (bad[r] \/ ~unseen)
    BY <1>1, <1>5 DEF Violation
  <2>2. ~ bad[r] /\ unseen
    BY <2>1
  <2>. QED
    BY <1>1, <1>5, <2>2 DEF CheckAndRecord
<1>. QED
  BY <1>2, <1>3, <1>4, <1>5 DEF RecordNonce

LEMMA UseStep == TypeInv /\ UseInv /\ [Next]_vars => UseInv'
<1>. SUFFICES ASSUME TypeInv, UseInv, [Next]_vars PROVE UseInv'
  OBVIOUS
<1>. USE DEF UseInv
<1>1. /\ pc \in [Request -> Place] /\ stage \in [Request -> {"authorize", "release"}]
      /\ bad \in [Request -> BOOLEAN]
  BY DEF TypeInv, TypeOK, Place
<1>2. Len(Signals) \in Nat /\ at \in [Request -> 1 .. Len(Signals) + 1]
  BY ApprovalAssumption DEF TypeInv, TypeOK
<1>3. UseBeforeRelease'
  <2>. SUFFICES ASSUME NEW r \in Request, pc'[r] \in {"idle", "use", "record", "authorized"}
                PROVE  stage'[r] = "authorize"
    BY DEF UseBeforeRelease
  <2>1. CASE UNCHANGED <<pc[r], stage[r], at[r], bad[r], prior[r], gone[r]>>
    BY <2>1 DEF UseBeforeRelease
  <2>2. CASE Submit(r) \/ Release(r) \/ RecordNonceFails(r) \/ Crash(r)
    BY <1>1, <2>2 DEF Submit, Release, Begin, RecordNonceFails, Crash, Goto
  <2>3. CASE CheckOne(r) \/ EndCheck(r) \/ OtherVerifiers(r)
    BY <1>1, <2>3 DEF CheckOne, EndCheck, OtherVerifiers, Goto
  <2>4. CASE UseOne(r) \/ RecordNonce(r) \/ EndUse(r)
    BY <2>4 DEF UseOne, RecordNonce, EndUse, UseBeforeRelease
  <2>. QED
    BY <2>1, <2>2, <2>3, <2>4, Moves DEF Proceed, TypeInv
<1>4. UsedSoFar'
  <2>. SUFFICES ASSUME NEW r \in Request, pc'[r] \in {"use", "record"}, ~ bad'[r]
                PROVE  UsedUpTo(r, at[r])'
    BY DEF UsedSoFar
  <2>1. ASSUME at'[r] = at[r], ~ bad[r], pc[r] \in {"use", "record"}
        PROVE  UsedUpTo(r, at[r])'
    <3>1. PICK n : n = at[r]
      OBVIOUS
    <3>2. UsedUpTo(r, n)
      BY <2>1, <3>1 DEF UsedSoFar
    <3>3. UsedUpTo(r, n)'
      BY <3>2, UsedKept
    <3>. QED
      BY <2>1, <3>1, <3>3 DEF UsedUpTo
  <2>2. CASE UNCHANGED <<pc[r], stage[r], at[r], bad[r], prior[r], gone[r]>>
    BY <2>1, <2>2
  <2>3. CASE UseOne(r)
    BY <2>1, <2>3 DEF UseOne
  <2>4. CASE EndCheck(r)
    <3>1. at'[r] = 1
      BY <1>2, <2>4 DEF EndCheck, Rewind
    <3>2. \A i \in Pending(r) : i \in 1 .. Len(Signals)
      BY DEF Pending
    <3>. QED
      BY <1>2, <3>1, <3>2, Fixed DEF UsedUpTo
  <2>5. CASE RecordNonce(r)
    <3>. DEFINE p == Position(r)
                a == Artifact(r, Signals[p])
    <3>1. ~ bad[r] /\ at'[r] = p + 1 /\ spent[a] = {} /\ (a \in Approval => spent'[a] = {r})
      BY <2>5, RecordedNew DEF Current
    <3>2. /\ p \in Pending(r)
          /\ \A j \in Pending(r) : j < p + 1 => j < at[r] \/ j = p
      BY <2>5, PositionIsFirst DEF RecordNonce, TypeInv, AtWork
    <3>3. a \in Approval
      BY <3>2, PendingApproval
    <3>4. PICK n : n = at[r]
      OBVIOUS
    <3>5. UsedUpTo(r, n)
      BY <2>5, <3>1, <3>4 DEF UsedSoFar, RecordNonce
    <3>6. UsedUpTo(r, n)'
      BY <3>5, UsedKept
    <3>. HIDE DEF p, a
    <3>7. ASSUME NEW i \in Pending(r), i < p + 1
          PROVE  spent'[Artifact(r, Signals[i])] = {r}
      <4>1. CASE i < n
        BY <3>6, <4>1, Fixed DEF UsedUpTo, Holds
      <4>2. CASE i = p
        BY <3>1, <3>3, <4>2 DEF a
      <4>. QED
        BY <3>2, <3>4, <3>7, <4>1, <4>2
    <3>8. ASSUME NEW i \in Pending(r), i < n PROVE Artifact(r, Signals[i]) # a
      BY <3>1, <3>5, <3>8 DEF UsedUpTo, Holds
    <3>9. ASSUME NEW i \in Pending(r), i < p + 1, NEW j \in Pending(r), j < p + 1,
                 Artifact(r, Signals[i]) = Artifact(r, Signals[j])
          PROVE  i = j
      <4>1. (i < n \/ i = p) /\ (j < n \/ j = p)
        BY <3>2, <3>4, <3>9
      <4>2. CASE i < n /\ j < n
        BY <3>5, <3>9, <4>2 DEF UsedUpTo
      <4>3. CASE i < n /\ j = p
        BY <3>8, <3>9, <4>3 DEF a
      <4>4. CASE i = p /\ j < n
        BY <3>8, <3>9, <4>4 DEF a
      <4>. QED
        BY <4>1, <4>2, <4>3, <4>4
    <3>. QED
      BY <3>1, <3>7, <3>9, Fixed DEF UsedUpTo, Holds
  <2>6. CASE \/ Submit(r) \/ Release(r) \/ EndUse(r) \/ OtherVerifiers(r)
             \/ RecordNonceFails(r) \/ Crash(r)
    BY <1>1, <2>6 DEF Submit, Release, Begin, EndUse, OtherVerifiers, RecordNonceFails,
       Crash, Goto
  <2>7. CASE CheckOne(r)
    BY <2>7 DEF CheckOne
  <2>. QED
    BY <2>2, <2>3, <2>4, <2>5, <2>6, <2>7, Moves DEF Proceed, TypeInv
<1>5. AllUsed'
  <2>. SUFFICES ASSUME NEW r \in Request,
                       pc'[r] \in {"others", "authorized"} \/ stage'[r] = "release"
                PROVE  UsedUpTo(r, Len(Signals) + 1)'
    BY DEF AllUsed
  <2>1. CASE pc[r] \in {"others", "authorized"} \/ stage[r] = "release"
    BY <2>1, UsedKept DEF AllUsed
  <2>2. CASE ~ (pc[r] \in {"others", "authorized"} \/ stage[r] = "release")
    <3>1. EndUse(r) /\ ~ bad[r]
      <4>1. CASE UNCHANGED <<pc[r], stage[r], at[r], bad[r], prior[r], gone[r]>>
        BY <2>2, <4>1
      <4>2. CASE Submit(r) \/ CheckOne(r) \/ EndCheck(r) \/ UseOne(r)
        BY <1>1, <2>2, <4>2 DEF Submit, Begin, CheckOne, EndCheck, UseOne, Goto
      <4>3. CASE RecordNonce(r) \/ RecordNonceFails(r) \/ Crash(r)
        BY <1>1, <2>2, <4>3 DEF RecordNonce, RecordNonceFails, Crash, Goto
      <4>4. CASE Release(r) \/ OtherVerifiers(r)
        BY <2>2, <4>4 DEF Release, OtherVerifiers
      <4>5. CASE EndUse(r)
        BY <1>1, <2>2, <4>5 DEF EndUse, Goto
      <4>. QED
        BY <4>1, <4>2, <4>3, <4>4, <4>5, Moves DEF Proceed, TypeInv
    <3>2. UsedUpTo(r, at[r]) /\ \A i \in Pending(r) : i < at[r]
      BY <3>1, AllPast DEF EndUse, UsedSoFar, TypeInv
    <3>3. UsedUpTo(r, Len(Signals) + 1)
      BY <3>2 DEF UsedUpTo
    <3>. QED
      BY <3>3, UsedKept
  <2>. QED
    BY <2>1, <2>2
<1>. QED
  BY <1>3, <1>4, <1>5

LEMMA UseInit == Init => UseInv
BY DEF Init, UseInv, UseBeforeRelease, UsedSoFar, AllUsed

LEMMA UseAlways == Spec => []UseInv
<1>1. TypeInv /\ UseInv /\ [Next]_vars => UseInv'
  BY UseStep
<1>. QED
  BY <1>1, UseInit, TypeAlways, PTL DEF Spec

(* Whatever the interleaving of the requests and wherever one of them      *)
(* fails: an approval authorizes one signal of one request, because the    *)
(* primary key of consumed_approval_nonces lets one INSERT succeed; and a  *)
(* request that lacks an approval or holds a wrong one spends none,        *)
(* because pass 1 comes before pass 2.                                     *)
THEOREM ApprovalsSpentRightly == Spec => []SpentRightly
<1>1. ASSUME TypeInv, FitInv, UseInv PROVE ApprovalServesOnce
  <2>. SUFFICES ASSUME NEW r1 \in Request, NEW r2 \in Request,
                       Authorized(r1), Authorized(r2),
                       NEW s1 \in Declared(r1), NEW s2 \in Declared(r2),
                       Artifact(r1, s1) = Artifact(r2, s2)
                PROVE  r1 = r2 /\ s1 = s2
    BY DEF ApprovalServesOnce
  <2>1. /\ AllFit(r1) /\ UsedUpTo(r1, Len(Signals) + 1)
        /\ AllFit(r2) /\ UsedUpTo(r2, Len(Signals) + 1)
    BY <1>1 DEF Authorized, FitInv, PassedFit, UseInv, AllUsed
  <2>2. PICK i \in Pending(r1) : s1 = Signals[i]
    BY <1>1, <2>1, DeclaredIsPending
  <2>3. PICK j \in Pending(r2) : s2 = Signals[j]
    BY <1>1, <2>1, DeclaredIsPending
  <2>4. i < Len(Signals) + 1 /\ j < Len(Signals) + 1
    <3>1. Len(Signals) \in Nat
      BY ApprovalAssumption
    <3>2. i \in 1 .. Len(Signals) /\ j \in 1 .. Len(Signals)
      BY <1>1, PendingApproval
    <3>. QED
      BY <3>1, <3>2
  <2>5. r1 = r2
    BY <2>1, <2>2, <2>3, <2>4 DEF UsedUpTo, Holds
  <2>. QED
    BY <2>1, <2>2, <2>3, <2>4, <2>5 DEF UsedUpTo
<1>2. FitInv => UnfitSpendsNothing
  BY DEF FitInv, SpentFit, AllFit, UnfitSpendsNothing
<1>3. TypeInv /\ FitInv /\ UseInv => SpentRightly
  BY <1>1, <1>2 DEF SpentRightly
<1>. QED
  BY <1>3, TypeAlways, FitAlways, UseAlways, PTL

---------------------------------------------------------------------------
(* Revoked approvers.  A key that is revoked stays so, and the check at    *)
(* the release reads the key of every approval after it began.             *)

KeyOf(r, i) == Payload[Artifact(r, Signals[i])].key

GoneIsRevoked == \A r \in Request : \A k \in gone[r] : keys[k] = "revoked"
ExecutedAtRelease == \A r \in Request : pc[r] = "executed" => stage[r] = "release"
LiveSoFar == \A r \in Request : pc[r] = "check" /\ ~bad[r] =>
    \A i \in Pending(r) : i < at[r] => KeyOf(r, i) \notin gone[r]
AllLive == \A r \in Request :
    pc[r] \in {"others", "executed"} /\ stage[r] = "release" =>
        \A i \in Pending(r) : KeyOf(r, i) \notin gone[r]

RevokeInv == GoneIsRevoked /\ ExecutedAtRelease /\ LiveSoFar /\ AllLive

LEMMA RevokeStep == TypeInv /\ UseBeforeRelease /\ RevokeInv /\ [Next]_vars => RevokeInv'
<1>. SUFFICES ASSUME TypeInv, UseBeforeRelease, RevokeInv, [Next]_vars
              PROVE  RevokeInv'
  OBVIOUS
<1>. USE DEF RevokeInv
<1>1. /\ pc \in [Request -> Place] /\ stage \in [Request -> {"authorize", "release"}]
      /\ bad \in [Request -> BOOLEAN]
  BY DEF TypeInv, TypeOK, Place
<1>2. Len(Signals) \in Nat /\ at \in [Request -> 1 .. Len(Signals) + 1]
  BY ApprovalAssumption DEF TypeInv, TypeOK
<1>3. gone \in [Request -> SUBSET Key]
  BY DEF TypeInv, TypeOK
<1>4. GoneIsRevoked'
  <2>. SUFFICES ASSUME NEW r \in Request, NEW k \in gone'[r]
                PROVE  keys'[k] = "revoked"
    BY DEF GoneIsRevoked
  <2>1. k \in Key /\ keys[k] = "revoked"
    <3>1. CASE Release(r)
      BY <1>3, <3>1 DEF Release
    <3>2. CASE gone'[r] = gone[r]
      BY <1>3, <3>2 DEF GoneIsRevoked
    <3>. QED
      BY <3>1, <3>2, Moves DEF TypeInv, Submit, Proceed, CheckOne, EndCheck, UseOne,
         RecordNonce, EndUse, OtherVerifiers, RecordNonceFails, Crash
  <2>2. keys \in [Key -> {"unknown", "active", "revoked"}]
    BY DEF TypeInv, TypeOK
  <2>3. ASSUME NEW l \in Key, AddKey(l) \/ RevokeKey(l) PROVE keys'[k] = "revoked"
    BY <2>1, <2>2, <2>3 DEF AddKey, RevokeKey
  <2>4. CASE UNCHANGED keys
    BY <2>1, <2>4
  <2>. QED
    BY <2>3, <2>4 DEF Next, vars, Expire, Submit, Proceed, CheckOne, EndCheck, UseOne,
       RecordNonce, RecordNonceFails, EndUse, OtherVerifiers, Release, Crash, Done
<1>5. ExecutedAtRelease'
  <2>. SUFFICES ASSUME NEW r \in Request, pc'[r] = "executed"
                PROVE  stage'[r] = "release"
    BY DEF ExecutedAtRelease
  <2>1. CASE UNCHANGED <<pc[r], stage[r], at[r], bad[r], prior[r], gone[r]>>
    BY <2>1 DEF ExecutedAtRelease
  <2>2. CASE \/ Submit(r) \/ Release(r) \/ CheckOne(r) \/ EndCheck(r) \/ UseOne(r)
             \/ RecordNonce(r) \/ EndUse(r) \/ RecordNonceFails(r) \/ Crash(r)
    BY <1>1, <2>2 DEF Submit, Release, Begin, CheckOne, EndCheck, UseOne, RecordNonce, EndUse,
       RecordNonceFails, Crash, Goto
  <2>3. CASE OtherVerifiers(r)
    BY <1>1, <2>3 DEF OtherVerifiers, Goto
  <2>. QED
    BY <2>1, <2>2, <2>3, Moves DEF Proceed, TypeInv
<1>6. LiveSoFar'
  <2>. SUFFICES ASSUME NEW r \in Request, pc'[r] = "check", ~ bad'[r]
                PROVE  \A i \in Pending(r) : i < at'[r] => KeyOf(r, i) \notin gone'[r]
    BY Fixed DEF LiveSoFar, KeyOf
  <2>1. CASE UNCHANGED <<pc[r], stage[r], at[r], bad[r], prior[r], gone[r]>>
    BY <2>1 DEF LiveSoFar
  <2>2. CASE Submit(r) \/ Release(r)
    <3>1. at'[r] = 1
      BY <1>2, <2>2 DEF Submit, Release, Begin, Rewind
    <3>2. \A i \in Pending(r) : i \in 1 .. Len(Signals)
      BY DEF Pending
    <3>. QED
      BY <1>2, <3>1, <3>2
  <2>3. CASE CheckOne(r)
    <3>1. /\ ~ bad[r] /\ pc[r] = "check" /\ gone'[r] = gone[r]
          /\ keys[KeyOf(r, Position(r))] = "active"
          /\ at'[r] = Position(r) + 1
      BY <2>3, CheckPassed DEF CheckOne, Passes, Current, KeyOf
    <3>2. KeyOf(r, Position(r)) \notin gone[r]
      BY <3>1 DEF GoneIsRevoked
    <3>3. \A j \in Pending(r) : j < Position(r) + 1 => j < at[r] \/ j = Position(r)
      BY <2>3, PositionIsFirst DEF CheckOne, AtEnd, TypeInv
    <3>. QED
      BY <3>1, <3>2, <3>3 DEF LiveSoFar
  <2>4. CASE \/ EndCheck(r) \/ UseOne(r) \/ RecordNonce(r) \/ EndUse(r)
             \/ OtherVerifiers(r) \/ RecordNonceFails(r) \/ Crash(r)
    BY <1>1, <2>4 DEF EndCheck, UseOne, RecordNonce, EndUse, OtherVerifiers,
       RecordNonceFails, Crash, Goto
  <2>. QED
    BY <2>1, <2>2, <2>3, <2>4, Moves DEF Proceed, TypeInv
<1>7. AllLive'
  <2>. SUFFICES ASSUME NEW r \in Request, pc'[r] \in {"others", "executed"},
                       stage'[r] = "release"
                PROVE  \A i \in Pending(r) : KeyOf(r, i) \notin gone'[r]
    BY Fixed DEF AllLive, KeyOf
  <2>1. CASE UNCHANGED <<pc[r], stage[r], at[r], bad[r], prior[r], gone[r]>>
    BY <2>1 DEF AllLive
  <2>2. CASE EndCheck(r)
    <3>1. pc[r] = "check" /\ ~ bad[r] /\ gone'[r] = gone[r]
      BY <1>1, <2>2 DEF EndCheck, Goto
    <3>2. \A i \in Pending(r) : i < at[r]
      BY <2>2, AllPast DEF EndCheck, TypeInv
    <3>. QED
      BY <3>1, <3>2 DEF LiveSoFar
  <2>3. CASE OtherVerifiers(r)
    BY <2>3 DEF OtherVerifiers, AllLive
  <2>4. CASE EndUse(r)
    BY <2>4 DEF EndUse, UseBeforeRelease
  <2>5. CASE \/ Submit(r) \/ Release(r) \/ CheckOne(r) \/ UseOne(r) \/ RecordNonce(r)
             \/ RecordNonceFails(r) \/ Crash(r)
    BY <1>1, <2>5 DEF Submit, Release, Begin, CheckOne, UseOne, RecordNonce,
       RecordNonceFails, Crash, Goto
  <2>. QED
    BY <2>1, <2>2, <2>3, <2>4, <2>5, Moves DEF Proceed, TypeInv
<1>. QED
  BY <1>4, <1>5, <1>6, <1>7

LEMMA RevokeInit == Init => RevokeInv
BY DEF Init, RevokeInv, GoneIsRevoked, ExecutedAtRelease, LiveSoFar, AllLive

LEMMA RevokeAlways == Spec => []RevokeInv
<1>1. TypeInv /\ UseBeforeRelease /\ RevokeInv /\ [Next]_vars => RevokeInv'
  BY RevokeStep
<1>2. UseInv => UseBeforeRelease
  BY DEF UseInv
<1>. QED
  BY <1>1, <1>2, RevokeInit, TypeAlways, UseAlways, PTL DEF Spec

(* A request is not executed on the approval of an approver whose key was  *)
(* revoked before the gateway began to verify the request's signals again: *)
(* the second verification looks every key up anew.                        *)
THEOREM RevokedIsNotReleased == Spec => []RevokedNotReleased
<1>1. ASSUME TypeInv, FitInv, RevokeInv PROVE RevokedNotReleased
  <2>. SUFFICES ASSUME NEW r \in Request, pc[r] = "executed", NEW s \in Declared(r)
                PROVE  Payload[Artifact(r, s)].key \notin gone[r]
    BY DEF RevokedNotReleased
  <2>1. AllFit(r) /\ \A i \in Pending(r) : KeyOf(r, i) \notin gone[r]
    BY <1>1 DEF FitInv, PassedFit, RevokeInv, ExecutedAtRelease, AllLive
  <2>2. PICK i \in Pending(r) : s = Signals[i]
    BY <1>1, <2>1, DeclaredIsPending
  <2>. QED
    BY <2>1, <2>2 DEF KeyOf
<1>2. TypeInv /\ FitInv /\ RevokeInv => RevokedNotReleased
  BY <1>1
<1>. QED
  BY <1>2, TypeAlways, FitAlways, RevokeAlways, PTL

==========================================================================

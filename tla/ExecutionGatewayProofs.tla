---------------------- MODULE ExecutionGatewayProofs ----------------------
(***************************************************************************)
(* Proofs about ExecutionGateway, for any number of authorizations and     *)
(* calls, any lifetimes and any number of faults and policy changes.       *)
(***************************************************************************)
EXTENDS ExecutionGateway, TLAPS

---------------------------------------------------------------------------
(* Type correctness.  A consumed session or credential has an expiry time  *)
(* that was computed from the clock, so the clock bounds them all.         *)

LEMMA TypeInit == Init => TypeOK
BY GatewayAssumption
   DEF Init, TypeOK, Times, Label, Ended

LEMMA GotoType ==
    ASSUME TypeOK, NEW c \in Call, NEW label \in Label, Goto(c, label)
    PROVE  pc' \in [Call -> Label]
BY DEF TypeOK, Goto

LEMMA FaultType ==
    ASSUME TypeOK, Fault \/ NoFault
    PROVE  faults' \in 0 .. MaxFaults
BY GatewayAssumption DEF TypeOK, Fault, NoFault

LEMMA AppendType ==
    ASSUME TypeOK, NEW c \in Call, NEW by \in Writer,
           NEW type \in {"session.created", "execution.completed", "execution.rejected"},
           Append1(c, by, type)
    PROVE  chain' \in [Auth -> Seq(Event)]
<1>. DEFINE e == [call |-> c, by |-> by, type |-> type]
<1>1. e \in Event
  BY DEF Event
<1>2. arg[c] \in Auth /\ chain \in [Auth -> Seq(Event)]
  BY DEF TypeOK
<1>3. Append(chain[arg[c]], e) \in Seq(Event)
  BY <1>1, <1>2
<1>. QED
  BY <1>2, <1>3 DEF Append1

LEMMA RecordType ==
    ASSUME TypeOK, NEW c \in Call, NEW by \in Writer,
           NEW type \in {"session.created", "execution.completed", "execution.rejected"},
           NEW next \in Label, NEW onError \in Label,
           Record(c, by, type, next, onError)
    PROVE  TypeOK'
<1>1. chain' \in [Auth -> Seq(Event)]
  BY AppendType, SMTT(30) DEF Record, TypeOK
<1>2. pc' \in [Call -> Label]
  BY GotoType DEF Record
<1>3. faults' \in 0 .. MaxFaults
  BY FaultType DEF Record
<1>. QED
  BY <1>1, <1>2, <1>3
     DEF Record, TypeOK, authVars, policyVars, sessionVars, credentialVars

LEMMA TypeStep == TypeOK /\ [Next]_vars => TypeOK'
<1>. SUFFICES ASSUME TypeOK, [Next]_vars PROVE TypeOK'
  OBVIOUS
<1>. USE DEF authVars, policyVars, sessionVars, credentialVars
<1>1. CASE UNCHANGED vars
  BY <1>1 DEF vars, TypeOK
<1>2. CASE Tick \/ ApproveChange \/ SaveLivePolicy
  BY <1>2, GatewayAssumption DEF Tick, ApproveChange, SaveLivePolicy, TypeOK
<1>3. ASSUME NEW a \in Auth, Authorize(a) PROVE TypeOK'
  BY <1>3, GatewayAssumption DEF Authorize, TypeOK, Times
<1>4. ASSUME NEW c \in Call, Deliver(c) \/ CallStep(c) \/ Crash(c)
      PROVE  TypeOK'
  <2>1. CASE Deliver(c)
    BY <2>1, GotoType DEF Deliver, TypeOK, Label, Ended
  <2>2. CASE CheckPolicy(c) \/ CheckGovernance(c) \/ CheckSignals(c) \/ Crash(c)
    <3>1. pc' \in [Call -> Label]
      BY <2>2, GotoType DEF CheckPolicy, CheckGovernance, CheckSignals, Crash, Label, Ended
    <3>2. faults' \in 0 .. MaxFaults
      BY <2>2, FaultType DEF CheckPolicy, CheckGovernance, CheckSignals, Crash, NoFault
    <3>. QED
      BY <2>2, <3>1, <3>2 DEF CheckPolicy, CheckGovernance, CheckSignals, Crash, TypeOK
  <2>3. CASE ConsumeNonce(c)
    <3>1. pc' \in [Call -> Label] /\ faults' \in 0 .. MaxFaults
      BY <2>3, GotoType, FaultType DEF ConsumeNonce, Label, Ended
    <3>. QED
      BY <2>3, <3>1 DEF ConsumeNonce, CheckAndRecord, TypeOK
  <2>4. CASE OpenSession(c)
    <3>1. pc' \in [Call -> Label]
      BY <2>4, GotoType DEF OpenSession, Label, Ended
    <3>2. session' \in [Call -> {"none", "open", "used"}]
      BY <2>4 DEF OpenSession, TypeOK
    <3>3. /\ now + SessionLifetime \in Times /\ expires[arg[c]] \in Times
          /\ sessionEnd \in [Call -> Times]
      BY GatewayAssumption DEF TypeOK, Times
    <3>4. sessionEnd' \in [Call -> Times]
      BY <2>4, <3>3 DEF OpenSession
    <3>. QED
      BY <2>4, <3>1, <3>2, <3>4 DEF OpenSession, TypeOK
  <2>5. CASE RecordSession(c) \/ RecordConnectorOutcome(c) \/ RecordControlOutcome(c)
    BY <2>5, RecordType DEF RecordSession, RecordConnectorOutcome,
       RecordControlOutcome, Label, Ended, Writer
  <2>6. CASE AssertAllowed(c)
    <3>1. pc' \in [Call -> Label]
      BY <2>6, GotoType DEF AssertAllowed, Label
    <3>. QED
      BY <2>6, <3>1 DEF AssertAllowed, TypeOK
  <2>7. CASE IssueCredential(c) \/ ConsumeCredential(c)
    <3>1. pc' \in [Call -> Label] /\ faults' \in 0 .. MaxFaults
      BY <2>7, GotoType, FaultType DEF IssueCredential, ConsumeCredential, Label
    <3>2. credential' \in [Call -> {"none", "issued", "used", "revoked"}]
      BY <2>7 DEF IssueCredential, ConsumeCredential, TypeOK
    <3>3. now + CredentialLifetime \in Times /\ credentialEnd \in [Call -> Times]
      BY GatewayAssumption DEF TypeOK, Times
    <3>4. credentialEnd' \in [Call -> Times]
      BY <2>7, <3>3 DEF IssueCredential, ConsumeCredential
    <3>. QED
      BY <2>7, <3>1, <3>2, <3>4 DEF IssueCredential, ConsumeCredential, TypeOK
  <2>8. CASE RunExecutor(c)
    <3>1. pc' \in [Call -> Label]
      BY <2>8, GotoType DEF RunExecutor, Label
    <3>2. performed' \in [Auth -> Nat]
      <4>1. performed \in [Auth -> Nat] /\ arg[c] \in Auth
        BY DEF TypeOK
      <4>. QED
        BY <2>8, <4>1 DEF RunExecutor
    <3>3. ran' \in [Call -> BOOLEAN]
      BY <2>8 DEF RunExecutor, TypeOK
    <3>. QED
      BY <2>8, <3>1, <3>2, <3>3 DEF RunExecutor, TypeOK
  <2>9. CASE RevokeCredential(c)
    <3>1. pc' \in [Call -> Label]
      BY <2>9, GotoType DEF RevokeCredential, Label
    <3>. QED
      BY <2>9, <3>1 DEF RevokeCredential, TypeOK
  <2>. QED
    BY <1>4, <2>1, <2>2, <2>3, <2>4, <2>5, <2>6, <2>7, <2>8, <2>9
       DEF CallStep
<1>. QED
  BY <1>1, <1>2, <1>3, <1>4 DEF Next

LEMMA TypeAlways == Spec => []TypeOK
BY TypeInit, TypeStep, PTL DEF Spec

(* Every variable keeps its type: a call is always at a label of the code, *)
(* and no expiry exceeds what the clock and the lifetimes allow.           *)
THEOREM GatewayTypes == Spec => []TypeOK
BY TypeAlways

---------------------------------------------------------------------------
(***************************************************************************)
(* One execution per authorization.  Only the call that consumed the nonce *)
(* holds the release: a call between the nonce and the connector, or one   *)
(* whose executor ran, is the only such call of its authorization.         *)
(***************************************************************************)
PreRun == {"resolve", "created", "allow", "issue", "consume", "run"}
Fresh == {"idle", "policy", "governance", "signals", "nonce"} \cup PreRun

Holds(c) == pc[c] \in PreRun \/ ran[c]

HolderConsumed == \A c \in Call : Holds(c) => arg[c] \in nonces
OneHolder ==
    \A c, d \in Call : Holds(c) /\ Holds(d) /\ arg[c] = arg[d] => c = d
FreshDidNotRun == \A c \in Call : pc[c] \in Fresh => ~ran[c]
PerformedByHolder ==
    \A a \in Auth : performed[a] > 0 => \E c \in Call : ran[c] /\ arg[c] = a

NonceInv ==
    /\ TypeOK
    /\ HolderConsumed
    /\ OneHolder
    /\ FreshDidNotRun
    /\ PerformedByHolder
    /\ PerformedOnce

LEMMA NonceInit == Init => NonceInv
<1>. SUFFICES ASSUME Init PROVE NonceInv
  OBVIOUS
<1>1. TypeOK
  BY TypeInit
<1>2. \A c \in Call : ~Holds(c) /\ ~ran[c]
  BY DEF Init, Holds, PreRun
<1>3. HolderConsumed /\ OneHolder /\ FreshDidNotRun
  BY <1>2 DEF HolderConsumed, OneHolder, FreshDidNotRun
<1>4. PerformedByHolder /\ PerformedOnce
  BY DEF Init, PerformedByHolder, PerformedOnce
<1>. QED
  BY <1>1, <1>3, <1>4 DEF NonceInv

(* A step that neither consumes a nonce nor runs an executor. *)
LEMMA NonceFrame ==
    ASSUME NonceInv, TypeOK', UNCHANGED <<nonces, performed, ran, arg>>,
           \A d \in Call : /\ pc'[d] \in PreRun => pc[d] \in PreRun
                           /\ pc'[d] \in Fresh => pc[d] \in Fresh
    PROVE  NonceInv'
<1>. USE DEF NonceInv
<1>1. \A d \in Call : Holds(d)' => Holds(d)
  BY DEF Holds
<1>2. HolderConsumed' /\ OneHolder'
  BY <1>1 DEF HolderConsumed, OneHolder
<1>3. FreshDidNotRun'
  BY DEF FreshDidNotRun
<1>4. PerformedByHolder' /\ PerformedOnce'
  BY DEF PerformedByHolder, PerformedOnce
<1>. QED
  BY <1>2, <1>3, <1>4

LEMMA NonceStep == NonceInv /\ [Next]_vars => NonceInv'
<1>. SUFFICES ASSUME NonceInv, [Next]_vars PROVE NonceInv'
  OBVIOUS
<1>0. TypeOK /\ TypeOK'
  BY TypeStep DEF NonceInv
<1>1. CASE UNCHANGED vars \/ Tick \/ ApproveChange \/ SaveLivePolicy
           \/ \E a \in Auth : Authorize(a)
  BY <1>0, <1>1, NonceFrame
     DEF vars, Tick, ApproveChange, SaveLivePolicy, Authorize
<1>2. ASSUME NEW c \in Call, Deliver(c) \/ CallStep(c) \/ Crash(c)
      PROVE  NonceInv'
  <2>0. pc \in [Call -> Label]
    BY <1>0 DEF TypeOK
  <2>1. CASE ConsumeNonce(c)
    <3>1. CASE UNCHANGED nonces \/ ~Goto(c, "resolve")
      <4>1. Goto(c, "failed") \/ (CheckAndRecord(arg[c]) /\ Goto(c, "resolve"))
        BY <2>1 DEF ConsumeNonce
      <4>2. CASE Goto(c, "failed")
        <5>1. /\ \A d \in Call : /\ pc'[d] \in PreRun => pc[d] \in PreRun
                                 /\ pc'[d] \in Fresh => pc[d] \in Fresh
              /\ UNCHANGED <<performed, ran, arg>>
              /\ nonces \subseteq nonces'
          BY <2>0, <2>1, <4>2 DEF ConsumeNonce, CheckAndRecord, Goto, PreRun, Fresh
        <5>2. \A d \in Call : Holds(d)' => Holds(d)
          BY <5>1 DEF Holds
        <5>3. HolderConsumed' /\ OneHolder'
          BY <5>1, <5>2 DEF NonceInv, HolderConsumed, OneHolder
        <5>4. FreshDidNotRun' /\ PerformedByHolder' /\ PerformedOnce'
          BY <5>1 DEF NonceInv, FreshDidNotRun, PerformedByHolder, PerformedOnce
        <5>. QED
          BY <1>0, <5>3, <5>4 DEF NonceInv
      <4>. QED
        BY <3>1, <4>1, <4>2 DEF CheckAndRecord
    <3>2. CASE CheckAndRecord(arg[c]) /\ Goto(c, "resolve")
      <4>1. /\ pc[c] = "nonce" /\ arg[c] \notin nonces
            /\ nonces' = nonces \cup {arg[c]}
            /\ pc' = [pc EXCEPT ![c] = "resolve"]
            /\ UNCHANGED <<performed, ran, arg>>
        BY <2>1, <3>2 DEF ConsumeNonce, CheckAndRecord, Goto
      <4>2. \A d \in Call : Holds(d) => arg[d] # arg[c]
        BY <4>1 DEF NonceInv, HolderConsumed
      <4>3. \A d \in Call : Holds(d)' => d = c \/ Holds(d)
        BY <2>0, <4>1 DEF Holds
      <4>4. HolderConsumed' /\ OneHolder'
        BY <4>1, <4>2, <4>3 DEF NonceInv, HolderConsumed, OneHolder
      <4>5. FreshDidNotRun'
        BY <2>0, <4>1 DEF NonceInv, FreshDidNotRun, Fresh, PreRun
      <4>6. PerformedByHolder' /\ PerformedOnce'
        BY <4>1 DEF NonceInv, PerformedByHolder, PerformedOnce
      <4>. QED
        BY <1>0, <4>4, <4>5, <4>6 DEF NonceInv
    <3>. QED
      BY <2>1, <3>1, <3>2 DEF ConsumeNonce
  <2>2. CASE RunExecutor(c)
    <3>0. /\ pc[c] = "run" /\ UNCHANGED <<nonces, arg>>
          /\ pc' = [pc EXCEPT ![c] = "revoke_ok"] \/ pc' = [pc EXCEPT ![c] = "revoke_bad"]
          /\ arg[c] \in Auth /\ performed \in [Auth -> Nat] /\ ran \in [Call -> BOOLEAN]
      BY <1>0, <2>2 DEF RunExecutor, Goto, TypeOK
    <3>1. CASE UNCHANGED <<performed, ran>>
      BY <1>0, <2>0, <3>0, <3>1, NonceFrame DEF PreRun, Fresh
    <3>2. CASE /\ performed' = [performed EXCEPT ![arg[c]] = @ + 1]
               /\ ran' = [ran EXCEPT ![c] = TRUE]
      <4>1. Holds(c) /\ ~ran[c]
        BY <3>0 DEF Holds, PreRun, NonceInv, FreshDidNotRun, Fresh
      <4>2. performed[arg[c]] = 0
        BY <3>0, <4>1 DEF NonceInv, PerformedByHolder, OneHolder, Holds
      <4>3. \A d \in Call : Holds(d)' => Holds(d)
        BY <2>0, <3>0, <3>2, <4>1 DEF Holds, PreRun
      <4>4. HolderConsumed' /\ OneHolder'
        BY <3>0, <4>3 DEF NonceInv, HolderConsumed, OneHolder
      <4>5. FreshDidNotRun'
        BY <2>0, <3>0, <3>2 DEF NonceInv, FreshDidNotRun, Fresh, PreRun
      <4>6. PerformedByHolder'
        BY <3>0, <3>2 DEF NonceInv, PerformedByHolder
      <4>7. PerformedOnce'
        BY <3>0, <3>2, <4>2 DEF NonceInv, PerformedOnce
      <4>. QED
        BY <1>0, <4>4, <4>5, <4>6, <4>7 DEF NonceInv
    <3>. QED
      BY <2>2, <3>1, <3>2 DEF RunExecutor
  <2>3. CASE Deliver(c) \/ Crash(c) \/ (CallStep(c) /\ ~ConsumeNonce(c) /\ ~RunExecutor(c))
    <3>1. /\ UNCHANGED <<nonces, performed, ran, arg>>
          /\ \E label \in Label :
                /\ pc' = [pc EXCEPT ![c] = label]
                /\ label \in PreRun => pc[c] \in PreRun
                /\ label \in Fresh => pc[c] \in Fresh
      BY <2>3 DEF Deliver, Crash, CallStep, CheckPolicy, CheckGovernance, CheckSignals,
         OpenSession, RecordSession, AssertAllowed, IssueCredential, ConsumeCredential,
         RevokeCredential, RecordConnectorOutcome, RecordControlOutcome, Record, Goto,
         Label, Ended, PreRun, Fresh
    <3>. QED
      BY <1>0, <2>0, <3>1, NonceFrame
  <2>. QED
    BY <1>2, <2>1, <2>2, <2>3
<1>. QED
  BY <1>1, <1>2 DEF Next

LEMMA NonceAlways == Spec => []NonceInv
BY NonceInit, NonceStep, PTL DEF Spec

(* However many calls present an authorization, and whatever is lost or    *)
(* crashes on the way, the nonce store lets its action be performed once.  *)
THEOREM AtMostOnePerformance == Spec => []PerformedOnce
<1>1. NonceInv => PerformedOnce
  BY DEF NonceInv
<1>. QED
  BY <1>1, NonceAlways, PTL

---------------------------------------------------------------------------
(***************************************************************************)
(* Superseded policies.  Past its governance check a call carries an       *)
(* authorization signed for a policy at least as new as the one approved   *)
(* when it arrived, and nothing changes what was signed once it arrived.   *)
(***************************************************************************)
Checked == {"signals", "nonce"} \cup PreRun

SinceIsPast == \A c \in Call : since[c] <= approved
ArrivedIsSigned == \A c \in Call : pc[c] # "idle" => expires[arg[c]] # 0
CheckedIsCurrent ==
    \A c \in Call : pc[c] \in Checked \/ ran[c] => signedFor[arg[c]] >= since[c]

PolicyInv ==
    /\ NonceInv
    /\ SinceIsPast
    /\ ArrivedIsSigned
    /\ CheckedIsCurrent

LEMMA PolicyInit == Init => PolicyInv
<1>. SUFFICES ASSUME Init PROVE PolicyInv
  OBVIOUS
<1>1. NonceInv
  BY NonceInit
<1>. QED
  BY <1>1 DEF Init, PolicyInv, SinceIsPast, ArrivedIsSigned, CheckedIsCurrent,
     Checked, PreRun

LEMMA PolicyStep == PolicyInv /\ [Next]_vars => PolicyInv'
<1>. SUFFICES ASSUME PolicyInv, [Next]_vars PROVE PolicyInv'
  OBVIOUS
<1>0. TypeOK /\ NonceInv /\ NonceInv' /\ TypeOK'
  BY NonceStep, TypeStep DEF PolicyInv, NonceInv
<1>1. CASE UNCHANGED vars \/ Tick \/ SaveLivePolicy
  BY <1>0, <1>1
     DEF vars, authVars, policyVars, Tick, SaveLivePolicy, PolicyInv,
         SinceIsPast, ArrivedIsSigned, CheckedIsCurrent
<1>2. CASE ApproveChange
  BY <1>0, <1>2
     DEF authVars, ApproveChange, PolicyInv, TypeOK,
         SinceIsPast, ArrivedIsSigned, CheckedIsCurrent
<1>3. ASSUME NEW a \in Auth, Authorize(a) PROVE PolicyInv'
  <2>1. /\ UNCHANGED <<approved, since, pc, arg, ran>>
        /\ expires[a] = 0
        /\ expires' = [expires EXCEPT ![a] = now + Ttl]
        /\ \A b \in Auth \ {a} : signedFor'[b] = signedFor[b]
        /\ expires \in [Auth -> Times] /\ arg \in [Call -> Auth]
        /\ now + Ttl # 0
    BY <1>0, <1>3, GatewayAssumption DEF Authorize, TypeOK, policyVars
  <2>2. \A c \in Call : pc[c] # "idle" => arg[c] # a
    BY <2>1 DEF PolicyInv, ArrivedIsSigned
  <2>3. \A c \in Call : pc[c] \in Checked \/ ran[c] => pc[c] # "idle"
    BY <1>0 DEF NonceInv, FreshDidNotRun, Fresh, Checked, PreRun
  <2>4. SinceIsPast' /\ ArrivedIsSigned'
    BY <2>1 DEF PolicyInv, SinceIsPast, ArrivedIsSigned
  <2>5. CheckedIsCurrent'
    BY <2>1, <2>2, <2>3 DEF PolicyInv, CheckedIsCurrent
  <2>. QED
    BY <1>0, <2>4, <2>5 DEF PolicyInv
<1>4. ASSUME NEW c \in Call, Deliver(c) \/ CallStep(c) \/ Crash(c)
      PROVE  PolicyInv'
  <2>0. /\ UNCHANGED <<approved, expires, signedFor, arg>>
        /\ pc \in [Call -> Label] /\ since \in [Call -> 0 .. MaxPolicy]
        /\ ran \in [Call -> BOOLEAN] /\ approved \in 0 .. MaxPolicy
        /\ signedFor \in [Auth -> 0 .. MaxPolicy] /\ arg \in [Call -> Auth]
    BY <1>0, <1>4 DEF TypeOK, authVars, policyVars, Deliver, Crash, CallStep, CheckPolicy,
       CheckGovernance, CheckSignals, ConsumeNonce, OpenSession, RecordSession,
       AssertAllowed, IssueCredential, ConsumeCredential, RunExecutor,
       RevokeCredential, RecordConnectorOutcome, RecordControlOutcome, Record
  <2>1. CASE Deliver(c)
    <3>1. /\ pc[c] = "idle" /\ expires[arg[c]] # 0 /\ UNCHANGED ran
          /\ since' = [since EXCEPT ![c] = approved]
          /\ pc' = [pc EXCEPT ![c] = "policy"] \/ pc' = [pc EXCEPT ![c] = "failed"]
      BY <2>1 DEF Deliver, Goto
    <3>2. ~ran[c]
      BY <1>0, <3>1 DEF NonceInv, FreshDidNotRun, Fresh
    <3>3. SinceIsPast' /\ ArrivedIsSigned'
      BY <2>0, <3>1 DEF PolicyInv, SinceIsPast, ArrivedIsSigned
    <3>4. CheckedIsCurrent'
      BY <2>0, <3>1, <3>2 DEF PolicyInv, CheckedIsCurrent, Checked, PreRun
    <3>. QED
      BY <1>0, <3>3, <3>4 DEF PolicyInv
  <2>2. CASE CheckGovernance(c)
    <3>1. /\ pc[c] = "governance" /\ UNCHANGED <<ran, since>>
          /\ \/ approved = signedFor[arg[c]] /\ pc' = [pc EXCEPT ![c] = "signals"]
             \/ pc' = [pc EXCEPT ![c] = "failed"]
      BY <2>2 DEF CheckGovernance, Goto
    <3>2. SinceIsPast' /\ ArrivedIsSigned'
      BY <2>0, <3>1 DEF PolicyInv, SinceIsPast, ArrivedIsSigned
    <3>3. CheckedIsCurrent'
      BY <2>0, <3>1 DEF PolicyInv, SinceIsPast, CheckedIsCurrent, Checked, PreRun
    <3>. QED
      BY <1>0, <3>2, <3>3 DEF PolicyInv
  <2>3. CASE ~Deliver(c) /\ ~CheckGovernance(c)
    <3>1. /\ UNCHANGED since
          /\ \A d \in Call : ran'[d] => ran[d] \/ (d = c /\ pc[c] = "run")
          /\ \E label \in Label :
                /\ pc' = [pc EXCEPT ![c] = label]
                /\ label \in Checked => pc[c] \in Checked
                /\ pc[c] # "idle"
      <4>1. CASE RunExecutor(c)
        BY <2>0, <4>1 DEF RunExecutor, Goto, Label, Checked, PreRun
      <4>2. CASE Crash(c) \/ (CallStep(c) /\ ~CheckGovernance(c) /\ ~RunExecutor(c))
        BY <4>2 DEF Crash, CallStep, CheckPolicy, CheckSignals,
           ConsumeNonce, OpenSession, RecordSession, AssertAllowed, IssueCredential,
           ConsumeCredential, RevokeCredential, RecordConnectorOutcome,
           RecordControlOutcome, Record, Goto, Label, Ended, Checked, PreRun
      <4>. QED
        BY <1>4, <2>3, <4>1, <4>2
    <3>2. SinceIsPast' /\ ArrivedIsSigned'
      BY <2>0, <3>1 DEF PolicyInv, SinceIsPast, ArrivedIsSigned
    <3>3. CheckedIsCurrent'
      BY <2>0, <3>1 DEF PolicyInv, CheckedIsCurrent, Checked, PreRun
    <3>. QED
      BY <1>0, <3>2, <3>3 DEF PolicyInv
  <2>. QED
    BY <2>1, <2>2, <2>3
<1>. QED
  BY <1>1, <1>2, <1>3, <1>4 DEF Next

(* An authorization signed under a policy whose successor was approved     *)
(* before the call arrived never reaches the connector: the approval       *)
(* records are read after the live policy, so the window between the       *)
(* approval and the saved policy is covered.                               *)
THEOREM SupersededNeverExecutes == Spec => []SupersededNotExecuted
<1>1. PolicyInv => SupersededNotExecuted
  BY DEF PolicyInv, CheckedIsCurrent, SupersededNotExecuted
<1>. QED
  BY <1>1, PolicyInit, PolicyStep, PTL DEF Spec

---------------------------------------------------------------------------
(***************************************************************************)
(* The audit chain.  What a call's label promises of the chain: past its   *)
(* session the session event is stored, past a completed outcome the       *)
(* executor ran and the connector's event is stored.                       *)
(***************************************************************************)
InSession == {"allow", "issue", "consume", "run", "revoke_ok", "revoke_bad",
              "completed", "rejected", "s_completed", "s_rejected"}
Succeeded == {"revoke_ok", "completed", "s_completed", "done"}

Stored(a, c, w, type) ==
    \E i \in Events(a) : chain[a][i] = [call |-> c, by |-> w, type |-> type]

SessionStored ==
    \A c \in Call : pc[c] \in InSession =>
        Stored(arg[c], c, "control", "session.created")
SucceededRan == \A c \in Call : pc[c] \in Succeeded => ran[c]
ConnectorStored ==
    \A c \in Call : pc[c] \in {"s_completed", "done"} =>
        Stored(arg[c], c, "connector", "execution.completed")
ControlStored ==
    \A c \in Call : pc[c] = "done" =>
        Stored(arg[c], c, "control", "execution.completed")

AuditInv ==
    /\ TypeOK
    /\ SessionStored
    /\ SucceededRan
    /\ ConnectorStored
    /\ ControlStored
    /\ OutcomeFollowsSession
    /\ CompletedWasPerformed

LEMMA AuditInit == Init => AuditInv
<1>. SUFFICES ASSUME Init PROVE AuditInv
  OBVIOUS
<1>1. TypeOK
  BY TypeInit
<1>2. \A a \in Auth : Events(a) = {}
  <2>. TAKE a \in Auth
  <2>1. chain[a] = <<>>
    BY DEF Init
  <2>2. Len(chain[a]) = 0
    BY <2>1
  <2>. QED
    BY <2>2 DEF Events
<1>. QED
  BY <1>1, <1>2 DEF Init, AuditInv, SessionStored, SucceededRan, ConnectorStored,
     ControlStored, OutcomeFollowsSession, CompletedWasPerformed, InSession, Succeeded

(* Appending to a chain keeps what it holds and adds one event at its end. *)
LEMMA Appended ==
    ASSUME TypeOK, NEW c \in Call, NEW by \in Writer,
           NEW type \in {"session.created", "execution.completed", "execution.rejected"},
           Append1(c, by, type)
    PROVE  /\ \A a \in Auth \ {arg[c]} : chain'[a] = chain[a]
           /\ Len(chain[arg[c]]) \in Nat
           /\ Len(chain'[arg[c]]) = Len(chain[arg[c]]) + 1
           /\ \A i \in Events(arg[c]) : chain'[arg[c]][i] = chain[arg[c]][i]
           /\ chain'[arg[c]][Len(chain[arg[c]]) + 1] =
                 [call |-> c, by |-> by, type |-> type]
<1>. DEFINE e == [call |-> c, by |-> by, type |-> type]
            s == chain[arg[c]]
<1>1. /\ arg[c] \in Auth /\ chain \in [Auth -> Seq(Event)] /\ s \in Seq(Event)
      /\ e \in Event
  BY DEF TypeOK, Event
<1>2. chain' = [chain EXCEPT ![arg[c]] = Append(s, e)]
  BY <1>1 DEF Append1
<1>3. chain'[arg[c]] = Append(s, e)
  BY <1>1, <1>2
<1>4. /\ Len(s) \in Nat /\ Len(Append(s, e)) = Len(s) + 1
      /\ \A i \in 1 .. Len(s) : Append(s, e)[i] = s[i]
      /\ Append(s, e)[Len(s) + 1] = e
  BY <1>1
<1>. QED
  BY <1>1, <1>2, <1>3, <1>4 DEF Events

(* What a step keeps of the chain and of the two invariants about it. *)
ChainKept ==
    /\ \A a \in Auth : \A d, w, type : Stored(a, d, w, type) => Stored(a, d, w, type)'
    /\ OutcomeFollowsSession'
    /\ CompletedWasPerformed'

LEMMA EventTypes ==
    ASSUME TypeOK, NEW a \in Auth, NEW i \in Events(a)
    PROVE  chain[a][i].call \in Call
<1>1. chain[a] \in Seq(Event)
  BY DEF TypeOK
<1>2. chain[a][i] \in Event
  BY <1>1 DEF Events
<1>. QED
  BY <1>2 DEF Event

LEMMA ChainSame ==
    ASSUME AuditInv, UNCHANGED chain, \A d \in Call : ran[d] => ran'[d]
    PROVE  ChainKept
<1>1. \A a \in Auth : \A i \in Events(a) : chain[a][i].call \in Call
  BY EventTypes DEF AuditInv
<1>2. OutcomeFollowsSession'
  BY DEF AuditInv, OutcomeFollowsSession, Events
<1>3. CompletedWasPerformed'
  BY <1>1 DEF AuditInv, CompletedWasPerformed, Events
<1>4. \A a \in Auth : \A d, w, type : Stored(a, d, w, type) => Stored(a, d, w, type)'
  BY DEF Stored, Events
<1>. QED
  BY <1>2, <1>3, <1>4 DEF ChainKept

(* An event is added behind its session, and "completed" by a call that    *)
(* ran.                                                                    *)
LEMMA ChainAppended ==
    ASSUME AuditInv, NEW c \in Call, NEW by \in Writer,
           NEW type \in {"session.created", "execution.completed", "execution.rejected"},
           Append1(c, by, type), UNCHANGED <<arg, ran>>,
           type # "session.created" => Stored(arg[c], c, "control", "session.created"),
           type = "execution.completed" => ran[c]
    PROVE  ChainKept /\ Stored(arg[c], c, by, type)'
<1>. DEFINE b == arg[c]
            n == Len(chain[b])
            e == [call |-> c, by |-> by, type |-> type]
<1>0. TypeOK /\ b \in Auth
  BY DEF AuditInv, TypeOK
<1>1. /\ \A a \in Auth \ {b} : chain'[a] = chain[a]
      /\ n \in Nat /\ Len(chain'[b]) = n + 1
      /\ \A i \in 1 .. n : chain'[b][i] = chain[b][i]
      /\ chain'[b][n + 1] = e
  BY <1>0, Appended DEF Events
<1>2. \A a \in Auth : Events(a)' = IF a = b THEN Events(a) \cup {n + 1} ELSE Events(a)
  <2>. TAKE a \in Auth
  <2>1. CASE a = b
    <3>1. Events(a)' = 1 .. n + 1 /\ Events(a) = 1 .. n
      BY <1>1, <2>1 DEF Events
    <3>2. 1 .. n + 1 = (1 .. n) \cup {n + 1}
      BY <1>1
    <3>. QED
      BY <2>1, <3>1, <3>2
  <2>2. CASE a # b
    BY <1>1, <2>2 DEF Events
  <2>. QED
    BY <2>1, <2>2
<1>3. \A a \in Auth : \A i \in Events(a) : chain'[a][i] = chain[a][i]
  BY <1>1 DEF Events
<1>4. \A a \in Auth : \A d, w, k : Stored(a, d, w, k) => Stored(a, d, w, k)'
  <2>. TAKE a \in Auth
  <2>. TAKE d, w, k
  <2>. HAVE Stored(a, d, w, k)
  <2>1. PICK i \in Events(a) : chain[a][i] = [call |-> d, by |-> w, type |-> k]
    BY DEF Stored
  <2>2. i \in Events(a)' /\ chain'[a][i] = [call |-> d, by |-> w, type |-> k]
    BY <1>2, <1>3, <2>1
  <2>. QED
    BY <2>2 DEF Stored, Events
<1>5. Stored(b, c, by, type)'
  <2>1. n + 1 \in Events(b)' /\ chain'[b][n + 1] = [call |-> c, by |-> by, type |-> type]
    BY <1>0, <1>1, <1>2
  <2>. QED
    BY <2>1 DEF Stored, Events
<1>6. CompletedWasPerformed'
  <2>. SUFFICES ASSUME NEW a \in Auth, NEW i \in Events(a)',
                       chain'[a][i].type = "execution.completed"
                PROVE  ran[chain'[a][i].call]
    BY DEF CompletedWasPerformed, Events
  <2>1. CASE i \in Events(a)
    BY <1>3, <2>1 DEF AuditInv, CompletedWasPerformed
  <2>2. CASE a = b /\ i = n + 1
    BY <1>1, <2>2
  <2>. QED
    BY <1>2, <2>1, <2>2
<1>7. OutcomeFollowsSession'
  <2>. SUFFICES ASSUME NEW a \in Auth, NEW i \in Events(a)',
                       chain'[a][i].type # "session.created"
                PROVE  \E j \in 1 .. i - 1 : /\ chain'[a][j].call = chain'[a][i].call
                                             /\ chain'[a][j].type = "session.created"
    BY DEF OutcomeFollowsSession, Events
  <2>1. CASE i \in Events(a)
    <3>1. PICK j \in 1 .. i - 1 : /\ chain[a][j].call = chain[a][i].call
                                  /\ chain[a][j].type = "session.created"
      BY <1>3, <2>1 DEF AuditInv, OutcomeFollowsSession
    <3>2. j \in Events(a)
      BY <1>1, <2>1 DEF Events
    <3>. QED
      BY <1>3, <2>1, <3>1, <3>2
  <2>2. CASE a = b /\ i = n + 1
    <3>1. Stored(b, c, "control", "session.created") /\ chain'[a][i].call = c
      BY <1>1, <2>2
    <3>2. PICK j \in Events(b) :
             chain[b][j] = [call |-> c, by |-> "control", type |-> "session.created"]
      BY <3>1 DEF Stored
    <3>3. chain'[b][j] = [call |-> c, by |-> "control", type |-> "session.created"]
      BY <1>0, <1>3, <3>2
    <3>4. j \in 1 .. i - 1
      BY <1>1, <2>2, <3>2 DEF Events
    <3>. QED
      BY <2>2, <3>1, <3>3, <3>4
  <2>. QED
    BY <1>2, <2>1, <2>2
<1>. QED
  BY <1>4, <1>5, <1>6, <1>7 DEF ChainKept

(* A call moves to a label whose promise it keeps. *)
LEMMA AuditMove ==
    ASSUME AuditInv, TypeOK', NEW c \in Call, NEW label, ChainKept,
           pc' = [pc EXCEPT ![c] = label], UNCHANGED arg,
           \A d \in Call : ran[d] => ran'[d],
           label \in InSession => Stored(arg[c], c, "control", "session.created")',
           label \in Succeeded => ran'[c],
           label \in {"s_completed", "done"} =>
               Stored(arg[c], c, "connector", "execution.completed")',
           label = "done" => Stored(arg[c], c, "control", "execution.completed")'
    PROVE  AuditInv'
<1>0. pc \in [Call -> Label] /\ arg \in [Call -> Auth]
  BY DEF AuditInv, TypeOK
<1>1. SessionStored'
  <2>. SUFFICES ASSUME NEW d \in Call, pc'[d] \in InSession
                PROVE  Stored(arg[d], d, "control", "session.created")'
    BY DEF SessionStored, Stored
  <2>. QED
    BY <1>0 DEF AuditInv, SessionStored, ChainKept
<1>2. SucceededRan'
  BY <1>0 DEF AuditInv, SucceededRan
<1>3. ConnectorStored'
  <2>. SUFFICES ASSUME NEW d \in Call, pc'[d] \in {"s_completed", "done"}
                PROVE  Stored(arg[d], d, "connector", "execution.completed")'
    BY DEF ConnectorStored, Stored
  <2>. QED
    BY <1>0 DEF AuditInv, ConnectorStored, ChainKept
<1>4. ControlStored'
  <2>. SUFFICES ASSUME NEW d \in Call, pc'[d] = "done"
                PROVE  Stored(arg[d], d, "control", "execution.completed")'
    BY DEF ControlStored, Stored
  <2>. QED
    BY <1>0 DEF AuditInv, ControlStored, ChainKept
<1>. QED
  BY <1>1, <1>2, <1>3, <1>4 DEF AuditInv, ChainKept

LEMMA AuditStep == AuditInv /\ [Next]_vars => AuditInv'
<1>. SUFFICES ASSUME AuditInv, [Next]_vars PROVE AuditInv'
  OBVIOUS
<1>0. TypeOK /\ TypeOK' /\ pc \in [Call -> Label]
  BY TypeStep DEF AuditInv, TypeOK
<1>1. CASE UNCHANGED vars \/ Tick \/ ApproveChange \/ SaveLivePolicy
           \/ \E a \in Auth : Authorize(a)
  <2>1. UNCHANGED <<chain, pc, arg, ran>>
    BY <1>1 DEF vars, Tick, ApproveChange, SaveLivePolicy, Authorize
  <2>2. ChainKept
    BY <2>1, ChainSame
  <2>3. SessionStored' /\ ConnectorStored' /\ ControlStored' /\ SucceededRan'
    BY <2>1 DEF AuditInv, SessionStored, ConnectorStored, ControlStored, SucceededRan,
       Stored, Events
  <2>. QED
    BY <1>0, <2>2, <2>3 DEF AuditInv, ChainKept
<1>2. ASSUME NEW c \in Call, Deliver(c) \/ CallStep(c) \/ Crash(c)
      PROVE  AuditInv'
  <2>0. /\ UNCHANGED arg /\ arg[c] \in Auth
        /\ \A d \in Call : ran[d] => ran'[d]
        /\ pc[c] \in InSession => Stored(arg[c], c, "control", "session.created")
        /\ pc[c] \in Succeeded => ran[c]
        /\ pc[c] = "s_completed" => Stored(arg[c], c, "connector", "execution.completed")
    <3>1. UNCHANGED arg /\ (UNCHANGED ran \/ ran' = [ran EXCEPT ![c] = TRUE])
      BY <1>2 DEF Deliver, Crash, CallStep, CheckPolicy, CheckGovernance, CheckSignals,
         ConsumeNonce, OpenSession, RecordSession, AssertAllowed, IssueCredential,
         ConsumeCredential, RunExecutor, RevokeCredential, RecordConnectorOutcome,
         RecordControlOutcome, Record
    <3>2. ran \in [Call -> BOOLEAN] /\ arg[c] \in Auth
      BY <1>0 DEF TypeOK
    <3>. QED
      BY <3>1, <3>2 DEF AuditInv, SessionStored, SucceededRan, ConnectorStored
  <2>1. ASSUME UNCHANGED chain, NEW label, pc' = [pc EXCEPT ![c] = label],
               label \in InSession => pc[c] \in InSession,
               label \in Succeeded => pc[c] \in Succeeded \/ ran'[c],
               label \notin {"s_completed", "done"}
        PROVE  AuditInv'
    <3>1. ChainKept
      BY <2>0, <2>1, ChainSame
    <3>2. label \in InSession => Stored(arg[c], c, "control", "session.created")'
      BY <2>0, <2>1, <3>1 DEF ChainKept
    <3>. QED
      BY <1>0, <2>0, <2>1, <3>1, <3>2, AuditMove
  <2>2. ASSUME NEW by \in Writer,
               NEW type \in {"session.created", "execution.completed", "execution.rejected"},
               Append1(c, by, type), UNCHANGED ran,
               NEW label, pc' = [pc EXCEPT ![c] = label],
               type # "session.created" => pc[c] \in InSession,
               type = "execution.completed" => ran[c],
               label \in InSession => pc[c] \in InSession
                                     \/ (by = "control" /\ type = "session.created"),
               label \in Succeeded => ran[c],
               label = "s_completed" => by = "connector" /\ type = "execution.completed",
               label = "done" => /\ by = "control" /\ type = "execution.completed"
                                 /\ pc[c] = "s_completed"
        PROVE  AuditInv'
    <3>1. ChainKept /\ Stored(arg[c], c, by, type)'
      BY <2>0, <2>2, ChainAppended
    <3>2. label \in InSession => Stored(arg[c], c, "control", "session.created")'
      BY <2>0, <2>2, <3>1 DEF ChainKept
    <3>3. label \in {"s_completed", "done"} =>
             Stored(arg[c], c, "connector", "execution.completed")'
      BY <2>0, <2>2, <3>1 DEF ChainKept
    <3>. QED
      BY <1>0, <2>0, <2>2, <3>1, <3>2, <3>3, AuditMove
  <2>3. ASSUME NEW by \in Writer,
               NEW type \in {"session.created", "execution.completed", "execution.rejected"},
               NEW next, NEW onError, Record(c, by, type, next, onError),
               type # "session.created" => pc[c] \in InSession,
               type = "execution.completed" => pc[c] \in Succeeded,
               next \in InSession => pc[c] \in InSession
                                    \/ (by = "control" /\ type = "session.created"),
               next \in Succeeded => pc[c] \in Succeeded,
               next = "s_completed" => by = "connector" /\ type = "execution.completed",
               next = "done" => /\ by = "control" /\ type = "execution.completed"
                                /\ pc[c] = "s_completed",
               onError \in InSession => pc[c] \in InSession,
               onError \notin Succeeded
        PROVE  AuditInv'
    <3>1. UNCHANGED ran
      BY <2>3 DEF Record
    <3>2. CASE Append1(c, by, type) /\ Goto(c, next)
      BY <2>0, <2>2, <2>3, <3>1, <3>2 DEF Goto
    <3>3. CASE Append1(c, by, type) /\ Goto(c, onError)
      BY <2>0, <2>2, <2>3, <3>1, <3>3 DEF Goto, Succeeded
    <3>4. CASE UNCHANGED chain /\ Goto(c, onError)
      BY <2>1, <2>3, <3>4 DEF Goto, Succeeded
    <3>. QED
      BY <2>3, <3>2, <3>3, <3>4 DEF Record
  <2>4. CASE RecordSession(c)
    BY <2>3, <2>4 DEF RecordSession, InSession, Succeeded, Writer
  <2>5. CASE RecordConnectorOutcome(c)
    BY <2>3, <2>5 DEF RecordConnectorOutcome, InSession, Succeeded, Writer
  <2>6. CASE RecordControlOutcome(c)
    BY <2>3, <2>6 DEF RecordControlOutcome, InSession, Succeeded, Writer
  <2>7. CASE RunExecutor(c)
    <3>1. ran \in [Call -> BOOLEAN]
      BY <1>0 DEF TypeOK
    <3>. QED
      BY <2>1, <2>7, <3>1 DEF RunExecutor, Goto, InSession, Succeeded
  <2>8. CASE \/ Deliver(c) \/ Crash(c) \/ CheckPolicy(c) \/ CheckGovernance(c)
             \/ CheckSignals(c) \/ ConsumeNonce(c) \/ OpenSession(c)
    <3>1. /\ UNCHANGED chain
          /\ \E label : /\ pc' = [pc EXCEPT ![c] = label]
                        /\ label \notin InSession \cup Succeeded
      BY <2>8 DEF Deliver, Crash, CheckPolicy, CheckGovernance, CheckSignals, ConsumeNonce,
         OpenSession, Goto, InSession, Succeeded
    <3>. QED
      BY <2>1, <3>1 DEF Succeeded, InSession
  <2>9. CASE AssertAllowed(c) \/ IssueCredential(c) \/ ConsumeCredential(c) \/ RevokeCredential(c)
    <3>1. /\ UNCHANGED chain
          /\ \E label : /\ pc' = [pc EXCEPT ![c] = label]
                        /\ pc[c] \in InSession
                        /\ label \in Succeeded => pc[c] \in Succeeded
                        /\ label \notin {"s_completed", "done"}
      BY <2>9 DEF AssertAllowed, IssueCredential, ConsumeCredential, RevokeCredential,
         Goto, InSession, Succeeded
    <3>. QED
      BY <2>1, <3>1
  <2>. QED
    BY <1>2, <2>4, <2>5, <2>6, <2>7, <2>8, <2>9 DEF CallStep
<1>. QED
  BY <1>1, <1>2 DEF Next

(* The execution audit chain of an authorization tells what happened,      *)
(* whatever write failed or went unanswered: an outcome follows its        *)
(* session, "completed" is only said of a call whose executor ran, and a   *)
(* call that returns success is in the chain from both writers.            *)
THEOREM AuditIsTrue == Spec => []AuditTellsTrue
<1>1. AuditInv => AuditTellsTrue
  <2>. SUFFICES ASSUME AuditInv PROVE DoneIsRecorded
    BY DEF AuditInv, AuditTellsTrue
  <2>1. ASSUME NEW c \in Call, pc[c] = "done"
        PROVE  /\ ran[c]
               /\ Stored(arg[c], c, "control", "execution.completed")
               /\ Stored(arg[c], c, "connector", "execution.completed")
    BY <2>1 DEF AuditInv, SucceededRan, Succeeded, ConnectorStored, ControlStored
  <2>. QED
    BY <2>1 DEF DoneIsRecorded, Stored, Writer
<1>. QED
  BY <1>1, AuditInit, AuditStep, PTL DEF Spec

---------------------------------------------------------------------------
(***************************************************************************)
(* Refinement of AuthorizationLifecycle.  A call at work is one between    *)
(* the nonce and its answer.  No two of them carry the same authorization, *)
(* so nobody else tells an outcome while one has not reached the connector *)
(* yet.                                                                    *)
(***************************************************************************)
Working == PreRun \cup {"revoke_ok", "revoke_bad", "completed", "rejected",
                        "s_completed", "s_rejected"}
AtWork(c) == pc[c] \in Working

WorkingConsumed == \A c \in Call : AtWork(c) => arg[c] \in nonces
OneAtWork ==
    \A c, d \in Call : AtWork(c) /\ AtWork(d) /\ arg[c] = arg[d] => c = d
RanIsPerformed == \A c \in Call : ran[c] => performed[arg[c]] = 1
UntoldUntilSpent == \A a \in Auth \ nonces : Outcomes(a) = {}
UntoldBeforeRun == \A c \in Call : pc[c] \in PreRun => Outcomes(arg[c]) = {}

OutcomeInv ==
    /\ PolicyInv
    /\ AuditInv
    /\ WorkingConsumed
    /\ OneAtWork
    /\ RanIsPerformed
    /\ UntoldUntilSpent
    /\ UntoldBeforeRun

LEMMA InitiallyUntold == ASSUME Init PROVE \A a \in Auth : Outcomes(a) = {}
<1>. TAKE a \in Auth
<1>1. Len(chain[a]) = 0
  BY DEF Init
<1>. QED
  BY <1>1 DEF Outcomes, Events

LEMMA OutcomeInit == Init => OutcomeInv
<1>. SUFFICES ASSUME Init PROVE OutcomeInv
  OBVIOUS
<1>1. PolicyInv /\ AuditInv
  BY PolicyInit, AuditInit
<1>2. \A c \in Call : pc[c] \notin Working /\ pc[c] \notin PreRun /\ ~ran[c]
  BY DEF Init, Working, PreRun
<1>3. UntoldUntilSpent /\ UntoldBeforeRun
  BY <1>2, InitiallyUntold DEF UntoldUntilSpent, UntoldBeforeRun
<1>. QED
  BY <1>1, <1>2, <1>3 DEF OutcomeInv, WorkingConsumed, OneAtWork, RanIsPerformed, AtWork

(* An event adds its outcome to those of its authorization; the creation   *)
(* of a session adds none.                                                 *)
LEMMA OutcomesAppended ==
    ASSUME TypeOK, NEW c \in Call, NEW by \in Writer,
           NEW type \in {"session.created", "execution.completed", "execution.rejected"},
           Append1(c, by, type)
    PROVE  \A a \in Auth : Outcomes(a)' =
              IF a = arg[c] /\ type # "session.created"
              THEN Outcomes(a) \cup {[by |-> by, type |-> type]}
              ELSE Outcomes(a)
<1>. DEFINE b == arg[c]
            n == Len(chain[b])
            e == [call |-> c, by |-> by, type |-> type]
<1>1. /\ \A a \in Auth \ {b} : chain'[a] = chain[a]
      /\ n \in Nat /\ Len(chain'[b]) = n + 1
      /\ \A i \in 1 .. n : chain'[b][i] = chain[b][i]
      /\ chain'[b][n + 1] = e
  BY Appended DEF Events
<1>. TAKE a \in Auth
<1>2. CASE a # b
  BY <1>1, <1>2 DEF Outcomes, Events
<1>3. CASE a = b
  <2>1. \A i : i \in 1 .. n + 1 <=> i \in 1 .. n \/ i = n + 1
    BY <1>1
  <2>2. ASSUME NEW o
        PROVE  o \in Outcomes(a) <=>
                  \E i \in 1 .. n : /\ chain[b][i].type # "session.created"
                                    /\ o = [by |-> chain[b][i].by, type |-> chain[b][i].type]
    BY <1>3 DEF Outcomes, Events
  <2>3. ASSUME NEW o
        PROVE  o \in Outcomes(a)' <=>
                  \E i \in 1 .. n + 1 :
                     /\ chain'[b][i].type # "session.created"
                     /\ o = [by |-> chain'[b][i].by, type |-> chain'[b][i].type]
    BY <1>1, <1>3 DEF Outcomes, Events
  <2>4. e.by = by /\ e.type = type
    OBVIOUS
  <2>. HIDE DEF n, e, b
  <2>5. ASSUME NEW o
        PROVE  o \in Outcomes(a)' <=>
                  \/ o \in Outcomes(a)
                  \/ type # "session.created" /\ o = [by |-> by, type |-> type]
    <3>1. (\E i \in 1 .. n + 1 :
              /\ chain'[b][i].type # "session.created"
              /\ o = [by |-> chain'[b][i].by, type |-> chain'[b][i].type])
          <=> \/ \E i \in 1 .. n :
                    /\ chain[b][i].type # "session.created"
                    /\ o = [by |-> chain[b][i].by, type |-> chain[b][i].type]
              \/ type # "session.created" /\ o = [by |-> by, type |-> type]
      BY <1>1, <2>1, <2>4
    <3>. QED
      BY <2>2, <2>3, <3>1
  <2>. QED
    BY <1>3, <2>5 DEF b
<1>. QED
  BY <1>2, <1>3

(* A call moves on: it is at work only if it was, or has just consumed an  *)
(* unspent nonce, and it tells outcomes of its own authorization only,     *)
(* when it has left the connector behind it.                               *)
LEMMA OutcomeMove ==
    ASSUME OutcomeInv, PolicyInv', AuditInv', RanIsPerformed',
           UNCHANGED arg, nonces \subseteq nonces',
           NEW c \in Call, NEW label, pc' = [pc EXCEPT ![c] = label],
           label \in Working =>
               pc[c] \in Working \/ (arg[c] \notin nonces /\ arg[c] \in nonces'),
           label \in PreRun => pc[c] \in PreRun \/ arg[c] \notin nonces,
           \A a \in Auth : \/ Outcomes(a)' = Outcomes(a)
                           \/ a = arg[c] /\ pc[c] \in Working /\ label \notin PreRun
    PROVE  OutcomeInv'
<1>0. /\ pc \in [Call -> Label] /\ arg \in [Call -> Auth]
      /\ \A d \in Call : pc'[d] = IF d = c THEN label ELSE pc[d]
  BY DEF OutcomeInv, AuditInv, TypeOK
<1>1. PreRun \subseteq Working
  BY DEF Working
<1>2. WorkingConsumed' /\ OneAtWork'
  BY <1>0 DEF OutcomeInv, WorkingConsumed, OneAtWork, AtWork
<1>3. UntoldUntilSpent'
  <2>. SUFFICES ASSUME NEW a \in Auth, a \notin nonces' PROVE Outcomes(a)' = {}
    BY DEF UntoldUntilSpent, Outcomes, Events
  <2>. QED
    BY DEF OutcomeInv, UntoldUntilSpent, WorkingConsumed, AtWork
<1>4. UntoldBeforeRun'
  <2>. SUFFICES ASSUME NEW d \in Call, pc'[d] \in PreRun
                PROVE  \A a \in Auth : a = arg[d] => Outcomes(a)' = {}
    BY <1>0 DEF UntoldBeforeRun, Outcomes, Events
  <2>1. CASE d = c
    BY <1>0, <2>1 DEF OutcomeInv, UntoldBeforeRun, UntoldUntilSpent
  <2>2. CASE d # c
    BY <1>0, <1>1, <2>2 DEF OutcomeInv, UntoldBeforeRun, OneAtWork, AtWork
  <2>. QED
    BY <2>1, <2>2
<1>. QED
  BY <1>2, <1>3, <1>4 DEF OutcomeInv

(* The environment touches neither calls nor chains. *)
LEMMA OutcomeFrame ==
    ASSUME OutcomeInv, PolicyInv', AuditInv',
           UNCHANGED <<nonces, performed, chain, pc, arg, ran>>
    PROVE  OutcomeInv'
<1>1. WorkingConsumed' /\ OneAtWork' /\ RanIsPerformed'
  BY DEF OutcomeInv, WorkingConsumed, OneAtWork, RanIsPerformed, AtWork
<1>2. UntoldUntilSpent' /\ UntoldBeforeRun'
  BY DEF OutcomeInv, UntoldUntilSpent, UntoldBeforeRun, Outcomes, Events
<1>. QED
  BY <1>1, <1>2 DEF OutcomeInv

LEMMA OutcomeStep == OutcomeInv /\ [Next]_vars => OutcomeInv'
<1>. SUFFICES ASSUME OutcomeInv, [Next]_vars PROVE OutcomeInv'
  OBVIOUS
<1>0. /\ PolicyInv' /\ AuditInv' /\ TypeOK
      /\ pc \in [Call -> Label] /\ arg \in [Call -> Auth]
  BY PolicyStep, AuditStep DEF OutcomeInv, AuditInv, TypeOK
<1>1. CASE UNCHANGED vars \/ Tick \/ ApproveChange \/ SaveLivePolicy
           \/ \E a \in Auth : Authorize(a)
  BY <1>0, <1>1, OutcomeFrame
     DEF vars, Tick, ApproveChange, SaveLivePolicy, Authorize
<1>2. ASSUME NEW c \in Call, Deliver(c) \/ CallStep(c) \/ Crash(c)
      PROVE  OutcomeInv'
  <2>1. UNCHANGED chain => \A a \in Auth : Outcomes(a)' = Outcomes(a)
    BY DEF Outcomes, Events
  <2>2. UNCHANGED <<ran, performed, arg>> => RanIsPerformed'
    BY DEF OutcomeInv, RanIsPerformed
  <2>3. CASE ConsumeNonce(c)
    <3>1. /\ pc[c] = "nonce" /\ UNCHANGED <<chain, ran, performed, arg>>
          /\ nonces \subseteq nonces'
          /\ \/ pc' = [pc EXCEPT ![c] = "failed"]
             \/ /\ arg[c] \notin nonces /\ arg[c] \in nonces'
                /\ pc' = [pc EXCEPT ![c] = "resolve"]
      BY <2>3 DEF ConsumeNonce, CheckAndRecord, Goto
    <3>2. "failed" \notin Working /\ "failed" \notin PreRun
      BY DEF Working, PreRun
    <3>. QED
      BY <1>0, <2>1, <2>2, <3>1, <3>2, OutcomeMove
  <2>4. CASE RunExecutor(c)
    <3>1. /\ pc[c] = "run" /\ UNCHANGED <<chain, nonces, arg>>
          /\ pc' = [pc EXCEPT ![c] = "revoke_ok"] \/ pc' = [pc EXCEPT ![c] = "revoke_bad"]
          /\ \/ UNCHANGED <<performed, ran>>
             \/ /\ performed' = [performed EXCEPT ![arg[c]] = @ + 1]
                /\ ran' = [ran EXCEPT ![c] = TRUE]
      BY <2>4 DEF RunExecutor, Goto
    <3>2. RanIsPerformed'
      <4>1. /\ performed \in [Auth -> Nat] /\ ran \in [Call -> BOOLEAN]
            /\ performed' \in [Auth -> Nat] /\ PerformedOnce'
        BY <1>0 DEF TypeOK, PolicyInv, NonceInv, AuditInv
      <4>. QED
        BY <1>0, <3>1, <4>1 DEF OutcomeInv, RanIsPerformed, PerformedOnce
    <3>3. "revoke_ok" \notin PreRun /\ "revoke_bad" \notin PreRun /\ "run" \in Working
      BY DEF Working, PreRun
    <3>. QED
      BY <1>0, <2>1, <3>1, <3>2, <3>3, OutcomeMove
  <2>5. CASE RecordSession(c) \/ RecordConnectorOutcome(c) \/ RecordControlOutcome(c)
    <3>1. ASSUME NEW by \in Writer,
                 NEW type \in {"session.created", "execution.completed", "execution.rejected"},
                 NEW next, NEW onError, Record(c, by, type, next, onError),
                 pc[c] \in Working, onError \notin PreRun,
                 next \in PreRun => type = "session.created" /\ pc[c] \in PreRun
          PROVE  OutcomeInv'
      <4>1. /\ UNCHANGED <<nonces, arg>> /\ RanIsPerformed'
            /\ Append1(c, by, type) \/ UNCHANGED chain
            /\ Goto(c, next) \/ Goto(c, onError)
        BY <2>2, <3>1 DEF Record
      <4>2. \A a \in Auth : \/ Outcomes(a)' = Outcomes(a)
                            \/ a = arg[c] /\ type # "session.created"
        BY <1>0, <2>1, <4>1, OutcomesAppended
      <4>3. CASE Goto(c, next)
        BY <1>0, <3>1, <4>1, <4>2, <4>3, OutcomeMove DEF Goto
      <4>4. CASE Goto(c, onError)
        BY <1>0, <3>1, <4>1, <4>2, <4>4, OutcomeMove DEF Goto
      <4>. QED
        BY <4>1, <4>3, <4>4
    <3>2. CASE RecordSession(c)
      BY <3>1, <3>2 DEF RecordSession, Writer, Working, PreRun
    <3>3. CASE RecordConnectorOutcome(c)
      BY <3>1, <3>3 DEF RecordConnectorOutcome, Writer, Working, PreRun
    <3>4. CASE RecordControlOutcome(c)
      BY <3>1, <3>4 DEF RecordControlOutcome, Writer, Working, PreRun
    <3>. QED
      BY <2>5, <3>2, <3>3, <3>4
  <2>6. CASE /\ Deliver(c) \/ CallStep(c) \/ Crash(c)
             /\ ~ConsumeNonce(c) /\ ~RunExecutor(c) /\ ~RecordSession(c)
             /\ ~RecordConnectorOutcome(c) /\ ~RecordControlOutcome(c)
    <3>1. /\ UNCHANGED <<chain, nonces, ran, performed, arg>>
          /\ \E label : /\ pc' = [pc EXCEPT ![c] = label]
                        /\ label \in Working => pc[c] \in Working
                        /\ label \in PreRun => pc[c] \in PreRun
      BY <2>6 DEF Deliver, Crash, CallStep, CheckPolicy, CheckGovernance, CheckSignals,
         OpenSession, AssertAllowed, IssueCredential, ConsumeCredential,
         RevokeCredential, Goto, Working, PreRun
    <3>2. RanIsPerformed' /\ \A a \in Auth : Outcomes(a)' = Outcomes(a)
      BY <2>1, <2>2, <3>1
    <3>3. UNCHANGED arg /\ nonces \subseteq nonces'
      BY <3>1
    <3>4. ASSUME NEW label, pc' = [pc EXCEPT ![c] = label],
                 label \in Working => pc[c] \in Working,
                 label \in PreRun => pc[c] \in PreRun
          PROVE  OutcomeInv'
      <4>1. /\ label \in Working =>
                  pc[c] \in Working \/ (arg[c] \notin nonces /\ arg[c] \in nonces')
            /\ label \in PreRun => pc[c] \in PreRun \/ arg[c] \notin nonces
        BY <3>4
      <4>2. \A a \in Auth : \/ Outcomes(a)' = Outcomes(a)
                            \/ a = arg[c] /\ pc[c] \in Working /\ label \notin PreRun
        BY <3>2
      <4>3. OutcomeInv /\ PolicyInv' /\ AuditInv' /\ RanIsPerformed'
        BY <1>0, <3>2
      <4>4. UNCHANGED arg /\ nonces \subseteq nonces' /\ pc' = [pc EXCEPT ![c] = label]
        BY <3>3, <3>4
      <4>. QED
        BY <4>1, <4>2, <4>3, <4>4, OutcomeMove
    <3>. QED
      BY <3>1, <3>4
  <2>. QED
    BY <1>2, <2>3, <2>4, <2>5, <2>6
<1>. QED
  BY <1>1, <1>2 DEF Next

LEMMA OutcomeAlways == Spec => []OutcomeInv
BY OutcomeInit, OutcomeStep, PTL DEF Spec

(* The variables of AuthorizationLifecycle under the refinement mapping. *)
Issued == {a \in Auth : expires[a] # 0}
Told == [a \in Auth |-> Outcomes(a)]
Answered == {arg[c] : c \in {d \in Call : pc[d] = "done"}}
AbstractVars == <<Issued, nonces, performed, Told, Answered>>

LEMMA AuthorizationInit == ASSUME Init PROVE Authorization!Init
<1>1. Told = [a \in Auth |-> {}]
  BY InitiallyUntold DEF Told
<1>2. Issued = {} /\ Answered = {}
  BY DEF Init, Issued, Answered
<1>. QED
  BY <1>1, <1>2 DEF Init, Authorization!Init, Told, Issued, Answered

LEMMA ToldSame == ASSUME UNCHANGED chain PROVE UNCHANGED Told
BY DEF Told, Outcomes, Events

LEMMA AnsweredSame ==
    ASSUME TypeOK, UNCHANGED arg, NEW c \in Call, NEW label,
           pc' = [pc EXCEPT ![c] = label], pc[c] # "done", label # "done"
    PROVE  UNCHANGED Answered
<1>1. \A d \in Call : pc'[d] = "done" <=> pc[d] = "done"
  BY DEF TypeOK
<1>. QED
  BY <1>1 DEF Answered

LEMMA IssueMap ==
    ASSUME OutcomeInv, NEW a \in Auth, Authorize(a)
    PROVE  Authorization!Next
<1>1. TypeOK
  BY DEF OutcomeInv, AuditInv
<1>2. UNCHANGED <<nonces, performed, Told, Answered>>
  BY ToldSame DEF Authorize, Answered
<1>3. a \notin Issued /\ Issued' = Issued \cup {a}
  <2>1. expires \in [Auth -> Times] /\ now + Ttl # 0 /\ expires[a] = 0
    BY <1>1, GatewayAssumption DEF TypeOK, Authorize
  <2>2. expires' = [expires EXCEPT ![a] = now + Ttl]
    BY DEF Authorize
  <2>. QED
    BY <2>1, <2>2 DEF Issued
<1>4. Authorization!Issue(a)
  BY <1>2, <1>3 DEF Authorization!Issue, Issued, Told, Answered
<1>. QED
  BY <1>4 DEF Authorization!Next

LEMMA SpendMap ==
    ASSUME OutcomeInv, NEW c \in Call, ConsumeNonce(c)
    PROVE  [Authorization!Next]_AbstractVars
<1>0. TypeOK /\ arg[c] \in Auth
  BY DEF OutcomeInv, AuditInv, TypeOK
<1>1. UNCHANGED <<performed, Told, Issued>>
  BY ToldSame DEF ConsumeNonce, authVars, Issued
<1>2. UNCHANGED Answered
  <2>1. pc[c] = "nonce" /\ UNCHANGED arg /\ (Goto(c, "failed") \/ Goto(c, "resolve"))
    BY DEF ConsumeNonce
  <2>. QED
    BY <1>0, <2>1, AnsweredSame DEF Goto
<1>3. CASE UNCHANGED nonces
  BY <1>1, <1>2, <1>3 DEF AbstractVars
<1>4. CASE CheckAndRecord(arg[c])
  <2>1. arg[c] \in Issued
    BY <1>0 DEF OutcomeInv, PolicyInv, ArrivedIsSigned, ConsumeNonce, Issued
  <2>2. Authorization!Spend(arg[c])
    BY <1>1, <1>2, <1>4, <2>1
       DEF Authorization!Spend, CheckAndRecord, Issued, Told, Answered
  <2>. QED
    BY <1>0, <2>2 DEF Authorization!Next
<1>. QED
  BY <1>3, <1>4 DEF ConsumeNonce

LEMMA ActMap ==
    ASSUME OutcomeInv, NEW c \in Call, RunExecutor(c)
    PROVE  [Authorization!Next]_AbstractVars
<1>0. /\ TypeOK /\ arg[c] \in Auth /\ pc[c] = "run"
      /\ performed \in [Auth -> Nat] /\ arg \in [Call -> Auth]
  BY DEF OutcomeInv, AuditInv, TypeOK, RunExecutor
<1>1. UNCHANGED <<nonces, Told, Issued>>
  BY ToldSame DEF RunExecutor, authVars, Issued
<1>2. UNCHANGED Answered
  <2>1. UNCHANGED arg /\ (Goto(c, "revoke_ok") \/ Goto(c, "revoke_bad"))
    BY DEF RunExecutor
  <2>. QED
    BY <1>0, <2>1, AnsweredSame DEF Goto
<1>3. CASE UNCHANGED performed
  BY <1>1, <1>2, <1>3 DEF AbstractVars
<1>4. CASE performed' = [performed EXCEPT ![arg[c]] = @ + 1]
  <2>1. Holds(c) /\ ~ran[c] /\ NonceInv
    BY <1>0 DEF OutcomeInv, PolicyInv, NonceInv, Holds, PreRun, FreshDidNotRun, Fresh
  <2>2. arg[c] \in nonces /\ performed[arg[c]] = 0
    BY <1>0, <2>1 DEF NonceInv, HolderConsumed, PerformedByHolder, OneHolder, Holds
  <2>3. Told[arg[c]] = {}
    BY <1>0 DEF OutcomeInv, UntoldBeforeRun, PreRun, Told
  <2>4. performed' = [performed EXCEPT ![arg[c]] = 1]
    BY <1>0, <1>4, <2>2
  <2>5. Authorization!Act(arg[c])
    BY <1>1, <1>2, <2>2, <2>3, <2>4
       DEF Authorization!Act, Issued, Told, Answered
  <2>. QED
    BY <1>0, <2>5 DEF Authorization!Next
<1>. QED
  BY <1>3, <1>4 DEF RunExecutor

(* A call at work records an event, or fails to, and goes on to a label:   *)
(* "completed" only if it ran, and to its answer only with an outcome.     *)
Tells(c, by, type, label) ==
    /\ pc[c] \in Working
    /\ Append1(c, by, type) \/ UNCHANGED chain
    /\ pc' = [pc EXCEPT ![c] = label]
    /\ UNCHANGED <<expires, nonces, performed, arg>>
    /\ type = "execution.completed" => ran[c]
    /\ label = "done" => Append1(c, by, type) /\ type # "session.created"

(* What it records is told, and the control's completed event answers the  *)
(* caller.                                                                 *)
LEMMA TellMap ==
    ASSUME OutcomeInv, OutcomeInv', NEW c \in Call, NEW by \in Writer, NEW label,
           NEW type \in {"session.created", "execution.completed", "execution.rejected"},
           Tells(c, by, type, label)
    PROVE  [Authorization!Next]_AbstractVars
<1>. USE DEF Tells
<1>0. /\ TypeOK /\ arg[c] \in Auth /\ arg[c] \in nonces
      /\ pc \in [Call -> Label] /\ arg \in [Call -> Auth] /\ pc[c] # "done"
  BY DEF OutcomeInv, AuditInv, TypeOK, WorkingConsumed, AtWork, Working, PreRun
<1>1. UNCHANGED <<nonces, performed, Issued>>
  BY DEF Issued
<1>2. label # "done" => UNCHANGED Answered
  BY <1>0, AnsweredSame
<1>3. CASE UNCHANGED Told /\ label # "done"
  BY <1>1, <1>2, <1>3 DEF AbstractVars
<1>4. CASE Append1(c, by, type) /\ type # "session.created"
  <2>0. PICK b \in Auth : b = arg[c]
    BY <1>0
  <2>1. Told' = [Told EXCEPT ![b] = @ \cup {[by |-> by, type |-> type]}]
    <3>1. \A a \in Auth : Outcomes(a)' =
             IF a = b THEN Outcomes(a) \cup {[by |-> by, type |-> type]} ELSE Outcomes(a)
      BY <1>0, <1>4, <2>0, OutcomesAppended
    <3>. QED
      BY <1>0, <3>1 DEF Told
  <2>2. \/ /\ performed[b] = 1
           /\ Told' = [Told EXCEPT ![b] = @ \cup {Authorization!Completed(by)}]
        \/ Told' = [Told EXCEPT ![b] = @ \cup {Authorization!Rejected(by)}]
    BY <1>4, <2>0, <2>1 DEF OutcomeInv, RanIsPerformed,
       Authorization!Completed, Authorization!Rejected
  <2>3. \/ UNCHANGED Answered
        \/ /\ \A w \in Writer : Authorization!Completed(w) \in Told'[b]
           /\ Answered' = Answered \cup {b}
    <3>1. CASE label = "done"
      <4>1. pc'[c] = "done" /\ \A d \in Call : d # c => pc'[d] = pc[d]
        BY <1>0, <3>1
      <4>2. Answered' = Answered \cup {b}
        BY <1>0, <2>0, <4>1 DEF Answered
      <4>3. \A w \in Writer : Stored(b, c, w, "execution.completed")'
        BY <2>0, <4>1 DEF OutcomeInv, AuditInv, ConnectorStored, ControlStored, Stored, Events,
           Writer
      <4>4. \A w \in Writer : [by |-> w, type |-> "execution.completed"] \in Outcomes(b)'
        <5>. SUFFICES ASSUME NEW w \in Writer
                      PROVE  [by |-> w, type |-> "execution.completed"] \in Outcomes(b)'
          OBVIOUS
        <5>1. PICK i \in 1 .. Len(chain'[b]) :
                 chain'[b][i] = [call |-> c, by |-> w, type |-> "execution.completed"]
          BY <4>3 DEF Stored, Events
        <5>2. chain'[b][i].by = w /\ chain'[b][i].type = "execution.completed"
          BY <5>1
        <5>. QED
          BY <5>2 DEF Outcomes, Events
      <4>. QED
        BY <1>0, <4>2, <4>4 DEF Told, Authorization!Completed
    <3>. QED
      BY <1>2, <3>1
  <2>4. Authorization!Tell(b)
    BY <1>0, <1>1, <2>0, <2>2, <2>3 DEF Authorization!Tell, Issued, Told, Answered
  <2>. QED
    BY <2>4 DEF Authorization!Next
<1>5. CASE Append1(c, by, type) /\ type = "session.created"
  <2>1. UNCHANGED Told
    BY <1>0, <1>5, OutcomesAppended DEF Told
  <2>. QED
    BY <1>3, <1>5, <2>1
<1>. QED
  BY <1>3, <1>4, <1>5, ToldSame

LEMMA AuthorizationStep ==
    ASSUME OutcomeInv, [Next]_vars
    PROVE  [Authorization!Next]_AbstractVars
<1>0. OutcomeInv' /\ TypeOK
  BY OutcomeStep DEF OutcomeInv, AuditInv
<1>1. CASE UNCHANGED vars \/ Tick \/ ApproveChange \/ SaveLivePolicy
  <2>1. UNCHANGED <<expires, nonces, performed, chain, pc, arg>>
    BY <1>1 DEF vars, authVars, Tick, ApproveChange, SaveLivePolicy
  <2>. QED
    BY <2>1, ToldSame DEF AbstractVars, Issued, Answered
<1>2. ASSUME NEW a \in Auth, Authorize(a) PROVE [Authorization!Next]_AbstractVars
  BY <1>2, IssueMap
<1>3. ASSUME NEW c \in Call, Deliver(c) \/ CallStep(c) \/ Crash(c)
      PROVE  [Authorization!Next]_AbstractVars
  <2>1. CASE ConsumeNonce(c)
    BY <2>1, SpendMap
  <2>2. CASE RunExecutor(c)
    BY <2>2, ActMap
  <2>3. CASE RecordSession(c) \/ RecordConnectorOutcome(c) \/ RecordControlOutcome(c)
    <3>1. ASSUME NEW by \in Writer,
                 NEW type \in {"session.created", "execution.completed", "execution.rejected"},
                 NEW next, NEW onError, Record(c, by, type, next, onError),
                 pc[c] \in Working, onError # "done",
                 type = "execution.completed" => pc[c] \in Succeeded,
                 next = "done" => type # "session.created"
          PROVE  [Authorization!Next]_AbstractVars
      <4>1. type = "execution.completed" => ran[c]
        BY <3>1 DEF OutcomeInv, AuditInv, SucceededRan
      <4>2. /\ UNCHANGED <<expires, nonces, performed, arg>>
            /\ Append1(c, by, type) \/ UNCHANGED chain
            /\ \/ Append1(c, by, type) /\ pc' = [pc EXCEPT ![c] = next]
               \/ pc' = [pc EXCEPT ![c] = onError]
        BY <3>1 DEF Record, Goto, authVars
      <4>3. Tells(c, by, type, next) \/ Tells(c, by, type, onError)
        BY <3>1, <4>1, <4>2 DEF Tells
      <4>. QED
        BY <1>0, <4>3, TellMap
    <3>2. CASE RecordSession(c)
      BY <3>1, <3>2 DEF RecordSession, Writer, Working, PreRun
    <3>3. CASE RecordConnectorOutcome(c)
      BY <3>1, <3>3 DEF RecordConnectorOutcome, Writer, Working, PreRun, Succeeded
    <3>4. CASE RecordControlOutcome(c)
      BY <3>1, <3>4 DEF RecordControlOutcome, Writer, Working, PreRun, Succeeded
    <3>. QED
      BY <2>3, <3>2, <3>3, <3>4
  <2>4. CASE /\ Deliver(c) \/ CallStep(c) \/ Crash(c)
             /\ ~ConsumeNonce(c) /\ ~RunExecutor(c) /\ ~RecordSession(c)
             /\ ~RecordConnectorOutcome(c) /\ ~RecordControlOutcome(c)
    <3>1. /\ UNCHANGED <<expires, nonces, performed, chain, arg>>
          /\ \E label : /\ pc' = [pc EXCEPT ![c] = label]
                        /\ label # "done" /\ pc[c] # "done"
      BY <2>4 DEF Deliver, Crash, CallStep, CheckPolicy, CheckGovernance, CheckSignals,
         OpenSession, AssertAllowed, IssueCredential, ConsumeCredential,
         RevokeCredential, Goto, authVars, Ended
    <3>2. UNCHANGED Answered
      BY <1>0, <3>1, AnsweredSame
    <3>. QED
      BY <3>1, <3>2, ToldSame DEF AbstractVars, Issued
  <2>. QED
    BY <1>3, <2>1, <2>2, <2>3, <2>4
<1>. QED
  BY <1>1, <1>2, <1>3 DEF Next

(* The release boundary implements AuthorizationLifecycle, whatever is     *)
(* replayed, expires, fails or crashes: the nonce is spent before the      *)
(* action, the action is performed once and never after an outcome was     *)
(* recorded, and success is answered only when both writers recorded it.   *)
THEOREM AuthorizationImplemented == Spec => ImplementsAuthorization
<1>1. OutcomeInv /\ [Next]_vars => [Authorization!Next]_(Authorization!vars)
  <2>. SUFFICES ASSUME OutcomeInv, [Next]_vars
                PROVE  [Authorization!Next]_(Authorization!vars)
    OBVIOUS
  <2>1. [Authorization!Next]_AbstractVars
    BY AuthorizationStep
  <2>2. UNCHANGED AbstractVars => UNCHANGED Authorization!vars
    BY DEF AbstractVars, Authorization!vars, Issued, Told, Answered
  <2>. QED
    BY <2>1, <2>2
<1>2. Init => Authorization!Init
  BY AuthorizationInit
<1>. QED
  BY <1>1, <1>2, OutcomeAlways, PTL
     DEF Spec, ImplementsAuthorization, Authorization!Spec
===========================================================================

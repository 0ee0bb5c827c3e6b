---------------------- MODULE ExecutionIntentsProofs ----------------------
(***************************************************************************)
(* Proofs about ExecutionIntents, for any number of transactions,          *)
(* requests, callers and faults.                                           *)
(***************************************************************************)
EXTENDS ExecutionIntents, TLAPS

---------------------------------------------------------------------------
(* Type correctness.  A handler past its first step works on a transaction *)
(* of Txn: without this the views it keeps could not be typed.             *)

Engaged == \A p \in Proc : pc[p] # "idle" => txn[p] \in Txn

TypeInv == TypeOK /\ Engaged

LEMMA TypeInit == Init => TypeInv
BY ConstantsAssumption
   DEF Init, TypeInv, TypeOK, Engaged, Proc, ReqLabel, OprLabel, View, NoView

(* What the control operators leave well typed. *)
ControlOK ==
    /\ pc \in [Proc -> ReqLabel \cup OprLabel]
    /\ \A r \in Req : pc[r] \in ReqLabel
    /\ \A o \in Opr : pc[o] \in OprLabel
    /\ task \in [Opr -> Task \cup {"NONE"}]
    /\ txn \in [Proc -> Txn \cup {None}]
    /\ view \in [Opr -> View]
    /\ Engaged

LEMMA GotoReq ==
    ASSUME ControlOK, NEW r \in Req, pc[r] # "idle",
           NEW label \in ReqLabel, Goto(r, label)
    PROVE  ControlOK'
BY ConstantsAssumption DEF ControlOK, Goto, Engaged, Proc

LEMMA GotoOpr ==
    ASSUME ControlOK, NEW o \in Opr, pc[o] # "idle",
           NEW label \in OprLabel, Goto(o, label)
    PROVE  ControlOK'
BY ConstantsAssumption DEF ControlOK, Goto, Engaged, Proc

LEMMA ContinueOpr ==
    ASSUME ControlOK, NEW o \in Opr, pc[o] # "idle",
           NEW label \in OprLabel, NEW v \in View, Continue(o, label, v)
    PROVE  ControlOK'
BY ConstantsAssumption DEF ControlOK, Continue, Engaged, Proc

LEMMA LeaveOpr ==
    ASSUME ControlOK, NEW o \in Opr, Leave(o)
    PROVE  ControlOK'
<1>1. NoView \in View
  BY DEF NoView, View
<1>. QED
  BY <1>1, ConstantsAssumption DEF ControlOK, Leave, Engaged, Proc, OprLabel

LEMMA FinishProc ==
    ASSUME ControlOK, NEW p \in Proc, pc[p] # "idle",
           NEW answer \in Answer, Finish(p, answer)
    PROVE  ControlOK'
<1>1. answer \in ReqLabel
  BY DEF ReqLabel
<1>. QED
  BY <1>1, GotoReq, LeaveOpr DEF Finish

(* The stored state, by the part of it an action touches. *)
TransactionOK ==
    /\ owner \in [Txn -> Req \cup {None}]
    /\ refusal \in SUBSET Txn

IntentOK ==
    /\ intent \in [Txn -> IntentState \cup {"NONE"}]
    /\ saved \in [Txn -> BOOLEAN]
    /\ resolution \in [Txn -> Resolution \cup {"NONE"}]
    /\ link \in [Txn -> Proc \cup {None}]
    /\ mode \in [Txn -> {"NONE", "INLINE", "REPAIRED"}]

ExecutionOK ==
    /\ execution \in [Txn -> ExecutionStatus \cup {"NONE"}]
    /\ performed \in [Txn -> Nat]

RecordOK ==
    /\ record \in [Txn -> Proc \cup {None}]
    /\ verifs \in [Txn -> SUBSET VerificationStatus]
    /\ latest \in [Txn -> VerificationStatus \cup {"NONE"}]
    /\ receipts \in [Txn -> BOOLEAN]

FaultsOK == faults \in 0..MaxFaults

LEMMA TypeParts ==
    /\ TypeInv => /\ TransactionOK /\ IntentOK /\ ExecutionOK
                  /\ RecordOK /\ ControlOK /\ FaultsOK
    /\ TransactionOK' /\ IntentOK' /\ ExecutionOK' /\ RecordOK' /\ ControlOK'
          /\ FaultsOK' => TypeInv'
BY DEF TypeInv, TypeOK, TransactionOK, IntentOK, ExecutionOK, RecordOK,
       ControlOK, FaultsOK

LEMMA FaultType ==
    ASSUME FaultsOK, Fault \/ StorageFault \/ LostAnswer \/ NoFault
    PROVE  FaultsOK'
BY ConstantsAssumption DEF FaultsOK, Fault, StorageFault, LostAnswer, NoFault

LEMMA IntentType ==
    ASSUME IntentOK, NEW t \in Txn,
           CreateIntent(t) \/ MarkReleased(t) \/ MarkErrored(t)
    PROVE  IntentOK'
<1>1. CASE CreateIntent(t)
  BY <1>1 DEF IntentOK, CreateIntent, IntentState
<1>2. CASE MarkReleased(t)
  BY <1>2 DEF IntentOK, MarkReleased, intentVars, IntentState
<1>3. CASE MarkErrored(t)
  BY <1>3 DEF IntentOK, MarkErrored, intentVars, IntentState
<1>. QED
  BY <1>1, <1>2, <1>3

LEMMA FinalizedType ==
    ASSUME IntentOK, NEW t \in Txn, NEW rec \in Proc \cup {None},
           NEW m \in {"INLINE", "REPAIRED"}, MarkFinalized(t, rec, m)
    PROVE  IntentOK'
<1>1. CASE UNCHANGED intentVars
  BY <1>1 DEF IntentOK, intentVars
<1>2. CASE /\ intent' = [intent EXCEPT ![t] = "FINALIZED"]
           /\ saved' = [saved EXCEPT ![t] = FALSE]
           /\ link' = [link EXCEPT ![t] = rec]
           /\ mode' = [mode EXCEPT ![t] = m]
           /\ UNCHANGED resolution
  BY <1>2 DEF IntentOK, IntentState
<1>. QED
  BY <1>1, <1>2 DEF MarkFinalized

LEMMA ResolvedType ==
    ASSUME IntentOK, NEW t \in Txn, NEW res \in Resolution \cup {"NONE"},
           MarkResolved(t, res)
    PROVE  IntentOK'
BY DEF IntentOK, MarkResolved, intentVars, IntentState

LEMMA WriteType ==
    ASSUME ExecutionOK, NEW t \in Txn, NEW status \in ExecutionStatus,
           WriteExecution(t, status), UNCHANGED performed
    PROVE  ExecutionOK'
BY DEF ExecutionOK, WriteExecution

LEMMA CreateRecordType ==
    ASSUME RecordOK, ExecutionOK, NEW t \in Txn, NEW p \in Proc,
           CreateRecord(t, p), UNCHANGED performed
    PROVE  RecordOK' /\ ExecutionOK'
BY ZenonT(60) DEF RecordOK, ExecutionOK, CreateRecord, CreateRecordPostgres,
       CreateRecordMemory, ExecutionStatus

LEMMA AppendType ==
    ASSUME RecordOK, NEW t \in Txn, NEW s \in VerificationStatus,
           AppendVerification(t, s) \/ AppendReceipt(t)
    PROVE  RecordOK'
<1>1. CASE AppendVerification(t, s)
  BY <1>1 DEF RecordOK, AppendVerification
<1>2. CASE AppendReceipt(t)
  BY <1>2 DEF RecordOK, AppendReceipt
<1>. QED
  BY <1>1, <1>2

(* What an action leaves alone stays well typed. *)
LEMMA KeptType ==
    ASSUME TypeInv
    PROVE  /\ UNCHANGED <<owner, refusal>> => TransactionOK'
           /\ UNCHANGED intentVars => IntentOK'
           /\ UNCHANGED <<execution, performed>> => ExecutionOK'
           /\ UNCHANGED recordVars => RecordOK'
           /\ UNCHANGED procVars => ControlOK'
           /\ UNCHANGED faults => FaultsOK'
<1>1. UNCHANGED procVars => ControlOK'
  BY TypeParts DEF ControlOK, procVars, Engaged
<1>. QED
  BY <1>1, TypeParts DEF TransactionOK, IntentOK, ExecutionOK, RecordOK,
     FaultsOK, intentVars, recordVars

LEMMA RequestType ==
    ASSUME TypeInv, NEW r \in Req, Submit(r) \/ RequestStep(r)
    PROVE  TypeInv'
<1>. USE TypeParts, KeptType DEF Proc
<1>0. pc[r] # "idle" => txn[r] \in Txn
  BY DEF TypeInv, Engaged
<1>1. CASE Submit(r)
  <2>1. ControlOK'
    BY <1>1, ConstantsAssumption DEF Submit, ControlOK, Engaged, ReqLabel
  <2>. QED
    BY <1>1, <2>1 DEF Submit
<1>2. CASE AcceptExists(r)
  BY <1>2, GotoReq, FaultType DEF AcceptExists, ReqLabel, Answer
<1>3. CASE AcceptInsert(r)
  <2>1. TransactionOK'
    BY <1>3 DEF AcceptInsert, InsertTransaction, TransactionOK
  <2>. QED
    BY <1>3, <2>1, GotoReq, FaultType DEF AcceptInsert, ReqLabel, Answer
<1>4. CASE Decide(r)
  <2>1. TransactionOK'
    BY <1>0, <1>4 DEF Decide, TransactionOK
  <2>. QED
    BY <1>4, <2>1, GotoReq DEF Decide, ReqLabel, Answer
<1>5. CASE AssertSigningReady(r)
  BY <1>5, GotoReq, FaultType DEF AssertSigningReady, ReqLabel, Answer
<1>6. CASE Prepare(r)
  BY <1>0, <1>6, IntentType, GotoReq, FaultType DEF Prepare, ReqLabel, Answer
<1>7. CASE StartExecution(r)
  BY <1>0, <1>7, WriteType, GotoReq, FaultType
     DEF StartExecution, ReqLabel, ExecutionStatus
<1>8. CASE Perform(r)
  <2>1. ExecutionOK'
    BY <1>8 DEF Perform, ExecutionOK
  <2>. QED
    BY <1>8, <2>1, GotoReq DEF Perform, ReqLabel
<1>9. CASE CompleteExecution(r)
  BY <1>0, <1>9, WriteType, GotoReq, FaultType
     DEF CompleteExecution, ReqLabel, ExecutionStatus
<1>10. CASE FailExecution(r)
  BY <1>0, <1>10, WriteType, GotoReq, FaultType
     DEF FailExecution, ReqLabel, ExecutionStatus
<1>11. CASE ReleaseErrored(r)
  BY <1>0, <1>11, IntentType, GotoReq, FaultType
     DEF ReleaseErrored, ReqLabel, Answer
<1>12. CASE SaveContext(r)
  BY <1>0, <1>12, IntentType, GotoReq, FaultType DEF SaveContext, ReqLabel
<1>13. CASE StoreRecord(r)
  BY <1>0, <1>13, CreateRecordType, GotoReq, FaultType
     DEF StoreRecord, ReqLabel, Answer
<1>14. CASE FinalizeInline(r)
  BY <1>0, <1>14, FinalizedType, GotoReq, FaultType DEF FinalizeInline, ReqLabel
<1>. QED
  BY <1>1, <1>2, <1>3, <1>4, <1>5, <1>6, <1>7, <1>8, <1>9, <1>10, <1>11,
     <1>12, <1>13, <1>14 DEF RequestStep

LEMMA EvidenceType ==
    ASSUME TypeInv, NEW p \in Proc, EvidenceStep(p) \/ Crash(p)
    PROVE  TypeInv'
<1>. USE TypeParts, KeptType DEF Proc
<1>0. pc[p] # "idle" => txn[p] \in Txn
  BY DEF TypeInv, Engaged
<1>1. ASSUME VerifyNext(p), pc[p] # "idle"
      PROVE  ControlOK'
  BY <1>1, GotoReq, GotoOpr, LeaveOpr DEF VerifyNext, ReqLabel, OprLabel
<1>2. CASE Verify(p)
  <2>1. RecordOK'
    BY <1>0, <1>2, AppendType DEF Verify
  <2>2. ControlOK'
    BY <1>1, <1>2, FinishProc DEF Verify, Answer
  <2>. QED
    BY <1>2, <2>1, <2>2, FaultType DEF Verify
<1>3. CASE GenerateReceipt(p)
  <2>1. ControlOK'
    BY <1>3, GotoReq, GotoOpr, FinishProc
       DEF GenerateReceipt, Answer, ReqLabel, OprLabel
  <2>. QED
    BY <1>3, <2>1, FaultType DEF GenerateReceipt
<1>4. CASE PersistReceipt(p)
  <2>1. RecordOK'
    BY <1>0, <1>4, AppendType DEF PersistReceipt, VerificationStatus
  <2>2. ControlOK'
    BY <1>4, FinishProc DEF PersistReceipt, Answer
  <2>. QED
    BY <1>4, <2>1, <2>2, FaultType DEF PersistReceipt
<1>5. CASE Crash(p)
  BY <1>5, FinishProc, FaultType DEF Crash, Answer
<1>. QED
  BY <1>2, <1>3, <1>4, <1>5 DEF EvidenceStep

(* A handler that enters an endpoint, with a view that is well typed. *)
LEMMA EnterType ==
    ASSUME ControlOK, NEW o \in Opr, NEW t \in Txn, NEW what \in Task,
           NEW label \in OprLabel, Enter(o, t, what, label),
           view' \in [Opr -> View]
    PROVE  ControlOK'
BY ConstantsAssumption DEF ControlOK, Enter, Engaged, Proc

LEMMA SeeRecordType ==
    ASSUME RecordOK, NEW t \in Txn, NEW v \in View
    PROVE  SeeRecord(v, t) \in View
BY DEF SeeRecord, RecordOK, View

LEMMA CallType ==
    ASSUME TypeInv, NEW o \in Opr,
           \/ VerifyCall(o) \/ ReceiptCall(o) \/ ResolveCall(o)
           \/ \E t \in Txn : FinalizeRead(o, t)
    PROVE  TypeInv'
<1>. USE TypeParts, KeptType DEF Proc
<1>1. view \in [Opr -> View]
  BY DEF TypeInv, TypeOK
<1>2. CASE VerifyCall(o)
  BY <1>1, <1>2, EnterType DEF VerifyCall, Task, OprLabel
<1>3. CASE ReceiptCall(o)
  BY <1>1, <1>3, EnterType DEF ReceiptCall, Task, OprLabel
<1>4. CASE ResolveCall(o)
  <2>1. PICK u \in Txn, res \in Resolution :
           /\ Enter(o, u, "resolve",
                    IF intent[u] \in {"PREPARED", "RELEASED", "ERRORED"}
                    THEN "r_record" ELSE "r_read")
           /\ view' = [view EXCEPT ![o].stated = res]
    BY <1>4 DEF ResolveCall, Statement
  <2>2. view' \in [Opr -> View]
    BY <1>1, <2>1 DEF View
  <2>3. ControlOK'
    BY <2>1, <2>2, EnterType DEF Task, OprLabel
  <2>. QED
    BY <1>4, <2>3 DEF ResolveCall
<1>5. ASSUME NEW t \in Txn, FinalizeRead(o, t)
      PROVE  TypeInv'
  <2>1. view' \in [Opr -> View]
    <3>. DEFINE w == [view[o] EXCEPT !.state = intent[t], !.saved = saved[t]]
    <3>1. intent[t] \in IntentState \cup {"NONE"} /\ saved[t] \in BOOLEAN
      BY DEF IntentOK
    <3>2. w \in View
      BY <1>1, <3>1 DEF View
    <3>3. view' = [view EXCEPT ![o] = w]
      BY <1>1, <1>5 DEF FinalizeRead
    <3>. QED
      BY <1>1, <3>2, <3>3
  <2>2. ControlOK'
    BY <1>5, <2>1, EnterType DEF FinalizeRead, Task, OprLabel
  <2>. QED
    BY <1>5, <2>2 DEF FinalizeRead
<1>. QED
  BY <1>2, <1>3, <1>4, <1>5

LEMMA CallerType ==
    ASSUME TypeInv, NEW o \in Opr, CallerStep(o)
    PROVE  TypeInv'
<1>. USE TypeParts, KeptType DEF Proc
<1>0. /\ pc[o] # "idle" => txn[o] \in Txn
      /\ view[o] \in View
      /\ NoView \in View
  BY DEF TypeInv, TypeOK, Engaged, View, NoView
<1>1. ASSUME NEW v \in View, AfterFinalize(o, v), pc[o] # "idle"
      PROVE  ControlOK'
  BY <1>0, <1>1, ContinueOpr, LeaveOpr DEF AfterFinalize, OprLabel
<1>2. CASE FinalizeCheck(o)
  <2>1. ControlOK'
    BY <1>0, <1>1, <1>2, SeeRecordType, ContinueOpr, GotoOpr, LeaveOpr
       DEF FinalizeCheck, OprLabel
  <2>. QED
    BY <1>2, <2>1, FaultType DEF FinalizeCheck
<1>3. CASE FinalizeCreate(o)
  <2>1. [view[o] EXCEPT !.record = o] \in View
    BY <1>0 DEF View
  <2>2. ControlOK'
    BY <1>0, <1>3, <2>1, ContinueOpr, GotoOpr, LeaveOpr DEF FinalizeCreate, OprLabel
  <2>3. RecordOK' /\ ExecutionOK'
    BY <1>0, <1>3, CreateRecordType DEF FinalizeCreate
  <2>. QED
    BY <1>3, <2>2, <2>3, FaultType DEF FinalizeCreate
<1>4. CASE FinalizeReread(o)
  BY <1>0, <1>4, SeeRecordType, ContinueOpr, LeaveOpr, FaultType
     DEF FinalizeReread, OprLabel
<1>5. CASE FinalizeMark(o)
  <2>1. view[o].record \in Proc \cup {None}
    BY <1>0 DEF View
  <2>2. IntentOK'
    BY <1>0, <1>5, <2>1, FinalizedType DEF FinalizeMark
  <2>. QED
    BY <1>0, <1>1, <1>5, <2>2, FaultType DEF FinalizeMark
<1>6. CASE FinalizeReload(o)
  BY <1>6, GotoOpr, LeaveOpr, FaultType DEF FinalizeReload, OprLabel
<1>7. CASE ResolveRecord(o)
  BY <1>7, GotoOpr, LeaveOpr, FaultType DEF ResolveRecord, OprLabel
<1>8. CASE ResolveRead(o)
  BY <1>8, GotoOpr, LeaveOpr, FaultType DEF ResolveRead, OprLabel
<1>9. CASE ResolveMove(o)
  <2>1. view[o].stated \in Resolution \cup {"NONE"}
    BY <1>0 DEF View
  <2>. QED
    BY <1>0, <1>9, <2>1, ResolvedType, LeaveOpr, FaultType DEF ResolveMove
<1>. QED
  BY <1>2, <1>3, <1>4, <1>5, <1>6, <1>7, <1>8, <1>9 DEF CallerStep

LEMMA TypeStep == TypeInv /\ [Next]_vars => TypeInv'
<1>. SUFFICES ASSUME TypeInv, [Next]_vars PROVE TypeInv'
  OBVIOUS
<1>1. CASE UNCHANGED vars
  BY <1>1, TypeParts, KeptType DEF vars, procVars
<1>2. CASE Next
  BY <1>2, RequestType, EvidenceType, CallType, CallerType DEF Next
<1>. QED
  BY <1>1, <1>2

(* Every variable keeps its type: in particular a handler is always at a   *)
(* label of its own endpoint and the fault budget is never exceeded.       *)
THEOREM TypeCorrect == Spec => []TypeOK
<1>1. Spec => []TypeInv
  BY TypeInit, TypeStep, PTL DEF Spec
<1>2. TypeInv => TypeOK
  BY DEF TypeInv
<1>. QED
  BY <1>1, <1>2, PTL
---------------------------------------------------------------------------
(***************************************************************************)
(* At most one release.  The request that inserted the transaction row     *)
(* owns the transaction: only it can release the action, it does so at one *)
(* label, and it never returns to that label.                              *)
(***************************************************************************)

(* Before a request has inserted its transaction row. *)
Arriving == {"idle", "exists", "insert"}

(* Where only the owner of a transaction can be. *)
Owning == {"decide", "ready", "prepare", "start", "perform", "complete", "fail",
           "errored", "released", "store", "inline", "verify", "receipt",
           "append", "denied", "unavailable", "unknown", "incomplete", "ok"}

(* Where the owner is once the connector performed the action. *)
AfterPerform == {"complete", "fail", "errored", "released", "store", "inline",
                 "verify", "receipt", "append", "unknown", "incomplete", "ok",
                 "error", "crashed"}

OwnsWhereItIs == \A r \in Req : pc[r] \in Owning => owner[txn[r]] = r

OwnerIsPast ==
    \A t \in Txn : owner[t] # None =>
        txn[owner[t]] = t /\ pc[owner[t]] \notin Arriving

PerformedByOwner ==
    \A t \in Txn : performed[t] > 0 =>
        owner[t] # None /\ pc[owner[t]] \in AfterPerform

PreparedBeforeRelease ==
    \A r \in Req : pc[r] \in {"start", "perform"} => intent[txn[r]] # "NONE"

OwnerInv ==
    /\ TypeInv
    /\ OwnsWhereItIs
    /\ OwnerIsPast
    /\ PerformedByOwner
    /\ PreparedBeforeRelease
    /\ ReleasedOnce
    /\ ReleaseHasIntent

LEMMA OwnerInit == Init => OwnerInv
<1>. SUFFICES ASSUME Init PROVE OwnerInv
  OBVIOUS
<1>1. TypeInv
  BY TypeInit
<1>. QED
  BY <1>1 DEF Init, OwnerInv, OwnsWhereItIs, OwnerIsPast, PerformedByOwner,
     PreparedBeforeRelease, ReleasedOnce, ReleaseHasIntent, Owning, Proc

(* No repository operation removes the row of an intent. *)
IntentsKept == \A t \in Txn : intent[t] # "NONE" => intent'[t] # "NONE"

LEMMA KeepsIntents ==
    ASSUME TypeInv, NEW t \in Txn, NEW rec, NEW m, NEW res,
           \/ CreateIntent(t) \/ MarkReleased(t) \/ MarkErrored(t)
           \/ MarkFinalized(t, rec, m) \/ MarkResolved(t, res)
           \/ UNCHANGED intentVars
    PROVE  IntentsKept
<1>. USE DEF TypeInv, TypeOK, IntentsKept, intentVars
<1>1. CASE CreateIntent(t)
  BY <1>1 DEF CreateIntent
<1>2. CASE MarkReleased(t)
  BY <1>2 DEF MarkReleased
<1>3. CASE MarkErrored(t)
  BY <1>3 DEF MarkErrored
<1>4. CASE MarkFinalized(t, rec, m)
  BY <1>4 DEF MarkFinalized
<1>5. CASE MarkResolved(t, res)
  BY <1>5 DEF MarkResolved
<1>6. CASE UNCHANGED intentVars
  BY <1>6
<1>. QED
  BY <1>1, <1>2, <1>3, <1>4, <1>5, <1>6

(* A step of a caller does not touch what the invariant speaks of. *)
LEMMA OwnerFrame ==
    ASSUME OwnerInv, TypeInv', UNCHANGED <<owner, performed>>, IntentsKept,
           \A r \in Req : pc'[r] = pc[r] /\ txn'[r] = txn[r]
    PROVE  OwnerInv'
<1>. USE DEF OwnerInv
<1>1. OwnsWhereItIs' /\ PreparedBeforeRelease'
  BY DEF OwnsWhereItIs, PreparedBeforeRelease, IntentsKept, TypeInv, TypeOK,
     Engaged, Proc
<1>2. OwnerIsPast' /\ PerformedByOwner'
  BY DEF OwnerIsPast, PerformedByOwner, TypeInv, TypeOK
<1>3. ReleasedOnce' /\ ReleaseHasIntent'
  BY DEF ReleasedOnce, ReleaseHasIntent, IntentsKept
<1>. QED
  BY <1>1, <1>2, <1>3

(* A step of a request that only moves it. *)
LEMMA OwnerMove ==
    ASSUME OwnerInv, TypeInv', NEW r \in Req, NEW label, Goto(r, label),
           UNCHANGED <<owner, performed>>, IntentsKept,
           pc[r] # "idle",
           label \in Arriving => pc[r] \in Arriving,
           label \in Owning => pc[r] \in Owning,
           pc[r] \in AfterPerform => label \in AfterPerform,
           label \in {"start", "perform"} => intent'[txn[r]] # "NONE"
    PROVE  OwnerInv'
<1>. USE DEF OwnerInv
<1>0. /\ pc' = [pc EXCEPT ![r] = label]
      /\ txn' = txn
      /\ pc \in [Proc -> ReqLabel \cup OprLabel]
      /\ r \in Proc
      /\ owner \in [Txn -> Req \cup {None}]
      /\ txn[r] \in Txn
      /\ Req \subseteq Proc
  BY DEF Goto, TypeInv, TypeOK, Proc, Engaged
<1>1. OwnsWhereItIs'
  BY <1>0 DEF OwnsWhereItIs
<1>2. OwnerIsPast'
  BY <1>0 DEF OwnerIsPast
<1>3. PerformedByOwner'
  BY <1>0 DEF PerformedByOwner
<1>4. PreparedBeforeRelease'
  <2>. SUFFICES ASSUME NEW q \in Req, pc'[q] \in {"start", "perform"}
                PROVE  intent'[txn[q]] # "NONE"
    BY <1>0 DEF PreparedBeforeRelease
  <2>1. CASE q = r
    BY <1>0, <2>1
  <2>2. CASE q # r
    <3>1. pc[q] \in {"start", "perform"} /\ txn[q] \in Txn
      BY <1>0, <2>2 DEF TypeInv, Engaged
    <3>. QED
      BY <3>1 DEF PreparedBeforeRelease, IntentsKept
  <2>. QED
    BY <2>1, <2>2
<1>5. ReleasedOnce' /\ ReleaseHasIntent'
  BY DEF ReleasedOnce, ReleaseHasIntent, IntentsKept
<1>. QED
  BY <1>1, <1>2, <1>3, <1>4, <1>5

LEMMA OwnerRequest ==
    ASSUME OwnerInv, TypeInv', NEW r \in Req, Submit(r) \/ RequestStep(r)
    PROVE  OwnerInv'
<1>. USE DEF Arriving, Owning, AfterPerform
<1>0. /\ TypeInv
      /\ r \in Proc
      /\ pc[r] # "idle" => txn[r] \in Txn
      /\ UNCHANGED intentVars => IntentsKept
  BY DEF OwnerInv, TypeInv, TypeOK, Engaged, Proc, IntentsKept, intentVars
<1>1. CASE Submit(r)
  <2>. USE DEF OwnerInv
  <2>0. /\ pc[r] = "idle" /\ pc' = [pc EXCEPT ![r] = "exists"]
        /\ \A q \in Proc \ {r} : txn'[q] = txn[q]
        /\ UNCHANGED <<owner, intent, performed>>
        /\ pc \in [Proc -> ReqLabel \cup OprLabel]
        /\ owner \in [Txn -> Req \cup {None}]
        /\ Req \subseteq Proc
    BY <1>1 DEF Submit, intentVars, TypeInv, TypeOK, Proc
  <2>1. OwnsWhereItIs' /\ PreparedBeforeRelease'
    BY <1>0, <2>0 DEF OwnsWhereItIs, PreparedBeforeRelease
  <2>2. OwnerIsPast' /\ PerformedByOwner'
    BY <1>0, <2>0 DEF OwnerIsPast, PerformedByOwner
  <2>3. ReleasedOnce' /\ ReleaseHasIntent'
    BY <2>0 DEF ReleasedOnce, ReleaseHasIntent
  <2>. QED
    BY <2>1, <2>2, <2>3
<1>2. CASE AcceptExists(r)
  BY <1>0, <1>2, OwnerMove DEF AcceptExists
<1>3. CASE AcceptInsert(r)
  <2>1. CASE /\ UNCHANGED owner
             /\ Goto(r, "duplicate") \/ Goto(r, "error")
    BY <1>0, <1>3, <2>1, OwnerMove DEF AcceptInsert
  <2>2. CASE /\ InsertTransaction(txn[r], r)
             /\ Goto(r, "decide") \/ Goto(r, "error")
    <3>. USE DEF OwnerInv
    <3>0. /\ owner[txn[r]] = None /\ owner' = [owner EXCEPT ![txn[r]] = r]
          /\ pc[r] = "insert"
          /\ \/ pc' = [pc EXCEPT ![r] = "decide"]
             \/ pc' = [pc EXCEPT ![r] = "error"]
          /\ UNCHANGED <<intent, performed, txn>>
          /\ pc \in [Proc -> ReqLabel \cup OprLabel]
          /\ owner \in [Txn -> Req \cup {None}]
          /\ performed \in [Txn -> Nat]
          /\ txn[r] \in Txn
          /\ Req \subseteq Proc
      BY <1>0, <1>3, <2>2
         DEF AcceptInsert, InsertTransaction, Goto, intentVars, TypeInv, TypeOK, Proc
    <3>1. r # None
      BY ConstantsAssumption
    <3>2. OwnsWhereItIs'
      <4>. SUFFICES ASSUME NEW q \in Req, pc'[q] \in Owning
                    PROVE  owner'[txn[q]] = q
        BY <3>0 DEF OwnsWhereItIs
      <4>1. CASE q = r
        BY <3>0, <4>1
      <4>2. CASE q # r
        <5>1. pc[q] \in Owning /\ txn[q] \in Txn
          BY <3>0, <4>2 DEF TypeInv, Engaged
        <5>2. owner[txn[q]] = q /\ q # None
          BY <5>1, ConstantsAssumption DEF OwnsWhereItIs
        <5>. QED
          BY <3>0, <5>1, <5>2
      <4>. QED
        BY <4>1, <4>2
    <3>3. PreparedBeforeRelease'
      BY <3>0 DEF PreparedBeforeRelease
    <3>4. OwnerIsPast'
      BY <3>0, <3>1 DEF OwnerIsPast
    <3>5. PerformedByOwner'
      BY <3>0, <3>1 DEF PerformedByOwner, OwnerIsPast
    <3>6. ReleasedOnce' /\ ReleaseHasIntent'
      BY <3>0 DEF ReleasedOnce, ReleaseHasIntent
    <3>. QED
      BY <3>2, <3>3, <3>4, <3>5, <3>6
  <2>. QED
    BY <1>3, <2>1, <2>2 DEF AcceptInsert
<1>4. CASE Decide(r)
  BY <1>0, <1>4, OwnerMove DEF Decide
<1>5. CASE AssertSigningReady(r)
  BY <1>0, <1>5, OwnerMove DEF AssertSigningReady
<1>6. CASE Prepare(r)
  <2>1. IntentsKept
    BY <1>0, <1>6, KeepsIntents DEF Prepare
  <2>2. CreateIntent(txn[r]) => intent'[txn[r]] # "NONE"
    BY <1>0, <1>6 DEF CreateIntent, Prepare, TypeInv, TypeOK
  <2>. QED
    BY <1>6, <2>1, <2>2, OwnerMove DEF Prepare
<1>7. CASE StartExecution(r)
  <2>1. intent'[txn[r]] # "NONE"
    BY <1>7 DEF StartExecution, OwnerInv, PreparedBeforeRelease, intentVars
  <2>. QED
    BY <1>0, <1>7, <2>1, OwnerMove DEF StartExecution
<1>8. CASE Perform(r)
  <2>1. CASE UNCHANGED performed
    BY <1>0, <1>8, <2>1, OwnerMove DEF Perform
  <2>2. CASE performed' = [performed EXCEPT ![txn[r]] = @ + 1]
    <3>. USE DEF OwnerInv
    <3>0. /\ pc[r] = "perform"
          /\ \/ pc' = [pc EXCEPT ![r] = "complete"]
             \/ pc' = [pc EXCEPT ![r] = "fail"]
          /\ UNCHANGED <<owner, intent, txn>>
          /\ pc \in [Proc -> ReqLabel \cup OprLabel]
          /\ owner \in [Txn -> Req \cup {None}]
          /\ performed \in [Txn -> Nat]
          /\ txn[r] \in Txn
          /\ Req \subseteq Proc
      BY <1>0, <1>8, <2>2 DEF Perform, Goto, intentVars, TypeInv, TypeOK, Proc
    <3>1. owner[txn[r]] = r /\ r # None
      BY <3>0, ConstantsAssumption DEF OwnsWhereItIs
    <3>2. performed[txn[r]] = 0
      BY <3>0, <3>1 DEF PerformedByOwner
    <3>3. intent[txn[r]] # "NONE"
      BY <3>0 DEF PreparedBeforeRelease
    <3>4. OwnsWhereItIs' /\ PreparedBeforeRelease'
      BY <3>0 DEF OwnsWhereItIs, PreparedBeforeRelease
    <3>5. OwnerIsPast'
      BY <3>0 DEF OwnerIsPast
    <3>6. PerformedByOwner'
      BY <2>2, <3>0, <3>1 DEF PerformedByOwner
    <3>7. ReleasedOnce' /\ ReleaseHasIntent'
      BY <2>2, <3>0, <3>2, <3>3 DEF ReleasedOnce, ReleaseHasIntent
    <3>. QED
      BY <3>4, <3>5, <3>6, <3>7
  <2>. QED
    BY <1>8, <2>1, <2>2 DEF Perform
<1>9. CASE CompleteExecution(r)
  BY <1>0, <1>9, OwnerMove DEF CompleteExecution
<1>10. CASE FailExecution(r)
  BY <1>0, <1>10, OwnerMove DEF FailExecution
<1>11. CASE ReleaseErrored(r)
  <2>1. IntentsKept
    BY <1>0, <1>11, KeepsIntents DEF ReleaseErrored
  <2>. QED
    BY <1>11, <2>1, OwnerMove DEF ReleaseErrored
<1>12. CASE SaveContext(r)
  <2>1. IntentsKept
    BY <1>0, <1>12, KeepsIntents DEF SaveContext
  <2>. QED
    BY <1>12, <2>1, OwnerMove DEF SaveContext
<1>13. CASE StoreRecord(r)
  BY <1>0, <1>13, OwnerMove DEF StoreRecord
<1>14. CASE FinalizeInline(r)
  <2>1. IntentsKept
    BY <1>0, <1>14, KeepsIntents DEF FinalizeInline
  <2>. QED
    BY <1>14, <2>1, OwnerMove DEF FinalizeInline
<1>. QED
  BY <1>1, <1>2, <1>3, <1>4, <1>5, <1>6, <1>7, <1>8, <1>9, <1>10, <1>11,
     <1>12, <1>13, <1>14 DEF RequestStep

LEMMA OwnerEvidence ==
    ASSUME OwnerInv, TypeInv', NEW p \in Proc, EvidenceStep(p) \/ Crash(p)
    PROVE  OwnerInv'
<1>1. /\ UNCHANGED <<owner, performed, intent>>
      /\ pc[p] \in {"verify", "receipt", "append"} \/ Crash(p)
      /\ pc[p] # "idle"
  BY DEF EvidenceStep, Verify, GenerateReceipt, PersistReceipt, Crash, intentVars
<1>2. IntentsKept
  BY <1>1 DEF IntentsKept
<1>3. CASE p \in Req
  <2>1. p \notin Opr
    BY <1>3, ConstantsAssumption
  <2>2. CASE Crash(p)
    BY <1>1, <1>2, <1>3, <2>1, <2>2, OwnerMove
       DEF Crash, Finish, Arriving, Owning, AfterPerform
  <2>3. CASE EvidenceStep(p)
    <3>1. \E label \in {"receipt", "append", "ok", "error"} : Goto(p, label)
      BY <2>1, <2>3 DEF EvidenceStep, Verify, VerifyNext, GenerateReceipt,
         PersistReceipt, Finish
    <3>2. pc[p] \in {"verify", "receipt", "append"}
      BY <2>3 DEF EvidenceStep, Verify, GenerateReceipt, PersistReceipt
    <3>. QED
      BY <1>1, <1>2, <1>3, <3>1, <3>2, OwnerMove
         DEF Arriving, Owning, AfterPerform
  <2>. QED
    BY <2>2, <2>3
<1>4. CASE p \in Opr
  <2>1. p \notin Req
    BY <1>4, ConstantsAssumption
  <2>2. (\E label : Goto(p, label)) \/ Leave(p)
    BY <2>1 DEF EvidenceStep, Verify, VerifyNext, GenerateReceipt,
       PersistReceipt, Finish, Crash
  <2>3. \A r \in Req : pc'[r] = pc[r] /\ txn'[r] = txn[r]
    BY <2>1, <2>2 DEF Goto, Leave, OwnerInv, TypeInv, TypeOK, Proc
  <2>. QED
    BY <1>1, <1>2, <2>3, OwnerFrame
<1>. QED
  BY <1>3, <1>4 DEF Proc

LEMMA OwnerCaller ==
    ASSUME OwnerInv, TypeInv', NEW o \in Opr,
           \/ VerifyCall(o) \/ ReceiptCall(o) \/ ResolveCall(o)
           \/ \E t \in Txn : FinalizeRead(o, t)
           \/ CallerStep(o)
    PROVE  OwnerInv'
<1>0. o \notin Req /\ TypeInv /\ (UNCHANGED intentVars => IntentsKept)
  BY ConstantsAssumption DEF OwnerInv, IntentsKept, intentVars
<1>1. CASE CallerStep(o)
  <2>1. UNCHANGED <<owner, performed>> /\ txn[o] \in Txn
    BY <1>0, <1>1 DEF CallerStep, FinalizeCheck, FinalizeCreate, FinalizeReread,
       FinalizeMark, FinalizeReload, ResolveRecord, ResolveRead, ResolveMove,
       TypeInv, Engaged, Proc
  <2>2. IntentsKept
    BY <1>0, <1>1, <2>1, KeepsIntents DEF CallerStep, FinalizeCheck,
       FinalizeCreate, FinalizeReread, FinalizeMark, FinalizeReload,
       ResolveRecord, ResolveRead, ResolveMove
  <2>3. \/ \E label : Goto(o, label)
        \/ \E label, v : Continue(o, label, v)
        \/ Leave(o)
    BY <1>1 DEF CallerStep, FinalizeCheck, FinalizeCreate, FinalizeReread,
       FinalizeMark, FinalizeReload, ResolveRecord, ResolveRead, ResolveMove,
       AfterFinalize
  <2>4. \A r \in Req : pc'[r] = pc[r] /\ txn'[r] = txn[r]
    BY <1>0, <2>3 DEF Goto, Continue, Leave, TypeInv, TypeOK, Proc
  <2>. QED
    BY <2>1, <2>2, <2>4, OwnerFrame
<1>2. ASSUME NEW t, NEW what, NEW label, Enter(o, t, what, label),
             UNCHANGED <<owner, performed, intentVars>>
      PROVE  OwnerInv'
  <2>1. \A r \in Req : pc'[r] = pc[r] /\ txn'[r] = txn[r]
    BY <1>0, <1>2 DEF Enter, TypeInv, TypeOK, Proc
  <2>. QED
    BY <1>0, <1>2, <2>1, OwnerFrame
<1>. QED
  BY <1>1, <1>2 DEF VerifyCall, ReceiptCall, ResolveCall, FinalizeRead

LEMMA OwnerStep == OwnerInv /\ [Next]_vars => OwnerInv'
<1>. SUFFICES ASSUME OwnerInv, [Next]_vars PROVE OwnerInv'
  OBVIOUS
<1>1. TypeInv'
  BY TypeStep DEF OwnerInv
<1>2. CASE UNCHANGED vars
  <2>1. IntentsKept /\ UNCHANGED <<owner, performed, pc, txn>>
    BY <1>2 DEF vars, intentVars, procVars, IntentsKept
  <2>. QED
    BY <1>1, <2>1, OwnerFrame
<1>3. CASE Next
  BY <1>1, <1>3, OwnerRequest, OwnerEvidence, OwnerCaller DEF Next
<1>. QED
  BY <1>2, <1>3

LEMMA OwnerAlways == Spec => []OwnerInv
BY OwnerInit, OwnerStep, PTL DEF Spec

(* However many requests carry a transaction, and whatever is retried,     *)
(* repaired or restarted, the connector performs its action at most once.  *)
THEOREM AtMostOneRelease == Spec => []ReleasedOnce
<1>1. OwnerInv => ReleasedOnce
  BY DEF OwnerInv
<1>. QED
  BY <1>1, OwnerAlways, PTL

(* ADR-0012's promise: no action is performed before a signed intent for   *)
(* it is stored, and that row is never lost.                               *)
THEOREM ExecutedHasEvidence == Spec => []ReleaseHasIntent
<1>1. OwnerInv => ReleaseHasIntent
  BY DEF OwnerInv
<1>. QED
  BY <1>1, OwnerAlways, PTL

(* A 403 or a 503 answer of POST /execute is final: the action was not     *)
(* performed and no other request or repair ever performs it.              *)
THEOREM RefusedIsNotExecuted == Spec => []NothingExecuted
<1>1. OwnerInv => NothingExecuted
  <2>. SUFFICES ASSUME OwnerInv, NEW r \in Req, pc[r] \in {"denied", "unavailable"}
                PROVE  performed[txn[r]] = 0
    BY DEF NothingExecuted
  <2>1. txn[r] \in Txn /\ performed[txn[r]] \in Nat
    BY DEF OwnerInv, TypeInv, TypeOK, Engaged, Proc
  <2>2. owner[txn[r]] = r
    BY DEF OwnerInv, OwnsWhereItIs, Owning
  <2>. QED
    BY <2>1, <2>2 DEF OwnerInv, PerformedByOwner, AfterPerform
<1>. QED
  BY <1>1, OwnerAlways, PTL

---------------------------------------------------------------------------
(***************************************************************************)
(* Records.  A record is built by a request past its release or by a       *)
(* finalize that found a saved context; both mean the owner completed the  *)
(* execution and has left the labels where executions are written, so what *)
(* the record says of the execution cannot change any more.                *)
(***************************************************************************)
(* Where the owner is once the connector answered and the execution was    *)
(* completed.                                                              *)
AfterRelease == {"released", "store", "inline", "verify", "receipt", "append",
                 "incomplete", "ok", "error", "crashed"}

Settled(t) ==
    /\ performed[t] > 0
    /\ Durable \/ record[t] # None => execution[t] = "COMPLETED"
    /\ owner[t] # None
    /\ pc[owner[t]] \in AfterRelease

PerformedBeforeComplete ==
    \A r \in Req : pc[r] = "complete" => performed[txn[r]] > 0

StoredWhenSettled ==
    \A r \in Req : pc[r] \in {"released", "store"} => Settled(txn[r])

SavedWhenSettled ==
    \A t \in Txn : saved[t] \/ record[t] # None => Settled(t)

RepairedWhenSettled ==
    \A o \in Opr : pc[o] = "f_create" \/ (pc[o] = "f_check" /\ view[o].saved) =>
        Settled(txn[o])

SettledInv ==
    /\ OwnerInv
    /\ PerformedBeforeComplete
    /\ StoredWhenSettled
    /\ SavedWhenSettled
    /\ RepairedWhenSettled

LEMMA SettledInit == Init => SettledInv
<1>. SUFFICES ASSUME Init PROVE SettledInv
  OBVIOUS
<1>1. OwnerInv
  BY OwnerInit
<1>. QED
  BY <1>1 DEF Init, SettledInv, PerformedBeforeComplete,
     StoredWhenSettled, SavedWhenSettled, RepairedWhenSettled, Proc

(* What one step does to the stored state of a transaction. *)
LEMMA CreateRecordEffect ==
    ASSUME TypeInv, NEW u \in Txn, NEW p \in Proc, CreateRecord(u, p), NEW t \in Txn
    PROVE  /\ t # u => record'[t] = record[t] /\ execution'[t] = execution[t]
           /\ record'[u] = p /\ p # None
           /\ Durable => execution' = execution
           /\ ~Durable => execution'[u] = "COMPLETED"
BY ConstantsAssumption DEF CreateRecord, CreateRecordPostgres, CreateRecordMemory, TypeInv, TypeOK, Proc

(* Once settled, a transaction stays settled: its owner has left the       *)
(* labels at which executions are written, and no other process does.      *)
LEMMA SettledKept ==
    ASSUME OwnerInv, TypeInv', [Next]_vars, NEW t \in Txn, Settled(t)
    PROVE  Settled(t)'
<1>. DEFINE w == owner[t]
<1>0. /\ w \in Req /\ w \in Proc /\ txn[w] = t /\ pc[w] \in AfterRelease
      /\ TypeInv /\ w \notin Opr /\ w # None /\ TypeOK
  BY ConstantsAssumption
     DEF Settled, OwnerInv, TypeInv, TypeOK, OwnerIsPast, Proc
<1>. SUFFICES /\ owner'[t] = w
              /\ performed'[t] > 0
              /\ Durable \/ record'[t] # None => execution'[t] = "COMPLETED"
              /\ pc'[w] \in AfterRelease
  BY <1>0 DEF Settled
<1>1. ASSUME UNCHANGED <<owner, performed, execution, record>>
      PROVE  /\ owner'[t] = w /\ performed'[t] > 0
             /\ Durable \/ record'[t] # None => execution'[t] = "COMPLETED"
  BY <1>1 DEF Settled
<1>2. ASSUME NEW r \in Req, Submit(r) \/ RequestStep(r)
      PROVE  /\ owner'[t] = w
             /\ performed'[t] > 0
             /\ Durable \/ record'[t] # None => execution'[t] = "COMPLETED"
             /\ pc'[w] \in AfterRelease
  <2>0. /\ r \in Proc
        /\ pc[r] \notin {"idle"} => txn[r] \in Txn
        /\ pc[r] \in Owning => owner[txn[r]] = r
    BY <1>0 DEF OwnerInv, OwnsWhereItIs, TypeInv, Engaged, Proc
  <2>1. pc'[w] \in AfterRelease
    <3>1. CASE r # w
      BY <1>0, <1>2, <3>1 DEF TypeOK, Submit, RequestStep, AcceptExists, AcceptInsert,
         Decide, AssertSigningReady, Prepare, StartExecution, Perform,
         CompleteExecution, FailExecution, ReleaseErrored, SaveContext,
         StoreRecord, FinalizeInline, Goto
    <3>2. CASE r = w
      <4>1. SaveContext(r) \/ StoreRecord(r) \/ FinalizeInline(r)
        BY <1>0, <1>2, <3>2 DEF Submit, RequestStep, AcceptExists, AcceptInsert,
         Decide, AssertSigningReady, Prepare, StartExecution, Perform,
         CompleteExecution, FailExecution, ReleaseErrored, AfterRelease
      <4>. QED
        BY <1>0, <3>2, <4>1 DEF SaveContext, StoreRecord, FinalizeInline, Goto, AfterRelease, TypeOK
    <3>. QED
      BY <3>1, <3>2
  <2>2. owner'[t] = w
    <3>1. CASE AcceptInsert(r)
      BY <1>0, <2>0, <3>1 DEF AcceptInsert, InsertTransaction, TypeOK
    <3>2. CASE UNCHANGED owner
      BY <3>2
    <3>. QED
      BY <1>2, <3>1, <3>2 DEF Submit, RequestStep, AcceptExists, 
         Decide, AssertSigningReady, Prepare, StartExecution, Perform,
         CompleteExecution, FailExecution, ReleaseErrored, SaveContext,
         StoreRecord, FinalizeInline
  <2>3. performed'[t] > 0
    <3>1. CASE Perform(r)
      BY <1>0, <2>0, <3>1 DEF Perform, TypeOK, Settled
    <3>2. CASE UNCHANGED performed
      BY <3>2 DEF Settled
    <3>. QED
      BY <1>2, <3>1, <3>2 DEF Submit, RequestStep, AcceptExists, AcceptInsert,
         Decide, AssertSigningReady, Prepare, StartExecution,
         CompleteExecution, FailExecution, ReleaseErrored, SaveContext,
         StoreRecord, FinalizeInline
  <2>4. Durable \/ record'[t] # None => execution'[t] = "COMPLETED"
    <3>1. CASE UNCHANGED <<execution, record>>
      BY <3>1 DEF Settled
    <3>2. CASE StoreRecord(r)
      <4>1. CASE CreateRecord(txn[r], r)
        BY <1>0, <2>0, <3>2, <4>1, CreateRecordEffect DEF Settled, StoreRecord
      <4>. QED
        BY <3>1, <3>2, <4>1 DEF StoreRecord, recordVars
    <3>3. CASE StartExecution(r) \/ CompleteExecution(r) \/ FailExecution(r)
      <4>1. pc[r] \in {"start", "complete", "fail"}
        BY <3>3 DEF StartExecution, CompleteExecution, FailExecution
      <4>2. txn[r] # t
        BY <1>0, <2>0, <4>1 DEF Owning, AfterRelease
      <4>3. UNCHANGED record /\ (UNCHANGED execution \/ \E s : WriteExecution(txn[r], s))
        BY <3>3 DEF StartExecution, CompleteExecution, FailExecution, recordVars
      <4>. QED
        BY <1>0, <2>0, <4>1, <4>2, <4>3 DEF WriteExecution, TypeOK, Settled
    <3>. QED
      BY <1>2, <3>1, <3>2, <3>3 DEF Submit, RequestStep, AcceptExists, AcceptInsert,
         Decide, AssertSigningReady, Prepare, Perform, ReleaseErrored, SaveContext,
         FinalizeInline, recordVars
  <2>. QED
    BY <2>1, <2>2, <2>3, <2>4
<1>3. ASSUME NEW p \in Proc, EvidenceStep(p) \/ Crash(p)
      PROVE  /\ owner'[t] = w
             /\ performed'[t] > 0
             /\ Durable \/ record'[t] # None => execution'[t] = "COMPLETED"
             /\ pc'[w] \in AfterRelease
  <2>1. UNCHANGED <<owner, performed, execution, record>>
    BY <1>3 DEF EvidenceStep, Verify, GenerateReceipt, PersistReceipt, Crash,
       AppendVerification, AppendReceipt, recordVars
  <2>2. \/ Leave(p) /\ p \in Opr
        \/ \E label \in {"receipt", "append", "ok", "error", "crashed"} : Goto(p, label)
        \/ p \in Opr /\ \E label : Goto(p, label)
    BY <1>3 DEF EvidenceStep, Verify, VerifyNext, GenerateReceipt, PersistReceipt,
       Crash, Finish
  <2>3. pc'[w] \in AfterRelease
    BY <1>0, <2>2 DEF Goto, Leave, TypeOK, AfterRelease
  <2>. QED
    BY <1>1, <2>1, <2>3
<1>4. ASSUME NEW o \in Opr,
             \/ VerifyCall(o) \/ ReceiptCall(o) \/ ResolveCall(o)
             \/ CallerStep(o) \/ \E u \in Txn : FinalizeRead(o, u)
      PROVE  /\ owner'[t] = w
             /\ performed'[t] > 0
             /\ Durable \/ record'[t] # None => execution'[t] = "COMPLETED"
             /\ pc'[w] \in AfterRelease
  <2>1. pc'[w] = pc[w]
    <3>1. CASE CallerStep(o)
      BY <1>0, <3>1 DEF CallerStep, FinalizeCheck, FinalizeCreate,
         FinalizeReread, FinalizeMark, FinalizeReload, ResolveRecord, ResolveRead,
         ResolveMove, AfterFinalize, Goto, Continue, Leave, TypeOK
    <3>. QED
      BY <1>0, <1>4, <3>1, ZenonT(60) DEF VerifyCall, ReceiptCall, ResolveCall, FinalizeRead,
         Enter, TypeOK
  <2>2. CASE FinalizeCreate(o)
    <3>1. UNCHANGED <<owner, performed>>
      BY <2>2 DEF FinalizeCreate
    <3>2. o \in Proc /\ txn[o] \in Txn
      BY <1>0, <2>2 DEF FinalizeCreate, TypeInv, Engaged, Proc
    <3>3. CASE CreateRecord(txn[o], o)
      BY <1>0, <2>1, <3>1, <3>2, <3>3, CreateRecordEffect DEF Settled
    <3>4. CASE UNCHANGED <<record, execution>>
      BY <1>0, <1>1, <2>1, <3>1, <3>4
    <3>. QED
      BY <2>2, <3>3, <3>4 DEF FinalizeCreate, recordVars
  <2>3. CASE ~FinalizeCreate(o)
    <3>1. UNCHANGED <<owner, performed, execution, record>>
      BY <1>4, <2>3 DEF VerifyCall, ReceiptCall, ResolveCall, FinalizeRead, CallerStep,
         FinalizeCheck, FinalizeReread, FinalizeMark, FinalizeReload, ResolveRecord,
         ResolveRead, ResolveMove, recordVars
    <3>. QED
      BY <1>0, <1>1, <2>1, <3>1
  <2>. QED
    BY <2>2, <2>3
<1>5. CASE UNCHANGED vars
  BY <1>0, <1>1, <1>5 DEF vars, recordVars, procVars
<1>. QED
  BY <1>2, <1>3, <1>4, <1>5 DEF Next

(* Whose step it is: a process moves only by an action of its own. *)
LEMMA RequestMoves ==
    ASSUME TypeInv, [Next]_vars, NEW q \in Req
    PROVE  \/ Submit(q) \/ RequestStep(q) \/ EvidenceStep(q) \/ Crash(q)
           \/ pc'[q] = pc[q] /\ txn'[q] = txn[q]
<1>. USE DEF TypeInv, TypeOK, Proc
<1>0. q \notin Opr
  BY ConstantsAssumption
<1>1. ASSUME NEW r \in Req, Submit(r) \/ RequestStep(r), r # q
      PROVE  pc'[q] = pc[q] /\ txn'[q] = txn[q]
  BY <1>1 DEF Submit, RequestStep, AcceptExists, AcceptInsert,
     Decide, AssertSigningReady, Prepare, StartExecution, Perform,
     CompleteExecution, FailExecution, ReleaseErrored, SaveContext,
     StoreRecord, FinalizeInline, Goto
<1>2. ASSUME NEW p \in Proc, EvidenceStep(p) \/ Crash(p), p # q
      PROVE  pc'[q] = pc[q] /\ txn'[q] = txn[q]
  <2>1. (Leave(p) /\ p \in Opr) \/ \E label : Goto(p, label)
    BY <1>2 DEF EvidenceStep, Verify, VerifyNext, GenerateReceipt, PersistReceipt,
       Crash, Finish
  <2>. QED
    BY <1>0, <1>2, <2>1 DEF Goto, Leave
<1>3. ASSUME NEW o \in Opr,
             \/ VerifyCall(o) \/ ReceiptCall(o) \/ ResolveCall(o)
             \/ CallerStep(o) \/ \E u \in Txn : FinalizeRead(o, u)
      PROVE  pc'[q] = pc[q] /\ txn'[q] = txn[q]
  <2>1. \/ Leave(o) \/ \E label : Goto(o, label)
        \/ \E label, v : Continue(o, label, v)
        \/ \E u, what, label : Enter(o, u, what, label)
    BY <1>3 DEF CallerStep, FinalizeCheck, FinalizeCreate,
         FinalizeReread, FinalizeMark, FinalizeReload, ResolveRecord, ResolveRead,
         ResolveMove, AfterFinalize, VerifyCall, ReceiptCall, ResolveCall, FinalizeRead
  <2>. QED
    BY <1>0, <2>1 DEF Goto, Leave, Continue, Enter
<1>4. CASE UNCHANGED vars
  BY <1>4 DEF vars, procVars
<1>. QED
  BY <1>1, <1>2, <1>3, <1>4 DEF Next

LEMMA CallerMoves ==
    ASSUME TypeInv, [Next]_vars, NEW c \in Opr
    PROVE  \/ VerifyCall(c) \/ ReceiptCall(c) \/ ResolveCall(c)
           \/ \E u \in Txn : FinalizeRead(c, u)
           \/ CallerStep(c) \/ EvidenceStep(c) \/ Crash(c)
           \/ pc'[c] = pc[c] /\ txn'[c] = txn[c] /\ view'[c] = view[c]
<1>. USE DEF TypeInv, TypeOK, Proc
<1>0. c \notin Req
  BY ConstantsAssumption
<1>1. ASSUME NEW r \in Req, Submit(r) \/ RequestStep(r)
      PROVE  pc'[c] = pc[c] /\ txn'[c] = txn[c] /\ view'[c] = view[c]
  BY <1>0, <1>1 DEF Submit, RequestStep, AcceptExists, AcceptInsert,
     Decide, AssertSigningReady, Prepare, StartExecution, Perform,
     CompleteExecution, FailExecution, ReleaseErrored, SaveContext,
     StoreRecord, FinalizeInline, Goto
<1>2. ASSUME NEW p \in Proc, EvidenceStep(p) \/ Crash(p), p # c
      PROVE  pc'[c] = pc[c] /\ txn'[c] = txn[c] /\ view'[c] = view[c]
  <2>1. (Leave(p) /\ p \in Opr) \/ \E label : Goto(p, label)
    BY <1>2 DEF EvidenceStep, Verify, VerifyNext, GenerateReceipt, PersistReceipt,
       Crash, Finish
  <2>. QED
    BY <1>0, <1>2, <2>1 DEF Goto, Leave
<1>3. ASSUME NEW o \in Opr, o # c,
             \/ VerifyCall(o) \/ ReceiptCall(o) \/ ResolveCall(o)
             \/ CallerStep(o) \/ \E u \in Txn : FinalizeRead(o, u)
      PROVE  pc'[c] = pc[c] /\ txn'[c] = txn[c] /\ view'[c] = view[c]
  <2>1. \/ Leave(o) \/ \E label : Goto(o, label)
        \/ \E label, v : Continue(o, label, v)
        \/ \E u, what, label : Enter(o, u, what, label) /\ view'[c] = view[c]
    <3>1. CASE CallerStep(o)
      BY <3>1 DEF CallerStep, FinalizeCheck, FinalizeCreate,
         FinalizeReread, FinalizeMark, FinalizeReload, ResolveRecord, ResolveRead,
         ResolveMove, AfterFinalize
    <3>2. CASE VerifyCall(o) \/ ReceiptCall(o)
      BY <3>2 DEF VerifyCall, ReceiptCall
    <3>3. CASE ResolveCall(o)
      <4>1. PICK res : view' = [view EXCEPT ![o].stated = res]
        BY <3>3 DEF ResolveCall
      <4>2. view'[c] = view[c]
        BY <1>3, <4>1
      <4>. QED
        BY <3>3, <4>2 DEF ResolveCall
    <3>4. ASSUME NEW u \in Txn, FinalizeRead(o, u)
          PROVE  \E u1, what, label : Enter(o, u1, what, label) /\ view'[c] = view[c]
      <4>1. view' = [view EXCEPT ![o].state = intent[u], ![o].saved = saved[u]]
        BY <3>4 DEF FinalizeRead
      <4>2. view'[c] = view[c]
        BY <1>3, <4>1
      <4>. QED
        BY <3>4, <4>2 DEF FinalizeRead
    <3>. QED
      BY <1>3, <3>1, <3>2, <3>3, <3>4
  <2>. QED
    BY <1>3, <2>1 DEF Goto, Leave, Continue, Enter
<1>4. CASE UNCHANGED vars
  BY <1>4 DEF vars, procVars
<1>. QED
  BY <1>1, <1>2, <1>3, <1>4 DEF Next

LEMMA SettledStep == SettledInv /\ [Next]_vars => SettledInv'
<1>. SUFFICES ASSUME SettledInv, [Next]_vars PROVE SettledInv'
  OBVIOUS
<1>0. /\ OwnerInv /\ TypeInv /\ TypeOK /\ Engaged
      /\ OwnerInv' /\ TypeInv' /\ TypeOK'
      /\ Req \subseteq Proc /\ Opr \subseteq Proc
  BY OwnerStep DEF SettledInv, OwnerInv, TypeInv, Proc
<1>1. \A t \in Txn : Settled(t) => Settled(t)'
  BY <1>0, SettledKept
<1>2. PerformedBeforeComplete'
  <2>. SUFFICES ASSUME NEW q \in Req, pc'[q] = "complete"
                PROVE  performed'[txn'[q]] > 0
    BY DEF PerformedBeforeComplete
  <2>1. CASE Perform(q)
    BY <1>0, <2>1 DEF Perform, Goto, TypeOK, Engaged
  <2>2. CASE ~Perform(q)
    <3>1. pc[q] = "complete" /\ txn'[q] = txn[q] /\ txn[q] \in Txn
      <4>1. CASE Submit(q) \/ RequestStep(q)
        BY <1>0, <2>2, <4>1 DEF TypeOK, Submit, RequestStep, AcceptExists, AcceptInsert,
           Decide, AssertSigningReady, Prepare, StartExecution,
           CompleteExecution, FailExecution, ReleaseErrored, SaveContext,
           StoreRecord, FinalizeInline, Goto
      <4>2. CASE EvidenceStep(q) \/ Crash(q)
        <5>1. \E label \in {"receipt", "append", "ok", "error", "crashed"} : Goto(q, label)
          BY <4>2, ConstantsAssumption DEF EvidenceStep, Verify, VerifyNext,
             GenerateReceipt, PersistReceipt, Crash, Finish
        <5>. QED
          BY <1>0, <5>1 DEF Goto, TypeOK
      <4>. QED
        BY <1>0, <4>1, <4>2, RequestMoves DEF Engaged
    <3>2. performed[txn[q]] > 0
      BY <3>1 DEF SettledInv, PerformedBeforeComplete
    <3>3. \A t \in Txn : performed[t] > 0 => performed'[t] > 0
      <4>1. UNCHANGED performed \/ \E r \in Req : Perform(r)
        BY DEF Next, Submit, RequestStep, AcceptExists, AcceptInsert,
           Decide, AssertSigningReady, Prepare, StartExecution,
           CompleteExecution, FailExecution, ReleaseErrored, SaveContext,
           StoreRecord, FinalizeInline, CallerStep, FinalizeCheck, FinalizeCreate,
           FinalizeReread, FinalizeMark, FinalizeReload, ResolveRecord, ResolveRead,
           ResolveMove, VerifyCall, ReceiptCall, ResolveCall, FinalizeRead,
           EvidenceStep, Verify, GenerateReceipt, PersistReceipt, Crash, vars
      <4>. QED
        BY <1>0, <4>1 DEF Perform, TypeOK
    <3>. QED
      BY <3>1, <3>2, <3>3
  <2>. QED
    BY <2>1, <2>2
<1>3. StoredWhenSettled'
  <2>. SUFFICES ASSUME NEW q \in Req, pc'[q] \in {"released", "store"}
                PROVE  Settled(txn[q])' /\ txn'[q] = txn[q]
    BY DEF StoredWhenSettled, Settled
  <2>1. CASE CompleteExecution(q)
    <3>1. /\ pc[q] = "complete" /\ txn' = txn /\ txn[q] \in Txn /\ q # None
          /\ UNCHANGED <<performed, owner, record>>
          /\ pc' = [pc EXCEPT ![q] = "released"] \/ pc' = [pc EXCEPT ![q] = "fail"]
      BY <1>0, <2>1, ConstantsAssumption
         DEF CompleteExecution, Goto, Engaged, recordVars
    <3>2. pc' = [pc EXCEPT ![q] = "released"] /\ WriteExecution(txn[q], "COMPLETED")
      BY <1>0, <2>1, <3>1 DEF CompleteExecution, Goto, TypeOK
    <3>3. owner[txn[q]] = q /\ performed[txn[q]] > 0
      BY <3>1 DEF SettledInv, OwnerInv, OwnsWhereItIs, Owning, PerformedBeforeComplete
    <3>4. Durable \/ record[txn[q]] # None => execution'[txn[q]] = "COMPLETED"
      BY <1>0, <3>1, <3>2 DEF WriteExecution, TypeOK
    <3>. QED
      BY <1>0, <3>1, <3>2, <3>3, <3>4 DEF Settled, AfterRelease, TypeOK
  <2>2. CASE ~CompleteExecution(q)
    <3>1. pc[q] \in {"released", "store"} /\ txn'[q] = txn[q]
      <4>1. CASE Submit(q) \/ RequestStep(q)
        BY <1>0, <2>2, <4>1 DEF TypeOK, Submit, RequestStep, AcceptExists, AcceptInsert,
           Decide, AssertSigningReady, Prepare, StartExecution, Perform,
           FailExecution, ReleaseErrored, SaveContext,
           StoreRecord, FinalizeInline, Goto
      <4>2. CASE EvidenceStep(q) \/ Crash(q)
        <5>1. \E label \in {"receipt", "append", "ok", "error", "crashed"} : Goto(q, label)
          BY <4>2, ConstantsAssumption DEF EvidenceStep, Verify, VerifyNext,
             GenerateReceipt, PersistReceipt, Crash, Finish
        <5>. QED
          BY <1>0, <5>1 DEF Goto, TypeOK
      <4>. QED
        BY <1>0, <4>1, <4>2, RequestMoves
    <3>2. Settled(txn[q]) /\ txn[q] \in Txn
      BY <1>0, <3>1 DEF SettledInv, StoredWhenSettled, Engaged
    <3>. QED
      BY <1>1, <3>1, <3>2
  <2>. QED
    BY <2>1, <2>2
<1>4. SavedWhenSettled'
  <2>. SUFFICES ASSUME NEW t \in Txn, saved'[t] \/ record'[t] # None
                PROVE  Settled(t)
    BY <1>1 DEF SavedWhenSettled
  <2>1. CASE saved[t] \/ record[t] # None
    BY <2>1 DEF SettledInv, SavedWhenSettled
  <2>2. ASSUME NEW r \in Req, SaveContext(r), txn[r] = t PROVE Settled(t)
    BY <2>2 DEF SaveContext, SettledInv, StoredWhenSettled
  <2>3. ASSUME NEW r \in Req, StoreRecord(r), txn[r] = t PROVE Settled(t)
    BY <2>3 DEF StoreRecord, SettledInv, StoredWhenSettled
  <2>4. ASSUME NEW o \in Opr, FinalizeCreate(o), txn[o] = t PROVE Settled(t)
    BY <2>4 DEF FinalizeCreate, SettledInv, RepairedWhenSettled
  <2>5. \/ saved[t] \/ record[t] # None
        \/ \E r \in Req : (SaveContext(r) \/ StoreRecord(r)) /\ txn[r] = t
        \/ \E o \in Opr : FinalizeCreate(o) /\ txn[o] = t
    <3>. SUFFICES ASSUME ~saved[t], record[t] = None
                  PROVE  \/ \E r \in Req : (SaveContext(r) \/ StoreRecord(r)) /\ txn[r] = t
                         \/ \E o \in Opr : FinalizeCreate(o) /\ txn[o] = t
      OBVIOUS
    <3>1. ASSUME NEW u \in Txn, NEW p \in Proc, CreateRecord(u, p), UNCHANGED saved
          PROVE  u = t
      BY <1>0, <3>1, CreateRecordEffect
    <3>2. ASSUME NEW u \in Txn, MarkReleased(u), UNCHANGED record
          PROVE  u = t
      BY <1>0, <3>2 DEF MarkReleased, intentVars, TypeOK
    <3>3. ASSUME NEW u \in Txn, NEW rec, NEW m, MarkFinalized(u, rec, m)
          PROVE  ~saved'[t]
      BY <1>0, <3>3 DEF MarkFinalized, intentVars, TypeOK
    <3>4. ASSUME NEW r \in Req, Submit(r) \/ RequestStep(r)
          PROVE  (SaveContext(r) \/ StoreRecord(r)) /\ txn[r] = t
      <4>0. r \in Proc /\ (pc[r] # "idle" => txn[r] \in Txn)
        BY <1>0 DEF Engaged
      <4>1. CASE SaveContext(r)
        BY <3>2, <4>0, <4>1 DEF SaveContext, intentVars, recordVars
      <4>2. CASE StoreRecord(r)
        BY <3>1, <4>0, <4>2 DEF StoreRecord, intentVars, recordVars
      <4>3. CASE FinalizeInline(r)
        BY <3>3, <4>0, <4>3 DEF FinalizeInline, intentVars, recordVars
      <4>4. CASE UNCHANGED <<saved, record>>
        BY <4>4
      <4>5. CASE Prepare(r) \/ ReleaseErrored(r)
        BY <4>4, <4>5 DEF Prepare, ReleaseErrored, CreateIntent, MarkErrored, intentVars, recordVars
      <4>. QED
        BY <3>4, <4>1, <4>2, <4>3, <4>4, <4>5 DEF Submit, RequestStep, AcceptExists, AcceptInsert,
           Decide, AssertSigningReady, StartExecution, Perform,
           CompleteExecution, FailExecution, intentVars, recordVars
    <3>5. ASSUME NEW o \in Opr, 
             \/ VerifyCall(o) \/ ReceiptCall(o) \/ ResolveCall(o)
             \/ CallerStep(o) \/ \E u \in Txn : FinalizeRead(o, u)
          PROVE  FinalizeCreate(o) /\ txn[o] = t
      <4>0. o \in Proc /\ (pc[o] # "idle" => txn[o] \in Txn)
        BY <1>0 DEF Engaged
      <4>1. CASE FinalizeCreate(o)
        BY <3>1, <4>0, <4>1 DEF FinalizeCreate, intentVars, recordVars
      <4>2. CASE FinalizeMark(o)
        BY <3>3, <4>0, <4>2 DEF FinalizeMark, intentVars, recordVars
      <4>3. CASE UNCHANGED <<saved, record>>
        BY <4>3
      <4>4. CASE ResolveMove(o)
        BY <4>3, <4>4 DEF ResolveMove, MarkResolved, intentVars, recordVars
      <4>. QED
        BY <3>5, <4>1, <4>2, <4>3, <4>4 DEF VerifyCall, ReceiptCall, ResolveCall, FinalizeRead,
         CallerStep, FinalizeCheck, FinalizeReread, FinalizeReload, ResolveRecord, ResolveRead,
         intentVars, recordVars
    <3>6. ASSUME NEW p \in Proc, EvidenceStep(p) \/ Crash(p)
          PROVE  FALSE
      <4>1. UNCHANGED <<saved, record>>
        BY <3>6 DEF EvidenceStep, Verify, GenerateReceipt, PersistReceipt, Crash,
           AppendVerification, AppendReceipt, recordVars, intentVars
      <4>. QED
        BY <4>1
    <3>7. CASE UNCHANGED vars
      BY <3>7 DEF vars, recordVars, intentVars
    <3>. QED
      BY <3>4, <3>5, <3>6, <3>7 DEF Next
  <2>. QED
    BY <2>1, <2>2, <2>3, <2>4, <2>5
<1>5. RepairedWhenSettled'
  <2>. SUFFICES ASSUME NEW c \in Opr,
                       pc'[c] = "f_create" \/ (pc'[c] = "f_check" /\ view'[c].saved)
                PROVE  txn'[c] \in Txn /\ Settled(txn'[c])
    BY <1>1 DEF RepairedWhenSettled, Settled
  <2>0. c \in Proc /\ (pc[c] # "idle" => txn[c] \in Txn) /\ c \notin Req
    BY <1>0, ConstantsAssumption DEF Engaged
  <2>1. ASSUME NEW u \in Txn, FinalizeRead(c, u)
        PROVE  txn'[c] \in Txn /\ Settled(txn'[c])
    <3>. DEFINE v == [view[c] EXCEPT !.state = intent[u], !.saved = saved[u]]
    <3>0. view \in [Opr -> View]
      BY <1>0 DEF TypeOK
    <3>1. view' = [view EXCEPT ![c] = v]
      BY <2>1, <3>0 DEF FinalizeRead
    <3>2. v.saved = saved[u]
      BY <3>0 DEF View
    <3>3. view'[c].saved = saved[u] /\ txn'[c] = u
      BY <1>0, <2>0, <2>1, <3>0, <3>1, <3>2 DEF FinalizeRead, Enter, TypeOK
    <3>4. pc'[c] = "f_check"
      BY <1>0, <2>0, <2>1 DEF FinalizeRead, Enter, TypeOK
    <3>. QED
      BY <3>3, <3>4 DEF SettledInv, SavedWhenSettled
  <2>2. CASE CallerStep(c)
    <3>1. FinalizeCheck(c)
      BY <1>0, <2>0, <2>2 DEF CallerStep, FinalizeCreate, FinalizeReread, FinalizeMark,
         FinalizeReload, ResolveRecord, ResolveRead, ResolveMove, AfterFinalize,
         Goto, Continue, Leave, TypeOK
    <3>2. pc[c] = "f_check" /\ view[c].saved /\ txn'[c] = txn[c]
      BY <1>0, <2>0, <3>1 DEF FinalizeCheck, AfterFinalize, Goto, Continue, Leave, TypeOK
    <3>. QED
      BY <2>0, <3>2 DEF SettledInv, RepairedWhenSettled
  <2>3. CASE EvidenceStep(c) \/ Crash(c)
    BY <1>0, <2>0, <2>3 DEF EvidenceStep, Verify, VerifyNext,
       GenerateReceipt, PersistReceipt, Crash, Finish, Goto, Leave, TypeOK
  <2>4. CASE VerifyCall(c) \/ ReceiptCall(c) \/ ResolveCall(c)
    BY <1>0, <2>0, <2>4 DEF VerifyCall, ReceiptCall, ResolveCall, Enter, TypeOK
  <2>5. CASE pc'[c] = pc[c] /\ txn'[c] = txn[c] /\ view'[c] = view[c]
    BY <2>0, <2>5 DEF SettledInv, RepairedWhenSettled
  <2>. QED
    BY <1>0, <2>1, <2>2, <2>3, <2>4, <2>5, CallerMoves
<1>. QED
  BY <1>0, <1>2, <1>3, <1>4, <1>5 DEF SettledInv

LEMMA SettledAlways == Spec => []SettledInv
BY SettledInit, SettledStep, PTL DEF Spec

(* Under either repository, a stored Trust Record, built by the request or *)
(* rebuilt from the saved context by finalize, is of an action that was    *)
(* performed exactly once and whose execution completed.                   *)
THEOREM RecordedWasPerformed == Spec => []RecordOfPerformed
<1>1. SettledInv => RecordOfPerformed
  <2>. SUFFICES ASSUME SettledInv, NEW t \in Txn, record[t] # None
                PROVE  performed[t] = 1 /\ execution[t] = "COMPLETED"
    BY DEF RecordOfPerformed
  <2>1. Settled(t) /\ performed[t] <= 1 /\ performed[t] \in Nat
    BY DEF SettledInv, SavedWhenSettled, OwnerInv, ReleasedOnce, TypeInv, TypeOK
  <2>. QED
    BY <2>1 DEF Settled
<1>. QED
  BY <1>1, SettledAlways, PTL

---------------------------------------------------------------------------
(* What a step may never do.                                               *)

(* What a step does to the stored evidence. *)
LEMMA RecordEffects ==
    ASSUME TypeInv, [Next]_vars
    PROVE  \/ \E u \in Txn, p \in Proc : CreateRecord(u, p)
           \/ \E u \in Txn, s \in VerificationStatus : AppendVerification(u, s)
           \/ \E u \in Txn : AppendReceipt(u)
           \/ UNCHANGED recordVars
<1>0. \A p \in Proc : pc[p] # "idle" => txn[p] \in Txn
  BY DEF TypeInv, Engaged
<1>1. CASE UNCHANGED vars
  BY <1>1 DEF vars
<1>2. ASSUME NEW r \in Req, Submit(r) \/ RequestStep(r)
      PROVE  UNCHANGED recordVars \/ \E u \in Txn, p \in Proc : CreateRecord(u, p)
  BY <1>0, <1>2 DEF Submit, RequestStep, AcceptExists, AcceptInsert, Decide,
     AssertSigningReady, Prepare, StartExecution, Perform,
     CompleteExecution, FailExecution, ReleaseErrored, SaveContext,
     StoreRecord, FinalizeInline, Proc
<1>3. ASSUME NEW o \in Opr,
             \/ VerifyCall(o) \/ ReceiptCall(o) \/ ResolveCall(o)
             \/ CallerStep(o) \/ \E u \in Txn : FinalizeRead(o, u)
      PROVE  UNCHANGED recordVars \/ \E u \in Txn, p \in Proc : CreateRecord(u, p)
  BY <1>0, <1>3 DEF VerifyCall, ReceiptCall, ResolveCall, FinalizeRead,
     CallerStep, FinalizeCheck, FinalizeCreate, FinalizeReread,
     FinalizeMark, FinalizeReload, ResolveRecord, ResolveRead, ResolveMove, Proc
<1>4. ASSUME NEW p \in Proc, EvidenceStep(p) \/ Crash(p)
      PROVE  \/ \E u \in Txn, s \in VerificationStatus : AppendVerification(u, s)
             \/ \E u \in Txn : AppendReceipt(u)
             \/ UNCHANGED recordVars
  BY <1>0, <1>4 DEF EvidenceStep, Verify, GenerateReceipt, PersistReceipt, Crash
<1>. QED
  BY <1>1, <1>2, <1>3, <1>4 DEF Next

(* With Postgres evidence is only added. *)
LEMMA EvidenceKept ==
    ASSUME Durable, TypeInv, [Next]_vars, NEW t \in Txn
    PROVE  /\ record[t] # None => record'[t] = record[t]
           /\ verifs[t] \subseteq verifs'[t]
           /\ receipts[t] => receipts'[t]
<1>. USE DEF TypeInv, TypeOK
<1>1. ASSUME NEW u, NEW p, CreateRecord(u, p)
      PROVE  /\ record[t] # None => record'[t] = record[t]
             /\ UNCHANGED <<verifs, receipts>>
  BY <1>1 DEF CreateRecord, CreateRecordPostgres
<1>2. ASSUME NEW u, NEW s, AppendVerification(u, s)
      PROVE  /\ verifs[t] \subseteq verifs'[t]
             /\ UNCHANGED <<record, receipts>>
  BY <1>2 DEF AppendVerification
<1>3. ASSUME NEW u, AppendReceipt(u)
      PROVE  /\ receipts[t] => receipts'[t]
             /\ UNCHANGED <<record, verifs>>
  BY <1>3 DEF AppendReceipt
<1>4. CASE UNCHANGED recordVars
  BY <1>4 DEF recordVars
<1>. QED
  BY <1>1, <1>2, <1>3, <1>4, RecordEffects

(* With the Postgres repositories no step replaces a stored Trust Record   *)
(* or drops a verification or a receipt: retries, finalize and the other   *)
(* endpoints only add.                                                     *)
THEOREM AppendOnlyEvidence ==
    ASSUME Durable PROVE Spec => EvidenceAppendOnly
<1>1. Spec => []TypeInv
  BY TypeInit, TypeStep, PTL DEF Spec
<1>2. TypeInv /\ [Next]_vars =>
        [\A t \in Txn : record[t] # None =>
            /\ record'[t] = record[t]
            /\ verifs[t] \subseteq verifs'[t]
            /\ receipts[t] => receipts'[t]]_vars
  BY EvidenceKept
<1>. QED
  BY <1>1, <1>2, PTL DEF Spec, EvidenceAppendOnly

(* What a step does to the stored intents. *)
LEMMA IntentEffects ==
    ASSUME TypeInv, [Next]_vars
    PROVE  \/ \E t \in Txn : CreateIntent(t) \/ MarkReleased(t) \/ MarkErrored(t)
           \/ \E t \in Txn : \E rec, m : MarkFinalized(t, rec, m)
           \/ \E t \in Txn : \E res : MarkResolved(t, res)
           \/ UNCHANGED intentVars
<1>0. \A p \in Proc : pc[p] # "idle" => txn[p] \in Txn
  BY DEF TypeInv, Engaged
<1>1. CASE UNCHANGED vars
  BY <1>1 DEF vars
<1>2. ASSUME NEW r \in Req, Submit(r) \/ RequestStep(r)
      PROVE  \/ \E t \in Txn : CreateIntent(t) \/ MarkReleased(t) \/ MarkErrored(t)
             \/ \E t \in Txn : \E rec, m : MarkFinalized(t, rec, m)
             \/ UNCHANGED intentVars
  BY <1>0, <1>2 DEF Submit, RequestStep, AcceptExists, AcceptInsert, Decide,
     AssertSigningReady, Prepare, StartExecution, Perform,
     CompleteExecution, FailExecution, ReleaseErrored, SaveContext,
     StoreRecord, FinalizeInline, Proc
<1>3. ASSUME NEW o \in Opr,
             \/ VerifyCall(o) \/ ReceiptCall(o) \/ ResolveCall(o)
             \/ CallerStep(o) \/ \E u \in Txn : FinalizeRead(o, u)
      PROVE  \/ \E t \in Txn : \E rec, m : MarkFinalized(t, rec, m)
             \/ \E t \in Txn : \E res : MarkResolved(t, res)
             \/ UNCHANGED intentVars
  BY <1>0, <1>3 DEF VerifyCall, ReceiptCall, ResolveCall, FinalizeRead,
     CallerStep, FinalizeCheck, FinalizeCreate, FinalizeReread,
     FinalizeMark, FinalizeReload, ResolveRecord, ResolveRead, ResolveMove, Proc
<1>4. ASSUME NEW p \in Proc, EvidenceStep(p) \/ Crash(p)
      PROVE  UNCHANGED intentVars
  BY <1>0, <1>4 DEF EvidenceStep, Verify, GenerateReceipt, PersistReceipt, Crash
<1>. QED
  BY <1>1, <1>2, <1>3, <1>4 DEF Next

(* A statement stands on an intent nobody can resolve again. *)
StatedIsClosed ==
    \A t \in Txn : resolution[t] # "NONE" => intent[t] \in {"RESOLVED", "FINALIZED"}

LEMMA StatementKept ==
    ASSUME TypeInv, StatedIsClosed, [Next]_vars
    PROVE  /\ StatedIsClosed'
           /\ \A t \in Txn : resolution[t] # "NONE" => resolution'[t] = resolution[t]
<1>. USE DEF TypeInv, TypeOK, StatedIsClosed
<1>1. ASSUME NEW t \in Txn, CreateIntent(t) \/ MarkReleased(t) \/ MarkErrored(t)
      PROVE  StatedIsClosed' /\ UNCHANGED resolution
  BY <1>1 DEF CreateIntent, MarkReleased, MarkErrored, intentVars
<1>2. ASSUME NEW t \in Txn, NEW rec, NEW m, MarkFinalized(t, rec, m)
      PROVE  StatedIsClosed' /\ UNCHANGED resolution
  BY <1>2 DEF MarkFinalized, intentVars
<1>3. ASSUME NEW u \in Txn, NEW res, MarkResolved(u, res)
      PROVE  /\ StatedIsClosed'
             /\ \A t \in Txn : resolution[t] # "NONE" => resolution'[t] = resolution[t]
  BY <1>3 DEF MarkResolved, intentVars
<1>4. CASE UNCHANGED intentVars
  BY <1>4 DEF intentVars
<1>. QED
  BY <1>1, <1>2, <1>3, <1>4, IntentEffects

(* resolve writes an operator's statement once: a second resolve, a late   *)
(* finalize and a status update of the request leave it as it was.         *)
THEOREM StatementIsFinal == Spec => ResolutionIsFinal
<1>1. Init => StatedIsClosed
  BY DEF Init, StatedIsClosed
<1>2. TypeInv /\ StatedIsClosed /\ [Next]_vars => StatedIsClosed'
  BY StatementKept
<1>3. TypeInv /\ StatedIsClosed /\ [Next]_vars =>
        [\A t \in Txn : resolution[t] # "NONE" => resolution'[t] = resolution[t]]_vars
  BY StatementKept
<1>. QED
  BY <1>1, <1>2, <1>3, TypeInit, TypeStep, PTL DEF Spec, ResolutionIsFinal

---------------------------------------------------------------------------
(***************************************************************************)
(* The 200 answer.  From the moment its insert succeeded the request's own *)
(* record is the stored one, and a receipt is only appended behind a       *)
(* verification that passed.                                               *)
(***************************************************************************)
HoldsRecord ==
    \A r \in Req : pc[r] \in {"inline", "verify", "receipt", "append", "ok"} =>
        record[txn[r]] = r

LatestIsStored ==
    \A t \in Txn : latest[t] = "VERIFIED" => "VERIFIED" \in verifs[t]

VerifiedBeforeReceipt ==
    \A p \in Proc : pc[p] = "append" => "VERIFIED" \in verifs[txn[p]]

MarkedAfterRecord ==
    \A o \in Opr : pc[o] \in {"f_inline", "f_repaired"} => record[txn[o]] # None

EvidenceInv ==
    /\ SettledInv
    /\ HoldsRecord
    /\ LatestIsStored
    /\ VerifiedBeforeReceipt
    /\ MarkedAfterRecord
    /\ OkMeansEvidence

LEMMA EvidenceInit == Init => EvidenceInv
<1>. SUFFICES ASSUME Init PROVE EvidenceInv
  OBVIOUS
<1>1. SettledInv
  BY SettledInit
<1>. QED
  BY <1>1 DEF Init, EvidenceInv, HoldsRecord, LatestIsStored, VerifiedBeforeReceipt,
     MarkedAfterRecord, OkMeansEvidence, Proc

(* Where an endpoint starts. *)
LEMMA EnterLabel ==
    ASSUME TypeInv, NEW o \in Opr,
           \/ VerifyCall(o) \/ ReceiptCall(o) \/ ResolveCall(o)
           \/ \E t \in Txn : FinalizeRead(o, t)
    PROVE  pc'[o] \in {"verify", "receipt", "f_check", "r_record", "r_read"}
<1>. USE DEF TypeInv, TypeOK, Proc, Enter
<1>1. CASE VerifyCall(o) \/ ReceiptCall(o)
  BY <1>1 DEF VerifyCall, ReceiptCall
<1>2. CASE ResolveCall(o)
  <2>1. \E u \in Txn : pc' = [pc EXCEPT ![o] =
           IF intent[u] \in {"PREPARED", "RELEASED", "ERRORED"}
           THEN "r_record" ELSE "r_read"]
    BY <1>2 DEF ResolveCall
  <2>. QED
    BY <2>1
<1>3. CASE \E t \in Txn : FinalizeRead(o, t)
  BY <1>3 DEF FinalizeRead
<1>. QED
  BY <1>1, <1>2, <1>3

LEMMA EvidenceStepInv ==
    ASSUME Durable PROVE EvidenceInv /\ [Next]_vars => EvidenceInv'
<1>. SUFFICES ASSUME EvidenceInv, [Next]_vars PROVE EvidenceInv'
  OBVIOUS
<1>0. /\ TypeInv /\ TypeOK /\ Engaged /\ SettledInv /\ SettledInv'
      /\ Req \subseteq Proc /\ Opr \subseteq Proc /\ None \notin Proc
  BY SettledStep, ConstantsAssumption
     DEF EvidenceInv, SettledInv, OwnerInv, TypeInv, Proc
<1>1. \A t \in Txn : /\ record[t] # None => record'[t] = record[t]
                     /\ verifs[t] \subseteq verifs'[t]
                     /\ receipts[t] => receipts'[t]
  BY <1>0, EvidenceKept
<1>2. HoldsRecord'
  <2>. SUFFICES ASSUME NEW q \in Req,
                       pc'[q] \in {"inline", "verify", "receipt", "append", "ok"}
                PROVE  record'[txn'[q]] = q
    BY DEF HoldsRecord
  <2>1. CASE StoreRecord(q)
    <3>1. CreateRecord(txn[q], q) /\ txn' = txn /\ txn[q] \in Txn
      BY <1>0, <2>1 DEF StoreRecord, Goto, TypeOK, Engaged
    <3>. QED
      BY <1>0, <3>1, CreateRecordEffect
  <2>2. CASE ~StoreRecord(q)
    <3>1. /\ pc[q] \in {"inline", "verify", "receipt", "append", "ok"}
          /\ txn'[q] = txn[q]
      <4>1. CASE Submit(q) \/ RequestStep(q)
        BY <1>0, <2>2, <4>1 DEF TypeOK, Submit, RequestStep, AcceptExists, AcceptInsert,
           Decide, AssertSigningReady, Prepare, StartExecution, Perform,
           CompleteExecution, FailExecution, ReleaseErrored, SaveContext,
           FinalizeInline, Goto
      <4>2. CASE EvidenceStep(q)
        BY <1>0, <4>2, ConstantsAssumption DEF EvidenceStep, Verify, VerifyNext,
           GenerateReceipt, PersistReceipt, Finish, Goto
      <4>3. CASE Crash(q)
        BY <1>0, <4>3, ConstantsAssumption DEF Crash, Finish, Goto, TypeOK
      <4>. QED
        BY <1>0, <4>1, <4>2, <4>3, RequestMoves
    <3>2. record[txn[q]] = q /\ txn[q] \in Txn
      BY <1>0, <3>1 DEF EvidenceInv, HoldsRecord, Engaged
    <3>. QED
      BY <1>0, <1>1, <3>1, <3>2
  <2>. QED
    BY <2>1, <2>2
<1>3. LatestIsStored'
  <2>1. ASSUME NEW u \in Txn, NEW p \in Proc, CreateRecord(u, p)
        PROVE  UNCHANGED <<latest, verifs>>
    BY <2>1 DEF CreateRecord, CreateRecordPostgres
  <2>2. ASSUME NEW u \in Txn, NEW s \in VerificationStatus, AppendVerification(u, s)
        PROVE  LatestIsStored'
    BY <1>0, <2>2 DEF EvidenceInv, LatestIsStored, AppendVerification, TypeOK
  <2>3. CASE UNCHANGED <<latest, verifs>>
    BY <2>3 DEF EvidenceInv, LatestIsStored
  <2>. QED
    BY <1>0, <2>1, <2>2, <2>3, RecordEffects DEF AppendReceipt, recordVars
<1>4. VerifiedBeforeReceipt'
  <2>. SUFFICES ASSUME NEW p \in Proc, pc'[p] = "append"
                PROVE  /\ txn'[p] = txn[p] /\ txn[p] \in Txn
                       /\ "VERIFIED" \in verifs[txn[p]]
    BY <1>1 DEF VerifiedBeforeReceipt
  <2>1. CASE pc[p] = "append" /\ txn'[p] = txn[p]
    BY <1>0, <2>1 DEF EvidenceInv, VerifiedBeforeReceipt, Engaged
  <2>2. CASE EvidenceStep(p)
    <3>1. GenerateReceipt(p) /\ Goto(p, "append")
      BY <1>0, <2>2 DEF EvidenceStep, Verify, VerifyNext, GenerateReceipt,
         PersistReceipt, Finish, Goto, Leave, TypeOK
    <3>2. pc[p] = "receipt" /\ latest[txn[p]] = "VERIFIED" /\ txn' = txn
      BY <1>0, <3>1 DEF GenerateReceipt, Finish, Goto, Leave, TypeOK
    <3>. QED
      BY <1>0, <3>2 DEF Engaged, EvidenceInv, LatestIsStored
  <2>3. CASE Crash(p)
    BY <1>0, <2>3 DEF Crash, Finish, Goto, Leave, TypeOK
  <2>4. CASE p \in Req /\ (Submit(p) \/ RequestStep(p))
    BY <1>0, <2>4 DEF TypeOK, Submit, RequestStep, AcceptExists, AcceptInsert,
       Decide, AssertSigningReady, Prepare, StartExecution, Perform,
       CompleteExecution, FailExecution, ReleaseErrored, SaveContext,
       StoreRecord, FinalizeInline, Goto
  <2>5. CASE p \in Opr /\ CallerStep(p)
    BY <1>0, <2>5 DEF CallerStep, FinalizeCheck, FinalizeCreate, FinalizeReread,
       FinalizeMark, FinalizeReload, ResolveRecord, ResolveRead, ResolveMove,
       AfterFinalize, Goto, Continue, Leave, TypeOK
  <2>6. CASE /\ p \in Opr
             /\ \/ VerifyCall(p) \/ ReceiptCall(p) \/ ResolveCall(p)
                \/ \E u \in Txn : FinalizeRead(p, u)
    BY <1>0, <2>6, EnterLabel
  <2>. QED
    BY <1>0, <2>1, <2>2, <2>3, <2>4, <2>5, <2>6, RequestMoves, CallerMoves DEF Proc
<1>5. MarkedAfterRecord'
  <2>. SUFFICES ASSUME NEW c \in Opr, pc'[c] \in {"f_inline", "f_repaired"}
                PROVE  record'[txn'[c]] # None
    BY DEF MarkedAfterRecord
  <2>0. c \in Proc /\ (pc[c] # "idle" => txn[c] \in Txn)
    BY <1>0 DEF Engaged
  <2>1. CASE pc'[c] = pc[c] /\ txn'[c] = txn[c]
    BY <1>1, <2>0, <2>1 DEF EvidenceInv, MarkedAfterRecord
  <2>2. CASE CallerStep(c)
    <3>1. CASE FinalizeCreate(c)
      <4>1. txn'[c] = txn[c] /\ CreateRecord(txn[c], c)
        BY <1>0, <2>0, <3>1 DEF FinalizeCreate, Goto, Continue, Leave, TypeOK
      <4>2. txn[c] \in Txn
        BY <2>0, <3>1 DEF FinalizeCreate
      <4>. QED
        BY <1>0, <2>0, <4>1, <4>2, CreateRecordEffect
    <3>2. CASE FinalizeCheck(c) \/ FinalizeReread(c)
      <4>1. txn'[c] = txn[c] /\ record[txn[c]] # None /\ txn[c] \in Txn
        BY <1>0, <2>0, <3>2 DEF FinalizeCheck, FinalizeReread, AfterFinalize, Goto,
           Continue, Leave, TypeOK
      <4>. QED
        BY <1>1, <4>1
    <3>. QED
      BY <1>0, <2>0, <2>2, <3>1, <3>2 DEF CallerStep, FinalizeMark, FinalizeReload,
         ResolveRecord, ResolveRead, ResolveMove, AfterFinalize, Goto, Continue,
         Leave, TypeOK
  <2>3. CASE EvidenceStep(c) \/ Crash(c)
    BY <1>0, <2>0, <2>3, ConstantsAssumption DEF EvidenceStep, Verify, VerifyNext,
       GenerateReceipt, PersistReceipt, Crash, Finish, Goto, Leave, TypeOK
  <2>4. CASE \/ VerifyCall(c) \/ ReceiptCall(c) \/ ResolveCall(c)
             \/ \E u \in Txn : FinalizeRead(c, u)
    BY <1>0, <2>4, EnterLabel
  <2>. QED
    BY <1>0, <2>1, <2>2, <2>3, <2>4, CallerMoves
<1>6. OkMeansEvidence'
  <2>. SUFFICES ASSUME NEW q \in Req, pc'[q] = "ok"
                PROVE  receipts'[txn'[q]] /\ "VERIFIED" \in verifs'[txn'[q]]
    BY <1>2 DEF OkMeansEvidence, HoldsRecord
  <2>0. q \in Proc /\ (pc[q] # "idle" => txn[q] \in Txn) /\ q \notin Opr
    BY <1>0, ConstantsAssumption DEF Engaged
  <2>1. CASE pc[q] = "ok" /\ txn'[q] = txn[q]
    BY <1>1, <2>0, <2>1 DEF EvidenceInv, OkMeansEvidence
  <2>2. CASE EvidenceStep(q)
    <3>1. /\ pc[q] = "append" /\ txn' = txn
          /\ AppendReceipt(txn[q])
      BY <1>0, <2>0, <2>2 DEF EvidenceStep, Verify, VerifyNext, GenerateReceipt,
         PersistReceipt, Finish, Goto, TypeOK
    <3>2. "VERIFIED" \in verifs[txn[q]]
      BY <2>0, <3>1 DEF EvidenceInv, VerifiedBeforeReceipt
    <3>. QED
      BY <1>0, <2>0, <3>1, <3>2 DEF AppendReceipt, TypeOK
  <2>3. CASE Crash(q)
    BY <1>0, <2>0, <2>3 DEF Crash, Finish, Goto, TypeOK
  <2>4. CASE Submit(q) \/ RequestStep(q)
    BY <1>0, <2>0, <2>4 DEF TypeOK, Submit, RequestStep, AcceptExists, AcceptInsert,
       Decide, AssertSigningReady, Prepare, StartExecution, Perform,
       CompleteExecution, FailExecution, ReleaseErrored, SaveContext,
       StoreRecord, FinalizeInline, Goto
  <2>. QED
    BY <1>0, <2>1, <2>2, <2>3, <2>4, RequestMoves
<1>. QED
  BY <1>0, <1>2, <1>3, <1>4, <1>5, <1>6 DEF EvidenceInv

LEMMA EvidenceAlways == ASSUME Durable PROVE Spec => []EvidenceInv
<1>1. EvidenceInv /\ [Next]_vars => EvidenceInv'
  BY EvidenceStepInv
<1>. QED
  BY <1>1, EvidenceInit, PTL DEF Spec

(* POST /execute answers 200 only for a transaction whose stored Trust     *)
(* Record is the one this request built, with a verification that passed   *)
(* and a receipt, whatever finalize and the other endpoints did meanwhile. *)
THEOREM AnsweredOkIsProven == ASSUME Durable PROVE Spec => []OkMeansEvidence
<1>1. EvidenceInv => OkMeansEvidence
  BY DEF EvidenceInv
<1>. QED
  BY <1>1, EvidenceAlways, PTL

---------------------------------------------------------------------------
(***************************************************************************)
(* The refinement.  Every step changes at most one of the abstract         *)
(* variables, so each is a step of TrustLifecycle or leaves it unchanged.  *)
(***************************************************************************)
Intended == {t \in Txn : intent[t] # "NONE"}
Acted == {t \in Txn : performed[t] > 0}
Verified == {t \in Txn : "VERIFIED" \in verifs[t]}
Receipted == {t \in Txn : receipts[t]}
Closed == [t \in Txn |-> CASE intent[t] = "FINALIZED" -> "recorded"
                           [] intent[t] = "RESOLVED" -> "stated"
                           [] OTHER -> "open"]
AbstractVars == <<Intended, Acted, record, Verified, Receipted, Closed>>

LEMMA LifecycleInit == Init => Lifecycle!Init
BY DEF Init, Lifecycle!Init

LEMMA IntentsMap ==
    ASSUME TypeInv, UNCHANGED intent
    PROVE  UNCHANGED <<Intended, Closed>>
BY DEF Intended, Closed

(* A status update of the request leaves the intent open or as it was. *)
LEMMA StatusMap ==
    ASSUME TypeInv, NEW t \in Txn, MarkReleased(t) \/ MarkErrored(t)
    PROVE  UNCHANGED <<Intended, Closed>>
<1>1. CASE UNCHANGED intentVars
  BY <1>1 DEF intentVars, Intended, Closed
<1>2. CASE /\ intent[t] = "PREPARED"
           /\ \/ intent' = [intent EXCEPT ![t] = "RELEASED"]
              \/ intent' = [intent EXCEPT ![t] = "ERRORED"]
  BY <1>2 DEF TypeInv, TypeOK, Intended, Closed
<1>. QED
  BY <1>1, <1>2 DEF MarkReleased, MarkErrored

LEMMA IntendMap ==
    ASSUME TypeInv, NEW t \in Txn, CreateIntent(t),
           UNCHANGED <<Acted, record, Verified, Receipted>>
    PROVE  Lifecycle!Next
<1>1. t \notin Intended /\ Intended' = Intended \cup {t} /\ UNCHANGED Closed
  BY DEF CreateIntent, TypeInv, TypeOK, Intended, Closed
<1>2. Lifecycle!Intend(t)
  BY <1>1 DEF Lifecycle!Intend, Intended, Acted, Verified, Receipted, Closed
<1>. QED
  BY <1>2 DEF Lifecycle!Next

LEMMA CloseMap ==
    ASSUME TypeInv, NEW t \in Txn, NEW rec, NEW m, NEW res,
           \/ MarkFinalized(t, rec, m) /\ record[t] # None
           \/ MarkResolved(t, res),
           UNCHANGED <<Acted, record, Verified, Receipted>>
    PROVE  [Lifecycle!Next]_AbstractVars
<1>1. CASE UNCHANGED intentVars
  BY <1>1 DEF intentVars, Intended, Closed, AbstractVars
<1>2. CASE /\ intent[t] \notin {"NONE", "FINALIZED"} /\ record[t] # None
           /\ intent' = [intent EXCEPT ![t] = "FINALIZED"]
  <2>0. intent \in [Txn -> IntentState \cup {"NONE"}]
    BY DEF TypeInv, TypeOK
  <2>1. /\ t \in Intended /\ UNCHANGED Intended
        /\ Closed[t] \in {"open", "stated"}
        /\ Closed' = [Closed EXCEPT ![t] = "recorded"]
    <3>1. t \in Intended /\ UNCHANGED Intended
      BY <1>2, <2>0 DEF Intended
    <3>2. Closed[t] \in {"open", "stated"}
      BY <1>2, <2>0 DEF Closed
    <3>3. Closed' = [Closed EXCEPT ![t] = "recorded"]
      BY <1>2, <2>0 DEF Closed
    <3>. QED
      BY <3>1, <3>2, <3>3
  <2>2. Lifecycle!Close(t)
    BY <1>2, <2>1 DEF Lifecycle!Close, Intended, Acted, Verified, Receipted, Closed
  <2>. QED
    BY <2>2 DEF Lifecycle!Next
<1>3. CASE /\ intent[t] \in {"PREPARED", "ERRORED"}
           /\ intent' = [intent EXCEPT ![t] = "RESOLVED"]
  <2>1. /\ t \in Intended /\ UNCHANGED Intended
        /\ Closed[t] = "open"
        /\ Closed' = [Closed EXCEPT ![t] = "stated"]
    BY <1>3 DEF TypeInv, TypeOK, Intended, Closed
  <2>2. Lifecycle!Close(t)
    BY <1>3, <2>1 DEF Lifecycle!Close, Intended, Acted, Verified, Receipted, Closed
  <2>. QED
    BY <2>2 DEF Lifecycle!Next
<1>. QED
  BY <1>1, <1>2, <1>3 DEF MarkFinalized, MarkResolved

LEMMA RecordMap ==
    ASSUME Durable, TypeInv, NEW t \in Txn, NEW p \in Proc, CreateRecord(t, p),
           t \in Acted, UNCHANGED <<Intended, Acted, Closed>>
    PROVE  Lifecycle!Next
<1>1. /\ record[t] = None /\ record' = [record EXCEPT ![t] = p]
      /\ UNCHANGED <<Verified, Receipted>>
  BY DEF CreateRecord, CreateRecordPostgres, Verified, Receipted
<1>2. Lifecycle!Record(t)
  BY <1>1 DEF Lifecycle!Record, Intended, Acted, Verified, Receipted, Closed
<1>. QED
  BY <1>2 DEF Lifecycle!Next

LEMMA VerifyMap ==
    ASSUME TypeInv, NEW t \in Txn, NEW s \in VerificationStatus,
           AppendVerification(t, s), record[t] # None,
           UNCHANGED <<Intended, Acted, Closed>>
    PROVE  [Lifecycle!Next]_AbstractVars
<1>1. UNCHANGED <<record, Receipted>>
  BY DEF AppendVerification, Receipted
<1>2. CASE s = "VERIFIED"
  <2>1. Verified' = Verified \cup {t}
    BY <1>2 DEF AppendVerification, TypeInv, TypeOK, Verified
  <2>2. Lifecycle!Verify(t)
    BY <1>1, <2>1 DEF Lifecycle!Verify, Intended, Acted, Verified, Receipted, Closed
  <2>. QED
    BY <2>2 DEF Lifecycle!Next
<1>3. CASE s # "VERIFIED"
  <2>1. UNCHANGED Verified
    BY <1>3 DEF AppendVerification, TypeInv, TypeOK, Verified
  <2>. QED
    BY <1>1, <2>1 DEF AbstractVars
<1>. QED
  BY <1>2, <1>3

LEMMA IssueMap ==
    ASSUME TypeInv, NEW t \in Txn, AppendReceipt(t), t \in Verified,
           UNCHANGED <<Intended, Acted, Closed>>
    PROVE  Lifecycle!Next
<1>1. /\ UNCHANGED <<record, Verified>>
      /\ Receipted' = Receipted \cup {t}
  BY DEF AppendReceipt, TypeInv, TypeOK, Verified, Receipted
<1>2. Lifecycle!Issue(t)
  BY <1>1 DEF Lifecycle!Issue, Intended, Acted, Verified, Receipted, Closed
<1>. QED
  BY <1>2 DEF Lifecycle!Next

LEMMA ActMap ==
    ASSUME OwnerInv, NEW r \in Req, Perform(r)
    PROVE  [Lifecycle!Next]_AbstractVars
<1>0. PICK t \in Txn : t = txn[r]
  BY DEF Perform, OwnerInv, TypeInv, Engaged, Proc
<1>1. /\ UNCHANGED <<Intended, record, Verified, Receipted, Closed>>
      /\ TypeInv
  BY DEF Perform, intentVars, recordVars, Intended, Verified, Receipted, Closed,
     OwnerInv
<1>2. CASE UNCHANGED performed
  BY <1>1, <1>2 DEF Acted, AbstractVars
<1>3. CASE performed' = [performed EXCEPT ![t] = @ + 1]
  <2>1. t \in Intended
    BY <1>0, <1>1 DEF Intended, OwnerInv, PreparedBeforeRelease, Perform
  <2>2. t \notin Acted
    BY <1>0, <1>1, ConstantsAssumption DEF Acted, OwnerInv, PerformedByOwner, OwnsWhereItIs,
       Perform, Owning, AfterPerform, TypeInv, TypeOK
  <2>3. Acted' = Acted \cup {t}
    BY <1>1, <1>3 DEF Acted, TypeInv, TypeOK
  <2>4. Lifecycle!Act(t)
    BY <1>1, <2>1, <2>2, <2>3
       DEF Lifecycle!Act, Intended, Acted, Verified, Receipted, Closed
  <2>. QED
    BY <2>4 DEF Lifecycle!Next
<1>. QED
  BY <1>0, <1>2, <1>3 DEF Perform

LEMMA LifecycleStep ==
    ASSUME Durable, EvidenceInv, [Next]_vars
    PROVE  [Lifecycle!Next]_AbstractVars
<1>0. /\ TypeInv /\ OwnerInv /\ SettledInv
      /\ \A p \in Proc : pc[p] # "idle" => txn[p] \in Txn
      /\ Req \subseteq Proc /\ Opr \subseteq Proc /\ None \notin Proc
  BY ConstantsAssumption DEF EvidenceInv, SettledInv, OwnerInv, TypeInv, Engaged, Proc
<1>1. /\ UNCHANGED intentVars => UNCHANGED <<Intended, Closed>>
      /\ UNCHANGED performed => UNCHANGED Acted
      /\ UNCHANGED recordVars => UNCHANGED <<record, Verified, Receipted>>
  BY DEF intentVars, recordVars, Intended, Closed, Acted, Verified, Receipted
<1>2. UNCHANGED <<intentVars, performed, recordVars>> => UNCHANGED AbstractVars
  BY <1>1 DEF AbstractVars
<1>3. ASSUME NEW r \in Req, Submit(r) \/ RequestStep(r)
      PROVE  [Lifecycle!Next]_AbstractVars
  <2>1. CASE Prepare(r)
    <3>1. UNCHANGED <<Acted, record, Verified, Receipted>> /\ txn[r] \in Txn
      BY <1>0, <1>1, <2>1 DEF Prepare
    <3>2. CASE CreateIntent(txn[r])
      BY <1>0, <3>1, <3>2, IntendMap
    <3>. QED
      BY <1>2, <2>1, <3>2 DEF Prepare
  <2>2. CASE Perform(r)
    BY <1>0, <2>2, ActMap
  <2>3. CASE ReleaseErrored(r) \/ SaveContext(r)
    <3>1. UNCHANGED <<Acted, record, Verified, Receipted>> /\ txn[r] \in Txn
      BY <1>0, <1>1, <2>3 DEF ReleaseErrored, SaveContext
    <3>2. UNCHANGED <<Intended, Closed>>
      BY <1>0, <1>1, <2>3, <3>1, StatusMap DEF ReleaseErrored, SaveContext
    <3>. QED
      BY <3>1, <3>2 DEF AbstractVars
  <2>4. CASE StoreRecord(r)
    <3>1. UNCHANGED <<Intended, Closed, Acted>> /\ txn[r] \in Txn
      BY <1>0, <1>1, <2>4 DEF StoreRecord
    <3>2. txn[r] \in Acted
      BY <2>4, <3>1 DEF StoreRecord, EvidenceInv, SettledInv, StoredWhenSettled,
         Settled, Acted
    <3>3. CASE CreateRecord(txn[r], r)
      BY <1>0, <3>1, <3>2, <3>3, RecordMap
    <3>. QED
      BY <1>2, <2>4, <3>3 DEF StoreRecord
  <2>5. CASE FinalizeInline(r)
    <3>1. UNCHANGED <<Acted, record, Verified, Receipted>> /\ txn[r] \in Txn
      BY <1>0, <1>1, <2>5 DEF FinalizeInline
    <3>2. record[txn[r]] # None
      BY <1>0, <2>5 DEF FinalizeInline, EvidenceInv, HoldsRecord
    <3>3. CASE MarkFinalized(txn[r], r, "INLINE")
      BY <1>0, <3>1, <3>2, <3>3, CloseMap
    <3>. QED
      BY <1>2, <2>5, <3>3 DEF FinalizeInline
  <2>. QED
    BY <1>2, <1>3, <2>1, <2>2, <2>3, <2>4, <2>5 DEF Submit, RequestStep,
       AcceptExists, AcceptInsert, Decide, AssertSigningReady, StartExecution,
       CompleteExecution, FailExecution
<1>4. ASSUME NEW o \in Opr,
             \/ VerifyCall(o) \/ ReceiptCall(o) \/ ResolveCall(o)
             \/ CallerStep(o) \/ \E u \in Txn : FinalizeRead(o, u)
      PROVE  [Lifecycle!Next]_AbstractVars
  <2>1. CASE FinalizeCreate(o)
    <3>1. UNCHANGED <<Intended, Closed, Acted>> /\ txn[o] \in Txn
      BY <1>0, <1>1, <2>1 DEF FinalizeCreate
    <3>2. txn[o] \in Acted
      BY <2>1, <3>1 DEF FinalizeCreate, EvidenceInv, SettledInv, RepairedWhenSettled,
         Settled, Acted
    <3>3. CASE CreateRecord(txn[o], o)
      BY <1>0, <3>1, <3>2, <3>3, RecordMap
    <3>. QED
      BY <1>2, <2>1, <3>3 DEF FinalizeCreate
  <2>2. CASE FinalizeMark(o)
    <3>1. UNCHANGED <<Acted, record, Verified, Receipted>> /\ txn[o] \in Txn
      BY <1>0, <1>1, <2>2 DEF FinalizeMark
    <3>2. record[txn[o]] # None
      BY <1>0, <2>2 DEF FinalizeMark, EvidenceInv, MarkedAfterRecord
    <3>3. ASSUME NEW m, MarkFinalized(txn[o], view[o].record, m)
          PROVE  [Lifecycle!Next]_AbstractVars
      BY <1>0, <3>1, <3>2, <3>3, CloseMap
    <3>. QED
      BY <1>2, <2>2, <3>3 DEF FinalizeMark
  <2>3. CASE ResolveMove(o)
    <3>1. UNCHANGED <<Acted, record, Verified, Receipted>> /\ txn[o] \in Txn
      BY <1>0, <1>1, <2>3 DEF ResolveMove
    <3>2. CASE MarkResolved(txn[o], view[o].stated)
      BY <1>0, <3>1, <3>2, CloseMap
    <3>. QED
      BY <1>2, <2>3, <3>2 DEF ResolveMove
  <2>. QED
    BY <1>2, <1>4, <2>1, <2>2, <2>3 DEF VerifyCall, ReceiptCall, ResolveCall,
       FinalizeRead, CallerStep, FinalizeCheck, FinalizeReread, FinalizeReload,
       ResolveRecord, ResolveRead
<1>5. ASSUME NEW p \in Proc, EvidenceStep(p) \/ Crash(p)
      PROVE  [Lifecycle!Next]_AbstractVars
  <2>1. UNCHANGED <<Intended, Closed, Acted>> /\ txn[p] \in Txn
    BY <1>0, <1>1, <1>5 DEF EvidenceStep, Verify, GenerateReceipt, PersistReceipt, Crash
  <2>2. CASE UNCHANGED recordVars
    BY <1>1, <2>1, <2>2 DEF AbstractVars
  <2>3. CASE Verify(p)
    BY <1>0, <2>1, <2>2, <2>3, VerifyMap DEF Verify
  <2>4. CASE PersistReceipt(p)
    <3>1. txn[p] \in Verified
      BY <2>1, <2>4 DEF PersistReceipt, EvidenceInv, VerifiedBeforeReceipt, Verified
    <3>. QED
      BY <1>0, <2>1, <2>2, <2>4, <3>1, IssueMap DEF PersistReceipt
  <2>. QED
    BY <1>5, <2>2, <2>3, <2>4 DEF EvidenceStep, GenerateReceipt, Crash
<1>6. CASE UNCHANGED vars
  BY <1>2, <1>6 DEF vars
<1>. QED
  BY <1>3, <1>4, <1>5, <1>6 DEF Next

(* With the Postgres repositories the execution path, its repair           *)
(* endpoints, its faults and its crashes implement TrustLifecycle: intent  *)
(* before action, one action, one record, then verification and receipt,   *)
(* and an intent closed by its record or by a human.                       *)
THEOREM LifecycleImplemented == ASSUME Durable PROVE Spec => ImplementsLifecycle
<1>1. EvidenceInv /\ [Next]_vars => [Lifecycle!Next]_(Lifecycle!vars)
  <2>. SUFFICES ASSUME EvidenceInv, [Next]_vars
                PROVE  [Lifecycle!Next]_(Lifecycle!vars)
    OBVIOUS
  <2>1. [Lifecycle!Next]_AbstractVars
    BY LifecycleStep
  <2>2. UNCHANGED AbstractVars => UNCHANGED Lifecycle!vars
    BY DEF AbstractVars, Lifecycle!vars, Intended, Acted, Verified, Receipted, Closed
  <2>. QED
    BY <2>1, <2>2
<1>. QED
  BY <1>1, LifecycleInit, EvidenceAlways, PTL DEF Spec, ImplementsLifecycle, Lifecycle!Spec
==========================================================================

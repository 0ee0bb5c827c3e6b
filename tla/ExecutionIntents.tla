------------------------- MODULE ExecutionIntents -------------------------
(***************************************************************************)
(* The path of a business transaction through ExecutionTrustApplication:   *)
(* accept it, decide, sign and store an Execution Intent, release the      *)
(* action to the connector, build and store the Execution Trust Record,    *)
(* verify it and issue the receipt.  Beside it run the repair endpoints an *)
(* operator uses on an intent that never reached a record (finalize and    *)
(* resolve) and the public verify and receipt endpoints.                   *)
(*                                                                         *)
(* A request is one POST /execute; two requests may carry the same         *)
(* transaction (a client's retry).  A caller runs the other endpoints, any *)
(* number of times.  Every await of the code is a step boundary, so all of *)
(* them interleave.  A write may fail before or after it took effect, and  *)
(* a server may crash between any two steps; both draw on one budget of    *)
(* MaxFaults.                                                              *)
(***************************************************************************)
EXTENDS Integers

CONSTANTS
    Txn,        \* business transaction ids
    Req,        \* POST /execute requests
    Opr,        \* callers of the other endpoints
    Durable,    \* TRUE: Postgres repositories; FALSE: in-memory ones
    Honest,     \* TRUE: an operator states what the connector showed
    MaxFaults,  \* failed writes, failed signatures and crashes in a behaviour
    None        \* no process

ASSUME ConstantsAssumption ==
    /\ Req \cap Opr = {}
    /\ None \notin Req \cup Opr
    /\ Durable \in BOOLEAN
    /\ Honest \in BOOLEAN
    /\ MaxFaults \in Nat

Proc == Req \cup Opr

VARIABLES
    owner,      \* Txn -> the request whose insert made the transaction row
    refusal,    \* transactions with a stored Refusal Record
    intent,     \* Txn -> state of the execution_intents row
    saved,      \* Txn -> the row holds the released context
    resolution, \* Txn -> what an operator stated at resolve
    link,       \* Txn -> the record the intent's trustRecordId names
    mode,       \* Txn -> finalizationMode
    execution,  \* Txn -> status of the executions row
    performed,  \* Txn -> how often the connector performed the action
    record,     \* Txn -> which process built the stored Trust Record
    verifs,     \* Txn -> statuses of the verifications appended
    latest,     \* Txn -> status of the last verification appended
    receipts,   \* Txn -> a receipt is appended
    pc,         \* Proc -> where its handler is, or the answer it gave
    task,       \* Opr -> the endpoint called
    txn,        \* Proc -> the transaction it works on
    view,       \* Opr -> what it read of the intent and the record
    faults      \* faults so far

intentVars == <<intent, saved, resolution, link, mode>>
recordVars == <<record, verifs, latest, receipts>>
procVars   == <<pc, task, txn, view>>
vars == <<owner, refusal, intentVars, execution, performed, recordVars,
          procVars, faults>>

(* ExecutionIntentState, and NONE for a transaction without a row. *)
IntentState == {"PREPARED", "RELEASED", "FINALIZED", "ERRORED", "RESOLVED"}
ExecutionStatus == {"PROCESSING", "COMPLETED", "FAILED"}
VerificationStatus == {"VERIFIED", "FAILED"}
Resolution == {"NOT_EXECUTED", "EXECUTED"}
Task == {"finalize", "resolve", "verify", "receipt"}

(* The answers of POST /execute.  "unavailable" is either 503: nothing was *)
(* executed.  "unknown" is EXECUTION_OUTCOME_UNKNOWN, "incomplete" is      *)
(* EXECUTION_RECORD_INCOMPLETE, "error" any other failure.                 *)
Answer == {"duplicate", "denied", "unavailable", "unknown", "incomplete",
           "error", "ok", "crashed"}

ReqLabel == {"idle", "exists", "insert", "decide", "ready", "prepare", "start",
             "perform", "complete", "fail", "errored", "released", "store",
             "inline", "verify", "receipt", "append"} \cup Answer
OprLabel == {"idle", "f_check", "f_create", "f_reread", "f_inline",
             "f_repaired", "f_reload", "verify", "receipt", "append",
             "r_record", "r_read", "r_move"}

View == [state : IntentState \cup {"NONE"}, saved : BOOLEAN,
         record : Proc \cup {None}, latest : VerificationStatus \cup {"NONE"},
         receipt : BOOLEAN, stated : Resolution \cup {"NONE"}]
NoView == [state |-> "NONE", saved |-> FALSE, record |-> None,
           latest |-> "NONE", receipt |-> FALSE, stated |-> "NONE"]

TypeOK ==
    /\ owner \in [Txn -> Req \cup {None}]
    /\ refusal \in SUBSET Txn
    /\ intent \in [Txn -> IntentState \cup {"NONE"}]
    /\ saved \in [Txn -> BOOLEAN]
    /\ resolution \in [Txn -> Resolution \cup {"NONE"}]
    /\ link \in [Txn -> Proc \cup {None}]
    /\ mode \in [Txn -> {"NONE", "INLINE", "REPAIRED"}]
    /\ execution \in [Txn -> ExecutionStatus \cup {"NONE"}]
    /\ performed \in [Txn -> Nat]
    /\ record \in [Txn -> Proc \cup {None}]
    /\ verifs \in [Txn -> SUBSET VerificationStatus]
    /\ latest \in [Txn -> VerificationStatus \cup {"NONE"}]
    /\ receipts \in [Txn -> BOOLEAN]
    /\ pc \in [Proc -> ReqLabel \cup OprLabel]
    /\ \A r \in Req : pc[r] \in ReqLabel
    /\ \A o \in Opr : pc[o] \in OprLabel
    /\ task \in [Opr -> Task \cup {"NONE"}]
    /\ txn \in [Proc -> Txn \cup {None}]
    /\ view \in [Opr -> View]
    /\ faults \in 0..MaxFaults

Init ==
    /\ owner = [t \in Txn |-> None]
    /\ refusal = {}
    /\ intent = [t \in Txn |-> "NONE"]
    /\ saved = [t \in Txn |-> FALSE]
    /\ resolution = [t \in Txn |-> "NONE"]
    /\ link = [t \in Txn |-> None]
    /\ mode = [t \in Txn |-> "NONE"]
    /\ execution = [t \in Txn |-> "NONE"]
    /\ performed = [t \in Txn |-> 0]
    /\ record = [t \in Txn |-> None]
    /\ verifs = [t \in Txn |-> {}]
    /\ latest = [t \in Txn |-> "NONE"]
    /\ receipts = [t \in Txn |-> FALSE]
    /\ pc = [p \in Proc |-> "idle"]
    /\ task = [o \in Opr |-> "NONE"]
    /\ txn = [p \in Proc |-> None]
    /\ view = [o \in Opr |-> NoView]
    /\ faults = 0

---------------------------------------------------------------------------
(***************************************************************************)
(* Faults.  A Fault is a signature or a write that fails with no effect;   *)
(* LostAnswer is a Postgres write that took effect but reported an error.  *)
(* The in-memory repositories never fail.                                  *)
(***************************************************************************)
Fault == faults < MaxFaults /\ faults' = faults + 1
StorageFault == Durable /\ Fault
LostAnswer == Durable /\ Fault
NoFault == UNCHANGED faults

(* Control of one process. *)
Goto(p, label) ==
    /\ pc' = [pc EXCEPT ![p] = label]
    /\ UNCHANGED <<task, txn, view>>

Continue(o, label, v) ==
    /\ pc' = [pc EXCEPT ![o] = label]
    /\ view' = [view EXCEPT ![o] = v]
    /\ UNCHANGED <<task, txn>>

(* A caller's handler returns or throws: its locals are gone. *)
Leave(o) ==
    /\ pc' = [pc EXCEPT ![o] = "idle"]
    /\ task' = [task EXCEPT ![o] = "NONE"]
    /\ txn' = [txn EXCEPT ![o] = None]
    /\ view' = [view EXCEPT ![o] = NoView]

Finish(p, answer) ==
    \/ p \in Req /\ Goto(p, answer)
    \/ p \in Opr /\ Leave(p)

---------------------------------------------------------------------------
(* Repository operations: each is one SQL statement (or one Map update).   *)

InsertTransaction(t, r) ==
    /\ owner[t] = None
    /\ owner' = [owner EXCEPT ![t] = r]

CreateIntent(t) ==
    /\ intent[t] = "NONE"
    /\ intent' = [intent EXCEPT ![t] = "PREPARED"]
    /\ UNCHANGED <<saved, resolution, link, mode>>

MarkReleased(t) ==
    \/ /\ intent[t] = "PREPARED"
       /\ intent' = [intent EXCEPT ![t] = "RELEASED"]
       /\ saved' = [saved EXCEPT ![t] = TRUE]
       /\ UNCHANGED <<resolution, link, mode>>
    \/ intent[t] # "PREPARED" /\ UNCHANGED intentVars

(* Faulty variant: an intent already past PREPARED blocks the update. *)
MarkErrored_Waits(t) ==
    /\ intent[t] = "PREPARED"
    /\ intent' = [intent EXCEPT ![t] = "ERRORED"]
    /\ UNCHANGED <<saved, resolution, link, mode>>

MarkErrored(t) ==
    \/ /\ intent[t] = "PREPARED"
       /\ intent' = [intent EXCEPT ![t] = "ERRORED"]
       /\ UNCHANGED <<saved, resolution, link, mode>>
    \/ intent[t] # "PREPARED" /\ UNCHANGED intentVars

MarkFinalized(t, rec, m) ==
    \/ /\ intent[t] \notin {"NONE", "FINALIZED"}
       /\ intent' = [intent EXCEPT ![t] = "FINALIZED"]
       /\ saved' = [saved EXCEPT ![t] = FALSE]
       /\ link' = [link EXCEPT ![t] = rec]
       /\ mode' = [mode EXCEPT ![t] = m]
       /\ UNCHANGED resolution
    \/ intent[t] \in {"NONE", "FINALIZED"} /\ UNCHANGED intentVars

(* Faulty variant: no condition on the state the row is in. *)
MarkResolved_AnyState(t, res) ==
    /\ intent' = [intent EXCEPT ![t] = "RESOLVED"]
    /\ resolution' = [resolution EXCEPT ![t] = res]
    /\ UNCHANGED <<saved, link, mode>>

MarkResolved(t, res) ==
    \/ /\ intent[t] \in {"PREPARED", "ERRORED"}
       /\ intent' = [intent EXCEPT ![t] = "RESOLVED"]
       /\ resolution' = [resolution EXCEPT ![t] = res]
       /\ UNCHANGED <<saved, link, mode>>
    \/ intent[t] \notin {"PREPARED", "ERRORED"} /\ UNCHANGED intentVars

ListUnfinalized == {t \in Txn : intent[t] \notin {"NONE", "FINALIZED", "RESOLVED"}}

(* Postgres keeps the executions in rows of their own; in memory they live *)
(* inside the record, so a write before the record exists does nothing.    *)
WriteExecution(t, status) ==
    \/ /\ Durable \/ record[t] # None
       /\ execution' = [execution EXCEPT ![t] = status]
    \/ ~Durable /\ record[t] = None /\ UNCHANGED execution

(* Faulty variant: an upsert. *)
CreateRecordPostgres_Upsert(t, p) ==
    /\ record' = [record EXCEPT ![t] = p]
    /\ UNCHANGED <<verifs, latest, receipts, execution>>

(* UNIQUE (business_transaction_id): a second insert is refused. *)
CreateRecordPostgres(t, p) ==
    /\ record[t] = None
    /\ record' = [record EXCEPT ![t] = p]
    /\ UNCHANGED <<verifs, latest, receipts, execution>>

(* Map.set: replaces any record, with the verifications and receipts in it. *)
CreateRecordMemory(t, p) ==
    /\ record' = [record EXCEPT ![t] = p]
    /\ verifs' = [verifs EXCEPT ![t] = {}]
    /\ latest' = [latest EXCEPT ![t] = "NONE"]
    /\ receipts' = [receipts EXCEPT ![t] = FALSE]
    /\ execution' = [execution EXCEPT ![t] = "COMPLETED"]

CreateRecord(t, p) ==
    \/ Durable /\ CreateRecordPostgres(t, p)
    \/ ~Durable /\ CreateRecordMemory(t, p)

AppendVerification(t, status) ==
    /\ verifs' = [verifs EXCEPT ![t] = @ \cup {status}]
    /\ latest' = [latest EXCEPT ![t] = status]
    /\ UNCHANGED <<record, receipts>>

AppendReceipt(t) ==
    /\ receipts' = [receipts EXCEPT ![t] = TRUE]
    /\ UNCHANGED <<record, verifs, latest>>

---------------------------------------------------------------------------
(* POST /execute                                                           *)

Submit(r) ==
    /\ pc[r] = "idle"
    /\ \E t \in Txn : txn' = [txn EXCEPT ![r] = t]
    /\ pc' = [pc EXCEPT ![r] = "exists"]
    /\ UNCHANGED <<owner, refusal, intentVars, execution, performed,
                   recordVars, task, view, faults>>

(* accept: the existence check, then the insert. *)
AcceptExists(r) ==
    /\ pc[r] = "exists"
    /\ \/ owner[txn[r]] # None /\ Goto(r, "duplicate") /\ NoFault
       \/ owner[txn[r]] = None /\ Goto(r, "insert") /\ NoFault
       \/ StorageFault /\ Goto(r, "error")
    /\ UNCHANGED <<owner, refusal, intentVars, execution, performed, recordVars>>

AcceptInsert(r) ==
    /\ pc[r] = "insert"
    /\ \/ InsertTransaction(txn[r], r) /\ Goto(r, "decide") /\ NoFault
       \/ owner[txn[r]] # None /\ UNCHANGED owner /\ Goto(r, "duplicate") /\ NoFault
       \/ StorageFault /\ UNCHANGED owner /\ Goto(r, "error")
       \/ LostAnswer /\ InsertTransaction(txn[r], r) /\ Goto(r, "error")
    /\ UNCHANGED <<refusal, intentVars, execution, performed, recordVars>>

(* Everything up to the signed authorization.  A refusal is written as     *)
(* best effort before the gate throws; a policy that cannot be loaded or   *)
(* an authorization that cannot be signed is an error.                     *)
Decide(r) ==
    /\ pc[r] = "decide"
    /\ \/ Goto(r, "ready") /\ UNCHANGED refusal
       \/ Goto(r, "error") /\ UNCHANGED refusal
       \/ /\ Goto(r, "denied")
          /\ refusal' \in {refusal, refusal \cup {txn[r]}}
    /\ UNCHANGED <<owner, intentVars, execution, performed, recordVars, faults>>

AssertSigningReady(r) ==
    /\ pc[r] = "ready"
    /\ \/ Goto(r, "prepare") /\ NoFault
       \/ Fault /\ Goto(r, "unavailable")
    /\ UNCHANGED <<owner, refusal, intentVars, execution, performed, recordVars>>

(* Faulty variant: prepare is best effort. *)
Prepare_BestEffort(r) ==
    /\ pc[r] = "prepare"
    /\ \/ CreateIntent(txn[r]) /\ NoFault
       \/ Fault /\ UNCHANGED intentVars
    /\ Goto(r, "start")
    /\ UNCHANGED <<owner, refusal, execution, performed, recordVars>>

(* prepare is fail closed: any error means nothing is released. *)
Prepare(r) ==
    /\ pc[r] = "prepare"
    /\ \/ CreateIntent(txn[r]) /\ Goto(r, "start") /\ NoFault
       \/ Fault /\ UNCHANGED intentVars /\ Goto(r, "unavailable")
       \/ LostAnswer /\ CreateIntent(txn[r]) /\ Goto(r, "unavailable")
    /\ UNCHANGED <<owner, refusal, execution, performed, recordVars>>

StartExecution(r) ==
    /\ pc[r] = "start"
    /\ \/ WriteExecution(txn[r], "PROCESSING") /\ Goto(r, "perform") /\ NoFault
       \/ Fault /\ UNCHANGED execution /\ Goto(r, "errored")
       \/ LostAnswer /\ WriteExecution(txn[r], "PROCESSING") /\ Goto(r, "errored")
    /\ UNCHANGED <<owner, refusal, intentVars, performed, recordVars>>

(* The execution system: the gateway refuses or the connector cannot be    *)
(* reached (not performed), the connector performs the action and answers, *)
(* or it performs the action and the answer is lost or cannot be used.     *)
Perform(r) ==
    /\ pc[r] = "perform"
    /\ \/ /\ performed' = [performed EXCEPT ![txn[r]] = @ + 1]
          /\ Goto(r, "complete") \/ Goto(r, "fail")
       \/ UNCHANGED performed /\ Goto(r, "fail")
    /\ UNCHANGED <<owner, refusal, intentVars, execution, recordVars, faults>>

(* attachEvidence and complete. *)
CompleteExecution(r) ==
    /\ pc[r] = "complete"
    /\ \/ WriteExecution(txn[r], "COMPLETED") /\ Goto(r, "released") /\ NoFault
       \/ Fault /\ UNCHANGED execution /\ Goto(r, "fail")
       \/ LostAnswer /\ WriteExecution(txn[r], "COMPLETED") /\ Goto(r, "fail")
    /\ UNCHANGED <<owner, refusal, intentVars, performed, recordVars>>

(* Faulty variants: call the connector again; swallow the error. *)
FailExecution_Retries(r) ==
    /\ pc[r] = "fail"
    /\ Goto(r, "perform")
    /\ UNCHANGED <<owner, refusal, intentVars, execution, performed,
                   recordVars, faults>>

FailExecution_Swallows(r) ==
    /\ pc[r] = "fail"
    /\ WriteExecution(txn[r], "FAILED")
    /\ Goto(r, "released")
    /\ UNCHANGED <<owner, refusal, intentVars, performed, recordVars, faults>>

FailExecution(r) ==
    /\ pc[r] = "fail"
    /\ \/ WriteExecution(txn[r], "FAILED") /\ NoFault
       \/ Fault /\ UNCHANGED execution
    /\ Goto(r, "errored")
    /\ UNCHANGED <<owner, refusal, intentVars, performed, recordVars>>

(* Faulty variant: a release that threw is answered as "not executed". *)
ReleaseErrored_NotExecuted(r) ==
    /\ pc[r] = "errored"
    /\ MarkErrored(txn[r])
    /\ Goto(r, "unavailable")
    /\ UNCHANGED <<owner, refusal, execution, performed, recordVars, faults>>

(* The three status updates are best effort: they never throw. *)
ReleaseErrored(r) ==
    /\ pc[r] = "errored"
    /\ \/ MarkErrored(txn[r]) /\ NoFault
       \/ StorageFault /\ UNCHANGED intentVars
    /\ Goto(r, "unknown")
    /\ UNCHANGED <<owner, refusal, execution, performed, recordVars>>

SaveContext(r) ==
    /\ pc[r] = "released"
    /\ \/ MarkReleased(txn[r]) /\ NoFault
       \/ StorageFault /\ UNCHANGED intentVars
    /\ Goto(r, "store")
    /\ UNCHANGED <<owner, refusal, execution, performed, recordVars>>

(* Build, sign and persist the record. *)
StoreRecord(r) ==
    /\ pc[r] = "store"
    /\ \/ CreateRecord(txn[r], r) /\ Goto(r, "inline") /\ NoFault
       \/ /\ Durable /\ record[txn[r]] # None
          /\ Goto(r, "incomplete") /\ NoFault /\ UNCHANGED <<recordVars, execution>>
       \/ Fault /\ Goto(r, "incomplete") /\ UNCHANGED <<recordVars, execution>>
       \/ LostAnswer /\ CreateRecord(txn[r], r) /\ Goto(r, "incomplete")
    /\ UNCHANGED <<owner, refusal, intentVars, performed>>

FinalizeInline(r) ==
    /\ pc[r] = "inline"
    /\ \/ MarkFinalized(txn[r], r, "INLINE") /\ NoFault
       \/ StorageFault /\ UNCHANGED intentVars
    /\ Goto(r, "verify")
    /\ UNCHANGED <<owner, refusal, execution, performed, recordVars>>

---------------------------------------------------------------------------
(* Verification and receipt, for a request and for the other endpoints.    *)

VerifyNext(p) ==
    \/ p \in Req /\ Goto(p, "receipt")
    \/ p \in Opr /\ task[p] = "finalize" /\ Goto(p, "f_reload")
    \/ p \in Opr /\ task[p] # "finalize" /\ Leave(p)

Verify(p) ==
    /\ pc[p] = "verify"
    /\ \/ /\ record[txn[p]] # None
          /\ \E s \in VerificationStatus : AppendVerification(txn[p], s)
          /\ \/ VerifyNext(p) /\ NoFault
             \/ LostAnswer /\ Finish(p, "error")
       \/ /\ UNCHANGED recordVars
          /\ Finish(p, "error")
          /\ \/ record[txn[p]] = None /\ NoFault
             \/ StorageFault
    /\ UNCHANGED <<owner, refusal, intentVars, execution, performed>>

(* receipts.generate: read and check the latest verification ... *)
GenerateReceipt(p) ==
    /\ pc[p] = "receipt"
    /\ \/ /\ record[txn[p]] # None /\ latest[txn[p]] = "VERIFIED"
          /\ Goto(p, "append") /\ NoFault
       \/ /\ record[txn[p]] = None \/ latest[txn[p]] # "VERIFIED"
          /\ Finish(p, "error") /\ NoFault
       \/ Fault /\ Finish(p, "error")
    /\ UNCHANGED <<owner, refusal, intentVars, execution, performed, recordVars>>

(* Faulty variant: storing the receipt is best effort. *)
PersistReceipt_BestEffort(p) ==
    /\ pc[p] = "append"
    /\ \/ AppendReceipt(txn[p]) /\ NoFault
       \/ StorageFault /\ UNCHANGED recordVars
    /\ Finish(p, "ok")
    /\ UNCHANGED <<owner, refusal, intentVars, execution, performed>>

(* ... then, after signing, append it. *)
PersistReceipt(p) ==
    /\ pc[p] = "append"
    /\ \/ AppendReceipt(txn[p]) /\ Finish(p, "ok") /\ NoFault
       \/ LostAnswer /\ AppendReceipt(txn[p]) /\ Finish(p, "error")
       \/ StorageFault /\ UNCHANGED recordVars /\ Finish(p, "error")
    /\ UNCHANGED <<owner, refusal, intentVars, execution, performed>>

---------------------------------------------------------------------------
(* The other endpoints.                                                    *)

Enter(o, t, what, label) ==
    /\ pc[o] = "idle"
    /\ pc' = [pc EXCEPT ![o] = label]
    /\ task' = [task EXCEPT ![o] = what]
    /\ txn' = [txn EXCEPT ![o] = t]

VerifyCall(o) ==
    /\ \E t \in Txn : Enter(o, t, "verify", "verify")
    /\ UNCHANGED <<owner, refusal, intentVars, execution, performed,
                   recordVars, view, faults>>

ReceiptCall(o) ==
    /\ \E t \in Txn : Enter(o, t, "receipt", "receipt")
    /\ UNCHANGED <<owner, refusal, intentVars, execution, performed,
                   recordVars, view, faults>>

(* What a handler sees of the Trust Record it loads. *)
SeeRecord(v, t) == [v EXCEPT !.record = record[t], !.latest = latest[t],
                             !.receipt = receipts[t]]

(* finalize: read the intent ... *)
FinalizeRead(o, t) ==
    /\ intent[t] # "NONE"
    /\ Enter(o, t, "finalize", "f_check")
    /\ view' = [view EXCEPT ![o].state = intent[t], ![o].saved = saved[t]]
    /\ UNCHANGED <<owner, refusal, intentVars, execution, performed,
                   recordVars, faults>>

(* finalizeExecutionIntent, once finalize returned the record seen as v:   *)
(* complete what it lacks.                                                 *)
AfterFinalize(o, v) ==
    \/ v.latest = "NONE" /\ Continue(o, "verify", NoView)
    \/ v.latest = "VERIFIED" /\ ~v.receipt /\ Continue(o, "receipt", NoView)
    \/ ~(v.latest = "NONE" \/ (v.latest = "VERIFIED" /\ ~v.receipt)) /\ Leave(o)

(* ... then look for a record: mark it, rebuild it, or refuse. *)
FinalizeCheck(o) ==
    /\ pc[o] = "f_check"
    /\ \/ /\ record[txn[o]] # None /\ NoFault
          /\ LET v == SeeRecord(view[o], txn[o]) IN
             \/ v.state # "FINALIZED" /\ Continue(o, "f_inline", v)
             \/ v.state = "FINALIZED" /\ AfterFinalize(o, v)
       \/ record[txn[o]] = None /\ view[o].saved /\ Goto(o, "f_create") /\ NoFault
       \/ record[txn[o]] = None /\ ~view[o].saved /\ Leave(o) /\ NoFault
       \/ StorageFault /\ Leave(o)
    /\ UNCHANGED <<owner, refusal, intentVars, execution, performed, recordVars>>

(* Rebuild from the saved context.  Building may throw (Leave); a failed   *)
(* create is followed by a second look.                                    *)
FinalizeCreate(o) ==
    /\ pc[o] = "f_create"
    /\ \/ /\ CreateRecord(txn[o], o) /\ NoFault
          /\ Continue(o, "f_repaired", [view[o] EXCEPT !.record = o])
       \/ Fault /\ Leave(o) /\ UNCHANGED <<recordVars, execution>>
       \/ /\ Durable /\ record[txn[o]] # None /\ NoFault
          /\ Goto(o, "f_reread") /\ UNCHANGED <<recordVars, execution>>
       \/ StorageFault /\ Goto(o, "f_reread") /\ UNCHANGED <<recordVars, execution>>
       \/ LostAnswer /\ CreateRecord(txn[o], o) /\ Goto(o, "f_reread")
    /\ UNCHANGED <<owner, refusal, intentVars, performed>>

FinalizeReread(o) ==
    /\ pc[o] = "f_reread"
    /\ \/ /\ record[txn[o]] # None /\ NoFault
          /\ Continue(o, "f_repaired", SeeRecord(view[o], txn[o]))
       \/ record[txn[o]] = None /\ Leave(o) /\ NoFault
       \/ StorageFault /\ Leave(o)
    /\ UNCHANGED <<owner, refusal, intentVars, execution, performed, recordVars>>

(* Faulty variant: an intent whose record exists already is not marked. *)
FinalizeMark_OnlyRepaired(o) ==
    /\ \/ pc[o] = "f_inline" /\ UNCHANGED <<intentVars, faults>>
       \/ pc[o] = "f_repaired" /\ MarkFinalized(txn[o], view[o].record, "REPAIRED") /\ NoFault
       \/ pc[o] \in {"f_inline", "f_repaired"} /\ StorageFault /\ UNCHANGED intentVars
    /\ AfterFinalize(o, view[o])
    /\ UNCHANGED <<owner, refusal, execution, performed, recordVars>>

FinalizeMark(o) ==
    /\ \/ pc[o] = "f_inline" /\ MarkFinalized(txn[o], view[o].record, "INLINE") /\ NoFault
       \/ pc[o] = "f_repaired" /\ MarkFinalized(txn[o], view[o].record, "REPAIRED") /\ NoFault
       \/ pc[o] \in {"f_inline", "f_repaired"} /\ StorageFault /\ UNCHANGED intentVars
    /\ AfterFinalize(o, view[o])
    /\ UNCHANGED <<owner, refusal, execution, performed, recordVars>>

(* After the verification the record is loaded again. *)
FinalizeReload(o) ==
    /\ pc[o] = "f_reload"
    /\ \/ /\ latest[txn[o]] = "VERIFIED" /\ ~receipts[txn[o]]
          /\ Goto(o, "receipt") /\ NoFault
       \/ /\ latest[txn[o]] # "VERIFIED" \/ receipts[txn[o]]
          /\ Leave(o) /\ NoFault
       \/ StorageFault /\ Leave(o)
    /\ UNCHANGED <<owner, refusal, intentVars, execution, performed, recordVars>>

(* What a human who looked at the connector may state about t. *)
Statement(t) ==
    {res \in Resolution : Honest => (res = "EXECUTED" <=> performed[t] > 0)}

(* resolve: the body carries the statement.  An open intent is refused     *)
(* when a record exists; the two are read one after the other ...          *)
ResolveCall(o) ==
    /\ \E t \in Txn :
          /\ Enter(o, t, "resolve",
                   IF intent[t] \in {"PREPARED", "RELEASED", "ERRORED"}
                   THEN "r_record" ELSE "r_read")
          /\ \E res \in Statement(t) : view' = [view EXCEPT ![o].stated = res]
    /\ UNCHANGED <<owner, refusal, intentVars, execution, performed,
                   recordVars, faults>>

ResolveRecord(o) ==
    /\ pc[o] = "r_record"
    /\ \/ record[txn[o]] # None /\ Leave(o) /\ NoFault
       \/ record[txn[o]] = None /\ Goto(o, "r_read") /\ NoFault
       \/ StorageFault /\ Leave(o)
    /\ UNCHANGED <<owner, refusal, intentVars, execution, performed, recordVars>>

(* ... then the service reads the intent again (assertResolvable) ... *)
ResolveRead(o) ==
    /\ pc[o] = "r_read"
    /\ \/ intent[txn[o]] \in {"PREPARED", "ERRORED"} /\ Goto(o, "r_move") /\ NoFault
       \/ intent[txn[o]] \notin {"PREPARED", "ERRORED"} /\ Leave(o) /\ NoFault
       \/ StorageFault /\ Leave(o)
    /\ UNCHANGED <<owner, refusal, intentVars, execution, performed, recordVars>>

(* ... and moves it.  What follows only chooses the answer. *)
ResolveMove(o) ==
    /\ pc[o] = "r_move"
    /\ \/ MarkResolved(txn[o], view[o].stated) /\ NoFault
       \/ StorageFault /\ UNCHANGED intentVars
    /\ Leave(o)
    /\ UNCHANGED <<owner, refusal, execution, performed, recordVars>>

---------------------------------------------------------------------------
(* A server process dies: a request in flight is never answered and a      *)
(* caller starts over.  Only what Postgres holds survives.                 *)
Crash(p) ==
    /\ StorageFault
    /\ pc[p] \notin Answer \cup {"idle"}
    /\ Finish(p, "crashed")
    /\ UNCHANGED <<owner, refusal, intentVars, execution, performed, recordVars>>

RequestStep(r) ==
    \/ AcceptExists(r) \/ AcceptInsert(r) \/ Decide(r) \/ AssertSigningReady(r)
    \/ Prepare(r) \/ StartExecution(r) \/ Perform(r) \/ CompleteExecution(r)
    \/ FailExecution(r) \/ ReleaseErrored(r) \/ SaveContext(r) \/ StoreRecord(r)
    \/ FinalizeInline(r)

CallerStep(o) ==
    \/ FinalizeCheck(o) \/ FinalizeCreate(o) \/ FinalizeReread(o)
    \/ FinalizeMark(o) \/ FinalizeReload(o)
    \/ ResolveRecord(o) \/ ResolveRead(o) \/ ResolveMove(o)

EvidenceStep(p) == Verify(p) \/ GenerateReceipt(p) \/ PersistReceipt(p)

Next ==
    \/ \E r \in Req : Submit(r) \/ RequestStep(r)
    \/ \E o \in Opr : VerifyCall(o) \/ ReceiptCall(o) \/ ResolveCall(o)
                      \/ CallerStep(o)
    \/ \E o \in Opr, t \in Txn : FinalizeRead(o, t)
    \/ \E p \in Proc : EvidenceStep(p) \/ Crash(p)

Spec == Init /\ [][Next]_vars

---------------------------------------------------------------------------
(* Safety.                                                                 *)

(* The connector performs an action at most once per business transaction, *)
(* whatever is retried, repaired or restarted (accept's primary key, and a *)
(* finalizer that never calls a connector).                                *)
ReleasedOnce == \A t \in Txn : performed[t] <= 1

(* ADR-0012: an executed action always has signed evidence behind it.  (A  *)
(* part of ImplementsLifecycle below, and of the invariant of the proofs.) *)
ReleaseHasIntent == \A t \in Txn : performed[t] > 0 => intent[t] # "NONE"

(* A 403 or 503 answer means nothing was executed, and nothing ever will   *)
(* be for that transaction.                                                *)
NothingExecuted ==
    \A r \in Req : pc[r] \in {"denied", "unavailable"} => performed[txn[r]] = 0

(* A stored Trust Record is of an action that was performed and whose      *)
(* execution completed, whoever built it.                                  *)
RecordOfPerformed ==
    \A t \in Txn : record[t] # None => performed[t] = 1 /\ execution[t] = "COMPLETED"

(* 200 is answered only when record, verification and receipt are stored.  *)
OkMeansEvidence ==
    \A r \in Req : pc[r] = "ok" =>
        record[txn[r]] = r /\ receipts[txn[r]] /\ "VERIFIED" \in verifs[txn[r]]

(* Evidence is only ever added: a stored record is not replaced, and its   *)
(* verifications and receipts stay.                                        *)
EvidenceAppendOnly ==
    [][\A t \in Txn : record[t] # None =>
          /\ record'[t] = record[t]
          /\ verifs[t] \subseteq verifs'[t]
          /\ receipts[t] => receipts'[t]]_vars

(* An operator's statement is written once: a second resolve, or a late    *)
(* finalize, leaves it as it was.                                          *)
ResolutionIsFinal ==
    [][\A t \in Txn : resolution[t] # "NONE" => resolution'[t] = resolution[t]]_vars

(* Every step of the execution path, of the repair endpoints and of the    *)
(* faults between them is a step of TrustLifecycle or none: the intent     *)
(* before the action, one action, one record, verification and receipt in  *)
(* that order, and an intent closed by its record or by a human.           *)
Lifecycle == INSTANCE TrustLifecycle WITH
    Writer    <- Proc,
    intended  <- {t \in Txn : intent[t] # "NONE"},
    acted     <- {t \in Txn : performed[t] > 0},
    recorded  <- record,
    verified  <- {t \in Txn : "VERIFIED" \in verifs[t]},
    receipted <- {t \in Txn : receipts[t]},
    closed    <- [t \in Txn |-> CASE intent[t] = "FINALIZED" -> "recorded"
                                  [] intent[t] = "RESOLVED" -> "stated"
                                  [] OTHER -> "open"]
ImplementsLifecycle == Lifecycle!Spec

---------------------------------------------------------------------------
(* Liveness.  A server runs its handlers to the end unless it crashes; an  *)
(* operator keeps calling finalize on what the unfinalized list shows.     *)
Fairness ==
    /\ \A r \in Req : WF_vars(RequestStep(r))
    /\ \A o \in Opr : WF_vars(CallerStep(o))
    /\ \A p \in Proc : WF_vars(EvidenceStep(p))
    /\ \A t \in Txn : SF_vars(\E o \in Opr : t \in ListUnfinalized /\ FinalizeRead(o, t))

FairSpec == Spec /\ Fairness

(* Every submitted request is answered, or its server crashed.             *)
RequestsEnd == \A r \in Req : pc[r] # "idle" ~> pc[r] \in Answer

(* A released action whose context was saved gets its Trust Record.        *)
ReleasedIsFinalized ==
    \A t \in Txn : intent[t] = "RELEASED" ~> intent[t] = "FINALIZED"

==========================================================================


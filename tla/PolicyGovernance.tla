------------------------- MODULE PolicyGovernance -------------------------
(***************************************************************************)
(* Maker-checker governance of one policy name.  A human proposes a change *)
(* to a version; a second human approves or rejects it with a step-up      *)
(* signature.  Approving signs and stores an approval record, then writes  *)
(* the live policy, then resolves the change.  At execution time the       *)
(* verifier compares the live content with the latest approval records.    *)
(*                                                                         *)
(* The content of a proposal is named by the change itself; Edited is any  *)
(* content written into the policy store outside the governed flow.  A     *)
(* handler is one POST approve or reject.  Its awaits are step boundaries. *)
(***************************************************************************)
EXTENDS Integers, Sequences

CONSTANTS
    Human,      \* callers with credentialHolderType USER and a step-up key
    Version,    \* versions of the policy
    Change,     \* pending policy changes
    Handler,    \* approve and reject requests
    Execution,  \* decisions that load the policy
    Edits,      \* TRUE: the policy store may be edited outside the API
    MaxFaults,  \* failed or unanswered writes, failed signatures, crashes
    None, Edited

ASSUME GovernanceAssumption ==
    /\ None \notin Human \cup Version \cup Change \cup Handler
    /\ Edited \notin Change \cup {None}
    /\ Edits \in BOOLEAN
    /\ MaxFaults \in Nat

VARIABLES
    status,     \* Change -> status of the pending_policy_changes row
    maker,      \* Change -> proposedBy
    base,       \* Change -> policyVersion, the version being replaced
    target,     \* Change -> proposedContent.policyVersion
    records,    \* approval records, in the order they were inserted
    live,       \* Version -> live content
    clock,      \* approvedAt timestamps handed out
    nonces,     \* step-up envelopes whose nonce is consumed
    pc,         \* Handler -> where it is
    job,        \* Handler -> the request
    prev,       \* Handler -> the prior record it read
    at,         \* Handler -> approvedAt of its draft
    run,        \* Execution -> where it is
    asked,      \* Execution -> version it names
    loaded,     \* Execution -> content it loaded
    from,       \* Execution -> number of records when it began
    faults

changeVars == <<status, maker, base, target>>
handlerVars == <<pc, job, prev, at>>
runVars == <<run, asked, loaded, from>>
storeVars == <<records, live, clock, nonces>>
vars == <<changeVars, storeVars, handlerVars, runVars, faults>>

Status == {"PENDING_APPROVAL", "APPROVED", "REJECTED"}
Job == [change : Change, action : {"approve", "reject"}, by : Human,
        envelope : Handler]
ApprovalRecord == [change : Change, version : Version, at : Nat, prev : Nat,
                   by : Human, envelope : Handler]
Over == {"ok", "failed"}

TypeOK ==
    /\ status \in [Change -> Status \cup {"NONE"}]
    /\ maker \in [Change -> Human \cup {None}]
    /\ base \in [Change -> Version \cup {None}]
    /\ target \in [Change -> Version \cup {None}]
    /\ records \in Seq(ApprovalRecord)
    /\ live \in [Version -> Change \cup {None, Edited}]
    /\ clock \in Nat
    /\ nonces \subseteq Handler
    /\ pc \in [Handler -> {"idle", "find", "stepup", "prior", "draft", "create",
                           "save", "status", "resolve"} \cup Over]
    /\ job \in [Handler -> Job \cup {None}]
    /\ prev \in [Handler -> Nat]
    /\ at \in [Handler -> Nat]
    /\ run \in [Execution -> {"idle", "record", "latest", "allowed", "refused"}]
    /\ asked \in [Execution -> Version \cup {None}]
    /\ loaded \in [Execution -> Change \cup {None, Edited}]
    /\ from \in [Execution -> Nat]
    /\ faults \in 0 .. MaxFaults

Init ==
    /\ status = [c \in Change |-> "NONE"]
    /\ maker = [c \in Change |-> None]
    /\ base = [c \in Change |-> None]
    /\ target = [c \in Change |-> None]
    /\ records = <<>>
    /\ live = [v \in Version |-> None]
    /\ clock = 0
    /\ nonces = {}
    /\ pc = [h \in Handler |-> "idle"]
    /\ job = [h \in Handler |-> None]
    /\ prev = [h \in Handler |-> 0]
    /\ at = [h \in Handler |-> 0]
    /\ run = [e \in Execution |-> "idle"]
    /\ asked = [e \in Execution |-> None]
    /\ loaded = [e \in Execution |-> None]
    /\ from = [e \in Execution |-> 0]
    /\ faults = 0

Fault == faults < MaxFaults /\ faults' = faults + 1
NoFault == UNCHANGED faults
Goto(h, label) == pc' = [pc EXCEPT ![h] = label]

(* ORDER BY approved_at DESC LIMIT 1, as an index into records; 0: none. *)
Newest(S) ==
    IF S = {} THEN 0
    ELSE CHOOSE i \in S : \A j \in S : records[j].at <= records[i].at
FindMostRecentFor(v) == Newest({i \in DOMAIN records : records[i].version = v})
FindMostRecentForName == Newest(DOMAIN records)

---------------------------------------------------------------------------
(* Proposing.                                                              *)

(* The partial unique index: one open change for a version being replaced. *)
OpenFor(v) == {c \in Change : base[c] = v /\ status[c] = "PENDING_APPROVAL"}

CreateChange(c, m, b, t) ==
    /\ OpenFor(b) = {}
    /\ status' = [status EXCEPT ![c] = "PENDING_APPROVAL"]
    /\ maker' = [maker EXCEPT ![c] = m]
    /\ base' = [base EXCEPT ![c] = b]
    /\ target' = [target EXCEPT ![c] = t]

(* A refused proposal (invalid, not human, conflicting) changes nothing. *)
Propose(c, m, b, t) ==
    /\ status[c] = "NONE"
    /\ CreateChange(c, m, b, t)
    /\ UNCHANGED <<storeVars, handlerVars, runVars, faults>>

---------------------------------------------------------------------------
(* POST approve and reject.                                                *)

(* The request carries a step-up envelope: one signed for it, or one that  *)
(* was sent before with the same change and action by the same human.      *)
Receive(h, c, a, m) ==
    /\ pc[h] = "idle" /\ status[c] # "NONE"
    /\ \E e \in Handler :
          /\ \/ e = h
             \/ job[e] # None /\ job[e] = [change |-> c, action |-> a, by |-> m,
                                           envelope |-> e]
          /\ job' = [job EXCEPT ![h] = [change |-> c, action |-> a, by |-> m,
                                        envelope |-> e]]
    /\ Goto(h, "find")
    /\ UNCHANGED <<changeVars, storeVars, prev, at, runVars, faults>>

(* findById, then maker # checker.  The status is not looked at. *)
FindChange(h) ==
    /\ pc[h] = "find"
    /\ \/ maker[job[h].change] # job[h].by /\ Goto(h, "stepup") /\ NoFault
       \/ maker[job[h].change] = job[h].by /\ Goto(h, "failed") /\ NoFault
       \/ Fault /\ Goto(h, "failed")
    /\ UNCHANGED <<changeVars, storeVars, job, prev, at, runVars>>

(* Faulty variants: the nonce is not checked; resolve comes first. *)
RequireStepUp_Replay(h) ==
    /\ pc[h] = "stepup"
    /\ nonces' = nonces \cup {job[h].envelope}
    /\ Goto(h, IF job[h].action = "approve" THEN "prior" ELSE "status")
    /\ UNCHANGED <<changeVars, records, live, clock, job, prev, at, runVars, faults>>

(* Every check of the envelope passed and its nonce is consumed; or a      *)
(* check failed, the nonce was seen before or the store failed.            *)
RequireStepUp(h) ==
    /\ pc[h] = "stepup"
    /\ LET e == job[h].envelope IN
       \/ /\ e \notin nonces /\ nonces' = nonces \cup {e}
          /\ \/ NoFault /\ Goto(h, IF job[h].action = "approve" THEN "prior" ELSE "status")
             \/ Fault /\ Goto(h, "failed")
       \/ UNCHANGED nonces /\ Goto(h, "failed") /\ NoFault
    /\ UNCHANGED <<changeVars, records, live, clock, job, prev, at, runVars>>

(* PolicyChangeApprovalService.approve: the record to chain to ... *)
ReadPrior(h) ==
    /\ pc[h] = "prior"
    /\ \/ /\ prev' = [prev EXCEPT ![h] = FindMostRecentFor(target[job[h].change])]
          /\ Goto(h, "draft") /\ NoFault
       \/ Fault /\ Goto(h, "failed") /\ UNCHANGED prev
    /\ UNCHANGED <<changeVars, storeVars, job, at, runVars>>

(* ... approvedAt and the signature ... *)
Draft(h) ==
    /\ pc[h] = "draft"
    /\ clock' = clock + 1
    /\ at' = [at EXCEPT ![h] = clock + 1]
    /\ \/ Goto(h, "create") /\ NoFault
       \/ Fault /\ Goto(h, "failed")
    /\ UNCHANGED <<changeVars, records, live, nonces, job, prev, runVars>>

NewRecord(h) ==
    [change |-> job[h].change, version |-> target[job[h].change], at |-> at[h],
     prev |-> prev[h], by |-> job[h].by, envelope |-> job[h].envelope]

(* Faulty variant: the record is best effort. *)
CreateRecord_BestEffort(h) ==
    /\ pc[h] = "create" /\ Goto(h, "save")
    /\ \/ records' = Append(records, NewRecord(h)) /\ NoFault
       \/ UNCHANGED records /\ Fault
    /\ UNCHANGED <<changeVars, live, clock, nonces, job, prev, at, runVars>>

(* ... the record is stored ... *)
CreateRecord(h) ==
    /\ pc[h] = "create"
    /\ \/ records' = Append(records, NewRecord(h)) /\ Goto(h, "save") /\ NoFault
       \/ records' = Append(records, NewRecord(h)) /\ Goto(h, "failed") /\ Fault
       \/ UNCHANGED records /\ Goto(h, "failed") /\ Fault
    /\ UNCHANGED <<changeVars, live, clock, nonces, job, prev, at, runVars>>

(* ... and only then the live policy is written. *)
SavePolicy(h) ==
    /\ pc[h] = "save"
    /\ \/ /\ live' = [live EXCEPT ![target[job[h].change]] = job[h].change]
          /\ \/ Goto(h, "status") /\ NoFault
             \/ Goto(h, "failed") /\ Fault
       \/ UNCHANGED live /\ Goto(h, "failed") /\ Fault
    /\ UNCHANGED <<changeVars, records, clock, nonces, job, prev, at, runVars>>

(* resolve: refuse a change read as resolved already ... *)
ReadStatus(h) ==
    /\ pc[h] = "status"
    /\ \/ status[job[h].change] = "PENDING_APPROVAL" /\ Goto(h, "resolve") /\ NoFault
       \/ status[job[h].change] # "PENDING_APPROVAL" /\ Goto(h, "failed") /\ NoFault
       \/ Fault /\ Goto(h, "failed")
    /\ UNCHANGED <<changeVars, storeVars, job, prev, at, runVars>>

Outcome(h) == IF job[h].action = "approve" THEN "APPROVED" ELSE "REJECTED"

(* UPDATE ... WHERE status = 'PENDING_APPROVAL'. *)
UpdateStatus(h) ==
    /\ status[job[h].change] = "PENDING_APPROVAL"
    /\ status' = [status EXCEPT ![job[h].change] = Outcome(h)]

(* ... and update it, unless another request did so meanwhile. *)
ResolveChange(h) ==
    /\ pc[h] = "resolve"
    /\ \/ UpdateStatus(h) /\ Goto(h, "ok") /\ NoFault
       \/ UpdateStatus(h) /\ Goto(h, "failed") /\ Fault
       \/ /\ status[job[h].change] # "PENDING_APPROVAL"
          /\ UNCHANGED status /\ Goto(h, "failed") /\ NoFault
       \/ UNCHANGED status /\ Goto(h, "failed") /\ Fault
    /\ UNCHANGED <<maker, base, target, storeVars, job, prev, at, runVars>>

(* The server of a request dies. *)
Crash(h) ==
    /\ pc[h] \notin Over \cup {"idle"}
    /\ Fault /\ Goto(h, "failed")
    /\ UNCHANGED <<changeVars, storeVars, job, prev, at, runVars>>

(* Somebody writes a policy file outside the governed flow. *)
EditOutside(v) ==
    /\ Edits /\ live[v] # Edited
    /\ live' = [live EXCEPT ![v] = Edited]
    /\ UNCHANGED <<changeVars, records, clock, nonces, handlerVars, runVars, faults>>

---------------------------------------------------------------------------
(* PolicyGovernanceExecutionVerifier.  A record that cannot be read, or    *)
(* whose signature does not verify, refuses the execution.                 *)

(* The policy is loaded and hashed ... *)
LoadPolicy(e, v) ==
    /\ run[e] = "idle"
    /\ asked' = [asked EXCEPT ![e] = v]
    /\ loaded' = [loaded EXCEPT ![e] = live[v]]
    /\ from' = [from EXCEPT ![e] = Len(records)]
    /\ run' = [run EXCEPT ![e] = IF live[v] = None THEN "refused" ELSE "record"]
    /\ UNCHANGED <<changeVars, storeVars, handlerVars, faults>>

Proceed(e, label) == run' = [run EXCEPT ![e] = label]

(* ... its hash must be the newest approved one of the version ... *)
VerifyRecord(e) ==
    /\ run[e] = "record"
    /\ LET i == FindMostRecentFor(asked[e]) IN
       \/ i # 0 /\ records[i].change = loaded[e] /\ Proceed(e, "latest")
       \/ Proceed(e, "refused")
    /\ UNCHANGED <<changeVars, storeVars, handlerVars, asked, loaded, from, faults>>

(* Faulty variant: any approved version may still be named. *)
VerifyLatest_AnyVersion(e) ==
    /\ run[e] = "latest" /\ Proceed(e, "allowed")
    /\ UNCHANGED <<changeVars, storeVars, handlerVars, asked, loaded, from, faults>>

(* ... and the version the one most recently approved. *)
VerifyLatest(e) ==
    /\ run[e] = "latest"
    /\ \/ records[FindMostRecentForName].version = asked[e] /\ Proceed(e, "allowed")
       \/ Proceed(e, "refused")
    /\ UNCHANGED <<changeVars, storeVars, handlerVars, asked, loaded, from, faults>>

HandlerStep(h) ==
    \/ FindChange(h) \/ RequireStepUp(h) \/ ReadPrior(h) \/ Draft(h)
    \/ CreateRecord(h) \/ SavePolicy(h) \/ ReadStatus(h) \/ ResolveChange(h)

Next ==
    \/ \E c \in Change, m \in Human, b \in Version, t \in Version : Propose(c, m, b, t)
    \/ \E h \in Handler, c \in Change, a \in {"approve", "reject"}, m \in Human :
          Receive(h, c, a, m)
    \/ \E h \in Handler : HandlerStep(h) \/ Crash(h)
    \/ \E v \in Version : EditOutside(v)
    \/ \E e \in Execution, v \in Version : LoadPolicy(e, v)
    \/ \E e \in Execution : VerifyRecord(e) \/ VerifyLatest(e)

Spec == Init /\ [][Next]_vars

---------------------------------------------------------------------------
(* Safety.                                                                 *)

(* Content the governed flow made live has an approval record for that     *)
(* version, signed for by a human other than its proposer.                 *)
LiveIsApproved ==
    \A v \in Version : live[v] \in Change =>
        \E i \in DOMAIN records :
            /\ records[i].change = live[v] /\ records[i].version = v
            /\ records[i].by # maker[live[v]]

(* APPROVED is only shown for a change that is recorded; whatever failed   *)
(* on the way left it PENDING_APPROVAL.                                    *)
ApprovedIsRecorded ==
    \A c \in Change : status[c] = "APPROVED" =>
        \E i \in DOMAIN records : records[i].change = c

(* The approval records back the live policies and the change table,       *)
(* although the approve route writes the three one after the other and any *)
(* of the writes may fail (PolicyChangeApprovalService.approve, resolve).  *)
RecordsBackState == LiveIsApproved /\ ApprovedIsRecorded

(* One step-up signature approves once, however often it is sent.          *)
EnvelopeApprovesOnce ==
    \A i, j \in DOMAIN records : records[i].envelope = records[j].envelope => i = j

(* An execution is only allowed with content that was approved for the     *)
(* version it names, even while files are edited and approvals race.       *)
ExecutedWasApproved ==
    \A e \in Execution : run[e] = "allowed" =>
        \E i \in DOMAIN records :
            records[i].version = asked[e] /\ records[i].change = loaded[e]

(* G-74: a version that was replaced before an execution began is not      *)
(* allowed, unless it was approved again since.                            *)
RetiredNotExecuted ==
    \A e \in Execution : run[e] = "allowed" =>
        \E i \in DOMAIN records :
            /\ records[i].version = asked[e]
            /\ \A j \in 1 .. from[e] : records[j].at <= records[i].at

(* What PolicyGovernanceExecutionVerifier lets through was approved and    *)
(* not replaced, although it reads the policy and the two records one      *)
(* after the other while files are edited and approvals race.              *)
ExecutedIsGoverned == ExecutedWasApproved /\ RetiredNotExecuted

---------------------------------------------------------------------------
(* What the repository's documents say and the code does not keep.         *)

(* applyPendingPolicyChangeResolution: only a PENDING_APPROVAL change can  *)
(* be approved.  Here: the policy of a change that was rejected already    *)
(* does not become live.                                                   *)
RejectedNotApplied ==
    [][\A v \in Version : live'[v] # live[v] /\ live'[v] \in Change =>
          status[live'[v]] # "REJECTED"]_vars

============================================================================

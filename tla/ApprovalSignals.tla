-------------------------- MODULE ApprovalSignals --------------------------
(***************************************************************************)
(* Signed human approvals: ApprovalSignalVerifier checks every approval a  *)
(* policy asks a request for, once before the request is authorized and    *)
(* once more when the gateway releases it.  At authorization a second pass *)
(* over the approvals uses each one: its nonce is recorded and it can      *)
(* serve no other request.                                                 *)
(*                                                                         *)
(* Requests share the approvals, the registry of approver keys and the     *)
(* nonce table.  Keys are added and revoked, and approvals expire, between *)
(* any two awaits.  A failed lookup, a failed or unanswered INSERT and a   *)
(* crash each use up one of MaxFaults.                                     *)
(***************************************************************************)
EXTENDS Integers, Sequences

CONSTANTS
    Request,     \* executions asked for
    Approval,    \* signed approvals (their nonces)
    Key,         \* approver keys: an approverId and a keyId
    Signals,     \* the policy's approvalSignals, a sequence in key order
    ByValue,     \* those whose declaration gives a value to cover
    Payload,     \* Approval -> [key, resource, scope : [comparator, value]]
    Contents,    \* what a request may hold: [resource, value, channel,
                 \*   declared : the signals it sets to true,
                 \*   artifacts : signal -> Approval \cup {Absent}]
    Absent,      \* no such parameter, or a signal that holds no approval
    MaxFaults    \* bound on faults

Signal == {Signals[i] : i \in 1 .. Len(Signals)}

ASSUME ApprovalAssumption ==
    /\ Signals \in Seq(Signal)
    /\ ByValue \subseteq Signal
    /\ \A a \in Approval : Payload[a].key \in Key
    /\ \A c \in Contents :
          /\ c.declared \subseteq Signal
          /\ c.artifacts \in [Signal -> Approval \cup {Absent}]
    /\ MaxFaults \in Nat

VARIABLES
    keys,     \* Key -> its row of the approver registry
    expired,  \* approvals past expiresAt
    spent,    \* Approval -> the requests whose nonce INSERT succeeded
    content,  \* Request -> intent and signals it carries
    pc,       \* Request -> where it is
    stage,    \* Request -> stage of the verification
    at,       \* Request -> position its verification has come to
    bad,      \* Request -> the verification has found a violation
    prior,    \* Request -> priorChecksPassed of the approval being used
    gone,     \* Request -> keys revoked when its release check began
    faults    \* faults so far

localVars == <<pc, stage, at, bad, prior>>
vars == <<keys, expired, spent, content, localVars, gone, faults>>

Ended == {"executed", "refused", "failed", "crashed"}

TypeOK ==
    /\ keys \in [Key -> {"unknown", "active", "revoked"}]
    /\ expired \subseteq Approval
    /\ spent \in [Approval -> SUBSET Request]
    /\ content \in [Request -> Contents]
    /\ pc \in [Request -> {"idle", "check", "use", "record", "others",
                           "authorized"} \cup Ended]
    /\ stage \in [Request -> {"authorize", "release"}]
    /\ at \in [Request -> 1 .. Len(Signals) + 1]
    /\ bad \in [Request -> BOOLEAN]
    /\ prior \in [Request -> BOOLEAN]
    /\ gone \in [Request -> SUBSET Key]
    /\ faults \in 0 .. MaxFaults

Init ==
    /\ keys \in [Key -> {"unknown", "active"}]
    /\ expired = {}
    /\ spent = [a \in Approval |-> {}]
    /\ content \in [Request -> Contents]
    /\ pc = [r \in Request |-> "idle"]
    /\ stage = [r \in Request |-> "authorize"]
    /\ at = [r \in Request |-> 1]
    /\ bad = [r \in Request |-> FALSE]
    /\ prior = [r \in Request |-> FALSE]
    /\ gone = [r \in Request |-> {}]
    /\ faults = 0

---------------------------------------------------------------------------
(* One approval.                                                           *)

(* Faulty: a strict bound taken as an inclusive one. *)
evaluateApprovalScope_Inclusive(actual, scope) ==
    \/ scope.comparator = "eq" /\ actual = scope.value
    \/ /\ scope.comparator = "between"
       /\ actual \in Int /\ scope.value.min \in Int /\ scope.value.max \in Int
       /\ scope.value.min <= actual /\ actual <= scope.value.max
    \/ /\ scope.comparator \in {"lte", "gte", "lt", "gt"}
       /\ actual \in Int /\ scope.value \in Int
       /\ \/ scope.comparator \in {"lte", "lt"} /\ actual <= scope.value
          \/ scope.comparator \in {"gte", "gt"} /\ actual >= scope.value

(* A bound that is not a number allows nothing. *)
evaluateApprovalScope(actual, scope) ==
    \/ scope.comparator = "eq" /\ actual = scope.value
    \/ /\ scope.comparator = "between"
       /\ actual \in Int /\ scope.value.min \in Int /\ scope.value.max \in Int
       /\ scope.value.min <= actual /\ actual <= scope.value.max
    \/ /\ scope.comparator \in {"lte", "gte", "lt", "gt"}
       /\ actual \in Int /\ scope.value \in Int
       /\ \/ scope.comparator = "lte" /\ actual <= scope.value
          \/ scope.comparator = "gte" /\ actual >= scope.value
          \/ scope.comparator = "lt" /\ actual < scope.value
          \/ scope.comparator = "gt" /\ actual > scope.value

Declared(r) == content[r].declared
Artifact(r, s) == content[r].artifacts[s]

RequestedValue(r, s) ==
    IF s \in ByValue THEN content[r].value ELSE content[r].resource

(* A signal of r leads to an approval to verify: the intent names the      *)
(* resource, and the number to cover where the policy gives one.           *)
Prepared(r, s) ==
    /\ content[r].resource # Absent
    /\ RequestedValue(r, s) # Absent
    /\ Artifact(r, s) # Absent

(* What the approval says of the request, whenever it is asked. *)
Fits(r, s) ==
    LET p == Payload[Artifact(r, s)]
    IN  /\ p.resource = content[r].resource
        /\ evaluateApprovalScope(RequestedValue(r, s), p.scope)

(* Faulty: a revoked key still verifies. *)
Passes_Revoked(r, s) ==
    LET a == Artifact(r, s)
    IN  keys[Payload[a].key] # "unknown" /\ a \notin expired /\ Fits(r, s)

(* priorChecksPassed. *)
Passes(r, s) ==
    LET a == Artifact(r, s)
    IN  keys[Payload[a].key] = "active" /\ a \notin expired /\ Fits(r, s)

(* The approvals a verification goes through, by their signals' positions, *)
(* and those of them that are not verified yet.                            *)
Pending(r) == {i \in 1 .. Len(Signals) :
                  Signals[i] \in Declared(r) /\ Prepared(r, Signals[i])}
Remaining(r) == {i \in Pending(r) : at[r] <= i}
Position(r) == CHOOSE i \in Remaining(r) : \A j \in Remaining(r) : i <= j
Current(r) == Signals[Position(r)]
AtEnd(r) == Remaining(r) = {}

(* The keys as an approval's issuer is looked up; a lookup that fails      *)
(* makes the issuer unknown.                                               *)
Lookup(r, passed) ==
    \/ passed = Passes(r, Current(r)) /\ UNCHANGED faults
    \/ /\ faults < MaxFaults /\ faults' = faults + 1
       /\ passed = FALSE

---------------------------------------------------------------------------
(* The surroundings.                                                       *)

AddKey(k) ==
    /\ keys[k] = "unknown"
    /\ keys' = [keys EXCEPT ![k] = "active"]
    /\ UNCHANGED <<expired, spent, content, localVars, gone, faults>>

RevokeKey(k) ==
    /\ keys[k] = "active"
    /\ keys' = [keys EXCEPT ![k] = "revoked"]
    /\ UNCHANGED <<expired, spent, content, localVars, gone, faults>>

Expire(a) ==
    /\ a \notin expired
    /\ expired' = expired \cup {a}
    /\ UNCHANGED <<keys, spent, content, localVars, gone, faults>>

Crash(r) ==
    /\ pc[r] \notin Ended \cup {"idle"}
    /\ faults < MaxFaults /\ faults' = faults + 1
    /\ pc' = [pc EXCEPT ![r] = "crashed"]
    /\ UNCHANGED <<keys, expired, spent, content, stage, at, bad, prior, gone>>

---------------------------------------------------------------------------
(* One verification of r: findViolations.                                  *)

Goto(r, label) == pc' = [pc EXCEPT ![r] = label]
Step(r) == at' = [at EXCEPT ![r] = Position(r) + 1]
Rewind(r) == at' = [at EXCEPT ![r] = 1]
Violation(r, b) == bad' = [bad EXCEPT ![r] = @ \/ b]

(* The signals are prepared before the first await. *)
Begin(r) ==
    /\ Goto(r, "check")
    /\ Rewind(r)
    /\ bad' = [bad EXCEPT ![r] = \E s \in Declared(r) : ~Prepared(r, s)]

Submit(r) ==
    /\ pc[r] = "idle"
    /\ Begin(r)
    /\ UNCHANGED <<keys, expired, spent, content, stage, prior, gone, faults>>

(* Pass 1: every check but the nonce. *)
CheckOne(r) ==
    /\ pc[r] = "check" /\ ~AtEnd(r)
    /\ \E passed \in BOOLEAN : Lookup(r, passed) /\ Violation(r, ~passed)
    /\ Step(r)
    /\ UNCHANGED <<keys, expired, spent, content, pc, stage, prior, gone>>

EndCheck(r) ==
    /\ pc[r] = "check" /\ AtEnd(r)
    /\ \/ bad[r] /\ Goto(r, "refused")
       \/ ~bad[r] /\ stage[r] = "release" /\ Goto(r, "others")
       \/ ~bad[r] /\ stage[r] = "authorize" /\ Goto(r, "use")
    /\ Rewind(r)
    /\ UNCHANGED <<keys, expired, spent, content, stage, bad, prior, gone,
                   faults>>

(* Pass 2: the checks again, then the nonce, for every approval, also      *)
(* after one of them was refused.                                          *)
UseOne(r) ==
    /\ pc[r] = "use" /\ ~AtEnd(r)
    /\ \E passed \in BOOLEAN :
          Lookup(r, passed) /\ prior' = [prior EXCEPT ![r] = passed]
    /\ Goto(r, "record")
    /\ UNCHANGED <<keys, expired, spent, content, stage, at, bad, gone>>

(* Faulty: ON CONFLICT DO NOTHING, and the answer is always "unseen". *)
CheckAndRecord_Upsert(r, a, unseen) ==
    /\ unseen = TRUE
    /\ spent' = [spent EXCEPT ![a] = @ \cup {r}]

(* INSERT INTO consumed_approval_nonces; the primary key decides. *)
CheckAndRecord(r, a, unseen) ==
    /\ unseen = (spent[a] = {})
    /\ spent' = IF unseen THEN [spent EXCEPT ![a] = @ \cup {r}] ELSE spent

RecordNonce(r) ==
    /\ pc[r] = "record"
    /\ \/ /\ prior[r]
          /\ \E unseen \in BOOLEAN :
                /\ CheckAndRecord(r, Artifact(r, Current(r)), unseen)
                /\ Violation(r, ~unseen)
       \/ ~prior[r] /\ Violation(r, TRUE) /\ UNCHANGED spent
    /\ Step(r)
    /\ Goto(r, "use")
    /\ UNCHANGED <<keys, expired, content, stage, prior, gone, faults>>

(* The INSERT fails, or its answer is lost: the error ends the request. *)
RecordNonceFails(r) ==
    /\ pc[r] = "record" /\ prior[r]
    /\ faults < MaxFaults /\ faults' = faults + 1
    /\ \/ UNCHANGED spent
       \/ \E unseen \in BOOLEAN :
             CheckAndRecord(r, Artifact(r, Current(r)), unseen)
    /\ Goto(r, "failed")
    /\ UNCHANGED <<keys, expired, content, stage, at, bad, prior, gone>>

EndUse(r) ==
    /\ pc[r] = "use" /\ AtEnd(r)
    /\ Goto(r, IF bad[r] THEN "refused" ELSE "others")
    /\ UNCHANGED <<keys, expired, spent, content, stage, at, bad, prior, gone,
                   faults>>

(* CompositeSignalStateVerifier asks the verifiers after this one: the     *)
(* Slack channel must be on the server's allowlist.                        *)
OtherVerifiers(r) ==
    /\ pc[r] = "others"
    /\ \/ ~content[r].channel /\ Goto(r, "refused")
       \/ content[r].channel /\ stage[r] = "authorize" /\ Goto(r, "authorized")
       \/ content[r].channel /\ stage[r] = "release" /\ Goto(r, "executed")
    /\ UNCHANGED <<keys, expired, spent, content, stage, at, bad, prior, gone,
                   faults>>

(* The gateway verifies the same signals again at the release. *)
Release(r) ==
    /\ pc[r] = "authorized"
    /\ stage' = [stage EXCEPT ![r] = "release"]
    /\ Begin(r)
    /\ gone' = [gone EXCEPT ![r] = {k \in Key : keys[k] = "revoked"}]
    /\ UNCHANGED <<keys, expired, spent, content, prior, faults>>

---------------------------------------------------------------------------

Proceed(r) ==
    \/ CheckOne(r)
    \/ EndCheck(r)
    \/ UseOne(r)
    \/ RecordNonce(r)
    \/ EndUse(r)
    \/ OtherVerifiers(r)
    \/ Release(r)

Done ==
    /\ \A r \in Request : pc[r] \in Ended
    /\ UNCHANGED vars

Next ==
    \/ \E k \in Key : AddKey(k) \/ RevokeKey(k)
    \/ \E a \in Approval : Expire(a)
    \/ \E r \in Request :
          Submit(r) \/ Proceed(r) \/ RecordNonceFails(r) \/ Crash(r)
    \/ Done

Spec == Init /\ [][Next]_vars

---------------------------------------------------------------------------

Authorized(r) == pc[r] = "authorized" \/ stage[r] = "release"

(* One approval serves one signal of one authorized request: whatever the  *)
(* interleaving, two requests that verify the same approval are not both   *)
(* authorized, and one approval sent for two signals authorizes neither.   *)
ApprovalServesOnce ==
    \A r1, r2 \in Request : Authorized(r1) /\ Authorized(r2) =>
        \A s1 \in Declared(r1), s2 \in Declared(r2) :
            Artifact(r1, s1) = Artifact(r2, s2) => r1 = r2 /\ s1 = s2

(* A request that lacks one approval, or holds one for something else,     *)
(* uses up none of the approvals it holds.                                 *)
UnfitSpendsNothing ==
    \A r \in Request :
        (\E s \in Declared(r) : ~Prepared(r, s) \/ ~Fits(r, s))
            => \A a \in Approval : r \notin spent[a]

(* Approvals are spent on what they were given for: once each, and none by *)
(* a request whose other approvals are missing or for something else       *)
(* (ApprovalSignalVerifier's two passes, checkAndRecord).                  *)
SpentRightly == ApprovalServesOnce /\ UnfitSpendsNothing

(* An approver revoked before the gateway's check began stops the release  *)
(* of a request it had already approved.                                   *)
RevokedNotReleased ==
    \A r \in Request : pc[r] = "executed" =>
        \A s \in Declared(r) : Payload[Artifact(r, s)].key \notin gone[r]

(* The numbers a scope allows, as a set. *)
Allowed(scope) ==
    CASE scope.comparator = "eq" -> {scope.value}
      [] scope.comparator = "between" -> scope.value.min .. scope.value.max
      [] scope.comparator = "lte" -> {n \in Int : n <= scope.value}
      [] scope.comparator = "gte" -> {n \in Int : n >= scope.value}
      [] scope.comparator = "lt" -> {n \in Int : n < scope.value}
      [] scope.comparator = "gt" -> {n \in Int : n > scope.value}

(* A released request holds, for every approval signal it sets to true, an *)
(* approval of its own resource whose scope allows the value it acts on.   *)
ExecutedWithinScope ==
    \A r \in Request : pc[r] = "executed" =>
        \A s \in Declared(r) :
            /\ Payload[Artifact(r, s)].resource = content[r].resource
            /\ RequestedValue(r, s) \in Allowed(Payload[Artifact(r, s)].scope)

============================================================================

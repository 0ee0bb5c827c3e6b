------------------------------ MODULE Decision ------------------------------
(***************************************************************************)
(* RuntimeEngine.execute up to the signed authorization, for one request:  *)
(* load and validate the policy, verify it against its approval records,   *)
(* bind the capability to the policy in effect, compare the signals with   *)
(* the intent, evaluate the rules, verify the approvals, and record and    *)
(* announce a refusal.  Policy governance goes on around the request.      *)
(*                                                                         *)
(* A document d is a policy name with a version; the content of a file     *)
(* carries the document it says it is (policyId, policyVersion), which     *)
(* need not be the one it was loaded as.  Hashes are ideal: two contents   *)
(* have the same hash if they are equal.  The hooks of the engine are not  *)
(* modelled: nothing registers one.                                        *)
(***************************************************************************)
EXTENDS PolicyValidation

CONSTANTS
    Doc,            \* policy documents, name@version
    NameOf,         \* document -> policy name
    BoundName,      \* the policy name bound to the capabilities
    Capability,     \* capability -> "canonical" | "external" | "unbound"
    FirstContents,  \* what the documents may hold at first: document -> content
    Proposals,      \* contents that are approved, or written to a file, later
    SignalSets,     \* what requests send
    Intents,
    NoDoc,          \* not a document
    NoContent,      \* not a content
    MaxChanges,     \* governed changes
    MaxFaults       \* failed reads and writes, and edits outside governance

(* The contents that occur.                                                *)
Content == (Proposals \cup {f[d] : f \in FirstContents, d \in Doc}) \ {NoContent}

Name == {NameOf[d] : d \in Doc} \cup {BoundName}

ASSUME DecisionAssumption ==
    /\ NameOf \in [Doc -> STRING] /\ NoDoc \notin Doc /\ NoContent \notin Proposals
    /\ MaxChanges \in Nat /\ MaxFaults \in Nat

(* A document was first approved with the content it holds; rules are made *)
(* of conditions.                                                          *)
ASSUME ContentAssumption ==
    /\ \A f \in FirstContents :
          /\ f \in [Doc -> Content \cup {NoContent}]
          /\ \A d \in Doc : f[d] = NoContent \/ f[d].doc = d
    /\ \A p \in Content :
          /\ p.doc \in Doc
          /\ p.rules \in Seq([id : STRING, condition : Condition, action : STRING])

ASSUME SignalAssumption ==
    \A s \in SignalSets : \A f \in DOMAIN s : IsNumber(s[f]) => s[f].n \in Int

VARIABLES
    live,       \* document -> the content of its file
    approved,   \* document -> the content of its newest approval record
    current,    \* policy name -> the document approved last
    external,   \* the external connector's registration is active
    told,       \* what GET /policies/in-effect answered, NoDoc before
    pc,         \* the step the request is about to take
    req,        \* the request
    policy,     \* the content loaded for it
    anchor,     \* evidence of the policy's approval
    decision,   \* outcome, deciding rule, cause of a refusal
    refusal,    \* the stored Refusal Record, or "none"
    notified,   \* the approvals a person was asked for
    answer,     \* what the caller gets
    since,      \* history, since the request came: the approved contents, the
                \* documents in effect
    changes, faults

govVars == <<live, approved, current, external>>

vars == <<live, approved, current, external, told, pc, req, policy, anchor, decision,
          refusal, notified, answer, since, changes, faults>>

NoRequest ==
    [capability |-> "none", declared |-> NoDoc, signals |-> <<>>, intent |-> <<>>, genuine |-> {}]

Undecided == [outcome |-> "none", rule |-> 0, cause |-> "none"]

Governed == [contents |-> {approved[d] : d \in Doc}, docs |-> {current[n] : n \in DOMAIN current}]

Init ==
    /\ live \in FirstContents /\ approved = live
    /\ current \in [Name -> Doc \cup {NoDoc}]
    /\ \A n \in DOMAIN current :
          IF current[n] = NoDoc
          THEN \A d \in Doc : NameOf[d] = n => live[d] = NoContent
          ELSE NameOf[current[n]] = n /\ live[current[n]] # NoContent
    /\ external = TRUE
    /\ told = NoDoc /\ pc = "idle" /\ req = NoRequest /\ policy = NoContent
    /\ anchor = "none" /\ decision = Undecided /\ refusal = "none" /\ notified = {}
    /\ answer = "none" /\ since = [contents |-> {}, docs |-> {}] /\ changes = 0 /\ faults = 0

---------------------------------------------------------------------------
(* Steps of the request.                                                   *)

Goto(label) == pc' = label

Answer(a) == pc' = "done" /\ answer' = a

CanFail == faults < MaxFaults

Fail == CanFail /\ faults' = faults + 1

Submit(c, d, s, i, g) ==
    /\ pc = "idle"
    /\ req' = [capability |-> c, declared |-> d, signals |-> s, intent |-> i, genuine |-> g]
    /\ since' = Governed
    /\ Goto("load")
    /\ UNCHANGED <<govVars, told, policy, anchor, decision, refusal, notified, answer, changes, faults>>

(* PolicyRouter.load: read the file, validate what it holds.               *)
Load ==
    /\ pc = "load"
    /\ policy' = live[req.declared]
    /\ CASE policy' = NoContent -> Answer("POLICY_NOT_FOUND")
         [] policy' # NoContent /\ ~ValidatePolicy(policy') -> Answer("POLICY_INVALID")
         [] OTHER -> Goto("anchor") /\ UNCHANGED answer
    /\ UNCHANGED <<govVars, told, req, anchor, decision, refusal, notified, since, changes, faults>>

(* PolicyGovernanceAnchorResolver.resolve                                  *)
ResolveAnchor(p) ==
    CASE approved[p.doc] = NoContent -> "NO_APPROVAL_RECORD"
      [] approved[p.doc] # NoContent /\ approved[p.doc] # p -> "CONTENT_MISMATCH"
      [] OTHER -> "VERIFIED"

(* Evidence only: a failed read leaves the anchor out.                     *)
Anchor ==
    /\ pc = "anchor"
    /\ \/ anchor' = ResolveAnchor(policy) /\ UNCHANGED faults
       \/ Fail /\ UNCHANGED anchor
    /\ Goto("record")
    /\ UNCHANGED <<govVars, told, req, policy, decision, refusal, notified, answer, since, changes>>

Reject(cause) ==
    /\ decision' = [outcome |-> "REJECT", rule |-> 0, cause |-> cause]
    /\ Goto("refuse")

(* PolicyGovernanceExecutionVerifier.verify, first read: the document the  *)
(* content says it is was approved with this content.  A read error ends   *)
(* the request.                                                            *)
VerifyApproved ==
    /\ pc = "record"
    /\ \/ /\ IF approved[policy.doc] = policy
             THEN Goto("latest") /\ UNCHANGED decision ELSE Reject("governance")
          /\ UNCHANGED <<answer, faults>>
       \/ Fail /\ Answer("500") /\ UNCHANGED decision
    /\ UNCHANGED <<govVars, told, req, policy, anchor, refusal, notified, since, changes>>

(* ... second read: it is the document approved last.                      *)
VerifyCurrent ==
    /\ pc = "latest"
    /\ \/ /\ IF current[NameOf[policy.doc]] \in {policy.doc, NoDoc}
             THEN Goto("bind") /\ UNCHANGED decision ELSE Reject("governance")
          /\ UNCHANGED <<answer, faults>>
       \/ Fail /\ Answer("500") /\ UNCHANGED decision
    /\ UNCHANGED <<govVars, told, req, policy, anchor, refusal, notified, since, changes>>

(* CapabilityPolicyBinder.policyInEffect, first read: is the capability    *)
(* bound?  A connector written in code always is.  A failed read refuses.  *)
BindCapability ==
    /\ pc = "bind"
    /\ \/ /\ Capability[req.capability] = "canonical"
          /\ Goto("version") /\ UNCHANGED <<decision, faults>>
       \/ /\ Capability[req.capability] # "canonical"
          /\ Goto(IF Capability[req.capability] = "external" /\ external
                  THEN "version" ELSE "evaluate")
          /\ UNCHANGED <<decision, faults>>
       \/ Capability[req.capability] # "canonical" /\ Fail /\ Reject("capability")
    /\ UNCHANGED <<govVars, told, req, policy, anchor, refusal, notified, answer, since, changes>>

(* Faulty variant: the name is compared, the version is not.               *)
BindVersion_NameOnly ==
    /\ pc = "version"
    /\ IF NameOf[req.declared] = BoundName
       THEN Goto("evaluate") /\ UNCHANGED decision ELSE Reject("capability")
    /\ UNCHANGED <<govVars, told, req, policy, anchor, refusal, notified, answer, since, changes, faults>>

(* governedVersion and findViolation: the request names the version in     *)
(* effect of the bound policy.                                             *)
BindVersion ==
    /\ pc = "version"
    /\ \/ /\ IF current[BoundName] = req.declared
             THEN Goto("evaluate") /\ UNCHANGED decision ELSE Reject("capability")
          /\ UNCHANGED faults
       \/ Fail /\ Reject("capability")
    /\ UNCHANGED <<govVars, told, req, policy, anchor, refusal, notified, answer, since, changes>>

(* The signals must describe the intent; only then are the rules asked.    *)
Evaluate ==
    /\ pc = "evaluate"
    /\ LET d == EvaluatePolicy(policy, req.signals) IN
       IF FindBindingViolations(policy, req.signals, req.intent) # {}
       THEN Reject("binding")
       ELSE /\ decision' = [outcome |-> d.outcome, rule |-> d.rule,
                            cause |-> IF d.outcome = "APPROVE" THEN "none" ELSE "rules"]
            /\ Goto(IF d.outcome = "APPROVE" THEN "verify" ELSE "refuse")
    /\ UNCHANGED <<govVars, told, req, policy, anchor, refusal, notified, answer, since, changes, faults>>

(* SignalStateVerifier at the stage "authorize": an approval signal that   *)
(* is set needs its approval.  A verifier that fails refuses.              *)
StateViolations ==
    {f \in DOMAIN policy.approval : Signal(req.signals, f) = Bool(TRUE) /\ f \notin req.genuine}

VerifySignals ==
    /\ pc = "verify"
    /\ \/ /\ IF StateViolations = {} THEN Goto("sign") /\ UNCHANGED decision ELSE Reject("state")
          /\ UNCHANGED faults
       \/ Fail /\ Reject("state")
    /\ UNCHANGED <<govVars, told, req, policy, anchor, refusal, notified, answer, since, changes>>

(* writeRefusalRecord: never stops the refusal.  bindingViolations is in   *)
(* the record only when it is what refused the request.                    *)
WriteRefusalRecord ==
    /\ pc = "refuse"
    /\ \/ /\ refusal' = IF decision.cause = "binding" THEN "violations" ELSE "plain"
          /\ UNCHANGED faults
       \/ Fail /\ UNCHANGED refusal
    /\ Goto("notify")
    /\ UNCHANGED <<govVars, told, req, policy, anchor, decision, notified, answer, since, changes>>

(* findNeededApprovals: the approvals with which the same rules approve,   *)
(* none if they would not.                                                 *)
WithApprovals(p, signals) ==
    [f \in DOMAIN signals \cup DOMAIN p.approval |->
        IF f \in DOMAIN p.approval THEN Bool(TRUE) ELSE signals[f]]

(* Faulty variant: whoever could approve is asked, whatever the rules say. *)
FindNeededApprovals_Always(p, signals) == DOMAIN p.approval

FindNeededApprovals(p, signals) ==
    IF EvaluatePolicy(p, WithApprovals(p, signals)).outcome = "APPROVE"
    THEN DOMAIN p.approval ELSE {}

(* notifyApprovalNeeded, webhook and mail: only a refusal that an approval *)
(* can cure, and a failed delivery is only logged.                         *)
NotifyApprovalNeeded ==
    /\ pc = "notify"
    /\ \/ /\ notified' = IF decision.cause \in {"rules", "state"}
                         THEN FindNeededApprovals(policy, req.signals) ELSE {}
          /\ UNCHANGED faults
       \/ Fail /\ UNCHANGED notified
    /\ Goto("enforce")
    /\ UNCHANGED <<govVars, told, req, policy, anchor, decision, refusal, answer, since, changes>>

(* ExecutionGate.enforce                                                   *)
Enforce ==
    /\ pc = "enforce"
    /\ Answer("POLICY_DENIED")
    /\ UNCHANGED <<govVars, told, req, policy, anchor, decision, refusal, notified, since, changes, faults>>

(* RuntimeAuthorizationSigner.sign: the key may be out of reach.           *)
SignAuthorization ==
    /\ pc = "sign"
    /\ \/ Answer("authorized") /\ UNCHANGED faults
       \/ Fail /\ Answer("500")
    /\ UNCHANGED <<govVars, told, req, policy, anchor, decision, refusal, notified, since, changes>>

---------------------------------------------------------------------------
(* Around the request.  The request reads the file and the registration    *)
(* once, so that a change to them is seen or not: it happens before.  The  *)
(* approval records are read up to four times.                             *)

RecordsNeeded == pc \in {"idle", "load", "anchor", "record", "latest", "bind", "version"}

(* A governed change is approved and its file written (PolicyGovernance).  *)
ApproveChange(d, c) ==
    /\ RecordsNeeded /\ changes < MaxChanges /\ changes' = changes + 1
    /\ c.doc = d
    /\ live' = [live EXCEPT ![d] = c]
    /\ approved' = [approved EXCEPT ![d] = c]
    /\ current' = [current EXCEPT ![NameOf[d]] = d]
    /\ since' = IF pc = "idle" THEN since
                ELSE [contents |-> since.contents \cup {c}, docs |-> since.docs \cup {d}]
    /\ told' = NoDoc
    /\ UNCHANGED <<external, pc, req, policy, anchor, decision, refusal, notified, answer, faults>>

(* A policy file is edited outside governance.                             *)
EditFile(d, c) ==
    /\ pc = "idle" /\ Fail
    /\ live' = [live EXCEPT ![d] = c]
    /\ UNCHANGED <<approved, current, external, told, pc, req, policy, anchor, decision,
                   refusal, notified, answer, since, changes>>

RevokeConnector ==
    /\ pc = "idle" /\ external /\ external' = FALSE
    /\ told' = NoDoc
    /\ UNCHANGED <<live, approved, current, pc, req, policy, anchor, decision, refusal,
                   notified, answer, since, changes, faults>>

(* Faulty variant: any document that was approved is given out.            *)
AskInEffect_AnyApproved ==
    /\ pc = "idle" /\ told = NoDoc
    /\ \E d \in Doc : NameOf[d] = BoundName /\ approved[d] # NoContent /\ told' = d
    /\ UNCHANGED <<govVars, pc, req, policy, anchor, decision, refusal, notified, answer,
                   since, changes, faults>>

(* GET /policies/in-effect, answered 200: the caller is told the document  *)
(* it must name.                                                           *)
AskInEffect ==
    /\ pc = "idle" /\ told = NoDoc
    /\ current[BoundName] # NoDoc /\ live[current[BoundName]] # NoContent
    /\ told' = current[BoundName]
    /\ UNCHANGED <<govVars, pc, req, policy, anchor, decision, refusal, notified, answer,
                   since, changes, faults>>

RequestStep ==
    \/ Load \/ Anchor \/ VerifyApproved \/ VerifyCurrent \/ BindCapability \/ BindVersion
    \/ Evaluate \/ VerifySignals \/ WriteRefusalRecord \/ NotifyApprovalNeeded \/ Enforce
    \/ SignAuthorization

Next ==
    \/ \E c \in DOMAIN Capability, d \in Doc, s \in SignalSets, i \in Intents :
          \E g \in SUBSET {f \in DOMAIN s : s[f] = Bool(TRUE)} : Submit(c, d, s, i, g)
    \/ RequestStep
    \/ \E d \in Doc, c \in Proposals : ApproveChange(d, c)
    \/ \E d \in Doc, c \in Proposals : EditFile(d, c)
    \/ RevokeConnector
    \/ AskInEffect

Spec == Init /\ [][Next]_vars

---------------------------------------------------------------------------
(* Properties.                                                             *)

(* No agent action is authorized without a signed human approval: whatever *)
(* policy was loaded, some approval signal it declares was set and its     *)
(* approval was found good.  Rests on the validator, the rules and the     *)
(* verifier together (PolicyValidator, PolicyEngine, SignalStateVerifier). *)
AuthorizedOnApproval ==
    answer = "authorized" =>
        \E f \in DOMAIN policy.approval : req.signals[f] = Bool(TRUE) /\ f \in req.genuine

(* An authorization rests on content that was the newest approved content  *)
(* of its document, and on a document that was in effect, at some moment   *)
(* of the request, and a bound capability was asked for under a document   *)
(* in effect, also when governance or the file changed in between          *)
(* (PolicyGovernanceExecutionVerifier, CapabilityPolicyBinder).  The two   *)
(* moments may differ: the verifier reads the records twice.               *)
AuthorizedUnderGovernance ==
    answer = "authorized" =>
        /\ policy \in since.contents /\ policy.doc \in since.docs
        /\ Capability[req.capability] = "canonical" =>
              NameOf[req.declared] = BoundName /\ req.declared \in since.docs

(* Two rules that read a fact in common and are not reported never hold    *)
(* for the same signals: first-match-wins hides nothing there              *)
(* (findRuleConflicts).                                                    *)
UnreportedRulesAreDisjoint ==
    pc = "evaluate" =>
        \A i, j \in DOMAIN policy.rules :
            LET a == policy.rules[i].condition
                b == policy.rules[j].condition
            IN /\ i < j /\ \A w \in FindRuleConflicts(policy) : <<w[2], w[3]>> # <<i, j>>
               /\ a.k # "always" /\ b.k # "always"
               /\ ~(IsLeaf(a) /\ IsLeaf(b) /\ a.fact # b.fact)
               => ~(EvaluateCondition(a, req.signals) /\ EvaluateCondition(b, req.signals))

(* Whoever is asked for an approval can cure the refusal with it: with the *)
(* approvals given, neither the intent nor the rules refuse the request    *)
(* (notifyApprovalNeeded against SignalIntentBinder and PolicyEngine).     *)
NotifiedIsCurable ==
    notified # {} =>
        LET cured == WithApprovals(policy, req.signals) IN
        /\ FindBindingViolations(policy, cured, req.intent) = {}
        /\ EvaluatePolicy(policy, cured).outcome = "APPROVE"

(* GET /policies/in-effect tells a caller enough.  One that names the      *)
(* document it was told, with nothing approved in between, no failed read  *)
(* and no edited file, is refused neither by the governance check nor for  *)
(* its capability (PolicyGovernanceExecutionVerifier, CapabilityPolicy-    *)
(* Binder), and signals the answer does not name never change what the     *)
(* rules decide (describePolicySignalRequirements, evaluateCondition).     *)
ToldIsAccepted ==
    /\ decision.cause \in {"governance", "capability"} /\ faults = 0 => told # req.declared
    /\ pc = "evaluate" =>
         LET named == DOMAIN req.signals \cap SignalRequirements(policy).facts IN
         EvaluatePolicy(policy, [f \in named |-> req.signals[f]]) = EvaluatePolicy(policy, req.signals)
=============================================================================

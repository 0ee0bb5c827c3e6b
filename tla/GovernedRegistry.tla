-------------------------- MODULE GovernedRegistry --------------------------
(***************************************************************************)
(* The two registries that people change through maker and checker without *)
(* a deploy: approver keys (routes/approval-issuers.ts, approval_issuers)  *)
(* and external connectors (routes/external-connectors.ts,                 *)
(* external_connectors), and the readers of both: the check of an          *)
(* approval's key and the release of a request to an external endpoint.    *)
(*                                                                         *)
(* A subject is an approver's key id or a capability.  What a change adds  *)
(* is a content: key material, or an endpoint with the policy that governs *)
(* it.  A handler takes one step between two awaits; a transaction is one  *)
(* step.                                                                   *)
(***************************************************************************)
EXTENDS Naturals, FiniteSets

CONSTANTS
    Human,
    Issuer,         \* approver key ids
    Capability,     \* capabilities outside every built in namespace
    Content,        \* what may be added
    PolicyOf,       \* content -> the policy name of a registration
    Change, Handler,
    None,
    MaxDeploys,     \* deploys that change the list of keys in code
    MaxEnvelopes    \* step up envelopes a human signs for one change and action

Subject == Issuer \cup Capability

(* A stored change; a request to approve or reject one, and its envelope.  *)
Proposal == [subject : Subject, action : {"add", "revoke"}, proposedBy : Human,
             content : Content \cup {None},
             status : {"PENDING", "APPROVED", "REJECTED"}, resolvedBy : Human \cup {None}]
Envelope == Change \X {"approve", "reject"} \X Human \X (1 .. MaxEnvelopes)
Resolution == [id : Change, verb : {"approve", "reject"}, by : Human, envelope : Envelope]

ASSUME RegistryAssumption ==
    /\ MaxDeploys \in Nat /\ MaxEnvelopes \in Nat
    /\ Issuer \cap Capability = {}
    /\ None \notin Proposal

VARIABLES
    change,     \* change id -> the stored change, or None
    row,        \* change id -> the row it added: "none", "active", "revoked"
    nonces,     \* step up envelopes that were consumed
    code,       \* approver key -> "none", "active", "revoked" in the list in code
    deploys,
    public,     \* the contents whose host resolves to public addresses only
    pc, job,    \* handler -> step, request
    built,      \* capability -> registrations whose connector was built
    run         \* the release under way: step, capability, policy decided
                \* under, registration, whether its address is a checked one;
                \* history: registrations revoked before the decision

regVars == <<change, row>>

vars == <<change, row, nonces, code, deploys, public, pc, job, built, run>>

Idle ==
    [at |-> "idle", subject |-> None, policy |-> None, reg |-> None, pinned |-> FALSE, gone |-> {}]

Release ==
    [at : {"idle", "resolve", "lookup", "send", "sent"}, subject : Capability \cup {None},
     policy : {PolicyOf[x] : x \in Content} \cup {None}, reg : Change \cup {None},
     pinned : BOOLEAN, gone : SUBSET Change]

TypeOK ==
    /\ change \in [Change -> Proposal \cup {None}]
    /\ row \in [Change -> {"none", "active", "revoked"}]
    /\ nonces \subseteq Envelope
    /\ code \in [Issuer -> {"none", "active", "revoked"}] /\ deploys \in 0 .. MaxDeploys
    /\ public \subseteq Content
    /\ pc \in [Handler -> {"idle", "check", "create", "stepup", "recheck", "resolve"}]
    /\ job \in [Handler -> Proposal \cup Resolution \cup {None}]
    /\ built \subseteq Change /\ run \in Release

Init ==
    /\ change = [c \in Change |-> None]
    /\ row = [c \in Change |-> "none"]
    /\ nonces = {}
    /\ code = [k \in Issuer |-> "none"] /\ deploys = 0
    /\ public = Content
    /\ pc = [h \in Handler |-> "idle"] /\ job = [h \in Handler |-> None]
    /\ built = {} /\ run = Idle

---------------------------------------------------------------------------
(* The repositories.                                                       *)

Rows(s) == {c \in Change : change[c] # None /\ change[c].subject = s /\ row[c] # "none"}

(* findActive, findIssuer                                                  *)
Active(s) == {c \in Rows(s) : row[c] = "active"}

Pending(s) ==
    {c \in Change : change[c] # None /\ change[c].subject = s /\ change[c].status = "PENDING"}

(* Faulty variant: only what is active is looked at.                       *)
MayInsert_NotActive(s) == Active(s) = {}

(* A capability has one active row; a key id is never used again.          *)
MayInsert(s) == IF s \in Issuer THEN Rows(s) = {} ELSE Active(s) = {}

(* The partial unique index: one open change for a subject.                *)
CreateChange(c, r) ==
    /\ change[c] = None /\ Pending(r.subject) = {}
    /\ change' = [change EXCEPT ![c] = r]

Resolve(c, status, by) ==
    change' = [change EXCEPT ![c].status = status, ![c].resolvedBy = by]

(* approveChange: lock the change, apply it, resolve it, in one            *)
(* transaction.  What cannot be applied is rolled back.                    *)
ApproveChange(c, by) ==
    LET s == change[c].subject IN
    /\ change[c].status = "PENDING"
    /\ \/ change[c].action = "add" /\ MayInsert(s) /\ row' = [row EXCEPT ![c] = "active"]
       \/ /\ change[c].action = "revoke" /\ Active(s) # {}
          /\ row' = [d \in Change |-> IF d \in Active(s) THEN "revoked" ELSE row[d]]
    /\ Resolve(c, "APPROVED", by)

RejectChange(c, by) ==
    change[c].status = "PENDING" /\ Resolve(c, "REJECTED", by) /\ UNCHANGED row

---------------------------------------------------------------------------
(* Handlers.                                                               *)

Goto(h, label) == pc' = [pc EXCEPT ![h] = label] /\ UNCHANGED job

End(h) == pc' = [pc EXCEPT ![h] = "idle"] /\ job' = [job EXCEPT ![h] = None]

(* POST changes, up to the checks: a key listed in code is not touched     *)
(* here, what is added is not there, what is revoked is active.            *)
Propose(h, m, a, s, x) ==
    /\ pc[h] = "idle"
    /\ s \in Issuer => code[s] = "none"
    /\ IF a = "add" THEN MayInsert(s) ELSE Active(s) # {}
    /\ job' = [job EXCEPT ![h] = [subject |-> s, action |-> a, proposedBy |-> m,
                                  content |-> IF a = "add" THEN x ELSE None,
                                  status |-> "PENDING", resolvedBy |-> None]]
    /\ pc' = [pc EXCEPT ![h] = IF s \in Capability /\ a = "add" THEN "check" ELSE "create"]
    /\ UNCHANGED <<regVars, nonces, code, deploys, public, built, run>>

(* checkEndpoint: a host with an address that is not public is refused.    *)
CheckEndpoint(h) ==
    /\ pc[h] = "check"
    /\ IF job[h].content \in public THEN Goto(h, "create") ELSE End(h)
    /\ UNCHANGED <<regVars, nonces, code, deploys, public, built, run>>

Create(h) ==
    /\ pc[h] = "create"
    /\ \/ \E c \in Change : CreateChange(c, job[h])
       \/ Pending(job[h].subject) # {} /\ UNCHANGED change
    /\ End(h)
    /\ UNCHANGED <<row, nonces, code, deploys, public, built, run>>

(* POST approve or reject: loadForResolution, the proposer is turned away. *)
Receive(h, c, a, m, i) ==
    /\ pc[h] = "idle" /\ change[c] # None /\ change[c].proposedBy # m
    /\ job' = [job EXCEPT ![h] = [id |-> c, verb |-> a, by |-> m, envelope |-> <<c, a, m, i>>]]
    /\ pc' = [pc EXCEPT ![h] = "stepup"]
    /\ UNCHANGED <<regVars, nonces, code, deploys, public, built, run>>

(* Faulty variant: the envelope is checked and not consumed.               *)
StepUp_NotConsumed(h) ==
    /\ pc[h] = "stepup"
    /\ Goto(h, "resolve")
    /\ UNCHANGED <<regVars, nonces, code, deploys, public, built, run>>

(* requireStepUpAuthorization: an envelope signed by this human for this   *)
(* change and action, still valid, is consumed.                            *)
StepUp(h) ==
    /\ pc[h] = "stepup"
    /\ LET j == job[h] IN
       \/ /\ j.envelope \notin nonces /\ nonces' = nonces \cup {j.envelope}
          /\ Goto(h, IF j.verb = "approve" /\ change[j.id].action = "add"
                        /\ change[j.id].subject \in Capability
                     THEN "recheck" ELSE "resolve")
       \/ j.envelope \in nonces /\ End(h) /\ UNCHANGED nonces
    /\ UNCHANGED <<regVars, code, deploys, public, built, run>>

(* The endpoint's address is checked again before it takes effect.         *)
RecheckEndpoint(h) ==
    /\ pc[h] = "recheck"
    /\ IF change[job[h].id].content \in public THEN Goto(h, "resolve") ELSE End(h)
    /\ UNCHANGED <<regVars, nonces, code, deploys, public, built, run>>

(* The transaction; one that fails changes nothing.                        *)
ResolveChange(h) ==
    /\ pc[h] = "resolve"
    /\ LET j == job[h] IN
       \/ j.verb = "approve" /\ ApproveChange(j.id, j.by)
       \/ j.verb = "reject" /\ RejectChange(j.id, j.by)
       \/ UNCHANGED regVars
    /\ End(h)
    /\ UNCHANGED <<nonces, code, deploys, public, built, run>>

---------------------------------------------------------------------------
(* Readers.                                                                *)

(* Faulty variant: the table first, the list in code for what it lacks.    *)
ResolveIssuer_TableFirst(k) ==
    IF Rows(k) # {} THEN (IF Active(k) # {} THEN "active" ELSE "revoked") ELSE code[k]

(* GovernedApprovalIssuerRegistry.resolve: the list in code wins.  A read  *)
(* error leaves the issuer unknown.                                        *)
ResolveIssuer(k) ==
    IF code[k] # "none" THEN code[k]
    ELSE IF Active(k) # {} THEN "active"
    ELSE IF Rows(k) # {} THEN "revoked" ELSE "none"

Update(r) == run' = r

(* The decision on a request for a capability: the policy that governs it  *)
(* is read from the active registration.                                   *)
Decide(s) ==
    /\ run.at = "idle"
    /\ \E c \in Active(s) :
          Update([Idle EXCEPT !.at = "resolve", !.subject = s, !.policy = PolicyOf[change[c].content],
                              !.gone = Rows(s) \ Active(s)])
    /\ UNCHANGED <<regVars, nonces, code, deploys, public, pc, job, built>>

(* Faulty variant: a connector is built once for a capability.             *)
ResolveCapability_PerCapability ==
    /\ run.at = "resolve"
    /\ LET old == {c \in built : change[c].subject = run.subject} IN
       \/ /\ Active(run.subject) # {}
          /\ \E c \in IF old # {} THEN old ELSE Active(run.subject) :
                built' = built \cup {c} /\ Update([run EXCEPT !.at = "lookup", !.reg = c])
       \/ Active(run.subject) = {} /\ Update(Idle) /\ UNCHANGED built
    /\ UNCHANGED <<regVars, nonces, code, deploys, public, pc, job>>

(* ExternalConnectorAwareRegistry.resolveCapability at the release: the    *)
(* registration is read again, its connector is built once and kept.       *)
ResolveCapability ==
    /\ run.at = "resolve"
    /\ \/ \E c \in Active(run.subject) :
             built' = built \cup {c} /\ Update([run EXCEPT !.at = "lookup", !.reg = c])
       \/ Active(run.subject) = {} /\ Update(Idle) /\ UNCHANGED built
    /\ UNCHANGED <<regVars, nonces, code, deploys, public, pc, job>>

(* resolvePublicEndpointAddresses, at every release.                       *)
LookUp ==
    /\ run.at = "lookup"
    /\ IF change[run.reg].content \in public
       THEN Update([run EXCEPT !.at = "send", !.pinned = TRUE]) ELSE Update(Idle)
    /\ UNCHANGED <<regVars, nonces, code, deploys, public, pc, job, built>>

(* sign, then the pinned transport: the addresses that were checked are    *)
(* used, the name is not resolved again.                                   *)
Send ==
    /\ run.at = "send"
    /\ Update([run EXCEPT !.at = "sent"])
    /\ UNCHANGED <<regVars, nonces, code, deploys, public, pc, job, built>>

Finish ==
    /\ run.at = "sent" /\ Update(Idle)
    /\ UNCHANGED <<regVars, nonces, code, deploys, public, pc, job, built>>

---------------------------------------------------------------------------
(* Around them.                                                            *)

(* A deploy lists a key in code, or marks it revoked there, and restarts   *)
(* the server: requests under way are lost.                                *)
Deploy(k, status) ==
    /\ deploys < MaxDeploys /\ deploys' = deploys + 1
    /\ code' = [code EXCEPT ![k] = status]
    /\ pc' = [h \in Handler |-> "idle"] /\ job' = [h \in Handler |-> None]
    /\ built' = {} /\ run' = Idle
    /\ UNCHANGED <<regVars, nonces, public>>

(* The name server answers with an address that is not public.             *)
MoveHost(x) ==
    /\ x \in public /\ public' = public \ {x}
    /\ UNCHANGED <<regVars, nonces, code, deploys, pc, job, built, run>>

HandlerStep(h) ==
    \/ CheckEndpoint(h) \/ Create(h) \/ StepUp(h) \/ RecheckEndpoint(h) \/ ResolveChange(h)

Next ==
    \/ \E h \in Handler, m \in Human, a \in {"add", "revoke"}, s \in Subject, x \in Content :
          Propose(h, m, a, s, x)
    \/ \E h \in Handler, c \in Change, a \in {"approve", "reject"}, m \in Human,
          i \in 1..MaxEnvelopes : Receive(h, c, a, m, i)
    \/ \E h \in Handler : HandlerStep(h)
    \/ \E s \in Capability : Decide(s)
    \/ ResolveCapability \/ LookUp \/ Send \/ Finish
    \/ \E k \in Issuer, status \in {"active", "revoked"} : Deploy(k, status)
    \/ \E x \in Content : MoveHost(x)

Spec == Init /\ [][Next]_vars

---------------------------------------------------------------------------
(* Properties.                                                             *)

(* Whatever is in a registry was proposed by one human and approved by     *)
(* another, who spent a step up envelope for exactly this change           *)
(* (loadForResolution, requireStepUpAuthorization, approveChange).         *)
ApprovedByAnother ==
    \A c \in Change : row[c] # "none" =>
        /\ change[c].status = "APPROVED" /\ change[c].resolvedBy # change[c].proposedBy
        /\ \E i \in 1..MaxEnvelopes : <<c, "approve", change[c].resolvedBy, i>> \in nonces

(* A capability has at most one active registration and a key id at most   *)
(* one row ever, although the proposals' checks and the open change they   *)
(* create are two steps apart (unique indexes of both tables).             *)
OneActive ==
    /\ \A s \in Capability : Cardinality(Active(s)) <= 1
    /\ \A k \in Issuer : Cardinality(Rows(k)) <= 1

(* A key whose revocation was approved, or that the code marks revoked, is *)
(* refused from then on; only a deploy that lists it as active brings it   *)
(* back (GovernedApprovalIssuerRegistry.resolve).                          *)
RevokedKeyRefused ==
    \A k \in Issuer : ResolveIssuer(k) = "active" =>
        /\ code[k] # "revoked"
        /\ \/ code[k] = "active"
           \/ \A c \in Change : change[c] # None /\ change[c].subject = k
                                /\ change[c].status = "APPROVED" => change[c].action = "add"

(* A release goes to an address that was found public, and never through   *)
(* a registration that was revoked before the request was decided, also    *)
(* when connectors are kept and the capability was registered again        *)
(* (ExternalConnectorAwareRegistry, createPinnedHttpsTransport).           *)
ReleaseToLiveEndpoint ==
    run.at \in {"send", "sent"} => run.reg \notin run.gone /\ run.pinned

=============================================================================

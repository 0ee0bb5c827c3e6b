------------------------- MODULE ExecutionGateway -------------------------
(***************************************************************************)
(* The release boundary: ExecutionGateway.execute checks a signed          *)
(* authorization, consumes its nonce and hands the verified content to     *)
(* ExecutionControlService, which opens a one-time session for a connector *)
(* that issues itself a one-time credential, runs the action and records   *)
(* the outcome in the execution audit chain.                               *)
(*                                                                         *)
(* A call is one ExecutionGateway.execute.  Several calls may carry the    *)
(* same authorization, and a call may carry content that is not the one    *)
(* signed for.  Time passes and policies change between any two awaits of  *)
(* a call.  A write that fails, a write whose answer is lost, a credential *)
(* that cannot be resolved and a crash each use up one of MaxFaults.       *)
(***************************************************************************)
EXTENDS Integers, Sequences

CONSTANTS
    Auth,               \* authorizations (their ids, and nonces)
    Call,               \* calls of ExecutionGateway.execute
    Ttl,                \* authorization TTL
    SessionLifetime,    \* ExecutionControlService.sessionLifetimeMs
    CredentialLifetime, \* InMemorySessionCredentialVault lifetimeMs
    MaxTime,            \* bound on the clock
    MaxPolicy,          \* bound on policy changes
    MaxFaults           \* bound on faults

ASSUME GatewayAssumption ==
    /\ Ttl \in Nat \ {0}
    /\ SessionLifetime \in Nat \ {0}
    /\ CredentialLifetime \in Nat \ {0}
    /\ MaxTime \in Nat /\ MaxPolicy \in Nat /\ MaxFaults \in Nat

VARIABLES
    now,        \* the clock
    expires,    \* Auth -> expiresAt; 0 before it is signed
    signedFor,  \* Auth -> policyContentHash signed into it
    live,       \* content hash of the live policy
    approved,   \* contentHashAfter of its latest approval record
    nonces,     \* authorizations whose nonce is consumed
    performed,  \* Auth -> how often the action was performed
    chain,      \* Auth -> its chain of execution audit events
    pc,         \* Call -> where it is
    arg,        \* Call -> the authorization it carries
    genuine,    \* Call -> its content hashes to the signed hash
    session,    \* Call -> state of the Gateway session opened for it
    sessionEnd, \* Call -> expiresAt of that session
    credential, \* Call -> state of its session credential
    credentialEnd, \* Call -> expiresAt of that credential
    ran,        \* Call -> its executor performed the action
    since,      \* Call -> approved policy when the call arrived
    faults      \* faults so far

policyVars == <<live, approved>>
authVars == <<expires, signedFor>>
sessionVars == <<session, sessionEnd>>
credentialVars == <<credential, credentialEnd>>
vars == <<now, authVars, policyVars, nonces, performed, chain, pc, arg, genuine,
          sessionVars, credentialVars, ran, since, faults>>

Ended == {"done", "failed", "crashed"}
Label == {"idle", "policy", "governance", "signals", "nonce", "resolve",
          "created", "allow", "issue", "consume", "run", "revoke_ok",
          "revoke_bad", "completed", "rejected", "s_completed", "s_rejected"}
         \cup Ended
Writer == {"control", "connector"}
Event == [call : Call, by : Writer,
          type : {"session.created", "execution.completed", "execution.rejected"}]
Times == 0 .. MaxTime + Ttl + SessionLifetime + CredentialLifetime

TypeOK ==
    /\ now \in 1 .. MaxTime + 1
    /\ expires \in [Auth -> Times]
    /\ signedFor \in [Auth -> 0 .. MaxPolicy]
    /\ live \in 0 .. MaxPolicy /\ approved \in 0 .. MaxPolicy
    /\ nonces \subseteq Auth
    /\ performed \in [Auth -> Nat]
    /\ chain \in [Auth -> Seq(Event)]
    /\ pc \in [Call -> Label]
    /\ arg \in [Call -> Auth]
    /\ genuine \in [Call -> BOOLEAN]
    /\ session \in [Call -> {"none", "open", "used"}]
    /\ sessionEnd \in [Call -> Times]
    /\ credential \in [Call -> {"none", "issued", "used", "revoked"}]
    /\ credentialEnd \in [Call -> Times]
    /\ ran \in [Call -> BOOLEAN]
    /\ since \in [Call -> 0 .. MaxPolicy]
    /\ faults \in 0 .. MaxFaults

Init ==
    /\ now = 1
    /\ expires = [a \in Auth |-> 0]
    /\ signedFor = [a \in Auth |-> 0]
    /\ live = 0 /\ approved = 0
    /\ nonces = {}
    /\ performed = [a \in Auth |-> 0]
    /\ chain = [a \in Auth |-> <<>>]
    /\ pc = [c \in Call |-> "idle"]
    /\ arg \in [Call -> Auth]
    /\ genuine \in [Call -> BOOLEAN]
    /\ session = [c \in Call |-> "none"]
    /\ sessionEnd = [c \in Call |-> 0]
    /\ credential = [c \in Call |-> "none"]
    /\ credentialEnd = [c \in Call |-> 0]
    /\ ran = [c \in Call |-> FALSE]
    /\ since = [c \in Call |-> 0]
    /\ faults = 0

---------------------------------------------------------------------------
(* The surroundings of a call.                                             *)

Tick ==
    /\ now <= MaxTime
    /\ now' = now + 1
    /\ UNCHANGED <<authVars, policyVars, nonces, performed, chain, pc, arg,
                   genuine, sessionVars, credentialVars, ran, since, faults>>

(* RuntimeEngine signs under the live policy, once governance accepted it. *)
Authorize(a) ==
    /\ expires[a] = 0 /\ now <= MaxTime
    /\ live = approved
    /\ expires' = [expires EXCEPT ![a] = now + Ttl]
    /\ signedFor' = [signedFor EXCEPT ![a] = live]
    /\ UNCHANGED <<now, policyVars, nonces, performed, chain, pc, arg, genuine,
                   sessionVars, credentialVars, ran, since, faults>>

(* A governed change: the approval record first, then the live policy. *)
ApproveChange ==
    /\ live = approved /\ approved < MaxPolicy
    /\ approved' = approved + 1
    /\ UNCHANGED <<now, authVars, live, nonces, performed, chain, pc, arg,
                   genuine, sessionVars, credentialVars, ran, since, faults>>

SaveLivePolicy ==
    /\ live # approved
    /\ live' = approved
    /\ UNCHANGED <<now, authVars, approved, nonces, performed, chain, pc, arg,
                   genuine, sessionVars, credentialVars, ran, since, faults>>

Fault == faults < MaxFaults /\ faults' = faults + 1
NoFault == UNCHANGED faults
Goto(c, label) == pc' = [pc EXCEPT ![c] = label]

---------------------------------------------------------------------------
(* ExecutionGateway.verify                                                 *)

(* A call begins.  Signature, expiry and TTL, then the content hash: none  *)
(* of them reads anything that changes.  A key that is revoked, expired or *)
(* unreadable fails closed.                                                *)
EnvelopeValid(a) == expires[a] # 0 /\ now < expires[a]

Deliver(c) ==
    /\ pc[c] = "idle" /\ expires[arg[c]] # 0
    /\ \/ EnvelopeValid(arg[c]) /\ genuine[c] /\ Goto(c, "policy")
       \/ Goto(c, "failed")
    /\ since' = [since EXCEPT ![c] = approved]
    /\ UNCHANGED <<now, authVars, policyVars, nonces, performed, chain, arg,
                   genuine, sessionVars, credentialVars, ran, faults>>

(* policyStillCurrent: the live policy still hashes to the signed hash. *)
CheckPolicy(c) ==
    /\ pc[c] = "policy"
    /\ \/ live = signedFor[arg[c]] /\ Goto(c, "governance") /\ NoFault
       \/ live # signedFor[arg[c]] /\ Goto(c, "failed") /\ NoFault
       \/ Fault /\ Goto(c, "failed")
    /\ UNCHANGED <<now, authVars, policyVars, nonces, performed, chain, arg,
                   genuine, sessionVars, credentialVars, ran, since>>

(* Faulty variant: the approval records are not consulted. *)
CheckGovernance_Skipped(c) ==
    /\ pc[c] = "governance" /\ Goto(c, "signals")
    /\ UNCHANGED <<now, authVars, policyVars, nonces, performed, chain, arg,
                   genuine, sessionVars, credentialVars, ran, since, faults>>

(* policyGovernanceVerified: so does the latest approval record. *)
CheckGovernance(c) ==
    /\ pc[c] = "governance"
    /\ \/ approved = signedFor[arg[c]] /\ Goto(c, "signals") /\ NoFault
       \/ approved # signedFor[arg[c]] /\ Goto(c, "failed") /\ NoFault
       \/ Fault /\ Goto(c, "failed")
    /\ UNCHANGED <<now, authVars, policyVars, nonces, performed, chain, arg,
                   genuine, sessionVars, credentialVars, ran, since>>

(* signalsStillCurrent: the verifiers look at the outside world again. *)
CheckSignals(c) ==
    /\ pc[c] = "signals"
    /\ Goto(c, "nonce") \/ Goto(c, "failed")
    /\ UNCHANGED <<now, authVars, policyVars, nonces, performed, chain, arg,
                   genuine, sessionVars, credentialVars, ran, since, faults>>

(* Faulty variant: the insert ignores a conflict. *)
CheckAndRecord_Upsert(a) == nonces' = nonces \cup {a}

(* One INSERT under a primary key. *)
CheckAndRecord(a) ==
    /\ a \notin nonces
    /\ nonces' = nonces \cup {a}

(* The nonce is the last check, and the only one that changes anything. *)
ConsumeNonce(c) ==
    /\ pc[c] = "nonce"
    /\ \/ /\ CheckAndRecord(arg[c])
          /\ \/ Goto(c, "resolve") /\ NoFault
             \/ Fault /\ Goto(c, "failed")
       \/ /\ arg[c] \in nonces /\ NoFault
          /\ Goto(c, "failed") /\ UNCHANGED nonces
       \/ Fault /\ Goto(c, "failed") /\ UNCHANGED nonces
    /\ UNCHANGED <<now, authVars, policyVars, performed, chain, arg, genuine,
                   sessionVars, credentialVars, ran, since>>

---------------------------------------------------------------------------
(* ExecutionControlService.execute                                         *)

(* An event is appended under the authorization's advisory lock. *)
Append1(c, by, type) ==
    chain' = [chain EXCEPT ![arg[c]] = Append(@, [call |-> c, by |-> by, type |-> type])]

(* Record an event and go on; the write fails, or its answer is lost. *)
Record(c, by, type, next, onError) ==
    /\ \/ Append1(c, by, type) /\ Goto(c, next) /\ NoFault
       \/ Append1(c, by, type) /\ Goto(c, onError) /\ Fault
       \/ UNCHANGED chain /\ Goto(c, onError) /\ Fault
    /\ UNCHANGED <<now, authVars, policyVars, nonces, performed, arg, genuine,
                   sessionVars, credentialVars, ran, since>>

(* The attestation is minted for this authorization; the registry may have *)
(* no connector for the action.  The session never outlives the            *)
(* authorization.                                                          *)
OpenSession(c) ==
    /\ pc[c] = "resolve"
    /\ \/ /\ Goto(c, "created")
          /\ session' = [session EXCEPT ![c] = "open"]
          /\ sessionEnd' = [sessionEnd EXCEPT ![c] =
                IF now + SessionLifetime < expires[arg[c]]
                THEN now + SessionLifetime ELSE expires[arg[c]]]
       \/ Goto(c, "failed") /\ UNCHANGED sessionVars
    /\ UNCHANGED <<now, authVars, policyVars, nonces, performed, chain, arg,
                   genuine, credentialVars, ran, since, faults>>

RecordSession(c) ==
    pc[c] = "created" /\ Record(c, "control", "session.created", "allow", "failed")

---------------------------------------------------------------------------
(* SessionCredentialSecureConnector.execute                                *)

(* assertAllowed: identity, capability, and the session is consumed.       *)
AssertAllowed(c) ==
    /\ pc[c] = "allow"
    /\ \/ /\ session[c] = "open" /\ sessionEnd[c] > now
          /\ session' = [session EXCEPT ![c] = "used"]
          /\ Goto(c, "issue")
       \/ Goto(c, "rejected") /\ UNCHANGED session
    /\ UNCHANGED <<now, authVars, policyVars, nonces, performed, chain, arg,
                   genuine, sessionEnd, credentialVars, ran, since, faults>>

IssueCredential(c) ==
    /\ pc[c] = "issue"
    /\ \/ /\ credential' = [credential EXCEPT ![c] = "issued"]
          /\ credentialEnd' = [credentialEnd EXCEPT ![c] = now + CredentialLifetime]
          /\ Goto(c, "consume") /\ NoFault
       \/ Fault /\ Goto(c, "rejected") /\ UNCHANGED credentialVars
    /\ UNCHANGED <<now, authVars, policyVars, nonces, performed, chain, arg,
                   genuine, sessionVars, ran, since>>

(* Faulty variant: a credential that is no longer valid is waited for. *)
ConsumeCredential_Waits(c) ==
    /\ pc[c] = "consume"
    /\ credential[c] = "issued" /\ now < credentialEnd[c]
    /\ credential' = [credential EXCEPT ![c] = "used"]
    /\ Goto(c, "run")
    /\ UNCHANGED <<now, authVars, policyVars, nonces, performed, chain, arg,
                   genuine, sessionVars, credentialEnd, ran, since, faults>>

ConsumeCredential(c) ==
    /\ pc[c] = "consume"
    /\ \/ /\ credential[c] = "issued" /\ now < credentialEnd[c]
          /\ credential' = [credential EXCEPT ![c] = "used"]
          /\ \/ Goto(c, "run") /\ NoFault
             \/ Fault /\ Goto(c, "revoke_bad")
       \/ /\ credential[c] # "issued" \/ now >= credentialEnd[c]
          /\ Goto(c, "revoke_bad") /\ NoFault /\ UNCHANGED credential
    /\ UNCHANGED <<now, authVars, policyVars, nonces, performed, chain, arg,
                   genuine, sessionVars, credentialEnd, ran, since>>

(* The executor: performed and answered, performed with the answer lost,   *)
(* or not performed.                                                       *)
RunExecutor(c) ==
    /\ pc[c] = "run"
    /\ \/ /\ performed' = [performed EXCEPT ![arg[c]] = @ + 1]
          /\ ran' = [ran EXCEPT ![c] = TRUE]
          /\ Goto(c, "revoke_ok") \/ Goto(c, "revoke_bad")
       \/ UNCHANGED <<performed, ran>> /\ Goto(c, "revoke_bad")
    /\ UNCHANGED <<now, authVars, policyVars, nonces, chain, arg, genuine,
                   sessionVars, credentialVars, since, faults>>

(* finally: the credential is revoked whatever happened. *)
RevokeCredential(c) ==
    /\ \/ pc[c] = "revoke_ok" /\ Goto(c, "completed")
       \/ pc[c] = "revoke_bad" /\ Goto(c, "rejected")
    /\ credential' = [credential EXCEPT ![c] = "revoked"]
    /\ UNCHANGED <<now, authVars, policyVars, nonces, performed, chain, arg,
                   genuine, sessionVars, credentialEnd, ran, since, faults>>

(* Faulty variant: a rejected action is tried again. *)
RecordConnectorOutcome_Retry(c) ==
    \/ pc[c] = "completed" /\
       Record(c, "connector", "execution.completed", "s_completed", "rejected")
    \/ pc[c] = "rejected" /\
       Record(c, "connector", "execution.rejected", "issue", "s_rejected")

(* The connector's own event.  A completed event that cannot be written is *)
(* caught and becomes a rejection.                                         *)
RecordConnectorOutcome(c) ==
    \/ pc[c] = "completed" /\
       Record(c, "connector", "execution.completed", "s_completed", "rejected")
    \/ pc[c] = "rejected" /\
       Record(c, "connector", "execution.rejected", "s_rejected", "s_rejected")

(* Faulty variant: a completed event that cannot be written is ignored. *)
RecordControlOutcome_BestEffort(c) ==
    \/ pc[c] = "s_completed" /\
       Record(c, "control", "execution.completed", "done", "done")
    \/ pc[c] = "s_rejected" /\
       Record(c, "control", "execution.rejected", "failed", "failed")

(* Then the control service's, with the same rule. *)
RecordControlOutcome(c) ==
    \/ pc[c] = "s_completed" /\
       Record(c, "control", "execution.completed", "done", "s_rejected")
    \/ pc[c] = "s_rejected" /\
       Record(c, "control", "execution.rejected", "failed", "failed")

---------------------------------------------------------------------------
(* The server serving a call dies. *)
Crash(c) ==
    /\ Fault
    /\ pc[c] \notin Ended \cup {"idle"}
    /\ Goto(c, "crashed")
    /\ UNCHANGED <<now, authVars, policyVars, nonces, performed, chain, arg,
                   genuine, sessionVars, credentialVars, ran, since>>

CallStep(c) ==
    \/ CheckPolicy(c) \/ CheckGovernance(c) \/ CheckSignals(c) \/ ConsumeNonce(c)
    \/ OpenSession(c) \/ RecordSession(c) \/ AssertAllowed(c)
    \/ IssueCredential(c) \/ ConsumeCredential(c) \/ RunExecutor(c)
    \/ RevokeCredential(c) \/ RecordConnectorOutcome(c) \/ RecordControlOutcome(c)

Next ==
    \/ Tick \/ ApproveChange \/ SaveLivePolicy
    \/ \E a \in Auth : Authorize(a)
    \/ \E c \in Call : Deliver(c) \/ CallStep(c) \/ Crash(c)

Spec == Init /\ [][Next]_vars
FairSpec == Spec /\ \A c \in Call : WF_vars(CallStep(c))

---------------------------------------------------------------------------
(* Safety.                                                                 *)

(* However often an authorization is presented, its action is performed at *)
(* most once (the nonce store in front of the connector).                  *)
PerformedOnce == \A a \in Auth : performed[a] <= 1

(* An authorization signed under a policy whose successor was approved     *)
(* before the call arrived is not executed, also when the new policy has   *)
(* not been saved yet.  (One approved during the call goes unnoticed once  *)
(* the gateway has read the policy and its record.)                        *)
SupersededNotExecuted ==
    \A c \in Call : ran[c] => signedFor[arg[c]] >= since[c]

(* Positions in the audit chain of a. *)
Events(a) == 1 .. Len(chain[a])

(* An outcome in the audit chain follows the session it belongs to. *)
OutcomeFollowsSession ==
    \A a \in Auth : \A i \in Events(a) :
        chain[a][i].type # "session.created" =>
            \E j \in 1 .. i - 1 : /\ chain[a][j].call = chain[a][i].call
                                  /\ chain[a][j].type = "session.created"

(* The chain says completed only for actions that were performed. *)
CompletedWasPerformed ==
    \A a \in Auth : \A i \in Events(a) :
        chain[a][i].type = "execution.completed" => ran[chain[a][i].call]

(* A call that returns has performed the action and both events are stored. *)
DoneIsRecorded ==
    \A c \in Call : pc[c] = "done" =>
        /\ ran[c]
        /\ \A w \in Writer : \E i \in Events(arg[c]) :
              chain[arg[c]][i] = [call |-> c, by |-> w, type |-> "execution.completed"]

(* The audit chain tells what happened, whatever write failed or was not   *)
(* answered on the way: outcomes follow their session, "completed" is only *)
(* said of actions performed, and a call that returns success is in it     *)
(* twice, once from the control and once from the secure connector         *)
(* (ExecutionControlService, SessionCredentialSecureConnector).            *)
AuditTellsTrue == OutcomeFollowsSession /\ CompletedWasPerformed /\ DoneIsRecorded

(* The outcomes in the audit chain of a, whoever told them. *)
Outcomes(a) ==
    {[by |-> chain[a][i].by, type |-> chain[a][i].type] :
        i \in {j \in Events(a) : chain[a][j].type # "session.created"}}

(* ExecutionGateway.execute and the control service behind it, with their  *)
(* replays, expiries, lost writes and crashes, implement                   *)
(* AuthorizationLifecycle: the nonce is spent before the action, the       *)
(* action is performed once and never after the chain holds an outcome,    *)
(* and a call returns success only when both writers have said so.         *)
Authorization == INSTANCE AuthorizationLifecycle WITH
    issued   <- {a \in Auth : expires[a] # 0},
    spent    <- nonces,
    acts     <- performed,
    told     <- [a \in Auth |-> Outcomes(a)],
    answered <- {arg[c] : c \in {d \in Call : pc[d] = "done"}}
ImplementsAuthorization == Authorization!Spec

(* Every call ends.                                                        *)
CallsEnd == \A c \in Call : pc[c] # "idle" ~> pc[c] \in Ended

==========================================================================

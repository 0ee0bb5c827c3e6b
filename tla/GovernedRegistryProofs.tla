--------------------- MODULE GovernedRegistryProofs ---------------------
(***************************************************************************)
(* Proofs about GovernedRegistry, for any number of humans, keys,          *)
(* capabilities, contents, changes, requests, envelopes and deploys.  The  *)
(* run explores one registry at a time; the proofs do not.                 *)
(***************************************************************************)
EXTENDS GovernedRegistry, TLAPS, FiniteSetTheorems

---------------------------------------------------------------------------
(* Type correctness.                                                       *)

(* A handler works on what its step needs. *)
JobFits == \A h \in Handler :
    /\ pc[h] \in {"check", "create"} =>
          job[h] \in Proposal /\ job[h].status = "PENDING"
          /\ (job[h].action = "add" => job[h].content \in Content)
    /\ pc[h] \in {"stepup", "recheck", "resolve"} =>
          job[h] \in Resolution /\ change[job[h].id] # None
(* What is added has a content. *)
AddsContent == \A c \in Change :
    change[c] # None /\ change[c].action = "add" => change[c].content \in Content
(* A row was added by the change it is named after. *)
RowIsAdded == \A c \in Change : row[c] # "none" =>
    change[c] # None /\ change[c].status = "APPROVED" /\ change[c].action = "add"
(* A release under way has a capability, and then a registration. *)
ReleaseFits == /\ run.at # "idle" => run.subject \in Capability
               /\ run.at \in {"lookup", "send", "sent"} => run.reg \in Change
TypeInv == TypeOK /\ JobFits /\ AddsContent /\ RowIsAdded /\ ReleaseFits

LEMMA TypeInit == Init => TypeInv
BY RegistryAssumption
   DEF Init, Idle, Release, TypeInv, TypeOK, JobFits, AddsContent, RowIsAdded, ReleaseFits

(* Resolve changes the status and the resolver of one change.              *)
LEMMA ResolveEffect ==
    ASSUME TypeOK, NEW c \in Change, change[c] \in Proposal, NEW by \in Human,
           NEW status \in {"APPROVED", "REJECTED"}, Resolve(c, status, by)
    PROVE  /\ change' \in [Change -> Proposal \cup {None}]
           /\ change'[c] \in Proposal
           /\ change'[c].status = status /\ change'[c].resolvedBy = by
           /\ change'[c].subject = change[c].subject
           /\ change'[c].action = change[c].action
           /\ change'[c].proposedBy = change[c].proposedBy
           /\ change'[c].content = change[c].content
           /\ \A d \in Change \ {c} : change'[d] = change[d]
<1>. DEFINE r == [change[c] EXCEPT !.status = status, !.resolvedBy = by]
<1>1. /\ r \in Proposal /\ r.status = status /\ r.resolvedBy = by
      /\ r.subject = change[c].subject /\ r.action = change[c].action
      /\ r.proposedBy = change[c].proposedBy /\ r.content = change[c].content
  BY DEF Proposal
<1>2. change \in [Change -> Proposal \cup {None}]
  BY DEF TypeOK
<1>3. change' = [change EXCEPT ![c] = r]
  BY <1>2 DEF Resolve
<1>. HIDE DEF r
<1>. QED
  BY <1>1, <1>2, <1>3

LEMMA ApproveEffect ==
    ASSUME TypeOK, NEW c \in Change, change[c] \in Proposal, NEW by \in Human,
           ApproveChange(c, by)
    PROVE  /\ change[c].status = "PENDING" /\ Resolve(c, "APPROVED", by)
           /\ \/ /\ change[c].action = "add" /\ MayInsert(change[c].subject)
                 /\ row' = [row EXCEPT ![c] = "active"]
              \/ /\ change[c].action = "revoke" /\ Active(change[c].subject) # {}
                 /\ row' = [d \in Change |-> IF d \in Active(change[c].subject)
                                              THEN "revoked" ELSE row[d]]
           /\ row' \in [Change -> {"none", "active", "revoked"}]
<1>1. /\ change[c].status = "PENDING" /\ Resolve(c, "APPROVED", by)
      /\ \/ /\ change[c].action = "add" /\ MayInsert(change[c].subject)
            /\ row' = [row EXCEPT ![c] = "active"]
         \/ /\ change[c].action = "revoke" /\ Active(change[c].subject) # {}
            /\ row' = [d \in Change |-> IF d \in Active(change[c].subject)
                                         THEN "revoked" ELSE row[d]]
  BY DEF ApproveChange
<1>2. row \in [Change -> {"none", "active", "revoked"}]
  BY DEF TypeOK
<1>. QED
  BY <1>1, <1>2

(* The registries change in three ways: a change is created, or a handler  *)
(* approves or rejects one.                                                *)
Creates(h, c) == /\ pc[h] = "create" /\ CreateChange(c, job[h])
                 /\ UNCHANGED <<row, nonces>>
Approves(h) == /\ pc[h] = "resolve" /\ job[h].verb = "approve"
               /\ ApproveChange(job[h].id, job[h].by) /\ UNCHANGED nonces
Rejects(h) == /\ pc[h] = "resolve" /\ job[h].verb = "reject"
              /\ RejectChange(job[h].id, job[h].by) /\ UNCHANGED nonces

LEMMA RegistryChange ==
    ASSUME [Next]_vars
    PROVE  \/ UNCHANGED regVars
           \/ \E h \in Handler, c \in Change : Creates(h, c)
           \/ \E h \in Handler : Approves(h) \/ Rejects(h)
<1>1. ASSUME NEW h \in Handler, Create(h)
      PROVE  UNCHANGED regVars \/ \E c \in Change : Creates(h, c)
  BY <1>1 DEF Create, Creates, regVars
<1>2. ASSUME NEW h \in Handler, ResolveChange(h)
      PROVE  UNCHANGED regVars \/ Approves(h) \/ Rejects(h)
  BY <1>2 DEF ResolveChange, Approves, Rejects
<1>. QED
  BY <1>1, <1>2, ZenonT(60) DEF Next, vars, HandlerStep, Propose, CheckEndpoint, Receive, StepUp,
     RecheckEndpoint, Decide, ResolveCapability, LookUp, Send, Finish, Deploy, MoveHost, regVars

LEMMA ResolverJob ==
    ASSUME TypeInv, NEW h \in Handler, pc[h] = "resolve"
    PROVE  /\ job[h] \in Resolution /\ job[h].id \in Change /\ job[h].by \in Human
           /\ change[job[h].id] \in Proposal
<1>1. job[h] \in Resolution /\ change[job[h].id] # None
  BY DEF TypeInv, JobFits
<1>2. job[h].id \in Change /\ job[h].by \in Human
  BY <1>1 DEF Resolution
<1>. QED
  BY <1>1, <1>2 DEF TypeInv, TypeOK

(* A stored change keeps what was proposed, and once resolved is final.    *)
LEMMA ChangeKept ==
    ASSUME TypeInv, [Next]_vars, NEW c \in Change, change[c] # None
    PROVE  /\ change'[c] \in Proposal /\ change'[c] # None
           /\ change'[c].subject = change[c].subject
           /\ change'[c].action = change[c].action
           /\ change'[c].proposedBy = change[c].proposedBy
           /\ change'[c].content = change[c].content
           /\ change[c].status # "PENDING" => change'[c] = change[c]
<1>1. change[c] \in Proposal /\ change \in [Change -> Proposal \cup {None}]
  BY DEF TypeInv, TypeOK
<1>2. CASE UNCHANGED regVars
  BY <1>1, <1>2 DEF regVars
<1>3. ASSUME NEW h \in Handler, NEW d \in Change, Creates(h, d)
      PROVE  change'[c] = change[c]
  BY <1>1, <1>3 DEF Creates, CreateChange
<1>4. ASSUME NEW h \in Handler, Approves(h) \/ Rejects(h)
      PROVE  /\ change'[c] \in Proposal
             /\ change'[c].subject = change[c].subject
             /\ change'[c].action = change[c].action
             /\ change'[c].proposedBy = change[c].proposedBy
             /\ change'[c].content = change[c].content
             /\ change[c].status # "PENDING" => change'[c] = change[c]
  <2>1. PICK d \in Change : d = job[h].id
    BY <1>4, ResolverJob DEF Approves, Rejects
  <2>2. PICK by \in Human : by = job[h].by
    BY <1>4, ResolverJob DEF Approves, Rejects
  <2>3. change[d] \in Proposal
    BY <1>4, <2>1, ResolverJob DEF Approves, Rejects
  <2>4. /\ change[d].status = "PENDING"
        /\ \E status \in {"APPROVED", "REJECTED"} : Resolve(d, status, by)
    BY <1>4, <2>1, <2>2 DEF Approves, Rejects, ApproveChange, RejectChange
  <2>. QED
    BY <1>1, <2>3, <2>4, ResolveEffect DEF TypeInv
<1>. QED
  BY <1>1, <1>2, <1>3, <1>4, RegistryChange, RegistryAssumption

(* A row appears when the change it is named after is approved, and only   *)
(* where the unique index allows it.                                       *)
LEMMA NewRow ==
    ASSUME TypeInv, [Next]_vars, NEW c \in Change, row[c] = "none", row'[c] # "none"
    PROVE  /\ change[c] \in Proposal /\ change[c].action = "add"
           /\ MayInsert(change[c].subject) /\ row' = [row EXCEPT ![c] = "active"]
           /\ change'[c] \in Proposal /\ change'[c].status = "APPROVED"
           /\ change'[c].action = "add"
           /\ change'[c].subject = change[c].subject
           /\ change'[c].proposedBy = change[c].proposedBy
           /\ UNCHANGED nonces
           /\ \E h \in Handler : /\ pc[h] = "resolve" /\ job[h].id = c
                                 /\ job[h].verb = "approve"
                                 /\ change'[c].resolvedBy = job[h].by
<1>1. PICK h \in Handler : Approves(h)
  BY RegistryChange DEF Creates, Rejects, RejectChange, regVars
<1>2. PICK d \in Change : d = job[h].id
  BY <1>1, ResolverJob DEF Approves
<1>3. PICK by \in Human : by = job[h].by
  BY <1>1, ResolverJob DEF Approves
<1>4. change[d] \in Proposal /\ ApproveChange(d, by)
  BY <1>1, <1>2, <1>3, ResolverJob DEF Approves
<1>5. /\ c = d /\ change[d].action = "add" /\ MayInsert(change[d].subject)
      /\ row' = [row EXCEPT ![d] = "active"]
  <2>1. CASE row' = [row EXCEPT ![d] = "active"] /\ change[d].action = "add"
             /\ MayInsert(change[d].subject)
    BY <2>1 DEF TypeInv, TypeOK
  <2>2. CASE row' = [e \in Change |-> IF e \in Active(change[d].subject)
                                       THEN "revoked" ELSE row[e]]
    BY <2>2 DEF Active
  <2>. QED
    BY <1>4, <2>1, <2>2, ApproveEffect DEF TypeInv
<1>6. Resolve(d, "APPROVED", by)
  BY <1>4 DEF ApproveChange
<1>. QED
  BY <1>1, <1>2, <1>3, <1>4, <1>5, <1>6, ResolveEffect DEF TypeInv, Approves

LEMMA TypeStep == TypeInv /\ [Next]_vars => TypeInv'
<1>. SUFFICES ASSUME TypeInv, [Next]_vars PROVE TypeInv'
  OBVIOUS
<1>. USE DEF regVars
<1>1. change' \in [Change -> Proposal \cup {None}] /\ row' \in [Change -> {"none", "active", "revoked"}]
  <2>1. /\ change \in [Change -> Proposal \cup {None}]
        /\ row \in [Change -> {"none", "active", "revoked"}]
    BY DEF TypeInv, TypeOK
  <2>2. CASE UNCHANGED regVars
    BY <2>1, <2>2
  <2>3. ASSUME NEW h \in Handler, NEW c \in Change, Creates(h, c)
        PROVE  /\ change' \in [Change -> Proposal \cup {None}]
               /\ row' \in [Change -> {"none", "active", "revoked"}]
    <3>1. job[h] \in Proposal
      BY <2>3 DEF Creates, TypeInv, JobFits
    <3>. QED
      BY <2>1, <2>3, <3>1 DEF Creates, CreateChange
  <2>4. ASSUME NEW h \in Handler, Approves(h) \/ Rejects(h)
        PROVE  /\ change' \in [Change -> Proposal \cup {None}]
               /\ row' \in [Change -> {"none", "active", "revoked"}]
    <3>1. PICK d \in Change : d = job[h].id
      BY <2>4, ResolverJob DEF Approves, Rejects
    <3>2. PICK by \in Human : by = job[h].by
      BY <2>4, ResolverJob DEF Approves, Rejects
    <3>3. change[d] \in Proposal
      BY <2>4, <3>1, ResolverJob DEF Approves, Rejects
    <3>4. CASE ApproveChange(d, by)
      BY <3>3, <3>4, ApproveEffect, ResolveEffect DEF TypeInv
    <3>5. CASE RejectChange(d, by)
      <4>1. Resolve(d, "REJECTED", by) /\ UNCHANGED row
        BY <3>5 DEF RejectChange
      <4>. QED
        BY <2>1, <3>3, <4>1, ResolveEffect DEF TypeInv
    <3>. QED
      BY <2>4, <3>1, <3>2, <3>4, <3>5 DEF Approves, Rejects
  <2>. QED
    BY <2>2, <2>3, <2>4, RegistryChange
<1>2. nonces' \subseteq Envelope
  <2>1. nonces \subseteq Envelope
    BY DEF TypeInv, TypeOK
  <2>2. ASSUME NEW h \in Handler, StepUp(h) PROVE nonces' \subseteq Envelope
    <3>1. job[h].envelope \in Envelope
      BY <2>2 DEF StepUp, TypeInv, JobFits, Resolution
    <3>. QED
      BY <2>1, <2>2, <3>1 DEF StepUp
  <2>. QED
    BY <2>1, <2>2 DEF Next, vars, HandlerStep, Propose, CheckEndpoint, Create, Receive,
       RecheckEndpoint, ResolveChange, Decide, ResolveCapability, LookUp, Send, Finish,
       Deploy, MoveHost
<1>3. /\ code' \in [Issuer -> {"none", "active", "revoked"}] /\ deploys' \in 0 .. MaxDeploys
      /\ public' \subseteq Content
  <2>1. ASSUME NEW k \in Issuer, NEW status \in {"active", "revoked"}, Deploy(k, status)
        PROVE  /\ code' \in [Issuer -> {"none", "active", "revoked"}]
               /\ deploys' \in 0 .. MaxDeploys /\ public' \subseteq Content
    BY <2>1, RegistryAssumption DEF Deploy, TypeInv, TypeOK
  <2>2. CASE UNCHANGED <<code, deploys>> /\ (UNCHANGED public \/ \E x \in Content : MoveHost(x))
    BY <2>2 DEF MoveHost, TypeInv, TypeOK
  <2>. QED
    BY <2>1, <2>2 DEF Next, vars, HandlerStep, Propose, CheckEndpoint, Create, Receive, StepUp,
       RecheckEndpoint, ResolveChange, Decide, ResolveCapability, LookUp, Send, Finish, MoveHost
<1>. DEFINE Label == {"idle", "check", "create", "stepup", "recheck", "resolve"}
            Job == Proposal \cup Resolution \cup {None}
            Fit(h) == /\ pc'[h] \in {"check", "create"} =>
                           job'[h] \in Proposal /\ job'[h].status = "PENDING"
                           /\ (job'[h].action = "add" => job'[h].content \in Content)
                      /\ pc'[h] \in {"stepup", "recheck", "resolve"} =>
                           job'[h] \in Resolution /\ change[job'[h].id] # None
<1>4. pc' \in [Handler -> Label] /\ job' \in [Handler -> Job] /\ \A h \in Handler : Fit(h)
  <2>1. pc \in [Handler -> Label] /\ job \in [Handler -> Job]
    BY DEF TypeInv, TypeOK
  <2>2. CASE UNCHANGED <<pc, job>>
    BY <2>1, <2>2 DEF TypeInv, JobFits
  <2>3. CASE \E k \in Issuer, status \in {"active", "revoked"} : Deploy(k, status)
    BY <2>3 DEF Deploy
  <2>4. ASSUME NEW g \in Handler, NEW label \in Label, NEW j \in Job,
               pc' = [pc EXCEPT ![g] = label], job' = [job EXCEPT ![g] = j],
               /\ label \in {"check", "create"} =>
                     /\ j \in Proposal /\ j.status = "PENDING"
                     /\ j.action = "add" => j.content \in Content
               /\ label \in {"stepup", "recheck", "resolve"} =>
                     j \in Resolution /\ change[j.id] # None
        PROVE  pc' \in [Handler -> Label] /\ job' \in [Handler -> Job] /\ \A h \in Handler : Fit(h)
    <3>1. pc' \in [Handler -> Label] /\ job' \in [Handler -> Job]
      BY <2>1, <2>4
    <3>2. ASSUME NEW h \in Handler PROVE Fit(h)
      <4>1. CASE h = g
        BY <2>1, <2>4, <4>1
      <4>2. CASE h # g
        <5>1. pc'[h] = pc[h] /\ job'[h] = job[h]
          BY <2>1, <2>4, <4>2
        <5>. QED
          BY <5>1 DEF TypeInv, JobFits
      <4>. QED
        BY <4>1, <4>2
    <3>. QED
      BY <3>1, <3>2
  <2>5. ASSUME NEW g \in Handler, End(g)
        PROVE  pc' \in [Handler -> Label] /\ job' \in [Handler -> Job] /\ \A h \in Handler : Fit(h)
    BY <2>4, <2>5 DEF End
  <2>6. ASSUME NEW g \in Handler, NEW label \in Label, Goto(g, label),
               \/ label = "create" /\ pc[g] = "check"
               \/ label \in {"recheck", "resolve"} /\ pc[g] \in {"stepup", "recheck"}
        PROVE  pc' \in [Handler -> Label] /\ job' \in [Handler -> Job] /\ \A h \in Handler : Fit(h)
    <3>1. PICK j \in Job : j = job[g]
      BY <2>1
    <3>2. job' = [job EXCEPT ![g] = j] /\ pc' = [pc EXCEPT ![g] = label]
      BY <2>1, <2>6, <3>1 DEF Goto
    <3>3. /\ pc[g] = "check" =>
                /\ j \in Proposal /\ j.status = "PENDING"
                /\ j.action = "add" => j.content \in Content
          /\ pc[g] \in {"stepup", "recheck"} => j \in Resolution /\ change[j.id] # None
      BY <3>1 DEF TypeInv, JobFits
    <3>. QED
      BY <2>4, <2>6, <3>2, <3>3
  <2>7. ASSUME NEW g \in Handler, NEW m \in Human, NEW a \in {"add", "revoke"},
               NEW s \in Subject, NEW x \in Content, Propose(g, m, a, s, x)
        PROVE  pc' \in [Handler -> Label] /\ job' \in [Handler -> Job] /\ \A h \in Handler : Fit(h)
    <3>. DEFINE j == [subject |-> s, action |-> a, proposedBy |-> m,
                      content |-> IF a = "add" THEN x ELSE None,
                      status |-> "PENDING", resolvedBy |-> None]
    <3>1. /\ j \in Proposal /\ j.status = "PENDING"
          /\ j.action = "add" => j.content \in Content
      BY DEF Proposal
    <3>2. PICK label \in {"check", "create"} : pc' = [pc EXCEPT ![g] = label]
      BY <2>7 DEF Propose
    <3>3. job' = [job EXCEPT ![g] = j]
      BY <2>7 DEF Propose
    <3>. HIDE DEF j
    <3>. QED
      BY <2>4, <3>1, <3>2, <3>3
  <2>8. ASSUME NEW g \in Handler, NEW c \in Change, NEW a \in {"approve", "reject"},
               NEW m \in Human, NEW i \in 1..MaxEnvelopes, Receive(g, c, a, m, i)
        PROVE  pc' \in [Handler -> Label] /\ job' \in [Handler -> Job] /\ \A h \in Handler : Fit(h)
    <3>. DEFINE j == [id |-> c, verb |-> a, by |-> m, envelope |-> <<c, a, m, i>>]
    <3>1. j \in Resolution /\ j.id = c
      BY DEF Resolution, Envelope
    <3>2. pc' = [pc EXCEPT ![g] = "stepup"] /\ job' = [job EXCEPT ![g] = j] /\ change[c] # None
      BY <2>8 DEF Receive
    <3>. HIDE DEF j
    <3>. QED
      BY <2>4, <3>1, <3>2
  <2>9. ASSUME NEW g \in Handler, HandlerStep(g)
        PROVE  pc' \in [Handler -> Label] /\ job' \in [Handler -> Job] /\ \A h \in Handler : Fit(h)
    <3>1. CASE End(g)
      BY <2>5, <3>1
    <3>2. CASE CheckEndpoint(g) /\ ~ End(g)
      BY <2>6, <3>2 DEF CheckEndpoint
    <3>3. CASE StepUp(g) /\ ~ End(g)
      BY <2>6, <3>3 DEF StepUp
    <3>4. CASE RecheckEndpoint(g) /\ ~ End(g)
      BY <2>6, <3>4 DEF RecheckEndpoint
    <3>. QED
      BY <2>9, <3>1, <3>2, <3>3, <3>4 DEF HandlerStep, Create, ResolveChange
  <2>. QED
    BY <2>2, <2>3, <2>7, <2>8, <2>9 DEF Next, vars, Decide, ResolveCapability, LookUp, Send,
       Finish, MoveHost
<1>5. JobFits'
  <2>1. ASSUME NEW h \in Handler, pc'[h] \in {"stepup", "recheck", "resolve"}
        PROVE  change'[job'[h].id] # None
    <3>1. job'[h] \in Resolution /\ change[job'[h].id] # None
      BY <1>4, <2>1
    <3>2. job'[h].id \in Change
      BY <3>1 DEF Resolution
    <3>. QED
      BY <3>1, <3>2, ChangeKept
  <2>. QED
    BY <1>4, <2>1 DEF JobFits
<1>6. AddsContent'
  <2>. SUFFICES ASSUME NEW c \in Change, change'[c] # None, change'[c].action = "add"
                PROVE  change'[c].content \in Content
    BY DEF AddsContent
  <2>1. CASE change[c] # None
    BY <2>1, ChangeKept DEF TypeInv, AddsContent
  <2>2. CASE change[c] = None
    <3>1. ASSUME NEW h \in Handler, NEW d \in Change, Creates(h, d)
          PROVE  change'[c].content \in Content
      BY <2>2, <3>1 DEF Creates, CreateChange, TypeInv, TypeOK, JobFits
    <3>2. ASSUME NEW h \in Handler, Approves(h) \/ Rejects(h)
          PROVE  change'[c] = change[c]
      <4>1. PICK d \in Change : d = job[h].id
        BY <3>2, ResolverJob DEF Approves, Rejects
      <4>2. PICK by \in Human : by = job[h].by
        BY <3>2, ResolverJob DEF Approves, Rejects
      <4>3. change[d] \in Proposal /\ d # c
        BY <2>2, <3>2, <4>1, ResolverJob, RegistryAssumption DEF Approves, Rejects
      <4>4. \E status \in {"APPROVED", "REJECTED"} : Resolve(d, status, by)
        BY <3>2, <4>1, <4>2 DEF Approves, Rejects, ApproveChange, RejectChange
      <4>. QED
        BY <4>3, <4>4, ResolveEffect DEF TypeInv
    <3>. QED
      BY <2>2, <3>1, <3>2, RegistryChange
  <2>. QED
    BY <2>1, <2>2
<1>7. RowIsAdded'
  <2>. SUFFICES ASSUME NEW c \in Change, row'[c] # "none"
                PROVE  change'[c] # None /\ change'[c].status = "APPROVED" /\ change'[c].action = "add"
    BY DEF RowIsAdded
  <2>1. CASE row[c] # "none"
    BY <2>1, ChangeKept DEF TypeInv, RowIsAdded
  <2>2. CASE row[c] = "none"
    BY <2>2, NewRow, RegistryAssumption
  <2>. QED
    BY <2>1, <2>2
<1>8. built' \subseteq Change /\ run' \in Release /\ ReleaseFits'
  <2>1. built \subseteq Change /\ run \in Release
    BY DEF TypeInv, TypeOK
  <2>2. CASE UNCHANGED <<built, run>>
    BY <2>1, <2>2 DEF TypeInv, ReleaseFits
  <2>3. Idle \in Release /\ Idle.at = "idle"
    BY DEF Idle, Release
  <2>4. CASE run' = Idle /\ built' \subseteq Change
    BY <2>3, <2>4 DEF ReleaseFits
  <2>5. ASSUME NEW s \in Capability, Decide(s)
        PROVE  built' \subseteq Change /\ run' \in Release /\ ReleaseFits'
    <3>1. PICK c \in Active(s) :
              run' = [Idle EXCEPT !.at = "resolve", !.subject = s,
                                  !.policy = PolicyOf[change[c].content],
                                  !.gone = Rows(s) \ Active(s)]
      BY <2>5 DEF Decide, Update
    <3>2. c \in Change /\ change[c].content \in Content /\ Rows(s) \subseteq Change
      BY DEF Active, Rows, TypeInv, RowIsAdded, AddsContent
    <3>3. PICK p \in {PolicyOf[x] : x \in Content} : p = PolicyOf[change[c].content]
      BY <3>2
    <3>4. PICK G \in SUBSET Change : G = Rows(s) \ Active(s)
      BY <3>2
    <3>5. run' = [at |-> "resolve", subject |-> s, policy |-> p, reg |-> None,
                  pinned |-> FALSE, gone |-> G]
      BY <3>1, <3>3, <3>4 DEF Idle
    <3>6. run' \in Release /\ ReleaseFits'
      BY <3>5 DEF Release, ReleaseFits
    <3>. QED
      BY <2>1, <2>5, <3>6 DEF Decide
  <2>6. CASE ResolveCapability
    <3>1. CASE run' = Idle /\ UNCHANGED built
      BY <2>1, <2>4, <3>1
    <3>2. ASSUME NEW c \in Active(run.subject), built' = built \cup {c},
                 run' = [run EXCEPT !.at = "lookup", !.reg = c]
          PROVE  built' \subseteq Change /\ run' \in Release /\ ReleaseFits'
      <4>1. c \in Change /\ run.subject \in Capability
        BY <2>6 DEF Active, Rows, ResolveCapability, TypeInv, ReleaseFits
      <4>2. run' \in Release /\ run'.reg = c /\ run'.subject = run.subject /\ run'.at = "lookup"
        BY <2>1, <3>2, <4>1 DEF Release
      <4>. QED
        BY <2>1, <3>2, <4>1, <4>2 DEF ReleaseFits
    <3>. QED
      BY <2>6, <3>1, <3>2 DEF ResolveCapability, Update
  <2>7. CASE LookUp \/ Send \/ Finish
    <3>1. CASE run' = Idle /\ UNCHANGED built
      BY <2>1, <2>4, <3>1
    <3>2. CASE /\ run.at = "lookup" /\ run' = [run EXCEPT !.at = "send", !.pinned = TRUE]
               /\ UNCHANGED built
      BY <2>1, <3>2 DEF Release, TypeInv, ReleaseFits
    <3>3. CASE run.at = "send" /\ run' = [run EXCEPT !.at = "sent"] /\ UNCHANGED built
      BY <2>1, <3>3 DEF Release, TypeInv, ReleaseFits
    <3>. QED
      BY <2>7, <3>1, <3>2, <3>3 DEF LookUp, Send, Finish, Update
  <2>8. CASE \E k \in Issuer, status \in {"active", "revoked"} : Deploy(k, status)
    BY <2>4, <2>8 DEF Deploy
  <2>. QED
    BY <2>2, <2>5, <2>6, <2>7, <2>8 DEF Next, vars, HandlerStep, Propose, CheckEndpoint, Create,
       Receive, StepUp, RecheckEndpoint, ResolveChange, MoveHost
<1>9. TypeOK'
  BY <1>1, <1>2, <1>3, <1>4, <1>8 DEF TypeOK
<1>. QED
  BY <1>5, <1>6, <1>7, <1>8, <1>9 DEF TypeInv

LEMMA TypeAlways == Spec => []TypeInv
BY TypeInit, TypeStep, PTL DEF Spec

(* Every variable keeps its type: a stored change is a proposal, a row is  *)
(* none, active or revoked, a release names a capability.                  *)
THEOREM RegistryTypes == Spec => []TypeOK
BY TypeAlways, PTL DEF TypeInv

---------------------------------------------------------------------------
(* Maker and checker.                                                      *)

Resolves(h) == pc[h] \in {"stepup", "recheck", "resolve"}

CheckerIsAnother == \A h \in Handler : Resolves(h) =>
    /\ change[job[h].id].proposedBy # job[h].by
    /\ \E i \in 1..MaxEnvelopes : job[h].envelope = <<job[h].id, job[h].verb, job[h].by, i>>
EnvelopeConsumed == \A h \in Handler :
    pc[h] \in {"recheck", "resolve"} => job[h].envelope \in nonces

CheckerInv == CheckerIsAnother /\ EnvelopeConsumed /\ ApprovedByAnother

LEMMA NoncesGrow ==
    ASSUME [Next]_vars
    PROVE  nonces \subseteq nonces'
BY DEF Next, vars, HandlerStep, Propose, CheckEndpoint, Create, Receive, StepUp, RecheckEndpoint,
   ResolveChange, Decide, ResolveCapability, LookUp, Send, Finish, Deploy, MoveHost

(* A handler moves by its own steps, or is lost with the server.           *)
LEMMA Moves ==
    ASSUME TypeOK, [Next]_vars, NEW h \in Handler
    PROVE  \/ pc'[h] = pc[h] /\ job'[h] = job[h]
           \/ pc'[h] \in {"idle", "check", "create"}
           \/ \E c \in Change, a \in {"approve", "reject"}, m \in Human, i \in 1..MaxEnvelopes :
                 Receive(h, c, a, m, i)
           \/ StepUp(h) \/ RecheckEndpoint(h)
<1>. DEFINE Same == pc'[h] = pc[h] /\ job'[h] = job[h]
<1>. USE DEF TypeOK
<1>1. CASE UNCHANGED <<pc, job>>
  BY <1>1
<1>2. CASE \E k \in Issuer, status \in {"active", "revoked"} : Deploy(k, status)
  BY <1>2 DEF Deploy
<1>3. ASSUME NEW g \in Handler, NEW m \in Human, NEW a \in {"add", "revoke"}, NEW s \in Subject,
             NEW x \in Content, Propose(g, m, a, s, x)
      PROVE  Same \/ pc'[h] \in {"idle", "check", "create"}
  BY <1>3 DEF Propose
<1>4. ASSUME NEW g \in Handler, NEW c \in Change, NEW a \in {"approve", "reject"},
             NEW m \in Human, NEW i \in 1..MaxEnvelopes, Receive(g, c, a, m, i), g # h
      PROVE  Same
  BY <1>4 DEF Receive
<1>5. ASSUME NEW g \in Handler, CheckEndpoint(g) \/ Create(g) \/ ResolveChange(g)
      PROVE  Same \/ pc'[h] \in {"idle", "check", "create"}
  BY <1>5 DEF CheckEndpoint, Create, ResolveChange, Goto, End
<1>6. ASSUME NEW g \in Handler, StepUp(g) \/ RecheckEndpoint(g), g # h
      PROVE  Same
  BY <1>6 DEF StepUp, RecheckEndpoint, Goto, End
<1>7. CASE \/ UNCHANGED vars \/ ResolveCapability \/ LookUp \/ Send \/ Finish
           \/ \E s \in Capability : Decide(s)
           \/ \E x \in Content : MoveHost(x)
  BY <1>1, <1>7 DEF vars, Decide, ResolveCapability, LookUp, Send, Finish, MoveHost
<1>8. CASE \E g \in Handler, c \in Change, a \in {"approve", "reject"}, m \in Human,
              i \in 1..MaxEnvelopes : Receive(g, c, a, m, i)
  BY <1>4, <1>8
<1>9. CASE \E g \in Handler : HandlerStep(g)
  BY <1>5, <1>6, <1>9 DEF HandlerStep
<1>. QED
  BY <1>2, <1>3, <1>7, <1>8, <1>9 DEF Next

LEMMA CheckerStep == TypeInv /\ CheckerInv /\ [Next]_vars => CheckerInv'
<1>. SUFFICES ASSUME TypeInv, CheckerInv, [Next]_vars PROVE CheckerInv'
  OBVIOUS
<1>. USE DEF CheckerInv
<1>1. pc \in [Handler -> {"idle", "check", "create", "stepup", "recheck", "resolve"}]
  BY DEF TypeInv, TypeOK
<1>2. ASSUME NEW h \in Handler, Resolves(h)', Resolves(h), job'[h] = job[h]
      PROVE  /\ change'[job'[h].id].proposedBy # job'[h].by
             /\ \E i \in 1..MaxEnvelopes :
                   job'[h].envelope = <<job'[h].id, job'[h].verb, job'[h].by, i>>
  <2>1. job[h].id \in Change /\ change[job[h].id] # None
    BY <1>2 DEF Resolves, TypeInv, JobFits, Resolution
  <2>. QED
    BY <1>2, <2>1, ChangeKept DEF CheckerIsAnother
<1>3. CheckerIsAnother'
  <2>. SUFFICES ASSUME NEW h \in Handler, Resolves(h)'
                PROVE  /\ change'[job'[h].id].proposedBy # job'[h].by
                       /\ \E i \in 1..MaxEnvelopes :
                             job'[h].envelope = <<job'[h].id, job'[h].verb, job'[h].by, i>>
    BY DEF CheckerIsAnother
  <2>1. CASE pc'[h] = pc[h] /\ job'[h] = job[h]
    BY <1>2, <2>1 DEF Resolves
  <2>2. CASE StepUp(h) \/ RecheckEndpoint(h)
    <3>1. Resolves(h) /\ job'[h] = job[h]
      BY <1>1, <2>2 DEF StepUp, RecheckEndpoint, Goto, End, Resolves
    <3>. QED
      BY <1>2, <3>1
  <2>3. ASSUME NEW c \in Change, NEW a \in {"approve", "reject"}, NEW m \in Human,
               NEW i \in 1..MaxEnvelopes, Receive(h, c, a, m, i)
        PROVE  /\ change'[job'[h].id].proposedBy # job'[h].by
               /\ \E n \in 1..MaxEnvelopes :
                     job'[h].envelope = <<job'[h].id, job'[h].verb, job'[h].by, n>>
    <3>1. job'[h] = [id |-> c, verb |-> a, by |-> m, envelope |-> <<c, a, m, i>>]
      BY <2>3 DEF Receive, TypeInv, TypeOK
    <3>2. change'[c].proposedBy # m
      BY <2>3 DEF Receive, regVars
    <3>. QED
      BY <3>1, <3>2
  <2>. QED
    BY <2>1, <2>2, <2>3, Moves DEF TypeInv, Resolves
<1>4. EnvelopeConsumed'
  <2>. SUFFICES ASSUME NEW h \in Handler, pc'[h] \in {"recheck", "resolve"}
                PROVE  job'[h].envelope \in nonces'
    BY DEF EnvelopeConsumed
  <2>1. CASE pc'[h] = pc[h] /\ job'[h] = job[h]
    BY <2>1, NoncesGrow DEF EnvelopeConsumed
  <2>2. CASE StepUp(h)
    BY <1>1, <2>2 DEF StepUp, Goto, End
  <2>3. CASE RecheckEndpoint(h)
    <3>1. pc[h] = "recheck" /\ job'[h] = job[h]
      BY <1>1, <2>3 DEF RecheckEndpoint, Goto, End
    <3>. QED
      BY <3>1, NoncesGrow DEF EnvelopeConsumed
  <2>4. CASE \E c \in Change, a \in {"approve", "reject"}, m \in Human, i \in 1..MaxEnvelopes :
                Receive(h, c, a, m, i)
    BY <1>1, <2>4 DEF Receive
  <2>. QED
    BY <2>1, <2>2, <2>3, <2>4, Moves DEF TypeInv
<1>5. ApprovedByAnother'
  <2>. SUFFICES ASSUME NEW c \in Change, row'[c] # "none"
                PROVE  /\ change'[c].status = "APPROVED"
                       /\ change'[c].resolvedBy # change'[c].proposedBy
                       /\ \E i \in 1..MaxEnvelopes :
                             <<c, "approve", change'[c].resolvedBy, i>> \in nonces'
    BY DEF ApprovedByAnother
  <2>1. CASE row[c] # "none"
    <3>1. change'[c] = change[c]
      BY <2>1, ChangeKept DEF TypeInv, RowIsAdded
    <3>. QED
      BY <2>1, <3>1, NoncesGrow DEF ApprovedByAnother
  <2>2. CASE row[c] = "none"
    <3>1. /\ change'[c].status = "APPROVED" /\ change'[c].proposedBy = change[c].proposedBy
          /\ UNCHANGED nonces
      BY <2>2, NewRow
    <3>2. PICK h \in Handler : /\ pc[h] = "resolve" /\ job[h].id = c /\ job[h].verb = "approve"
                               /\ change'[c].resolvedBy = job[h].by
      BY <2>2, NewRow
    <3>3. change[c].proposedBy # job[h].by /\ job[h].envelope \in nonces
      BY <3>2 DEF CheckerIsAnother, EnvelopeConsumed, Resolves
    <3>4. \E i \in 1..MaxEnvelopes : job[h].envelope = <<c, "approve", job[h].by, i>>
      BY <3>2 DEF CheckerIsAnother, Resolves
    <3>. QED
      BY <3>1, <3>2, <3>3, <3>4
  <2>. QED
    BY <2>1, <2>2
<1>. QED
  BY <1>3, <1>4, <1>5

LEMMA CheckerInit == Init => CheckerInv
BY DEF Init, CheckerInv, CheckerIsAnother, EnvelopeConsumed, ApprovedByAnother, Resolves

LEMMA CheckerAlways == Spec => []CheckerInv
<1>1. TypeInv /\ CheckerInv /\ [Next]_vars => CheckerInv'
  BY CheckerStep
<1>. QED
  BY <1>1, CheckerInit, TypeAlways, PTL DEF Spec

(* Nothing gets into a registry on one human's word: the approving request *)
(* is checked against the proposer when it arrives and its envelope is     *)
(* consumed before the transaction, and neither can change meanwhile.      *)
THEOREM AddedByTwo == Spec => []ApprovedByAnother
BY CheckerAlways, PTL DEF CheckerInv

---------------------------------------------------------------------------
(* The unique indexes.                                                     *)

OneCapabilityRow == \A s \in Capability : \A c, d \in Active(s) : c = d
OneKeyRow == \A k \in Issuer : \A c, d \in Rows(k) : c = d
(* A revoked key keeps its row. *)
RevokedKeepsRow == \A k \in Issuer, c \in Change :
    /\ change[c] # None /\ change[c].subject = k
    /\ change[c].status = "APPROVED" /\ change[c].action = "revoke"
    => Rows(k) # {} /\ Active(k) = {}

RowInv == OneCapabilityRow /\ OneKeyRow /\ RevokedKeepsRow

LEMMA RowKept ==
    ASSUME TypeInv, [Next]_vars, NEW c \in Change
    PROVE  /\ row[c] # "none" => row'[c] # "none"
           /\ row[c] = "revoked" => row'[c] = "revoked"
<1>1. row \in [Change -> {"none", "active", "revoked"}]
  BY DEF TypeInv, TypeOK
<1>2. CASE UNCHANGED row
  BY <1>2
<1>3. ASSUME NEW h \in Handler, Approves(h)
      PROVE  /\ row[c] # "none" => row'[c] # "none"
             /\ row[c] = "revoked" => row'[c] = "revoked"
  <2>1. PICK d \in Change : d = job[h].id
    BY <1>3, ResolverJob DEF Approves
  <2>2. PICK by \in Human : by = job[h].by
    BY <1>3, ResolverJob DEF Approves
  <2>3. change[d] \in Proposal /\ ApproveChange(d, by)
    BY <1>3, <2>1, <2>2, ResolverJob DEF Approves
  <2>4. change[d].status = "PENDING" /\ row[d] = "none"
    BY <2>3 DEF ApproveChange, TypeInv, RowIsAdded
  <2>5. CASE row' = [row EXCEPT ![d] = "active"]
    BY <1>1, <2>4, <2>5
  <2>6. CASE row' = [e \in Change |-> IF e \in Active(change[d].subject)
                                       THEN "revoked" ELSE row[e]]
    BY <2>6
  <2>. QED
    BY <2>3, <2>5, <2>6, ApproveEffect DEF TypeInv
<1>. QED
  BY <1>2, <1>3, RegistryChange DEF Creates, Rejects, RejectChange, regVars

(* The rows of a subject after a step were there before, or it is the one  *)
(* that was added.                                                         *)
LEMMA RowsAfter ==
    ASSUME TypeInv, [Next]_vars, NEW s, NEW c \in Rows(s)'
    PROVE  \/ c \in Rows(s) /\ (c \in Active(s)' => c \in Active(s))
           \/ MayInsert(s) /\ row[c] = "none" /\ row' = [row EXCEPT ![c] = "active"]
<1>1. c \in Change /\ change'[c].subject = s /\ row'[c] # "none"
  BY DEF Rows
<1>2. CASE row[c] # "none"
  <2>1. change[c] # None /\ change[c].subject = s
    BY <1>1, <1>2, ChangeKept DEF TypeInv, RowIsAdded
  <2>2. row'[c] = "active" => row[c] = "active"
    BY <1>1, <1>2, RowKept DEF TypeInv, TypeOK
  <2>. QED
    BY <1>1, <1>2, <2>1, <2>2 DEF Rows, Active
<1>3. CASE row[c] = "none"
  BY <1>1, <1>3, NewRow
<1>. QED
  BY <1>2, <1>3

LEMMA RowsKept ==
    ASSUME TypeInv, [Next]_vars, NEW s
    PROVE  Rows(s) \subseteq Rows(s)'
BY ChangeKept, RowKept DEF Rows

LEMMA NewlyApproved ==
    ASSUME TypeInv, [Next]_vars, NEW c \in Change,
           change'[c] # None, change'[c].status = "APPROVED",
           ~ (change[c] # None /\ change[c].status = "APPROVED")
    PROVE  \E h \in Handler : Approves(h) /\ job[h].id = c
<1>1. change \in [Change -> Proposal \cup {None}]
  BY DEF TypeInv, TypeOK
<1>2. CASE UNCHANGED regVars
  BY <1>2 DEF regVars
<1>3. ASSUME NEW h \in Handler, NEW d \in Change, Creates(h, d) PROVE FALSE
  <2>1. job[h].status = "PENDING"
    BY <1>3 DEF Creates, TypeInv, JobFits
  <2>. QED
    BY <1>1, <1>3, <2>1 DEF Creates, CreateChange
<1>4. ASSUME NEW h \in Handler, Approves(h) \/ Rejects(h)
      PROVE  Approves(h) /\ job[h].id = c
  <2>1. PICK d \in Change : d = job[h].id
    BY <1>4, ResolverJob DEF Approves, Rejects
  <2>2. PICK by \in Human : by = job[h].by
    BY <1>4, ResolverJob DEF Approves, Rejects
  <2>3. change[d] \in Proposal
    BY <1>4, <2>1, ResolverJob DEF Approves, Rejects
  <2>4. CASE Approves(h)
    <3>1. Resolve(d, "APPROVED", by)
      BY <2>1, <2>2, <2>4 DEF Approves, ApproveChange
    <3>. QED
      BY <2>1, <2>3, <2>4, <3>1, ResolveEffect DEF TypeInv
  <2>5. CASE Rejects(h)
    <3>1. Resolve(d, "REJECTED", by)
      BY <2>1, <2>2, <2>5 DEF Rejects, RejectChange
    <3>. QED
      BY <2>1, <2>3, <3>1, ResolveEffect DEF TypeInv
  <2>. QED
    BY <1>4, <2>4, <2>5
<1>. QED
  BY <1>2, <1>3, <1>4, RegistryChange

LEMMA RowStep == TypeInv /\ RowInv /\ [Next]_vars => RowInv'
<1>. SUFFICES ASSUME TypeInv, RowInv, [Next]_vars PROVE RowInv'
  OBVIOUS
<1>. USE DEF RowInv
<1>1. row \in [Change -> {"none", "active", "revoked"}]
  BY DEF TypeInv, TypeOK
<1>2. OneCapabilityRow'
  <2>. SUFFICES ASSUME NEW s \in Capability, NEW c \in Active(s)', NEW d \in Active(s)'
                PROVE  c = d
    BY DEF OneCapabilityRow
  <2>1. c \in Rows(s)' /\ d \in Rows(s)'
    BY DEF Active
  <2>2. MayInsert(s) => Active(s) = {}
    BY RegistryAssumption DEF MayInsert
  <2>3. CASE c \in Active(s) /\ d \in Active(s)
    BY <2>3 DEF OneCapabilityRow
  <2>4. CASE MayInsert(s) /\ row[c] = "none" /\ row' = [row EXCEPT ![c] = "active"]
    BY <1>1, <2>1, <2>2, <2>4, RowsAfter DEF Rows
  <2>5. CASE MayInsert(s) /\ row[d] = "none" /\ row' = [row EXCEPT ![d] = "active"]
    BY <1>1, <2>1, <2>2, <2>5, RowsAfter DEF Rows
  <2>. QED
    BY <2>1, <2>3, <2>4, <2>5, RowsAfter
<1>3. OneKeyRow'
  <2>. SUFFICES ASSUME NEW k \in Issuer, NEW c \in Rows(k)', NEW d \in Rows(k)'
                PROVE  c = d
    BY DEF OneKeyRow
  <2>1. MayInsert(k) => Rows(k) = {}
    BY DEF MayInsert
  <2>2. CASE c \in Rows(k) /\ d \in Rows(k)
    BY <2>2 DEF OneKeyRow
  <2>3. CASE MayInsert(k) /\ row[c] = "none" /\ row' = [row EXCEPT ![c] = "active"]
    BY <1>1, <2>1, <2>3, RowsAfter DEF Rows
  <2>4. CASE MayInsert(k) /\ row[d] = "none" /\ row' = [row EXCEPT ![d] = "active"]
    BY <1>1, <2>1, <2>4, RowsAfter DEF Rows
  <2>. QED
    BY <2>2, <2>3, <2>4, RowsAfter
<1>4. RevokedKeepsRow'
  <2>. SUFFICES ASSUME NEW k \in Issuer, NEW c \in Change,
                       change'[c] # None, change'[c].subject = k,
                       change'[c].status = "APPROVED", change'[c].action = "revoke"
                PROVE  Rows(k)' # {} /\ Active(k)' = {}
    BY DEF RevokedKeepsRow
  <2>1. CASE change[c] # None /\ change[c].status = "APPROVED"
    <3>1. change[c].subject = k /\ change[c].action = "revoke"
      BY <2>1, ChangeKept
    <3>2. Rows(k) # {} /\ Active(k) = {}
      BY <2>1, <3>1 DEF RevokedKeepsRow
    <3>3. ASSUME NEW d \in Active(k)' PROVE FALSE
      <4>1. d \in Rows(k)'
        BY DEF Active
      <4>. QED
        BY <3>2, <4>1, RowsAfter DEF MayInsert
    <3>. QED
      BY <3>2, <3>3, RowsKept
  <2>2. CASE ~ (change[c] # None /\ change[c].status = "APPROVED")
    <3>1. PICK h \in Handler : Approves(h) /\ job[h].id = c
      BY <2>2, NewlyApproved
    <3>2. PICK by \in Human : by = job[h].by
      BY <3>1, ResolverJob DEF Approves
    <3>3. change[c] \in Proposal /\ ApproveChange(c, by) /\ change[c] # None
      BY <3>1, <3>2, ResolverJob, RegistryAssumption DEF Approves
    <3>4. change[c].subject = k /\ change[c].action = "revoke"
      BY <3>3, ChangeKept
    <3>5. /\ Active(k) # {}
          /\ row' = [d \in Change |-> IF d \in Active(k) THEN "revoked" ELSE row[d]]
      BY <3>3, <3>4, ApproveEffect DEF TypeInv
    <3>6. Rows(k)' # {}
      BY <3>5, RowsKept DEF Active
    <3>7. ASSUME NEW d \in Active(k)' PROVE FALSE
      <4>1. d \in Rows(k)' /\ d \in Change /\ row'[d] = "active"
        BY DEF Active, Rows
      <4>2. d \notin Active(k)
        BY <3>5, <4>1
      <4>3. MayInsert(k)
        BY <4>1, <4>2, RowsAfter
      <4>. QED
        BY <3>5, <4>3 DEF MayInsert, Active
    <3>. QED
      BY <3>6, <3>7
  <2>. QED
    BY <2>1, <2>2
<1>. QED
  BY <1>2, <1>3, <1>4

LEMMA RowInit == Init => RowInv
BY DEF Init, RowInv, OneCapabilityRow, OneKeyRow, RevokedKeepsRow, Active, Rows

LEMMA RowAlways == Spec => []RowInv
<1>1. TypeInv /\ RowInv /\ [Next]_vars => RowInv'
  BY RowStep
<1>. QED
  BY <1>1, RowInit, TypeAlways, PTL DEF Spec

LEMMA AtMostOne ==
    ASSUME NEW S, \A x, y \in S : x = y
    PROVE  Cardinality(S) <= 1
<1>1. CASE S = {}
  BY <1>1, FS_EmptySet
<1>2. ASSUME NEW x \in S PROVE Cardinality(S) <= 1
  <2>1. S = {x}
    OBVIOUS
  <2>. QED
    BY <2>1, FS_Singleton
<1>. QED
  BY <1>1, <1>2

(* A capability never has two active registrations and a key id never two  *)
(* rows, however proposals and approvals race: the check that counts is    *)
(* the one of the approving transaction.                                   *)
THEOREM OneActiveRow == Spec => []OneActive
<1>1. RowInv => OneActive
  BY AtMostOne DEF RowInv, OneCapabilityRow, OneKeyRow, OneActive
<1>. QED
  BY <1>1, RowAlways, PTL

(* A key revoked in the registry or in code is never active again, unless  *)
(* a deploy lists it so: its row keeps the key id from being added again.  *)
THEOREM RevokedKeyStaysRefused == Spec => []RevokedKeyRefused
<1>1. ASSUME TypeInv, RowInv PROVE RevokedKeyRefused
  <2>. SUFFICES ASSUME NEW k \in Issuer, ResolveIssuer(k) = "active", code[k] # "active"
                PROVE  /\ code[k] # "revoked"
                       /\ \A c \in Change :
                             /\ change[c] # None /\ change[c].subject = k
                             /\ change[c].status = "APPROVED"
                             => change[c].action = "add"
    BY DEF RevokedKeyRefused
  <2>1. code[k] = "none" /\ Active(k) # {}
    BY DEF ResolveIssuer
  <2>2. ASSUME NEW c \in Change, change[c] # None, change[c].subject = k,
               change[c].status = "APPROVED"
        PROVE  change[c].action = "add"
    <3>1. change[c].action # "revoke"
      BY <1>1, <2>1, <2>2 DEF RowInv, RevokedKeepsRow
    <3>2. change[c] \in Proposal
      BY <1>1, <2>2 DEF TypeInv, TypeOK
    <3>. QED
      BY <3>1, <3>2 DEF Proposal
  <2>. QED
    BY <2>1, <2>2
<1>2. TypeInv /\ RowInv => RevokedKeyRefused
  BY <1>1
<1>. QED
  BY <1>2, TypeAlways, RowAlways, PTL

---------------------------------------------------------------------------
(* Releases.                                                               *)

GoneStaysRevoked == \A c \in run.gone : row[c] = "revoked"
RegIsNotGone == run.at \in {"lookup", "send", "sent"} => run.reg \notin run.gone
SentIsPinned == run.at \in {"send", "sent"} => run.pinned

ReleaseInv == GoneStaysRevoked /\ RegIsNotGone /\ SentIsPinned

LEMMA ReleaseStep == TypeInv /\ ReleaseInv /\ [Next]_vars => ReleaseInv'
<1>. SUFFICES ASSUME TypeInv, ReleaseInv, [Next]_vars PROVE ReleaseInv'
  OBVIOUS
<1>. USE DEF ReleaseInv
<1>1. run \in Release /\ row \in [Change -> {"none", "active", "revoked"}]
  BY DEF TypeInv, TypeOK
<1>2. \A c \in run.gone : c \in Change
  BY <1>1 DEF Release
<1>3. CASE UNCHANGED run
  <2>1. \A c \in run.gone : row'[c] = "revoked"
    BY <1>2, RowKept DEF GoneStaysRevoked
  <2>. QED
    BY <1>3, <2>1 DEF GoneStaysRevoked, RegIsNotGone, SentIsPinned
<1>4. CASE run' = Idle
  BY <1>4 DEF Idle, GoneStaysRevoked, RegIsNotGone, SentIsPinned
<1>5. ASSUME NEW s \in Capability, Decide(s) PROVE ReleaseInv'
  <2>1. run'.at = "resolve" /\ run'.gone = Rows(s) \ Active(s)
    BY <1>5 DEF Decide, Update, Idle
  <2>2. \A c \in Rows(s) \ Active(s) : row[c] = "revoked"
    BY <1>1 DEF Rows, Active
  <2>3. UNCHANGED row
    BY <1>5 DEF Decide, regVars
  <2>. QED
    BY <2>1, <2>2, <2>3 DEF GoneStaysRevoked, RegIsNotGone, SentIsPinned
<1>6. CASE ResolveCapability
  <2>1. ASSUME NEW c \in Active(run.subject), run' = [run EXCEPT !.at = "lookup", !.reg = c]
        PROVE  ReleaseInv'
    <3>1. run'.at = "lookup" /\ run'.reg = c /\ run'.gone = run.gone
      BY <1>1, <2>1 DEF Release
    <3>2. row[c] = "active" /\ c \notin run.gone
      BY DEF Active, GoneStaysRevoked
    <3>3. UNCHANGED row
      BY <1>6 DEF ResolveCapability, regVars
    <3>. QED
      BY <3>1, <3>2, <3>3 DEF GoneStaysRevoked, RegIsNotGone, SentIsPinned
  <2>. QED
    BY <1>4, <1>6, <2>1 DEF ResolveCapability, Update
<1>7. CASE LookUp \/ Send
  <2>1. UNCHANGED row
    BY <1>7 DEF LookUp, Send, regVars
  <2>2. CASE run.at = "lookup" /\ run' = [run EXCEPT !.at = "send", !.pinned = TRUE]
    <3>1. run'.at = "send" /\ run'.pinned /\ run'.reg = run.reg /\ run'.gone = run.gone
      BY <1>1, <2>2 DEF Release
    <3>. QED
      BY <2>1, <2>2, <3>1 DEF GoneStaysRevoked, RegIsNotGone, SentIsPinned
  <2>3. CASE run.at = "send" /\ run' = [run EXCEPT !.at = "sent"]
    <3>1. /\ run'.at = "sent" /\ run'.pinned = run.pinned /\ run'.reg = run.reg
          /\ run'.gone = run.gone
      BY <1>1, <2>3 DEF Release
    <3>. QED
      BY <2>1, <2>3, <3>1 DEF GoneStaysRevoked, RegIsNotGone, SentIsPinned
  <2>. QED
    BY <1>4, <1>7, <2>2, <2>3 DEF LookUp, Send, Update
<1>. QED
  BY <1>3, <1>4, <1>5, <1>6, <1>7 DEF Next, vars, HandlerStep, Propose, CheckEndpoint, Create,
     Receive, StepUp, RecheckEndpoint, ResolveChange, Finish, Update, Deploy, MoveHost

LEMMA ReleaseInit == Init => ReleaseInv
BY DEF Init, Idle, ReleaseInv, GoneStaysRevoked, RegIsNotGone, SentIsPinned

LEMMA ReleaseAlways == Spec => []ReleaseInv
<1>1. TypeInv /\ ReleaseInv /\ [Next]_vars => ReleaseInv'
  BY ReleaseStep
<1>. QED
  BY <1>1, ReleaseInit, TypeAlways, PTL DEF Spec

(* A release goes to an address that was found public, through a           *)
(* registration that was not revoked when the request was decided: the     *)
(* registration is read again at the release, and a revoked row stays so.  *)
THEOREM ReleasedToLive == Spec => []ReleaseToLiveEndpoint
<1>1. ReleaseInv => ReleaseToLiveEndpoint
  BY DEF ReleaseInv, RegIsNotGone, SentIsPinned, ReleaseToLiveEndpoint
<1>. QED
  BY <1>1, ReleaseAlways, PTL

=========================================================================

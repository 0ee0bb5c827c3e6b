---------------------- MODULE PolicyGovernanceProofs ----------------------
(***************************************************************************)
(* Proofs about PolicyGovernance, for any number of humans, versions,      *)
(* changes, approve and reject requests and executions, any number of      *)
(* faults, and with or without edits outside the governed flow.            *)
(***************************************************************************)
EXTENDS PolicyGovernance, TLAPS, WellFoundedInduction

---------------------------------------------------------------------------
(* Type correctness.  That a handler's job is a request and that a change  *)
(* it names was proposed is part of it: without them a record need not be  *)
(* of its type.  So is that the clock bounds the timestamps: without it    *)
(* the newest of the records need not exist.                               *)

Working == \A h \in Handler : pc[h] # "idle" =>
               job[h] \in Job /\ status[job[h].change] # "NONE"
Proposed == \A c \in Change : status[c] # "NONE" =>
               maker[c] \in Human /\ base[c] \in Version /\ target[c] \in Version
(* Draft takes approvedAt from the clock, so the clock bounds them all. *)
Timed == /\ \A h \in Handler : at[h] <= clock
         /\ \A i \in DOMAIN records : records[i].at <= clock
TypeInv == TypeOK /\ Working /\ Proposed /\ Timed

Place == {"idle", "find", "stepup", "prior", "draft", "create", "save",
          "status", "resolve"} \cup Over

LEMMA TypeInit == Init => TypeInv
<1>. SUFFICES ASSUME Init PROVE TypeInv
  OBVIOUS
<1>1. records \in Seq(ApprovalRecord)
  BY DEF Init
<1>. QED
  BY <1>1, GovernanceAssumption DEF Init, TypeInv, TypeOK, Working, Proposed, Timed, Over, Status

LEMMA GotoType ==
    ASSUME TypeOK, NEW h \in Handler, NEW label \in Place, Goto(h, label)
    PROVE  pc' \in [Handler -> Place]
BY DEF TypeOK, Goto, Place, Over

LEMMA FaultType ==
    ASSUME TypeOK, Fault \/ NoFault
    PROVE  faults' \in 0 .. MaxFaults
BY GovernanceAssumption DEF TypeOK, Fault, NoFault

(* A proposal is immutable: nothing but the resolution of its status       *)
(* changes after it was created.                                           *)
LEMMA ProposalFixed ==
    ASSUME TypeInv, [Next]_vars, NEW c \in Change, status[c] # "NONE"
    PROVE  /\ status'[c] # "NONE"
           /\ maker'[c] = maker[c] /\ base'[c] = base[c] /\ target'[c] = target[c]
<1>. USE DEF TypeInv, TypeOK, changeVars, handlerVars, runVars, storeVars
<1>1. ASSUME NEW d \in Change, NEW m \in Human, NEW b \in Version, NEW t \in Version,
             Propose(d, m, b, t)
      PROVE  /\ status'[c] # "NONE"
             /\ maker'[c] = maker[c] /\ base'[c] = base[c] /\ target'[c] = target[c]
  BY <1>1 DEF Propose, CreateChange
<1>2. ASSUME NEW h \in Handler, ResolveChange(h)
      PROVE  /\ status'[c] # "NONE"
             /\ maker'[c] = maker[c] /\ base'[c] = base[c] /\ target'[c] = target[c]
  BY <1>2 DEF ResolveChange, UpdateStatus, Outcome
<1>3. CASE UNCHANGED changeVars
  BY <1>3
<1>. QED
  BY <1>1, <1>2, <1>3 DEF Next, vars, HandlerStep, Receive, FindChange, RequireStepUp,
     ReadPrior, Draft, CreateRecord, SavePolicy, ReadStatus, Crash, EditOutside,
     LoadPolicy, VerifyRecord, VerifyLatest

(* A handler moves by its own steps only.                                  *)
LEMMA Moves ==
    ASSUME TypeInv, [Next]_vars, NEW h \in Handler
    PROVE  \/ pc'[h] = pc[h] /\ job'[h] = job[h]
           \/ \E c \in Change, a \in {"approve", "reject"}, m \in Human : Receive(h, c, a, m)
           \/ HandlerStep(h) \/ Crash(h)
<1>. DEFINE Same == pc'[h] = pc[h] /\ job'[h] = job[h]
<1>. USE DEF TypeInv, TypeOK, changeVars, handlerVars, runVars, storeVars
<1>1. CASE UNCHANGED <<pc, job>>
  BY <1>1
<1>2. ASSUME NEW g \in Handler, NEW c \in Change, NEW a \in {"approve", "reject"},
             NEW m \in Human, Receive(g, c, a, m), g # h
      PROVE  Same
  BY <1>2 DEF Receive, Goto
<1>3. ASSUME NEW g \in Handler, HandlerStep(g) \/ Crash(g), g # h
      PROVE  Same
  BY <1>3 DEF HandlerStep, FindChange, RequireStepUp, ReadPrior, Draft, CreateRecord,
     SavePolicy, ReadStatus, ResolveChange, Crash, Goto
<1>4. CASE \/ UNCHANGED vars
           \/ \E c \in Change, m \in Human, b \in Version, t \in Version : Propose(c, m, b, t)
           \/ \E v \in Version : EditOutside(v)
           \/ \E e \in Execution, v \in Version : LoadPolicy(e, v)
           \/ \E e \in Execution : VerifyRecord(e) \/ VerifyLatest(e)
  BY <1>4 DEF vars, Propose, EditOutside, LoadPolicy, VerifyRecord, VerifyLatest
<1>5. CASE \E g \in Handler, c \in Change, a \in {"approve", "reject"}, m \in Human :
              Receive(g, c, a, m)
  BY <1>5, <1>2
<1>6. CASE \E g \in Handler : HandlerStep(g) \/ Crash(g)
  BY <1>6, <1>3
<1>. QED
  BY <1>4, <1>5, <1>6 DEF Next

(* A handler keeps the request it was started for.                         *)
LEMMA JobFixed ==
    ASSUME TypeInv, [Next]_vars, NEW h \in Handler, pc[h] # "idle"
    PROVE  job'[h] = job[h]
<1>. USE DEF TypeInv, TypeOK, changeVars, handlerVars, runVars, storeVars
<1>1. ASSUME NEW g \in Handler, NEW c \in Change, NEW a \in {"approve", "reject"},
             NEW m \in Human, Receive(g, c, a, m)
      PROVE  job'[h] = job[h]
  BY <1>1 DEF Receive
<1>2. CASE UNCHANGED job
  BY <1>2
<1>. QED
  BY <1>1, <1>2 DEF Next, vars, HandlerStep, Propose, FindChange, RequireStepUp,
     ReadPrior, Draft, CreateRecord, SavePolicy, ReadStatus, ResolveChange, Crash,
     EditOutside, LoadPolicy, VerifyRecord, VerifyLatest

---------------------------------------------------------------------------
(* The approval records: a log that only grows, and the query for the one  *)
(* with the latest timestamp.                                              *)

LEMMA RecordType ==
    ASSUME TypeInv
    PROVE  \A i \in DOMAIN records : records[i] \in ApprovalRecord /\ i \in Nat
BY DEF TypeInv, TypeOK

LEMMA NewRecordType ==
    ASSUME TypeInv, NEW h \in Handler, pc[h] # "idle"
    PROVE  NewRecord(h) \in ApprovalRecord
<1>1. job[h] \in Job /\ target[job[h].change] \in Version
  BY DEF TypeInv, Working, Proposed, Job
<1>2. at[h] \in Nat /\ prev[h] \in Nat
  BY DEF TypeInv, TypeOK
<1>. QED
  BY <1>1, <1>2 DEF NewRecord, ApprovalRecord, Job

LEMMA RecordAdded ==
    ASSUME TypeInv, NEW h \in Handler, pc[h] # "idle",
           records' = Append(records, NewRecord(h))
    PROVE  /\ records' \in Seq(ApprovalRecord)
           /\ Len(records') = Len(records) + 1
           /\ \A i \in DOMAIN records : i \in DOMAIN records' /\ records'[i] = records[i]
           /\ Len(records) + 1 \in DOMAIN records'
           /\ records'[Len(records) + 1] = NewRecord(h)
           /\ \A i \in DOMAIN records' : i \in DOMAIN records \/ i = Len(records) + 1
<1>1. NewRecord(h) \in ApprovalRecord
  BY NewRecordType
<1>2. records \in Seq(ApprovalRecord)
  BY DEF TypeInv, TypeOK
<1>. DEFINE r == NewRecord(h)
<1>. HIDE DEF r
<1>3. r \in ApprovalRecord /\ records' = Append(records, r)
  BY <1>1 DEF r
<1>4. /\ records' \in Seq(ApprovalRecord)
      /\ Len(records') = Len(records) + 1
      /\ \A i \in DOMAIN records : i \in DOMAIN records' /\ records'[i] = records[i]
      /\ Len(records) + 1 \in DOMAIN records'
      /\ records'[Len(records) + 1] = r
      /\ \A i \in DOMAIN records' : i \in DOMAIN records \/ i = Len(records) + 1
  BY <1>2, <1>3
<1>. QED
  BY <1>4 DEF r

(* A step either adds the record of a handler that is at "create", or      *)
(* leaves the records alone.                                               *)
LEMMA RecordsChange ==
    ASSUME [Next]_vars
    PROVE  \/ UNCHANGED records
           \/ \E h \in Handler : /\ CreateRecord(h)
                                 /\ records' = Append(records, NewRecord(h))
BY DEF Next, vars, HandlerStep, Propose, Receive, FindChange, RequireStepUp,
   ReadPrior, Draft, CreateRecord, SavePolicy, ReadStatus, ResolveChange, Crash,
   EditOutside, LoadPolicy, VerifyRecord, VerifyLatest,
   changeVars, handlerVars, runVars, storeVars

LEMMA RecordsKept ==
    ASSUME TypeInv, [Next]_vars
    PROVE  /\ records' \in Seq(ApprovalRecord)
           /\ Len(records) <= Len(records')
           /\ \A i \in DOMAIN records : i \in DOMAIN records' /\ records'[i] = records[i]
<1>1. records \in Seq(ApprovalRecord) /\ Len(records) \in Nat
  BY DEF TypeInv, TypeOK
<1>2. CASE UNCHANGED records
  BY <1>1, <1>2
<1>3. ASSUME NEW h \in Handler, CreateRecord(h), records' = Append(records, NewRecord(h))
      PROVE  /\ records' \in Seq(ApprovalRecord)
             /\ Len(records) <= Len(records')
             /\ \A i \in DOMAIN records : i \in DOMAIN records' /\ records'[i] = records[i]
  <2>1. pc[h] # "idle"
    BY <1>3 DEF CreateRecord
  <2>. QED
    BY <1>1, <1>3, <2>1, RecordAdded
<1>. QED
  BY <1>2, <1>3, RecordsChange

(* A non-empty set of naturals has a least element.                        *)
LEMMA LeastNat ==
    ASSUME NEW T \in SUBSET Nat, T # {}
    PROVE  \E x \in T : \A y \in T : x <= y
<1>. DEFINE R == OpToRel(<, Nat)
<1>1. PICK x \in T : \A y \in T : ~ (<<y, x>> \in R)
  <2>1. T \subseteq Nat
    OBVIOUS
  <2>2. IsWellFoundedOn(R, Nat)
    BY NatLessThanWellFounded
  <2>. HIDE DEF R
  <2>. QED
    BY <2>1, <2>2, WFMin
<1>2. ASSUME NEW y \in T PROVE x <= y
  <2>1. x \in Nat /\ y \in Nat
    OBVIOUS
  <2>2. ~ (y < x)
    BY <1>1, <2>1 DEF OpToRel
  <2>. QED
    BY <2>1, <2>2
<1>. QED
  BY <1>2

(* The query finds a record whenever there is one, and none is newer.      *)
LEMMA NewestIsNewest ==
    ASSUME TypeInv, NEW S \in SUBSET DOMAIN records, S # {}
    PROVE  /\ Newest(S) \in S
           /\ \A j \in S : records[j].at <= records[Newest(S)].at
<1>1. \A i \in DOMAIN records : records[i].at \in Nat /\ records[i].at <= clock
  BY RecordType DEF TypeInv, Timed, ApprovalRecord
<1>. DEFINE Age(i) == clock - records[i].at
            T == {Age(i) : i \in S}
<1>2. clock \in Nat /\ \A i \in S : Age(i) \in Nat
  BY <1>1 DEF TypeInv, TypeOK
<1>3. T \in SUBSET Nat /\ T # {}
  BY <1>2
<1>4. PICK x \in T : \A y \in T : x <= y
  <2>. HIDE DEF T
  <2>. QED BY <1>3, LeastNat
<1>5. PICK i \in S : x = Age(i)
  OBVIOUS
<1>6. \A j \in S : records[j].at <= records[i].at
  <2>1. ASSUME NEW j \in S PROVE records[j].at <= records[i].at
    <3>1. Age(i) <= Age(j)
      BY <1>4, <1>5
    <3>. QED
      BY <1>1, <1>2, <3>1
  <2>. QED
    BY <2>1
<1>. QED
  BY <1>6 DEF Newest

LEMMA FoundIsNewest ==
    ASSUME TypeInv, NEW v
    PROVE  /\ FindMostRecentFor(v) \in Nat
           /\ FindMostRecentFor(v) # 0 =>
                 /\ FindMostRecentFor(v) \in DOMAIN records
                 /\ records[FindMostRecentFor(v)].version = v
<1>. DEFINE S == {i \in DOMAIN records : records[i].version = v}
<1>1. FindMostRecentFor(v) = Newest(S)
  BY DEF FindMostRecentFor
<1>2. CASE S = {}
  BY <1>1, <1>2 DEF Newest
<1>3. CASE S # {}
  <2>1. S \in SUBSET DOMAIN records
    OBVIOUS
  <2>2. Newest(S) \in S
    <3>. HIDE DEF S
    <3>. QED BY <1>3, <2>1, NewestIsNewest
  <2>. QED
    BY <1>1, <2>2, RecordType
<1>. QED
  BY <1>2, <1>3

---------------------------------------------------------------------------
(* The types are kept.                                                     *)

LEMMA TypeStep == TypeInv /\ [Next]_vars => TypeInv'
<1>. SUFFICES ASSUME TypeInv, [Next]_vars PROVE TypeInv'
  OBVIOUS
<1>. USE DEF changeVars, handlerVars, runVars, storeVars
<1>1. TypeOK'
  <2>. USE DEF TypeInv
  <2>1. CASE UNCHANGED vars
    BY <2>1 DEF vars, TypeOK
  <2>2. ASSUME NEW c \in Change, NEW m \in Human, NEW b \in Version, NEW t \in Version,
               Propose(c, m, b, t)
        PROVE  TypeOK'
    BY <2>2 DEF Propose, CreateChange, TypeOK, Status
  <2>3. ASSUME NEW h \in Handler, NEW c \in Change, NEW a \in {"approve", "reject"},
               NEW m \in Human, Receive(h, c, a, m)
        PROVE  TypeOK'
    <3>1. pc' \in [Handler -> Place]
      BY <2>3, GotoType DEF Receive, Place
    <3>2. job' \in [Handler -> Job \cup {None}]
      BY <2>3 DEF Receive, TypeOK, Job
    <3>. QED
      BY <2>3, <3>1, <3>2 DEF Receive, TypeOK, Place
  <2>4. ASSUME NEW h \in Handler, HandlerStep(h) \/ Crash(h)
        PROVE  TypeOK'
    <3>1. CASE FindChange(h) \/ ReadStatus(h) \/ Crash(h)
      <4>1. pc' \in [Handler -> Place] /\ faults' \in 0 .. MaxFaults
        BY <3>1, GotoType, FaultType DEF FindChange, ReadStatus, Crash, Place, Over
      <4>. QED
        BY <3>1, <4>1 DEF FindChange, ReadStatus, Crash, TypeOK, Place
    <3>2. CASE RequireStepUp(h)
      <4>1. pc' \in [Handler -> Place] /\ faults' \in 0 .. MaxFaults
        BY <3>2, GotoType, FaultType DEF RequireStepUp, Place, Over
      <4>2. nonces' \subseteq Handler
        BY <3>2, ZenonT(60) DEF RequireStepUp, TypeOK, Working, Job
      <4>. QED
        BY <3>2, <4>1, <4>2 DEF RequireStepUp, TypeOK, Place
    <3>3. CASE ReadPrior(h)
      <4>1. pc' \in [Handler -> Place] /\ faults' \in 0 .. MaxFaults
        BY <3>3, GotoType, FaultType DEF ReadPrior, Place, Over
      <4>2. prev' \in [Handler -> Nat]
        <5>1. FindMostRecentFor(target[job[h].change]) \in Nat
          BY FoundIsNewest
        <5>. QED
          BY <3>3, <5>1 DEF ReadPrior, TypeOK
      <4>. QED
        BY <3>3, <4>1, <4>2 DEF ReadPrior, TypeOK, Place
    <3>4. CASE Draft(h)
      <4>1. pc' \in [Handler -> Place] /\ faults' \in 0 .. MaxFaults
        BY <3>4, GotoType, FaultType DEF Draft, Place, Over
      <4>2. clock' \in Nat /\ at' \in [Handler -> Nat]
        BY <3>4 DEF Draft, TypeOK
      <4>. QED
        BY <3>4, <4>1, <4>2 DEF Draft, TypeOK, Place
    <3>5. CASE CreateRecord(h)
      <4>1. pc' \in [Handler -> Place] /\ faults' \in 0 .. MaxFaults
        BY <3>5, GotoType, FaultType DEF CreateRecord, Place, Over
      <4>2. records' \in Seq(ApprovalRecord)
        BY RecordsKept
      <4>. QED
        BY <3>5, <4>1, <4>2 DEF CreateRecord, TypeOK, Place
    <3>6. CASE SavePolicy(h)
      <4>1. pc' \in [Handler -> Place] /\ faults' \in 0 .. MaxFaults
        BY <3>6, GotoType, FaultType DEF SavePolicy, Place, Over
      <4>2. live' \in [Version -> Change \cup {None, Edited}]
        BY <3>6 DEF SavePolicy, TypeOK, Working, Job
      <4>. QED
        BY <3>6, <4>1, <4>2 DEF SavePolicy, TypeOK, Place
    <3>7. CASE ResolveChange(h)
      <4>1. pc' \in [Handler -> Place] /\ faults' \in 0 .. MaxFaults
        BY <3>7, GotoType, FaultType DEF ResolveChange, Place, Over
      <4>2. status' \in [Change -> Status \cup {"NONE"}]
        BY <3>7 DEF ResolveChange, UpdateStatus, Outcome, TypeOK, Status
      <4>. QED
        BY <3>7, <4>1, <4>2 DEF ResolveChange, TypeOK, Place
    <3>. QED
      BY <2>4, <3>1, <3>2, <3>3, <3>4, <3>5, <3>6, <3>7 DEF HandlerStep
  <2>5. ASSUME NEW v \in Version, EditOutside(v)
        PROVE  TypeOK'
    BY <2>5 DEF EditOutside, TypeOK
  <2>6. ASSUME NEW e \in Execution, NEW v \in Version, LoadPolicy(e, v)
        PROVE  TypeOK'
    <3>1. Len(records) \in Nat
      BY DEF TypeOK
    <3>2. from' \in [Execution -> Nat]
      BY <2>6, <3>1 DEF LoadPolicy, TypeOK
    <3>. QED
      BY <2>6, <3>2 DEF LoadPolicy, TypeOK
  <2>7. ASSUME NEW e \in Execution, VerifyRecord(e) \/ VerifyLatest(e)
        PROVE  TypeOK'
    BY <2>7 DEF VerifyRecord, VerifyLatest, Proceed, TypeOK
  <2>. QED
    BY <2>1, <2>2, <2>3, <2>4, <2>5, <2>6, <2>7 DEF Next
<1>2. Working'
  <2>. SUFFICES ASSUME NEW h \in Handler, pc'[h] # "idle"
                PROVE  job'[h] \in Job /\ status'[job'[h].change] # "NONE"
    BY DEF Working
  <2>1. CASE pc[h] # "idle"
    <3>1. job[h] \in Job /\ status[job[h].change] # "NONE" /\ job[h].change \in Change
      BY <2>1 DEF TypeInv, Working, Job
    <3>. QED
      BY <2>1, <3>1, JobFixed, ProposalFixed
  <2>2. CASE pc[h] = "idle"
    <3>1. PICK c \in Change, a \in {"approve", "reject"}, m \in Human : Receive(h, c, a, m)
      BY <2>2, Moves DEF HandlerStep, FindChange, RequireStepUp, ReadPrior, Draft,
         CreateRecord, SavePolicy, ReadStatus, ResolveChange, Crash
    <3>2. job'[h] \in Job /\ job'[h].change = c
      BY <3>1 DEF Receive, Job, TypeInv, TypeOK
    <3>. QED
      BY <3>1, <3>2 DEF Receive
  <2>. QED
    BY <2>1, <2>2
<1>3. Proposed'
  <2>. SUFFICES ASSUME NEW c \in Change, status'[c] # "NONE"
                PROVE  maker'[c] \in Human /\ base'[c] \in Version /\ target'[c] \in Version
    BY DEF Proposed
  <2>1. CASE status[c] # "NONE"
    BY <2>1, ProposalFixed DEF TypeInv, Proposed
  <2>2. CASE status[c] = "NONE"
    <3>1. CASE \E d \in Change, m \in Human, b \in Version, t \in Version :
                 Propose(d, m, b, t)
      BY <2>2, <3>1 DEF Propose, CreateChange, TypeInv, TypeOK
    <3>2. CASE \E h \in Handler : ResolveChange(h)
      BY <2>2, <3>2 DEF ResolveChange, UpdateStatus, TypeInv, TypeOK
    <3>3. CASE UNCHANGED changeVars
      BY <2>2, <3>3 DEF TypeInv, Proposed
    <3>. QED
      BY <3>1, <3>2, <3>3 DEF Next, vars, HandlerStep, Receive, FindChange, RequireStepUp,
         ReadPrior, Draft, CreateRecord, SavePolicy, ReadStatus, Crash, EditOutside,
         LoadPolicy, VerifyRecord, VerifyLatest
  <2>. QED
    BY <2>1, <2>2
<1>4. Timed'
  <2>1. clock \in Nat /\ at \in [Handler -> Nat]
    BY DEF TypeInv, TypeOK
  <2>2. clock' \in Nat /\ clock <= clock'
    BY <2>1 DEF Next, vars, HandlerStep, Propose, Receive, FindChange, RequireStepUp,
       ReadPrior, Draft, CreateRecord, SavePolicy, ReadStatus, ResolveChange, Crash,
       EditOutside, LoadPolicy, VerifyRecord, VerifyLatest
  <2>3. ASSUME NEW h \in Handler PROVE at'[h] <= clock'
    <3>1. at[h] \in Nat /\ at[h] <= clock
      BY DEF TypeInv, TypeOK, Timed
    <3>2. CASE \E g \in Handler : Draft(g)
      <4>1. at'[h] = at[h] \/ at'[h] = clock'
        BY <2>1, <3>2 DEF Draft
      <4>. QED
        BY <2>1, <2>2, <3>1, <4>1
    <3>3. CASE UNCHANGED at
      BY <2>1, <2>2, <3>1, <3>3
    <3>. QED
      BY <3>2, <3>3 DEF Next, vars, HandlerStep, Propose, Receive, FindChange, RequireStepUp,
         ReadPrior, CreateRecord, SavePolicy, ReadStatus, ResolveChange, Crash,
         EditOutside, LoadPolicy, VerifyRecord, VerifyLatest
  <2>4. ASSUME NEW i \in DOMAIN records' PROVE records'[i].at <= clock'
    <3>1. CASE UNCHANGED records
      <4>1. records[i].at \in Nat /\ records[i].at <= clock
        BY <3>1, RecordType DEF ApprovalRecord, TypeInv, Timed
      <4>. QED
        BY <2>1, <2>2, <3>1, <4>1
    <3>2. ASSUME NEW h \in Handler, CreateRecord(h), records' = Append(records, NewRecord(h))
          PROVE  records'[i].at <= clock'
      <4>1. CASE i \in DOMAIN records
        <5>1. records[i].at \in Nat /\ records[i].at <= clock /\ records'[i] = records[i]
          BY <4>1, RecordType, RecordsKept DEF ApprovalRecord, TypeInv, Timed
        <5>. QED
          BY <2>1, <2>2, <5>1
      <4>2. CASE i = Len(records) + 1
        <5>1. records'[i] = NewRecord(h)
          BY <3>2, <4>2, RecordAdded DEF CreateRecord
        <5>2. records'[i].at = at[h] /\ at[h] <= clock /\ at[h] \in Nat
          BY <2>1, <5>1 DEF NewRecord, TypeInv, Timed
        <5>. QED
          BY <2>1, <2>2, <5>2
      <4>. QED
        BY <3>2, <4>1, <4>2, RecordAdded DEF CreateRecord
    <3>. QED
      BY <3>1, <3>2, RecordsChange
  <2>. QED
    BY <2>3, <2>4 DEF Timed
<1>. QED
  BY <1>1, <1>2, <1>3, <1>4 DEF TypeInv

LEMMA TypeAlways == Spec => []TypeInv
BY TypeInit, TypeStep, PTL DEF Spec

(* Every variable keeps its type: a handler is always at a step of the     *)
(* approve or reject route, a stored approval record names a change, a     *)
(* version and a human.                                                    *)
THEOREM GovernanceTypes == Spec => []TypeOK
BY TypeAlways, PTL DEF TypeInv

---------------------------------------------------------------------------
(* One step-up signature approves once.  A nonce is consumed before the    *)
(* prior record is read, and only the handler that consumed it goes on.    *)

Spending(h) == pc[h] \in {"prior", "draft", "create"}

NonceOfWork == \A h \in Handler : Spending(h) => job[h].envelope \in nonces
NonceOfRecord == \A i \in DOMAIN records : records[i].envelope \in nonces
OneSpends == \A g, h \in Handler :
    Spending(g) /\ Spending(h) /\ job[g].envelope = job[h].envelope => g = h
NotSpentYet == \A h \in Handler, i \in DOMAIN records :
    Spending(h) => records[i].envelope # job[h].envelope

NonceInv == NonceOfWork /\ NonceOfRecord /\ OneSpends /\ NotSpentYet /\ EnvelopeApprovesOnce

LEMMA NewRecordOf ==
    ASSUME TypeInv, [Next]_vars, NEW i \in DOMAIN records'
    PROVE  \/ i \in DOMAIN records /\ records'[i] = records[i]
           \/ /\ i = Len(records) + 1
              /\ \E h \in Handler : CreateRecord(h) /\ records'[i] = NewRecord(h)
<1>1. CASE UNCHANGED records
  BY <1>1
<1>2. ASSUME NEW h \in Handler, CreateRecord(h), records' = Append(records, NewRecord(h))
      PROVE  \/ i \in DOMAIN records /\ records'[i] = records[i]
             \/ i = Len(records) + 1 /\ records'[i] = NewRecord(h)
  BY <1>2, RecordAdded DEF CreateRecord
<1>. QED
  BY <1>1, <1>2, RecordsChange

LEMMA SpendingStep ==
    ASSUME TypeInv, [Next]_vars, NEW h \in Handler, Spending(h)'
    PROVE  /\ job'[h] = job[h]
           /\ \/ Spending(h)
              \/ /\ RequireStepUp(h)
                 /\ job[h].envelope \notin nonces /\ job[h].envelope \in nonces'
<1>1. job[h] = job'[h] /\ pc[h] # "idle"
  <2>1. pc[h] # "idle"
    BY Moves, ZenonT(60) DEF Spending, Receive, Goto, HandlerStep, FindChange, RequireStepUp, ReadPrior,
       Draft, CreateRecord, SavePolicy, ReadStatus, ResolveChange, Crash, TypeInv, TypeOK
  <2>. QED
    BY <2>1, JobFixed
<1>2. CASE pc'[h] = pc[h]
  BY <1>1, <1>2 DEF Spending
<1>3. CASE RequireStepUp(h)
  BY <1>1, <1>3 DEF RequireStepUp, Spending, Goto, TypeInv, TypeOK
<1>4. CASE ReadPrior(h) \/ Draft(h)
  BY <1>1, <1>4 DEF ReadPrior, Draft, Spending
<1>5. CASE \/ \E c \in Change, a \in {"approve", "reject"}, m \in Human : Receive(h, c, a, m)
           \/ FindChange(h) \/ CreateRecord(h) \/ SavePolicy(h) \/ ReadStatus(h)
           \/ ResolveChange(h) \/ Crash(h)
  <2>1. pc \in [Handler -> Place]
    BY DEF TypeInv, TypeOK, Place
  <2>2. ~ Spending(h)'
    BY <1>5, <2>1 DEF Receive, FindChange, CreateRecord, SavePolicy, ReadStatus,
       ResolveChange, Crash, Goto, Spending
  <2>. QED
    BY <2>2
<1>. QED
  BY <1>2, <1>3, <1>4, <1>5, Moves DEF HandlerStep

LEMMA NoncesGrow ==
    ASSUME [Next]_vars
    PROVE  nonces \subseteq nonces'
BY DEF Next, vars, HandlerStep, Propose, Receive, FindChange, RequireStepUp,
   ReadPrior, Draft, CreateRecord, SavePolicy, ReadStatus, ResolveChange, Crash,
   EditOutside, LoadPolicy, VerifyRecord, VerifyLatest,
   changeVars, handlerVars, runVars, storeVars

LEMMA NonceStep == TypeInv /\ NonceInv /\ [Next]_vars => NonceInv'
<1>. SUFFICES ASSUME TypeInv, NonceInv, [Next]_vars PROVE NonceInv'
  OBVIOUS
<1>. USE DEF NonceInv
<1>1. NonceOfWork'
  <2>. SUFFICES ASSUME NEW h \in Handler, Spending(h)'
                PROVE  job'[h].envelope \in nonces'
    BY DEF NonceOfWork
  <2>. QED
    BY SpendingStep, NoncesGrow DEF NonceOfWork
<1>2. NonceOfRecord'
  <2>. SUFFICES ASSUME NEW i \in DOMAIN records'
                PROVE  records'[i].envelope \in nonces'
    BY DEF NonceOfRecord
  <2>1. CASE i \in DOMAIN records /\ records'[i] = records[i]
    BY <2>1, NoncesGrow DEF NonceOfRecord
  <2>2. ASSUME NEW h \in Handler, CreateRecord(h), records'[i] = NewRecord(h)
        PROVE  records'[i].envelope \in nonces'
    BY <2>2, NoncesGrow DEF CreateRecord, NewRecord, NonceOfWork, Spending
  <2>. QED
    BY <2>1, <2>2, NewRecordOf
<1>3. OneSpends'
  <2>. SUFFICES ASSUME NEW g \in Handler, NEW h \in Handler, Spending(g)', Spending(h)',
                       job'[g].envelope = job'[h].envelope, g # h
                PROVE  FALSE
    BY DEF OneSpends
  <2>1. job[g].envelope = job[h].envelope
    BY SpendingStep
  <2>2. ~ (Spending(g) /\ Spending(h))
    BY <2>1 DEF OneSpends
  <2>3. ~ (RequireStepUp(g) /\ RequireStepUp(h))
    BY DEF RequireStepUp, Goto, Spending, TypeInv, TypeOK
  <2>4. CASE Spending(g) /\ RequireStepUp(h) /\ job[h].envelope \notin nonces
    BY <2>1, <2>4 DEF NonceOfWork
  <2>5. CASE Spending(h) /\ RequireStepUp(g) /\ job[g].envelope \notin nonces
    BY <2>1, <2>5 DEF NonceOfWork
  <2>. QED
    BY <2>2, <2>3, <2>4, <2>5, SpendingStep
<1>4. NotSpentYet'
  <2>. SUFFICES ASSUME NEW h \in Handler, NEW i \in DOMAIN records', Spending(h)'
                PROVE  records'[i].envelope # job'[h].envelope
    BY DEF NotSpentYet
  <2>1. CASE i \in DOMAIN records /\ records'[i] = records[i]
    BY <2>1, SpendingStep DEF NotSpentYet, NonceOfRecord
  <2>2. ASSUME NEW k \in Handler, CreateRecord(k), records'[i] = NewRecord(k)
        PROVE  records'[i].envelope # job'[h].envelope
    <3>1. Spending(k) /\ ~ Spending(k)' /\ records'[i].envelope = job[k].envelope
      BY <2>2 DEF CreateRecord, Spending, Goto, NewRecord, TypeInv, TypeOK
    <3>2. ~ RequireStepUp(h)
      BY <2>2, <3>1 DEF CreateRecord, RequireStepUp, Goto, Spending, TypeInv, TypeOK
    <3>3. Spending(h) /\ job'[h] = job[h] /\ h # k
      BY <3>1, <3>2, SpendingStep
    <3>. QED
      BY <3>1, <3>3 DEF OneSpends
  <2>. QED
    BY <2>1, <2>2, NewRecordOf
<1>5. EnvelopeApprovesOnce'
  <2>. SUFFICES ASSUME NEW i \in DOMAIN records', NEW j \in DOMAIN records',
                       records'[i].envelope = records'[j].envelope
                PROVE  i = j
    BY DEF EnvelopeApprovesOnce
  <2>1. CASE UNCHANGED records
    BY <2>1 DEF EnvelopeApprovesOnce
  <2>2. ASSUME NEW k \in Handler, CreateRecord(k), records' = Append(records, NewRecord(k))
        PROVE  i = j
    <3>1. Spending(k) /\ NewRecord(k).envelope = job[k].envelope /\ pc[k] # "idle"
      BY <2>2 DEF CreateRecord, Spending, NewRecord
    <3>2. \A n \in DOMAIN records : records'[n].envelope # NewRecord(k).envelope
      BY <3>1, RecordsKept DEF NotSpentYet
    <3>. QED
      BY <2>2, <3>1, <3>2, RecordAdded DEF EnvelopeApprovesOnce
  <2>. QED
    BY <2>1, <2>2, RecordsChange
<1>. QED
  BY <1>1, <1>2, <1>3, <1>4, <1>5

LEMMA NonceInit == Init => NonceInv
BY DEF Init, NonceInv, NonceOfWork, NonceOfRecord, OneSpends, NotSpentYet,
   EnvelopeApprovesOnce, Spending

LEMMA NonceAlways == Spec => []NonceInv
<1>1. TypeInv /\ NonceInv /\ [Next]_vars => NonceInv'
  BY NonceStep
<1>. QED
  BY <1>1, NonceInit, TypeAlways, PTL DEF Spec

(* One step-up signature is behind at most one approval record, however    *)
(* often the request that carries it is sent and whichever handlers it     *)
(* meets on the way: requireStepUpApproval consumes its nonce before the   *)
(* approval service reads anything.                                        *)
THEOREM SignatureApprovesOnce == Spec => []EnvelopeApprovesOnce
BY NonceAlways, PTL DEF NonceInv

---------------------------------------------------------------------------
(* The records back the live policies and the change table.                *)

(* The checker is not the maker, from the check to the end. *)
Checked == \A h \in Handler :
    pc[h] \in {"stepup", "prior", "draft", "create", "save", "status", "resolve"} =>
        maker[job[h].change] # job[h].by
Approves == \A h \in Handler :
    pc[h] \in {"prior", "draft", "create", "save"} => job[h].action = "approve"

(* There is a record of m approving change c for version v. *)
Recorded(c, v, m) == \E i \in DOMAIN records :
    records[i].change = c /\ records[i].version = v /\ records[i].by = m

(* The live policy is written and the change resolved after the record. *)
RecordFirst == \A h \in Handler :
    \/ pc[h] = "save"
    \/ pc[h] \in {"status", "resolve"} /\ job[h].action = "approve"
    => Recorded(job[h].change, target[job[h].change], job[h].by)
LiveIsProposed == \A v \in Version : live[v] \in Change => status[live[v]] # "NONE"

BackInv == Checked /\ Approves /\ RecordFirst /\ LiveIsProposed /\ RecordsBackState

LEMMA RecordedKept ==
    ASSUME TypeInv, [Next]_vars, NEW c, NEW v, NEW m, Recorded(c, v, m)
    PROVE  \E i \in DOMAIN records' :
               records'[i].change = c /\ records'[i].version = v /\ records'[i].by = m
BY RecordsKept DEF Recorded

LEMMA BackStep == TypeInv /\ BackInv /\ [Next]_vars => BackInv'
<1>. SUFFICES ASSUME TypeInv, BackInv, [Next]_vars PROVE BackInv'
  OBVIOUS
<1>. USE DEF BackInv
<1>1. pc \in [Handler -> Place]
  BY DEF TypeInv, TypeOK, Place
(* A handler that has begun keeps its request, and the proposal is fixed. *)
<1>2. ASSUME NEW h \in Handler, pc[h] # "idle"
      PROVE  /\ job'[h] = job[h] /\ job[h].change \in Change /\ job[h] \in Job
             /\ maker'[job[h].change] = maker[job[h].change]
             /\ target'[job[h].change] = target[job[h].change]
             /\ target[job[h].change] \in Version
             /\ status[job[h].change] # "NONE"
  <2>1. job[h] \in Job /\ job[h].change \in Change /\ status[job[h].change] # "NONE"
    BY <1>2 DEF TypeInv, Working, Job
  <2>. QED
    BY <1>2, <2>1, JobFixed, ProposalFixed DEF TypeInv, Proposed
<1>3. ASSUME NEW h \in Handler, pc'[h] \notin {"idle", "find"}
      PROVE  pc[h] # "idle"
  BY <1>1, <1>3, Moves DEF Receive, Goto, HandlerStep, FindChange, RequireStepUp, ReadPrior,
     Draft, CreateRecord, SavePolicy, ReadStatus, ResolveChange, Crash
<1>4. Checked'
  <2>. SUFFICES ASSUME NEW h \in Handler,
                       pc'[h] \in {"stepup", "prior", "draft", "create", "save",
                                   "status", "resolve"}
                PROVE  maker'[job'[h].change] # job'[h].by
    BY DEF Checked
  <2>1. pc[h] # "idle"
    BY <1>3
  <2>2. maker[job[h].change] # job[h].by
    <3>1. CASE pc'[h] = pc[h]
      BY <3>1 DEF Checked
    <3>2. CASE FindChange(h)
      BY <1>1, <3>2 DEF FindChange, Goto
    <3>3. CASE \/ RequireStepUp(h) \/ ReadPrior(h) \/ Draft(h) \/ CreateRecord(h)
               \/ SavePolicy(h) \/ ReadStatus(h) \/ ResolveChange(h)
      BY <3>3 DEF RequireStepUp, ReadPrior, Draft, CreateRecord, SavePolicy, ReadStatus,
         ResolveChange, Checked
    <3>4. CASE Crash(h)
      BY <1>1, <3>4 DEF Crash, Goto
    <3>. QED
      BY <2>1, <3>1, <3>2, <3>3, <3>4, Moves DEF HandlerStep, Receive
  <2>. QED
    BY <1>2, <2>1, <2>2
<1>5. Approves'
  <2>. SUFFICES ASSUME NEW h \in Handler, pc'[h] \in {"prior", "draft", "create", "save"}
                PROVE  job'[h].action = "approve"
    BY DEF Approves
  <2>1. pc[h] # "idle"
    BY <1>3
  <2>2. job[h].action = "approve"
    <3>1. CASE pc'[h] = pc[h]
      BY <3>1 DEF Approves
    <3>2. CASE RequireStepUp(h)
      BY <1>1, <3>2 DEF RequireStepUp, Goto
    <3>3. CASE ReadPrior(h) \/ Draft(h) \/ CreateRecord(h) \/ SavePolicy(h)
      BY <3>3 DEF ReadPrior, Draft, CreateRecord, SavePolicy, Approves
    <3>4. CASE FindChange(h) \/ ReadStatus(h) \/ ResolveChange(h) \/ Crash(h)
      BY <1>1, <3>4 DEF FindChange, ReadStatus, ResolveChange, Crash, Goto
    <3>. QED
      BY <2>1, <3>1, <3>2, <3>3, <3>4, Moves DEF HandlerStep, Receive
  <2>. QED
    BY <1>2, <2>1, <2>2
<1>6. RecordFirst'
  <2>. SUFFICES ASSUME NEW h \in Handler,
                       \/ pc'[h] = "save"
                       \/ pc'[h] \in {"status", "resolve"} /\ job'[h].action = "approve"
                PROVE  \E i \in DOMAIN records' :
                           /\ records'[i].change = job'[h].change
                           /\ records'[i].version = target'[job'[h].change]
                           /\ records'[i].by = job'[h].by
    BY DEF RecordFirst, Recorded
  <2>1. pc[h] # "idle" /\ job'[h] = job[h]
    BY <1>2, <1>3
  <2>2. CASE CreateRecord(h)
    <3>1. records' = Append(records, NewRecord(h))
      BY <1>1, <2>2 DEF CreateRecord, Goto
    <3>2. /\ Len(records) + 1 \in DOMAIN records'
          /\ records'[Len(records) + 1] = NewRecord(h)
      BY <2>1, <3>1, RecordAdded
    <3>3. /\ NewRecord(h).change = job[h].change
          /\ NewRecord(h).version = target[job[h].change]
          /\ NewRecord(h).by = job[h].by
      BY DEF NewRecord
    <3>. QED
      BY <1>2, <2>1, <3>2, <3>3
  <2>3. CASE ~ CreateRecord(h)
    <3>1. Recorded(job[h].change, target[job[h].change], job[h].by)
      <4>1. CASE pc'[h] = pc[h]
        BY <2>1, <4>1 DEF RecordFirst
      <4>2. CASE SavePolicy(h)
        BY <4>2 DEF SavePolicy, RecordFirst
      <4>3. CASE ReadStatus(h) \/ ResolveChange(h)
        BY <1>1, <2>1, <4>3 DEF ReadStatus, ResolveChange, Goto, RecordFirst
      <4>4. CASE RequireStepUp(h)
        BY <1>1, <2>1, <4>4 DEF RequireStepUp, Goto
      <4>5. CASE FindChange(h) \/ ReadPrior(h) \/ Draft(h) \/ Crash(h)
        BY <1>1, <4>5 DEF FindChange, ReadPrior, Draft, Crash, Goto
      <4>. QED
        BY <2>1, <2>3, <4>1, <4>2, <4>3, <4>4, <4>5, Moves DEF HandlerStep, Receive
    <3>. QED
      BY <1>2, <2>1, <3>1, RecordedKept
  <2>. QED
    BY <2>2, <2>3
(* What is live before the step stays as it is, is edited or is saved. *)
<1>7. ASSUME NEW v \in Version, live'[v] \in Change
      PROVE  \/ live'[v] = live[v]
             \/ \E h \in Handler : /\ SavePolicy(h) /\ v = target[job[h].change]
                                   /\ live'[v] = job[h].change
  <2>1. live \in [Version -> Change \cup {None, Edited}]
    BY DEF TypeInv, TypeOK
  <2>2. CASE UNCHANGED live
    BY <2>2
  <2>3. CASE \E w \in Version : EditOutside(w)
    BY <1>7, <2>1, <2>3, GovernanceAssumption DEF EditOutside
  <2>4. ASSUME NEW h \in Handler, SavePolicy(h)
        PROVE  \/ live'[v] = live[v]
               \/ v = target[job[h].change] /\ live'[v] = job[h].change
    BY <2>1, <2>4 DEF SavePolicy
  <2>. QED
    BY <2>2, <2>3, <2>4 DEF Next, vars, HandlerStep, Propose, Receive, FindChange,
       RequireStepUp, ReadPrior, Draft, CreateRecord, ReadStatus, ResolveChange, Crash,
       LoadPolicy, VerifyRecord, VerifyLatest, changeVars, handlerVars, runVars, storeVars
<1>8. LiveIsProposed'
  <2>. SUFFICES ASSUME NEW v \in Version, live'[v] \in Change
                PROVE  status'[live'[v]] # "NONE"
    BY DEF LiveIsProposed
  <2>1. status[live'[v]] # "NONE"
    BY <1>2, <1>7 DEF LiveIsProposed, SavePolicy
  <2>. QED
    BY <2>1, ProposalFixed
<1>9. LiveIsApproved'
  <2>. SUFFICES ASSUME NEW v \in Version, live'[v] \in Change
                PROVE  \E i \in DOMAIN records' :
                           /\ records'[i].change = live'[v] /\ records'[i].version = v
                           /\ records'[i].by # maker'[live'[v]]
    BY DEF LiveIsApproved
  <2>1. status[live'[v]] # "NONE" /\ maker'[live'[v]] = maker[live'[v]]
    <3>1. status[live'[v]] # "NONE"
      BY <1>2, <1>7 DEF LiveIsProposed, SavePolicy
    <3>. QED
      BY <3>1, ProposalFixed
  <2>2. \E i \in DOMAIN records :
            /\ records[i].change = live'[v] /\ records[i].version = v
            /\ records[i].by # maker[live'[v]]
    <3>1. CASE live'[v] = live[v]
      BY <3>1 DEF RecordsBackState, LiveIsApproved
    <3>2. ASSUME NEW h \in Handler, SavePolicy(h), v = target[job[h].change],
                 live'[v] = job[h].change
          PROVE  \E i \in DOMAIN records :
                     /\ records[i].change = live'[v] /\ records[i].version = v
                     /\ records[i].by # maker[live'[v]]
      BY <3>2 DEF SavePolicy, RecordFirst, Recorded, Checked
    <3>. QED
      BY <1>7, <3>1, <3>2
  <2>. QED
    BY <2>1, <2>2, RecordsKept
<1>10. ApprovedIsRecorded'
  <2>. SUFFICES ASSUME NEW c \in Change, status'[c] = "APPROVED"
                PROVE  \E i \in DOMAIN records' : records'[i].change = c
    BY DEF ApprovedIsRecorded
  <2>1. \E i \in DOMAIN records : records[i].change = c
    <3>1. status \in [Change -> Status \cup {"NONE"}]
      BY DEF TypeInv, TypeOK
    <3>2. CASE status[c] = "APPROVED"
      BY <3>2 DEF RecordsBackState, ApprovedIsRecorded
    <3>3. ASSUME NEW h \in Handler, ResolveChange(h), status[c] # "APPROVED"
          PROVE  \E i \in DOMAIN records : records[i].change = c
      <4>1. c = job[h].change /\ job[h].action = "approve"
        BY <3>1, <3>3 DEF ResolveChange, UpdateStatus, Outcome
      <4>. QED
        BY <3>3, <4>1 DEF ResolveChange, RecordFirst, Recorded
    <3>4. ASSUME NEW d \in Change, NEW m \in Human, NEW b \in Version, NEW t \in Version,
                 Propose(d, m, b, t)
          PROVE  status[c] = "APPROVED"
      BY <3>1, <3>4 DEF Propose, CreateChange
    <3>5. CASE UNCHANGED status
      BY <3>2, <3>5
    <3>. QED
      BY <3>2, <3>3, <3>4, <3>5 DEF Next, vars, HandlerStep, Receive, FindChange,
         RequireStepUp, ReadPrior, Draft, CreateRecord, SavePolicy, ReadStatus, Crash,
         EditOutside, LoadPolicy, VerifyRecord, VerifyLatest,
         changeVars, handlerVars, runVars, storeVars
  <2>. QED
    BY <2>1, RecordsKept
<1>. QED
  BY <1>4, <1>5, <1>6, <1>8, <1>9, <1>10 DEF RecordsBackState

LEMMA BackInit == Init => BackInv
BY GovernanceAssumption
   DEF Init, BackInv, Checked, Approves, RecordFirst, LiveIsProposed, RecordsBackState,
       LiveIsApproved, ApprovedIsRecorded

LEMMA BackAlways == Spec => []BackInv
<1>1. TypeInv /\ BackInv /\ [Next]_vars => BackInv'
  BY BackStep
<1>. QED
  BY <1>1, BackInit, TypeAlways, PTL DEF Spec

(* Wherever the approve route stops, by a failed or unanswered write or a  *)
(* crash, and whoever else approves or rejects meanwhile: content it made  *)
(* live has an approval record for its version by a human who did not      *)
(* propose it, and a change shown as APPROVED has a record.                *)
THEOREM LiveIsBacked == Spec => []RecordsBackState
BY BackAlways, PTL DEF BackInv

---------------------------------------------------------------------------
(* What the verifier lets through was approved and not replaced.           *)

BegunEarlier == \A e \in Execution : from[e] <= Len(records)
HasApproval == \A e \in Execution : run[e] \in {"latest", "allowed"} =>
    \E i \in DOMAIN records :
        records[i].version = asked[e] /\ records[i].change = loaded[e]

ExecInv == BegunEarlier /\ HasApproval /\ RetiredNotExecuted

LEMMA ExecStep == TypeInv /\ ExecInv /\ [Next]_vars => ExecInv'
<1>. SUFFICES ASSUME TypeInv, ExecInv, [Next]_vars PROVE ExecInv'
  OBVIOUS
<1>. USE DEF ExecInv
<1>1. /\ Len(records) \in Nat /\ Len(records') \in Nat
      /\ DOMAIN records = 1 .. Len(records) /\ DOMAIN records' = 1 .. Len(records')
      /\ Len(records) <= Len(records')
  BY RecordsKept DEF TypeInv, TypeOK
<1>2. /\ run \in [Execution -> {"idle", "record", "latest", "allowed", "refused"}]
      /\ from \in [Execution -> Nat]
  BY DEF TypeInv, TypeOK
<1>3. ASSUME NEW e \in Execution
      PROVE  \/ UNCHANGED <<run[e], asked[e], loaded[e], from[e]>>
             \/ \E v \in Version : LoadPolicy(e, v)
             \/ VerifyRecord(e) \/ VerifyLatest(e)
  <2>. DEFINE Same == UNCHANGED <<run[e], asked[e], loaded[e], from[e]>>
  <2>. USE DEF TypeInv, TypeOK
  <2>1. ASSUME NEW f \in Execution, NEW v \in Version, LoadPolicy(f, v), f # e PROVE Same
    BY <2>1 DEF LoadPolicy
  <2>2. ASSUME NEW f \in Execution, VerifyRecord(f) \/ VerifyLatest(f), f # e PROVE Same
    BY <2>2 DEF VerifyRecord, VerifyLatest, Proceed
  <2>3. CASE UNCHANGED runVars
    BY <2>3 DEF runVars
  <2>. QED
    BY <2>1, <2>2, <2>3 DEF Next, vars, HandlerStep, Propose, Receive, FindChange,
       RequireStepUp, ReadPrior, Draft, CreateRecord, SavePolicy, ReadStatus, ResolveChange,
       Crash, EditOutside, changeVars, handlerVars, storeVars
<1>4. BegunEarlier'
  <2>. SUFFICES ASSUME NEW e \in Execution PROVE from'[e] <= Len(records')
    BY DEF BegunEarlier
  <2>1. from[e] \in Nat /\ from[e] <= Len(records)
    BY <1>2 DEF BegunEarlier
  <2>2. CASE \E v \in Version : LoadPolicy(e, v)
    BY <1>1, <1>2, <2>2 DEF LoadPolicy
  <2>3. CASE from'[e] = from[e]
    BY <1>1, <2>1, <2>3
  <2>. QED
    BY <1>3, <2>2, <2>3 DEF VerifyRecord, VerifyLatest
<1>5. HasApproval'
  <2>. SUFFICES ASSUME NEW e \in Execution, run'[e] \in {"latest", "allowed"}
                PROVE  \E i \in DOMAIN records' :
                           records'[i].version = asked'[e] /\ records'[i].change = loaded'[e]
    BY DEF HasApproval
  <2>1. /\ asked'[e] = asked[e] /\ loaded'[e] = loaded[e]
        /\ \E i \in DOMAIN records :
               records[i].version = asked[e] /\ records[i].change = loaded[e]
    <3>1. CASE \E v \in Version : LoadPolicy(e, v)
      BY <1>2, <3>1 DEF LoadPolicy
    <3>2. CASE VerifyRecord(e)
      <4>. DEFINE i == FindMostRecentFor(asked[e])
      <4>1. i # 0 /\ records[i].change = loaded[e]
        BY <1>2, <3>2 DEF VerifyRecord, Proceed
      <4>2. i \in DOMAIN records /\ records[i].version = asked[e]
        BY <4>1, FoundIsNewest
      <4>. QED
        BY <3>2, <4>1, <4>2 DEF VerifyRecord
    <3>3. CASE VerifyLatest(e)
      BY <3>3 DEF VerifyLatest, HasApproval
    <3>4. CASE UNCHANGED <<run[e], asked[e], loaded[e], from[e]>>
      BY <3>4 DEF HasApproval
    <3>. QED
      BY <1>3, <3>1, <3>2, <3>3, <3>4
  <2>. QED
    BY <2>1, RecordsKept
<1>6. RetiredNotExecuted'
  <2>. SUFFICES ASSUME NEW e \in Execution, run'[e] = "allowed"
                PROVE  \E i \in DOMAIN records' :
                           /\ records'[i].version = asked'[e]
                           /\ \A j \in 1 .. from'[e] : records'[j].at <= records'[i].at
    BY DEF RetiredNotExecuted
  <2>1. from[e] \in Nat /\ 1 .. from[e] \subseteq DOMAIN records
    BY <1>1, <1>2 DEF BegunEarlier
  <2>2. /\ asked'[e] = asked[e] /\ from'[e] = from[e]
        /\ \E i \in DOMAIN records :
               /\ records[i].version = asked[e]
               /\ \A j \in 1 .. from[e] : records[j].at <= records[i].at
    <3>1. CASE \/ \E v \in Version : LoadPolicy(e, v)
               \/ VerifyRecord(e)
      BY <1>2, <3>1 DEF LoadPolicy, VerifyRecord, Proceed
    <3>2. CASE VerifyLatest(e)
      <4>. DEFINE i == FindMostRecentForName
      <4>1. records[i].version = asked[e]
        BY <1>2, <3>2 DEF VerifyLatest, Proceed
      <4>2. DOMAIN records # {}
        BY <3>2 DEF VerifyLatest, HasApproval
      <4>3. i \in DOMAIN records /\ \A j \in DOMAIN records : records[j].at <= records[i].at
        BY <4>2, NewestIsNewest DEF FindMostRecentForName
      <4>. QED
        BY <2>1, <3>2, <4>1, <4>3 DEF VerifyLatest
    <3>3. CASE UNCHANGED <<run[e], asked[e], loaded[e], from[e]>>
      BY <3>3 DEF RetiredNotExecuted
    <3>. QED
      BY <1>3, <3>1, <3>2, <3>3
  <2>. QED
    BY <2>1, <2>2, RecordsKept
<1>. QED
  BY <1>4, <1>5, <1>6

LEMMA ExecInit == Init => ExecInv
<1>. SUFFICES ASSUME Init PROVE ExecInv
  OBVIOUS
<1>1. Len(records) = 0
  BY DEF Init
<1>. QED
  BY <1>1 DEF Init, ExecInv, BegunEarlier, HasApproval, RetiredNotExecuted

LEMMA ExecAlways == Spec => []ExecInv
<1>1. TypeInv /\ ExecInv /\ [Next]_vars => ExecInv'
  BY ExecStep
<1>. QED
  BY <1>1, ExecInit, TypeAlways, PTL DEF Spec

(* What PolicyGovernanceExecutionVerifier allows was approved for the      *)
(* version named, and a version approved later than it before the          *)
(* execution began is not overlooked, although the policy and the two      *)
(* records are read one after the other while approvals and edits go on.   *)
THEOREM AllowedIsGoverned == Spec => []ExecutedIsGoverned
<1>1. ExecInv => ExecutedIsGoverned
  BY DEF ExecInv, HasApproval, ExecutedIsGoverned, ExecutedWasApproved
<1>. QED
  BY <1>1, ExecAlways, PTL

===========================================================================

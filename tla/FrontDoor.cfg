SPECIFICATION FairSpec
CONSTANTS
    Req = {r1, r2}
    Caller = {c1}
    Machine = {m1, m2}
    None = None
    Limit = 1
    Window = 1
    TTL = 1
    MaxTime = 1
    MaxFaults = 1
CONSTRAINT Scope
INVARIANT ChainTellsLoss
INVARIANT AnsweredIsAudited
INVARIANT AdmittedWithinLimit
INVARIANT ReleasedOnProof
PROPERTY RequestsSettle
CHECK_DEADLOCK FALSE

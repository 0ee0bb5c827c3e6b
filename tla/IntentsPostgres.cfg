SPECIFICATION Spec
CONSTANTS
    Txn = {t1}
    Req = {r1, r2}
    Opr = {o1, o2}
    None = None
    Durable = TRUE
    Honest = FALSE
    MaxFaults = 2
SYMMETRY Symmetry
INVARIANT ReleasedOnce
INVARIANT NothingExecuted
INVARIANT OkMeansEvidence
PROPERTY EvidenceAppendOnly
PROPERTY ResolutionIsFinal
 

SPECIFICATION EvidenceSpec
CONSTANTS
    s1 = s1
    s2 = s2
    d1 = d1
    d2 = d2
    Slot = {s1, s2}
    Payload = {d1, d2}
    Size <- MCSize
    RawLimit = 2
    KindsOf <- MCKindsOf
    None = None
    MaxReconfigs = 2
    MaxAlters = 2
CONSTRAINT Scope
CHECK_DEADLOCK FALSE
INVARIANT ValidIsSigned
INVARIANT GenuineVerifies

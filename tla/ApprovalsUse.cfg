SPECIFICATION Spec
CONSTANTS
    Request = {q1, q2}
    Approval = {A1, A2, A3}
    Key = {K1, K2}
    A1 = A1
    A2 = A2
    A3 = A3
    K1 = K1
    K2 = K2
    R1 = R1
    R2 = R2
    Absent = Absent
    Signals <- MCSignals
    ByValue <- MCByValue
    Payload <- MCPayload
    Contents <- MCContents
    MaxFaults = 1
SYMMETRY MCSymmetry
INVARIANT SpentRightly
INVARIANT RevokedNotReleased
INVARIANT ExecutedWithinScope

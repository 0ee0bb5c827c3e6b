SPECIFICATION Spec
CONSTANTS
    Human = {m1, m2}
    Version = {v1, v2}
    Change = {c1, c2}
    Handler = {h1, h2}
    Execution = {e1}
    Edits = TRUE
    MaxFaults = 1
    None = None
    Edited = Edited
SYMMETRY Symmetry
CHECK_DEADLOCK FALSE
INVARIANT RecordsBackState
INVARIANT EnvelopeApprovesOnce
INVARIANT ExecutedIsGoverned

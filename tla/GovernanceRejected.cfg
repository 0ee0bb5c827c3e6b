SPECIFICATION Spec
CONSTANTS
    Human = {m1, m2}
    Version = {v1, v2}
    Change = {c1, c2}
    Handler = {h1, h2}
    Execution = {}
    Edits = FALSE
    MaxFaults = 0
    None = None
    Edited = Edited
SYMMETRY Symmetry
CHECK_DEADLOCK FALSE
PROPERTY RejectedNotApplied

SPECIFICATION Spec
CONSTANTS
    p1 = p1
    p2 = p2
    d1 = d1
    d2 = d2
    Procs = {p1}
    Generations = {1, 2}
    Digests = {d1}
    MaxRev = 0
    Backups = TRUE
    RollBacks = TRUE
    NoState = NoState
    Nobody = Nobody
SYMMETRY Symmetry
INVARIANTS
    ReleasedIsRecoverable
    FencedOnlyForCause
PROPERTY
    LiveNeverRollsBack

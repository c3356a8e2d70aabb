SPECIFICATION Spec
CONSTANTS
    p1 = p1
    p2 = p2
    d1 = d1
    d2 = d2
    Procs = {p1, p2}
    Generations = {1, 2}
    Digests = {d1, d2}
    MaxRev = 1
    Backups = FALSE
    RollBacks = FALSE
    NoState = NoState
    Nobody = Nobody
SYMMETRY Symmetry
INVARIANTS
    NoReplay
    ReleasedIsRecoverable
    RemovedStaysRemoved
    FencedOnlyForCause
PROPERTIES
    LiveNeverRollsBack
    ImplementsLedger

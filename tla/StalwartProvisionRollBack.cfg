SPECIFICATION Spec
CONSTANTS
    r1 = r1
    r2 = r2
    Plans = {r1, r2}
    Docs = 0
    Settings <- MCSettings
    NoPlan = NoPlan
INVARIANT
    RollBackIsApplied

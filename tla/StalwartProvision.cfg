SPECIFICATION RecoverySpec
CONSTANTS
    r1 = r1
    r2 = r2
    Plans = {r1, r2}
    Docs = 2
    Settings <- MCSettings
    NoPlan = NoPlan
INVARIANTS
    ServesProvisioned
    StoreIsSafe
PROPERTIES
    ComesUp

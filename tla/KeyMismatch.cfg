SPECIFICATION Spec
CONSTANTS
    Settings <- MCSettings
    Titles = {"a", "b"}
    Keys = {"k1", "k2"}
    Repos = {"r1", "r2"}
    Invitations = {"trusted", "other"}
    MaxFaults = 0
    MaxChanges = 0
INVARIANTS
    MismatchIsPermanent

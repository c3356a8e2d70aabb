SPECIFICATION FairSpec
CONSTANTS
    Settings <- MCSettings
    Titles = {"a", "b"}
    Keys = {"k1", "k2"}
    Repos = {"r1", "r2"}
    Invitations = {"trusted", "other"}
    MaxFaults = 1
    MaxChanges = 2
INVARIANTS
    RefusedPlanChangesNothing
    SuccessMeansDeclared
    RepositoriesIndependent
PROPERTIES
    OnlyDeclaredChanges
    Settles

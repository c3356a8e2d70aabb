SPECIFICATION Spec
CONSTANTS
    Settings <- MCSettings
    People = {"ann", "ben"}
    Names = {1, 2, 3}
    PageSize = 2
    MaxTeams = 3
    MaxFaults = 1
    MaxChanges = 3
INVARIANTS
    SuccessMeansDeclared
    NothingMadeTwice
PROPERTY
    MembersKept

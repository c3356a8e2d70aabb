SPECIFICATION Spec
CONSTANTS
    Settings <- MCSettings
    People = {"ann", "ben"}
    Names = {1, 2, 3}
    PageSize = 1
    MaxTeams = 3
    MaxFaults = 0
    MaxChanges = 0
INVARIANTS
    TeamCreatedOnce

SPECIFICATION FairSpec
CONSTANTS
    Settings <- MCSettings
    Ids = {1, 2, 3, 4, 5}
    Providers = {1, 2, 3, 4}
    Secrets = {1, 2, 3, 4}
    Aspects = {"profile", "attributes"}
    MaxFaults = 2
    MaxChanges = 3
INVARIANTS
    SuccessMeansDeclared
    KeyLeftOnlyForCause
    PasswordNotForgotten
    SecretFileIsCurrent
PROPERTIES
    NothingTakenAway
    RunsSucceed

SPECIFICATION FairSpec
CONSTANTS
    Settings <- MCSettings
    Ids = {1, 2, 3, 4, 5}
    Providers = {1, 2, 3}
    Secrets = {1, 2, 3, 4}
    Aspects = {"profile", "attributes"}
    MaxFaults = 0
    MaxChanges = 1
PROPERTY EvictionDeletesNoRow

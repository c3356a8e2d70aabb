SPECIFICATION Spec
CONSTANTS
    MaxGen = 4
    MaxGrants = 3
    NoFile = NoFile
INVARIANTS
    GenerationNamesGrant
    ConsumedNotEncrypted
PROPERTIES
    DiscardedOnlyApplied
    SecretNeverOlder
CHECK_DEADLOCK FALSE

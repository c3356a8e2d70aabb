SPECIFICATION Spec
CONSTANTS
    Documents <- MCDocuments
    ChannelSize = 2
    StartLimit = 3
    MaxFaults = 2
    MaxMoves = 2
INVARIANTS
    SuccessIsGenuine
    PermanentForCause
    SecretsGoWhereAsked
PROPERTIES
    RunsSettle

SPECIFICATION Spec
CONSTANTS
    MaxGen = 4
    MaxGrants = 3
    NoFile = NoFile
INVARIANT
    RetryReusesGrant
CHECK_DEADLOCK FALSE

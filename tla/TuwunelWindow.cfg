SPECIFICATION Spec
CONSTANTS
    Settings <- MCSettings
    N = 2
    Passwords = {"first", "second"}
    Invitees = {"guest"}
    MaxTries = 2
    MaxFaults = 1
    MaxChanges = 2
INVARIANTS
    ClosedAfterSuccess

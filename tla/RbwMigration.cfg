SPECIFICATION FairMigration
CONSTANTS
    MaxVersion = 3
    NoTree = NoTree
INVARIANTS
    MigrationIsSafe
PROPERTIES
    NeverResurrected
    Completes

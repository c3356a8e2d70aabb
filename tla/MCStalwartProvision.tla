------------------------ MODULE MCStalwartProvision ------------------------
(* Model-checking instance of StalwartProvision: the hosts considered.     *)
EXTENDS StalwartProvision

CONSTANTS r1, r2

\* A migrating host that demands a backup, one that does not, one whose
\* migration was done by hand, and one without the store health check.
MCSettings ==
    {[assumeMigrated |-> FALSE, needsBackup |-> TRUE, healthCheck |-> TRUE],
     [assumeMigrated |-> FALSE, needsBackup |-> FALSE, healthCheck |-> TRUE],
     [assumeMigrated |-> TRUE, needsBackup |-> FALSE, healthCheck |-> TRUE],
     [assumeMigrated |-> FALSE, needsBackup |-> FALSE, healthCheck |-> FALSE]}
=============================================================================

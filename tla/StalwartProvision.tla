------------------------- MODULE StalwartProvision -------------------------
(***************************************************************************)
(* stalwart016-provision: the ExecStartPre program of stalwart.service that *)
(* brings the mail server's registry to the generated plan before the       *)
(* server starts (crates/stalwart016-provision).  Marker files remember     *)
(* what was applied; when something is pending it runs a recovery server,   *)
(* applies one-time migration documents and then the plan, and stops it.    *)
(*                                                                          *)
(* systemd runs one activation at a time and restarts a failed one; a       *)
(* killed activation takes its recovery server with it (one control group). *)
(* A plan is its store path.  The store records how far each document got   *)
(* and which plan its registry reflects.                                    *)
(***************************************************************************)
EXTENDS Naturals

CONSTANTS
    Plans,    \* generated plans
    Docs,     \* number of migration documents
    Settings, \* the hosts to consider, by the options of theirs that matter here
    NoPlan    \* no registry marker; a registry no plan describes

ASSUME DocsAssumption == Docs \in Nat
ASSUME NoPlanAssumption == NoPlan \notin Plans

\* provision.assumeMigrationApplied, .requireVerifiedBackupSentinel (is one
\* named?) and .storeHealthCheck.enable.
ASSUME SettingsAssumption ==
    Settings \subseteq [assumeMigrated : BOOLEAN, needsBackup : BOOLEAN,
                        healthCheck : BOOLEAN]

VARIABLES
    settings, \* the options of this host
    marks,    \* the marker files
    kept,     \* the marker files a power loss is certain to leave behind
    store,    \* the mail server's PostgreSQL store
    plan,     \* the plan of the deployed configuration
    former,   \* plans deployed before
    pc,       \* what the activation does next
    target,   \* the plan the activation was started with
    pending,  \* what it found pending
    doc,      \* the migration document it applies next
    server,   \* its recovery server
    backedUp, \* does a verified 0.15 backup exist?
    blind,    \* nothing vouched for the store in this activation
    wiped,    \* has the store ever been recreated empty?
    lapses    \* was a plan rolled back, or a change of a marker lost?

unit == <<pc, target, pending, doc, server, blind>>
history == <<former, wiped, lapses>>
site == <<settings, plan, backedUp, history>>
vars == <<marks, kept, store, unit, site>>

Marks == [legacy : BOOLEAN, migration : BOOLEAN, registry : Plans \cup {NoPlan}]

\* A document that was sent again may have been applied twice.
Progress == {"none", "partly", "once", "again"}
Store == [tables : BOOLEAN, docs : [1..Docs -> Progress],
          registry : Plans \cup {NoPlan}, touched : BOOLEAN]

Migrated(s) == \A d \in 1..Docs : s.docs[d] \in {"once", "again"}

Untouched == [tables |-> FALSE, docs |-> [d \in 1..Docs |-> "none"],
              registry |-> NoPlan, touched |-> FALSE]
Imported == [Untouched EXCEPT !.tables = TRUE, !.docs = [d \in 1..Docs |-> "once"],
                              !.touched = TRUE]

\* A new host, or one whose data an earlier module revision migrated.
Init ==
    /\ settings \in Settings
    /\ plan \in Plans
    /\ former = {}
    /\ \/ /\ ~settings.assumeMigrated
          /\ store = Untouched
          /\ marks = [legacy |-> FALSE, migration |-> FALSE, registry |-> NoPlan]
       \/ /\ store = Imported
          /\ marks = [legacy |-> ~settings.assumeMigrated, migration |-> FALSE, registry |-> NoPlan]
    /\ kept = marks
    /\ pc = "off"
    /\ target = plan
    /\ pending = [migration |-> FALSE, registry |-> FALSE]
    /\ doc = 1
    /\ server = "off"
    /\ backedUp = store.touched
    /\ blind = FALSE
    /\ wiped = FALSE
    /\ lapses = {}

-----------------------------------------------------------------------------
(* The activation, up to the decision to start the recovery server.        *)

Activate ==
    /\ pc = "off"
    /\ pc' = "promote"
    /\ target' = plan
    /\ pending' = [migration |-> FALSE, registry |-> FALSE]
    /\ doc' = 1
    /\ blind' = TRUE
    /\ UNCHANGED <<marks, kept, store, server, site>>

PromoteLegacyMarker ==
    /\ pc = "promote"
    /\ marks' = [marks EXCEPT !.migration = @ \/ marks.legacy]
    /\ pc' = "check"
    /\ UNCHANGED <<kept, store, target, pending, doc, server, blind, site>>

\* Mutation: any registry marker counts as current.
RegistryPendingIfUnmarked(m) == m.registry = NoPlan

RegistryPending(m) == m.registry # target

\* Where an activation goes once it knows what is pending.
Route(p) ==
    IF p.migration \/ p.registry THEN "gate" ELSE IF settings.healthCheck THEN "probe" ELSE "serve"

CheckPending ==
    /\ pc = "check"
    /\ pending' = [migration |-> Docs > 0 /\ ~marks.migration,
                   registry  |-> RegistryPending(marks)]
    /\ pc' = IF pending'.migration /\ settings.assumeMigrated THEN "assume" ELSE Route(pending')
    /\ UNCHANGED <<marks, kept, store, target, doc, server, blind, site>>

AssumeMigration ==
    /\ pc = "assume"
    /\ marks' = [marks EXCEPT !.migration = TRUE]
    /\ pending' = [pending EXCEPT !.migration = FALSE]
    /\ pc' = Route(pending')
    /\ UNCHANGED <<kept, store, target, doc, server, blind, site>>

\* Both probes answer.
ProbeOk ==
    /\ pc = "probe"
    /\ store.tables
    /\ pc' = "serve"
    /\ blind' = FALSE
    /\ UNCHANGED <<marks, kept, store, target, pending, doc, server, site>>

\* PostgreSQL is not reachable, or its credential is not readable.
ProbeSkipped ==
    /\ pc = "probe"
    /\ pc' = "serve"
    /\ UNCHANGED <<marks, kept, store, target, pending, doc, server, blind, site>>

WithTableMissing(p) == [p EXCEPT !.registry = TRUE]

\* The second query fails: the table is missing, or the connection broke.  An
\* error of the removal is ignored.
ProbeTableMissing ==
    /\ pc = "probe"
    /\ \/ marks' = [marks EXCEPT !.registry = NoPlan] /\ UNCHANGED lapses
       \/ UNCHANGED marks /\ lapses' = lapses \cup {"marker"}
    /\ pending' = WithTableMissing(pending)
    /\ pc' = "gate"
    /\ UNCHANGED <<settings, kept, store, plan, target, doc, server, backedUp,
                   blind, former, wiped>>

-----------------------------------------------------------------------------
(* Recovery mode.                                                          *)

\* Mutation: the sentinel is demanded of every host.
BackupVerifiedDemanded == backedUp

BackupVerified == settings.needsBackup => backedUp

StartRecovery ==
    /\ pc = "gate"
    /\ BackupVerified
    /\ server' = "up"
    /\ store' = [store EXCEPT !.touched = TRUE]
    /\ pc' = "wait"
    /\ UNCHANGED <<marks, kept, target, pending, doc, blind, site>>

RecoveryReady ==
    /\ pc = "wait"
    /\ server = "up"
    /\ store' = [store EXCEPT !.tables = TRUE]
    /\ pc' = IF pending.migration THEN "migrate" ELSE "applyPlan"
    /\ blind' = FALSE
    /\ UNCHANGED <<marks, kept, target, pending, doc, server, site>>

\* How far a document can be after `stalwart-cli apply' of it succeeds or fails.
Applied(progress) == IF progress = "none" THEN "once" ELSE "again"
Broken(progress) == IF progress = "none" THEN "partly" ELSE "again"

ApplyDocument ==
    /\ pc = "migrate"
    /\ doc <= Docs
    /\ server = "up"
    /\ store' = [store EXCEPT !.docs[doc] = Applied(@)]
    /\ doc' = doc + 1
    /\ UNCHANGED <<marks, kept, pc, target, pending, server, blind, site>>

WriteMigrationMarker ==
    /\ pc = "migrate"
    /\ doc > Docs
    /\ marks' = [marks EXCEPT !.migration = TRUE]
    /\ pc' = IF pending.registry THEN "applyPlan" ELSE "stop"
    /\ UNCHANGED <<kept, store, target, pending, doc, server, blind, site>>

ApplyPlan ==
    /\ pc = "applyPlan"
    /\ server = "up"
    /\ store' = [store EXCEPT !.registry = target]
    /\ pc' = "markRegistry"
    /\ UNCHANGED <<marks, kept, target, pending, doc, server, blind, site>>

WriteRegistryMarker ==
    /\ pc = "markRegistry"
    /\ marks' = [marks EXCEPT !.registry = target]
    /\ pc' = "stop"
    /\ UNCHANGED <<kept, store, target, pending, doc, server, blind, site>>

\* Mutation: a document that fails is passed over.
AfterFailureGoesOn == "stop"

AfterFailure == "abort"

\* stalwart-cli fails, after any part of its operations.
ApplyFails ==
    /\ \/ /\ pc = "migrate" /\ doc <= Docs
          /\ store' \in {store, [store EXCEPT !.docs[doc] = Broken(@)]}
       \/ /\ pc = "applyPlan"
          /\ store' \in {store, [store EXCEPT !.registry = NoPlan]}
    /\ pc' = AfterFailure
    /\ UNCHANGED <<marks, kept, target, pending, doc, server, blind, site>>

\* Any other error once the server was started: it is not ready in time, or a
\* marker cannot be written.
RecoveryFails ==
    /\ pc \in {"wait", "markRegistry"} \/ (pc = "migrate" /\ doc > Docs)
    /\ pc' = "abort"
    /\ UNCHANGED <<marks, kept, store, target, pending, doc, server, blind, site>>

-----------------------------------------------------------------------------
(* RecoveryServer::drop: one SIGTERM, then an unbounded wait.              *)

Terminate ==
    /\ pc \in {"stop", "abort"}
    /\ server = "up"
    /\ server' = "terminating"
    /\ UNCHANGED <<marks, kept, store, pc, target, pending, doc, blind, site>>

Reaped == server = "off"

Exit ==
    /\ pc \in {"stop", "abort"}
    /\ Reaped
    /\ pc' = IF pc = "stop" THEN "serve" ELSE "off"
    /\ UNCHANGED <<marks, kept, store, target, pending, doc, server, blind, site>>

ServerExits ==
    /\ server = "terminating"
    /\ server' = "off"
    /\ UNCHANGED <<marks, kept, store, pc, target, pending, doc, blind, site>>

ServerDies ==
    /\ server = "up"
    /\ server' = "off"
    /\ UNCHANGED <<marks, kept, store, pc, target, pending, doc, blind, site>>

-----------------------------------------------------------------------------
(* systemd, the administrator and the machine.                             *)

Stopped == pc' = "off" /\ server' = "off" /\ UNCHANGED <<target, pending, doc, blind>>

\* The activation fails early, is timed out or stopped, or the server exits.
Kill ==
    /\ pc # "off"
    /\ Stopped
    /\ UNCHANGED <<marks, kept, store, site>>

\* Markers are renamed into place without a directory fsync.
WriteBack ==
    /\ kept # marks
    /\ kept' = marks
    /\ UNCHANGED <<marks, store, unit, site>>

PowerLoss ==
    /\ marks' \in [legacy : {marks.legacy}, migration : {marks.migration, kept.migration},
                   registry : {marks.registry, kept.registry}]
    /\ kept' = marks'
    /\ lapses' = IF marks' = marks THEN lapses
                                    ELSE lapses \cup {"marker"}
    /\ Stopped
    /\ UNCHANGED <<settings, store, plan, backedUp, former, wiped>>

\* A new configuration; the unit is stopped and started again.
Deploy ==
    /\ \E p \in Plans \ {plan} :
        /\ plan' = p
        /\ lapses' = IF p \in former THEN lapses \cup {"rollBack"} ELSE lapses
    /\ former' = former \cup {plan}
    /\ Stopped
    /\ UNCHANGED <<settings, marks, kept, store, backedUp, wiped>>

\* PostgreSQL comes back with an empty data directory; the unit is bound to it.
Wipe ==
    /\ store.tables
    /\ ~wiped
    /\ store' = [Untouched EXCEPT !.touched = TRUE]
    /\ wiped' = TRUE
    /\ Stopped
    /\ UNCHANGED <<settings, marks, kept, plan, backedUp, former, lapses>>

VerifyBackup ==
    /\ ~backedUp
    /\ backedUp' = TRUE
    /\ UNCHANGED <<settings, marks, kept, store, plan, unit, history>>

-----------------------------------------------------------------------------
Succeed == \/ PromoteLegacyMarker \/ CheckPending \/ AssumeMigration
           \/ ProbeOk \/ ProbeSkipped \/ ProbeTableMissing
           \/ StartRecovery \/ RecoveryReady
           \/ ApplyDocument \/ WriteMigrationMarker \/ ApplyPlan \/ WriteRegistryMarker
           \/ Terminate \/ Exit

Proceed == Succeed \/ ApplyFails \/ RecoveryFails

Next == \/ Activate \/ Proceed
        \/ ServerExits \/ ServerDies
        \/ Kill \/ WriteBack \/ PowerLoss \/ Deploy \/ Wipe \/ VerifyBackup

Spec == Init /\ [][Next]_vars

\* The provisioner is a sequential program; systemd restarts a failed unit.
FairSpec == Spec /\ WF_vars(Activate) /\ WF_vars(Proceed)

\* Faults come to an end, and a server that is asked to terminate does.
FaultsEnd ==
    /\ <>[][Activate \/ Succeed \/ WriteBack \/ ServerExits]_vars
    /\ WF_vars(ServerExits)

RecoverySpec == FairSpec /\ FaultsEnd

-----------------------------------------------------------------------------
\* The type invariant; a recovery server is there only for the steps that use it.
TypeOK ==
    /\ settings \in Settings
    /\ marks \in Marks
    /\ kept \in Marks
    /\ store \in Store
    /\ plan \in Plans
    /\ former \subseteq Plans
    /\ pc \in {"off", "promote", "check", "assume", "probe", "gate", "wait", "migrate",
               "applyPlan", "markRegistry", "stop", "abort", "serve"}
    /\ target \in Plans
    /\ pending \in [migration : BOOLEAN, registry : BOOLEAN]
    /\ doc \in 1..(Docs + 1)
    /\ server \in {"off", "up", "terminating"}
    /\ server = "up" => pc \in {"wait", "migrate", "applyPlan", "markRegistry",
                                "stop", "abort"}
    /\ server = "terminating" => pc \in {"stop", "abort"}
    /\ backedUp \in BOOLEAN
    /\ blind \in BOOLEAN
    /\ wiped \in BOOLEAN
    /\ lapses \subseteq {"rollBack", "marker"}

\* The mail server starts on the registry its plan describes, unless the store
\* was recreated and no probe could tell.
ServesItsPlan == pc = "serve" => store.registry = target \/ (wiped /\ blind)

\* Skipping an apply because the registry marker is current is never wrong, as
\* long as plans are deployed forward only and no change of the marker is lost.
ServesProvisioned == lapses = {} => ServesItsPlan

\* The same for a host that is deployed back to an earlier plan (markers: "if the
\* store path changes (config changed), the plan is re-applied").
RollBackIsApplied == "marker" \notin lapses => ServesItsPlan

\* The mail server never starts on a store that lacks a migration document,
\* though applying them may fail or be interrupted anywhere (the marker is
\* "written after migrationApplyFiles ... succeed").  A store that was recreated
\* empty is excepted: the marker outlives it.
ServesMigrated == pc = "serve" => Migrated(store) \/ wiped

\* The recovery server and the mail server are never up together on one store
\* (Drop: the child is "reaped").
OneServer == pc = "serve" => server = "off"

\* No 0.16 server touches the store before a verified backup exists, recovery
\* or not (option requireVerifiedBackupSentinel).
NoTouchBeforeBackup ==
    settings.needsBackup /\ (store.touched \/ pc = "serve") => backedUp

\* Whatever fails or is killed, no server works on a store it must not touch:
\* one that is not fully migrated, not backed up, or held by another server.
StoreIsSafe == ServesMigrated /\ OneServer /\ NoTouchBeforeBackup

\* A migration document is applied at most once (option applyFiles: "one-time,
\* non-idempotent migration inputs").
MigrationAppliedOnce == \A d \in 1..Docs : store.docs[d] # "again"

\* Whatever failed documents, dead servers, killed activations and lost markers
\* leave behind, the mail server comes up once they end, unless it waits for a
\* demanded backup that nobody verifies: no other state is a trap.
ComesUp == <>[](pc = "serve") \/ [](settings.needsBackup /\ ~backedUp)
=============================================================================

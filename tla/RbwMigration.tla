---------------------------- MODULE RbwMigration ----------------------------
(***************************************************************************)
(* provenance-rbw: the one-time move of rbw's login state out of the XDG    *)
(* cache into a durable directory (crates/provenance-rbw).  Two trees move, *)
(* rbw's cache and its data; a marker file makes the move final.  Every     *)
(* wrapped client and agent prepares the state before it starts.            *)
(*                                                                          *)
(* prepare holds a lock from its first read to its last write, so one of    *)
(* them runs at a time (a second one waits, or fails after eight seconds);  *)
(* its progress is step.  A preparation that is refused changes nothing.    *)
(* The old agent, or an unwrapped client that starts one, knows nothing of  *)
(* the lock.  A tree is known by the version rbw last wrote to it.          *)
(*                                                                          *)
(* The file system journals its operations: a rename is atomic, a power     *)
(* loss undoes the latest operations since the last fsync, and what rbw     *)
(* writes itself is taken to be synced.                                     *)
(*                                                                          *)
(* No name here is one of StalwartProvision's: the proofs about both        *)
(* migrations extend both modules.                                          *)
(***************************************************************************)
EXTENDS Naturals

CONSTANTS
    MaxVersion, \* bound on the writes rbw makes to a tree
    NoTree

ASSUME MaxVersionAssumption == MaxVersion \in Nat

VARIABLES
    fs,      \* the legacy and durable trees, and the marker
    past,    \* what a power loss can take fs back to
    step,    \* what the running preparation does next
    moved,   \* has it moved the tree step names?
    agent,   \* whose directories the running rbw agent writes
    latest,  \* the last version rbw wrote to either copy of a tree
    faults   \* "lost": durable state was lost; "unwrapped": an unwrapped client
             \* started an agent

migrationVars == <<fs, past, step, moved, agent, latest, faults>>

Trees == {"cache", "data"}
Content == [version : 0..MaxVersion, empty : BOOLEAN]

ASSUME NoTreeAssumption == NoTree \notin Content

FileSystem == [legacy : [Trees -> Content \cup {NoTree}],
               durable : [Trees -> Content \cup {NoTree}], marker : BOOLEAN]

Written(v) == [version |-> v, empty |-> FALSE]
Empty == [version |-> 0, empty |-> TRUE]

MigrationInit ==
    /\ latest \in [Trees -> {0, 1} \cap 0..MaxVersion]
    /\ fs = [legacy |-> [t \in Trees |-> IF latest[t] = 0 THEN NoTree ELSE Written(1)],
             durable |-> [t \in Trees |-> NoTree], marker |-> FALSE]
    /\ past = {}
    /\ step = "idle"
    /\ moved = FALSE
    /\ agent \in {"off", "legacy"}
    /\ faults = {}

\* An operation on files that is not synced yet, and one that is.
Change(new) == fs' = new /\ past' = past \cup {fs}
Commit(new) == fs' = new /\ past' = {}

-----------------------------------------------------------------------------
(* prepare                                                                 *)

\* Mutation: the marker does not keep a legacy tree from being moved again.
MigratesAgain(f, t) == f.legacy[t] # NoTree \/ ~f.marker

\* Mutation: a durable tree is always taken for a competing one.
MigratesUnresumed(f, t) == ~f.marker /\ f.durable[t] = NoTree

\* The preflight of one tree: not yet migrated, and no two copies to choose from.
Migrates(f, t) == ~f.marker /\ (f.legacy[t] # NoTree => f.durable[t] = NoTree)

\* After migration nothing is moved any more; missing state is an error.
PrepareMigrated ==
    /\ step = "idle"
    /\ fs.marker
    /\ \A t \in Trees : fs.durable[t] # NoTree
    /\ step' = "ready"
    /\ UNCHANGED <<fs, past, moved, agent, latest, faults>>

BeginMigration ==
    /\ step = "idle"
    /\ \A t \in Trees : Migrates(fs, t)
    /\ step' = "stopAgent"
    /\ UNCHANGED <<fs, past, moved, agent, latest, faults>>

AgentStopped(a) == a = "off"

StopAgent ==
    /\ step = "stopAgent"
    /\ agent' \in {"off", "legacy", "durable"}
    /\ AgentStopped(agent')
    /\ step' = "cache"
    /\ moved' = FALSE
    /\ UNCHANGED <<fs, past, latest, faults>>

\* rename can only replace an empty directory.
Replaceable(tree) == tree # NoTree => tree.empty

Move ==
    /\ step \in Trees
    /\ ~moved
    /\ IF fs.legacy[step] # NoTree
       THEN /\ Replaceable(fs.durable[step])
            /\ Change([fs EXCEPT !.durable[step] = fs.legacy[step], !.legacy[step] = NoTree])
       ELSE IF fs.durable[step] = NoTree
            THEN Change([fs EXCEPT !.durable[step] = Empty])
            ELSE UNCHANGED <<fs, past>>
    /\ moved' = TRUE
    /\ UNCHANGED <<step, agent, latest, faults>>

\* Mutation: the second tree is forgotten.
AfterMoveSkips(t) == "marker"

AfterMove(t) == IF t = "cache" THEN "data" ELSE "marker"

\* Both parent directories are synced after a move.
SyncMove ==
    /\ step \in Trees
    /\ moved
    /\ past' = {}
    /\ step' = AfterMove(step)
    /\ moved' = FALSE
    /\ UNCHANGED <<fs, agent, latest, faults>>

\* Only the existence of the marker counts, not its contents.
CreateMarker ==
    /\ step = "marker"
    /\ Change([fs EXCEPT !.marker = TRUE])
    /\ step' = "syncMarker"
    /\ UNCHANGED <<moved, agent, latest, faults>>

SyncMarker ==
    /\ step = "syncMarker"
    /\ past' = {}
    /\ step' = "ready"
    /\ UNCHANGED <<fs, moved, agent, latest, faults>>

\* The wrapped client or agent is executed; an agent that is there is used.
Launch ==
    /\ step = "ready"
    /\ agent' = IF agent = "off" THEN "durable" ELSE agent
    /\ step' = "idle"
    /\ UNCHANGED <<fs, past, moved, latest, faults>>

\* An error, or the process is killed; or the agent does not stop in time.
Interrupt ==
    /\ step # "idle"
    /\ step' = "idle"
    /\ UNCHANGED <<fs, past, moved, agent, latest, faults>>

-----------------------------------------------------------------------------
(* rbw, and the machine.                                                   *)

\* The agent writes a new version, or `rbw purge' empties the cache.
AgentWrites(t, empty) ==
    /\ agent # "off"
    /\ latest[t] < MaxVersion
    /\ agent = "durable" => fs.durable[t] # NoTree
    /\ latest' = [latest EXCEPT ![t] = @ + 1]
    /\ LET new == [version |-> latest[t] + 1, empty |-> empty]
       IN  IF agent = "durable" THEN Commit([fs EXCEPT !.durable[t] = new])
                                ELSE Commit([fs EXCEPT !.legacy[t] = new])
    /\ UNCHANGED <<step, moved, agent, faults>>

LegacyStart ==
    /\ agent = "off"
    /\ agent' = "legacy"
    /\ faults' = faults \cup {"unwrapped"}
    /\ UNCHANGED <<fs, past, step, moved, latest>>

AgentExits ==
    /\ agent # "off"
    /\ agent' = "off"
    /\ UNCHANGED <<fs, past, step, moved, latest, faults>>

LoseDurable ==
    /\ \E t \in Trees :
        /\ fs.durable[t] # NoTree
        /\ Commit([fs EXCEPT !.durable[t] = NoTree])
    /\ faults' = faults \cup {"lost"}
    /\ UNCHANGED <<step, moved, agent, latest>>

PowerFailure ==
    /\ fs' \in past \cup {fs}
    /\ past' = {}
    /\ step' = "idle"
    /\ moved' = FALSE
    /\ agent' = "off"
    /\ UNCHANGED <<latest, faults>>

-----------------------------------------------------------------------------
Prepare == \/ PrepareMigrated \/ BeginMigration \/ StopAgent \/ Move \/ SyncMove
           \/ CreateMarker \/ SyncMarker \/ Launch

MigrationNext ==
    \/ Prepare \/ Interrupt
    \/ (\E t \in Trees : AgentWrites(t, FALSE)) \/ AgentWrites("cache", TRUE)
    \/ LegacyStart \/ AgentExits \/ LoseDurable \/ PowerFailure

MigrationSpec == MigrationInit /\ [][MigrationNext]_migrationVars

\* Clients prepare their state again and again, and interruptions end.
FairMigration == MigrationSpec /\ WF_migrationVars(Prepare) /\ <>[][Prepare]_migrationVars

-----------------------------------------------------------------------------
\* The type invariant; and nothing is moved once the marker is there.
MigrationTypeOK ==
    /\ fs \in FileSystem
    /\ past \subseteq FileSystem
    /\ step \in Trees \cup {"idle", "stopAgent", "marker", "syncMarker", "ready"}
    /\ fs.marker => step \notin Trees \cup {"stopAgent", "marker"}
    /\ moved \in BOOLEAN
    /\ agent \in {"off", "legacy", "durable"}
    /\ latest \in [Trees -> 0..MaxVersion]
    /\ faults \subseteq {"lost", "unwrapped"}

\* Once the marker is there, durable state never returns to an earlier version,
\* not after a purge and not when an old agent recreates the legacy tree
\* (prepare: "intentional `rbw purge` must not resurrect old tokens").
NeverResurrected ==
    [][fs.marker /\ fs'.marker => \A t \in Trees :
        fs.durable[t] # NoTree =>
            \/ fs'.durable[t] = NoTree
            \/ fs'.durable[t].version >= fs.durable[t].version]_migrationVars

\* What rbw wrote last is never destroyed by the move, wherever it is cut off
\* and whatever an old agent does meanwhile; it is in one of the two places.
LatestKept ==
    "lost" \notin faults => \A t \in Trees : latest[t] > 0 =>
        \E tree \in {fs.legacy[t], fs.durable[t]} \ {NoTree} : tree.version = latest[t]

\* The marker is never there without both trees, nor would a power loss leave
\* it so: a migration that was only half done is resumed, not refused.
MarkerMeansMoved ==
    \A f \in past \cup {fs} : f.marker /\ "lost" \notin faults => \A t \in Trees : f.durable[t] # NoTree

\* While every client is wrapped, the durable state is the latest one: the old agent
\* can write nothing after its files were moved.
MigratedIsLatest ==
    fs.marker /\ faults = {} => \A t \in Trees :
        fs.durable[t] # NoTree /\ fs.durable[t].version = latest[t]

\* The move loses nothing, is marked only when it is whole, and what it marked
\* is the latest state, wherever it is cut and whoever writes meanwhile.
MigrationIsSafe == LatestKept /\ MarkerMeansMoved /\ MigratedIsLatest

\* A migration that was interrupted anywhere is completed by later preparations
\* (docs: "Interrupted directory moves can resume"); an unwrapped client may
\* leave two copies, and the choice between them to the user.
Completes == <>(fs.marker \/ "unwrapped" \in faults)
=============================================================================

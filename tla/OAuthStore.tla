----------------------------- MODULE OAuthStore -----------------------------
(***************************************************************************)
(* The durable token store of provenance-oauth: one state directory that   *)
(* short-lived processes of one local user share (crates/provenance-oauth, *)
(* state.rs).  The directory holds state.json ("live"), the encrypted      *)
(* recovery copy checkpoint.age ("ckpt") and a lock file.  Every command   *)
(* takes the lock, reads live, and publishes files by write-to-temporary,  *)
(* rename and directory fsync; a refresh of the access token records its   *)
(* intent in both files before the provider is contacted.                  *)
(*                                                                         *)
(* Abstractions.  Every exchange that commits makes a new revision of the  *)
(* enrollment, and its answer brings a new refresh token or leaves the one *)
(* held in force.  A refresh token is therefore named by the enrollment    *)
(* and the revision that brought it (an enrollment is assumed to bring one *)
(* of its own), and an exchange attempt is the enrollment, the revision it *)
(* would replace and the token it sends.  The wall clock is arbitrary,     *)
(* so "expires within a minute" is a free choice at each place that reads  *)
(* it.  A command that fails before its first write changes nothing and is *)
(* not a step.  `status' changes nothing.                                  *)
(***************************************************************************)
EXTENDS Naturals

CONSTANTS
    Procs,        \* processes that may run a command
    Generations,  \* enrollment epochs (Unix milliseconds)
    Digests,      \* contents of an enrollment, as its SHA-256 tells them apart
    MaxRev,       \* the largest revision; u64::MAX in the code
    Backups,      \* is checkpoint.age copied off the host now and then?
    RollBacks,    \* may the operator roll the store back behind its back?
    NoState,      \* the file does not exist
    Nobody        \* the lock is free

ASSUME GenerationsAssumption == Generations \subseteq Nat \ {0}
ASSUME MaxRevAssumption == MaxRev \in Nat
ASSUME OperatorAssumption == Backups \in BOOLEAN /\ RollBacks \in BOOLEAN
ASSUME NobodyAssumption == Nobody \notin Procs

VARIABLES
    vis,        \* the directory a process sees: file -> contents
    dur,        \* the directory a power loss is certain to leave behind
    lock,       \* holder of the lock file
    pc,         \* pc[p]: what p does next while it holds the lock
    io,         \* io[p]: half of the file publication p has reached
    st,         \* st[p]: the State p holds in memory
    backup,     \* an off-host copy of checkpoint.age, of any age
    sent,       \* exchange attempts handed to the network
    retained,   \* attempts whose answer left the token they sent in force
    abandoned,  \* attempts cut off after their intent was recorded, not sent since
    revoked,    \* newest generation a command has reported removed
    lapses      \* how the operator has rolled the store back, if ever

vars == <<vis, dur, lock, pc, io, st, backup, sent, retained, abandoned, revoked, lapses>>
ghosts == <<sent, retained, abandoned, revoked, lapses>>

Files == {"live", "ckpt"}
Enrollment == [gen : Generations, digest : Digests]
\* A State of revision rev holds the refresh token revision `token' brought.
State == {s \in [enr : Enrollment, rev : 0..MaxRev, token : 0..MaxRev,
                 pending : BOOLEAN, granted : BOOLEAN] : s.token <= s.rev}
Maybe == State \cup {NoState}
Attempts == {a \in [enr : Enrollment, rev : 0..MaxRev, token : 0..MaxRev] :
                 a.token <= a.rev}

ASSUME NoStateAssumption == NoState \notin State

AttemptOf(s) == [enr |-> s.enr, rev |-> s.rev, token |-> s.token]

\* Phases that publish a file, the file, and where success and failure lead.
Writes == {"intentSave", "intentCkpt", "rollbackSave", "commitSave",
           "publish", "enrollSave", "enrollCkpt"}
Intents == {"intentSave", "intentCkpt"}
Phases == Writes \cup {"idle", "dispatch", "exchange", "release"}
\* Phases in which a refresh intent may be on disk and nothing has been sent.
Undispatched == Intents \cup {"rollbackSave", "dispatch"}

FileOf(phase) ==
    IF phase \in {"intentCkpt", "publish", "enrollCkpt"} THEN "ckpt" ELSE "live"

\* Mutation: the intent is not checkpointed before the exchange.
OnOkUncheckpointed(phase) ==
    CASE phase = "intentSave" -> "dispatch"
      [] phase = "commitSave" -> "publish"
      [] phase = "publish"    -> "release"
      [] phase = "enrollSave" -> "enrollCkpt"
      [] OTHER                -> "idle"

\* Mutation: the new access token is released before its checkpoint.
OnOkEarlyRelease(phase) ==
    CASE phase = "intentSave" -> "intentCkpt"
      [] phase = "intentCkpt" -> "dispatch"
      [] phase \in {"commitSave", "publish"} -> "release"
      [] phase = "enrollSave" -> "enrollCkpt"
      [] OTHER                -> "idle"

OnOk(phase) ==
    CASE phase = "intentSave" -> "intentCkpt"
      [] phase = "intentCkpt" -> "dispatch"
      [] phase = "commitSave" -> "publish"
      [] phase = "publish"    -> "release"
      [] phase = "enrollSave" -> "enrollCkpt"
      [] OTHER                -> "idle"

\* Mutation: an intent that could not be stored is left behind.
OnErrNoRollback(phase) == "idle"

\* Mutation: a publication that fails is tried again at once, without bound.
OnErrRetry(phase) == IF phase \in Intents THEN "rollbackSave" ELSE phase

\* Before dispatch the intent is rolled back; elsewhere the command fails with
\* the files as they are.
OnErr(phase) == IF phase \in Intents THEN "rollbackSave" ELSE "idle"

-----------------------------------------------------------------------------
Init ==
    /\ vis = [f \in Files |-> NoState]
    /\ dur = vis
    /\ lock = Nobody
    /\ pc = [p \in Procs |-> "idle"]
    /\ io = [p \in Procs |-> "rename"]
    /\ st = [p \in Procs |-> NoState]
    /\ backup = NoState
    /\ sent = {}
    /\ retained = {}
    /\ abandoned = {}
    /\ revoked = 0
    /\ lapses = {}

Acquire(p) == pc[p] = "idle" /\ lock = Nobody /\ lock' = p

\* p goes on to `phase' with s in memory, still holding the lock.
Enter(p, phase, s) ==
    /\ pc' = [pc EXCEPT ![p] = phase]
    /\ io' = [io EXCEPT ![p] = "rename"]
    /\ st' = [st EXCEPT ![p] = s]

\* The process exits, in any way: the kernel drops its lock.
Leave(p) ==
    /\ Enter(p, "idle", NoState)
    /\ lock' = Nobody

Continue(p, phase, s) ==
    IF phase = "idle" THEN Leave(p) ELSE Enter(p, phase, s) /\ UNCHANGED lock

-----------------------------------------------------------------------------
(* Commands: each begins by taking the lock and reading live.              *)

Enrolled(s) == s # NoState /\ s.granted /\ ~s.pending

Intent(s) == [s EXCEPT !.pending = TRUE]
Settled(s) == [s EXCEPT !.pending = FALSE]

\* Mutation: a grant that is still good is released without a publication.
UseGrantUnpublished(p) ==
    /\ Acquire(p)
    /\ Enrolled(vis.live)
    /\ Enter(p, "release", vis.live)
    /\ UNCHANGED <<vis, dur, backup, ghosts>>

\* `access' to a grant good for another minute, which is re-published.
UseGrant(p) ==
    /\ Acquire(p)
    /\ Enrolled(vis.live)
    /\ Enter(p, "publish", vis.live)
    /\ UNCHANGED <<vis, dur, backup, ghosts>>

\* `access' to a grant about to expire.
BeginRefresh(p) ==
    /\ Acquire(p)
    /\ Enrolled(vis.live)
    /\ Enter(p, "intentSave", Intent(vis.live))
    /\ UNCHANGED <<vis, dur, backup, ghosts>>

BeginAccess(p) == UseGrant(p) \/ BeginRefresh(p)

FirstState(e) ==
    [enr |-> e, rev |-> 0, token |-> 0, pending |-> FALSE, granted |-> TRUE]

\* A step at which the operator rolls the store back if `obsolete' holds.
Lapse(kind, obsolete) ==
    /\ obsolete => RollBacks
    /\ lapses' = IF obsolete THEN lapses \cup {kind} ELSE lapses

\* `apply --initialize' on a missing live file.  Using it with an enrollment
\* that the current checkpoint already covers is an operator's roll-back.
BeginInitialize(p) ==
    /\ Acquire(p)
    /\ vis.live = NoState
    /\ \E e \in Enrollment :
        /\ Enter(p, "enrollSave", FirstState(e))
        /\ Lapse("initialize", vis.ckpt # NoState /\ e.gen <= vis.ckpt.enr.gen)
    /\ UNCHANGED <<vis, dur, backup, sent, retained, abandoned, revoked>>

\* Mutation: repeating a generation enrolls it again.
SupersedesOrRepeats(e, s) == e.gen >= s.enr.gen

\* Mutation: an older generation replaces a newer one.
SupersedesAny(e, s) == e.gen # s.enr.gen

Supersedes(e, s) == e.gen > s.enr.gen

\* `apply' over an existing live file: a newer generation replaces it, an
\* older or repeated one only re-publishes the checkpoint.
BeginApply(p) ==
    /\ Acquire(p)
    /\ vis.live # NoState
    /\ \E e \in Enrollment :
        \/ /\ Supersedes(e, vis.live)
           /\ Enter(p, "enrollSave", FirstState(e))
        \/ /\ ~Supersedes(e, vis.live)
           /\ e.gen = vis.live.enr.gen => e = vis.live.enr
           /\ Enter(p, "enrollCkpt", vis.live)
    /\ UNCHANGED <<vis, dur, backup, ghosts>>

Tombstone(s) == [s EXCEPT !.granted = FALSE, !.pending = FALSE]

BeginRemove(p) ==
    /\ Acquire(p)
    /\ vis.live # NoState
    /\ Enter(p, "enrollSave", Tombstone(vis.live))
    /\ UNCHANGED <<vis, dur, backup, ghosts>>

\* A settled checkpoint can replace a missing live file, and nothing else.
Restorable(live, s) == live = NoState /\ ~s.pending

\* `restore' of a decrypted checkpoint into a missing live file.  Restoring
\* anything but the current checkpoint.age is an operator's roll-back.
BeginRestore(p) ==
    /\ Acquire(p)
    /\ \E s \in {vis.ckpt, backup} \ {NoState} :
        /\ Restorable(vis.live, s)
        /\ Enter(p, "enrollSave", s)
        /\ Lapse("restore", s # vis.ckpt)
    /\ UNCHANGED <<vis, dur, backup, sent, retained, abandoned, revoked>>

-----------------------------------------------------------------------------
(* atomic_write, in the two halves a power loss can separate.              *)

Rename(p) ==
    /\ pc[p] \in Writes
    /\ io[p] = "rename"
    /\ vis' = [vis EXCEPT ![FileOf(pc[p])] = st[p]]
    /\ io' = [io EXCEPT ![p] = "sync"]
    /\ UNCHANGED <<dur, lock, pc, st, backup, ghosts>>

\* The fsync of the directory makes both files' latest renames durable.
Sync(p) ==
    /\ pc[p] \in Writes
    /\ io[p] = "sync"
    /\ dur' = vis
    /\ Continue(p, OnOk(pc[p]), st[p])
    /\ revoked' = IF pc[p] = "enrollCkpt" /\ ~st[p].granted /\ st[p].enr.gen > revoked
                  THEN st[p].enr.gen ELSE revoked
    /\ UNCHANGED <<vis, backup, sent, retained, abandoned, lapses>>

\* An I/O or encryption error before the rename, or a failed directory fsync
\* after it.
WriteFails(p) ==
    /\ pc[p] \in Writes
    /\ Continue(p, OnErr(pc[p]), Settled(st[p]))
    /\ abandoned' = IF pc[p] = "rollbackSave" THEN abandoned \cup {AttemptOf(st[p])}
                                              ELSE abandoned
    /\ UNCHANGED <<vis, dur, backup, sent, retained, revoked, lapses>>

-----------------------------------------------------------------------------
(* The token exchange.                                                     *)

Dispatch(p) ==
    /\ pc[p] = "dispatch"
    /\ sent' = sent \cup {AttemptOf(st[p])}
    /\ Enter(p, "exchange", st[p])
    /\ abandoned' = abandoned \ {AttemptOf(st[p])}
    /\ UNCHANGED <<vis, dur, lock, backup, retained, revoked, lapses>>

CountsFurther(s) == s.rev < MaxRev

\* The revision after s, holding the refresh token that revision t brought.
NextRevision(s, t) == [s EXCEPT !.rev = @ + 1, !.token = t, !.pending = FALSE]

\* A usable answer for the same account arrives in time.  It brings a new
\* refresh token, or names none and the one sent stays in force.
ExchangeOk(p) ==
    /\ pc[p] = "exchange"
    /\ CountsFurther(st[p])
    /\ \E t \in {st[p].token, st[p].rev + 1} :
        /\ Enter(p, "commitSave", NextRevision(st[p], t))
        /\ retained' = IF t = st[p].token THEN retained \cup {AttemptOf(st[p])}
                                          ELSE retained
    /\ UNCHANGED <<vis, dur, lock, backup, sent, abandoned, revoked, lapses>>

\* Transport error, time-out, refusal, unusable answer or revision overflow:
\* whether the provider rotated the refresh token is unknown.
ExchangeFails(p) ==
    /\ pc[p] = "exchange"
    /\ Leave(p)
    /\ UNCHANGED <<vis, dur, backup, ghosts>>

\* The access token goes to the consumer, or has expired meanwhile.
Release(p) ==
    /\ pc[p] = "release"
    /\ Leave(p)
    /\ UNCHANGED <<vis, dur, backup, ghosts>>

-----------------------------------------------------------------------------
(* The environment.                                                        *)

\* The intents of these processes reach the disk or not, but never the network.
Interrupted(ps) == {AttemptOf(st[p]) : p \in {q \in ps : pc[q] \in Undispatched}}

\* A command is killed (a consumer's time-out, a signal).
Kill(p) ==
    /\ pc[p] # "idle"
    /\ Leave(p)
    /\ abandoned' = abandoned \cup Interrupted({p})
    /\ UNCHANGED <<vis, dur, backup, sent, retained, revoked, lapses>>

\* Every rename since the last directory fsync may or may not survive.
PowerLoss ==
    /\ vis' \in {d \in [Files -> {vis[f] : f \in Files} \cup {dur[f] : f \in Files}] :
                    \A f \in Files : d[f] \in {vis[f], dur[f]}}
    /\ dur' = vis'
    /\ lock' = Nobody
    /\ pc' = [p \in Procs |-> "idle"]
    /\ io' = [p \in Procs |-> "rename"]
    /\ st' = [p \in Procs |-> NoState]
    /\ abandoned' = abandoned \cup Interrupted(Procs)
    /\ UNCHANGED <<backup, sent, retained, revoked, lapses>>

\* state.json is lost; the rest of the directory survives.
LoseLive ==
    /\ vis.live # NoState
    /\ vis' = [vis EXCEPT !.live = NoState]
    /\ dur' = [dur EXCEPT !.live = NoState]
    /\ UNCHANGED <<lock, pc, io, st, backup, ghosts>>

TakeBackup ==
    /\ Backups
    /\ backup # vis.ckpt
    /\ backup' = vis.ckpt
    /\ UNCHANGED <<vis, dur, lock, pc, io, st, ghosts>>

-----------------------------------------------------------------------------
Begin(p) == \/ BeginAccess(p) \/ BeginInitialize(p) \/ BeginApply(p)
            \/ BeginRemove(p) \/ BeginRestore(p)

Run(p) == \/ Rename(p) \/ Sync(p) \/ WriteFails(p)
          \/ Dispatch(p) \/ ExchangeOk(p) \/ ExchangeFails(p) \/ Release(p)

Next == \/ \E p \in Procs : Begin(p) \/ Run(p) \/ Kill(p)
        \/ PowerLoss \/ LoseLive \/ TakeBackup

Spec == Init /\ [][Next]_vars

\* Nothing a command waits for is unbounded: the exchange has a five-second
\* time-out and file operations return, so a running command keeps running.
CommandsProgress == \A p \in Procs : WF_vars(Run(p))

\* Faults do not last for ever: consumers ask again, and a file operation that
\* accesses attempt again and again succeeds some time.
FaultsPass ==
    \A p \in Procs :
        /\ SF_vars(BeginAccess(p))
        /\ \A phase \in Intents \cup {"publish"} : SF_vars(Rename(p) /\ pc[p] = phase)
        /\ SF_vars(Sync(p) /\ pc[p] = "intentSave")

FairSpec == Spec /\ CommandsProgress
RecoverySpec == FairSpec /\ FaultsPass

-----------------------------------------------------------------------------
\* The type invariant.
TypeOK ==
    /\ vis \in [Files -> Maybe]
    /\ dur \in [Files -> Maybe]
    /\ lock \in Procs \cup {Nobody}
    /\ pc \in [Procs -> Phases]
    /\ io \in [Procs -> {"rename", "sync"}]
    /\ st \in [Procs -> Maybe]
    /\ backup \in Maybe
    /\ sent \subseteq Attempts
    /\ retained \subseteq Attempts
    /\ abandoned \subseteq Attempts
    /\ revoked \in Generations \cup {0}
    /\ lapses \subseteq {"initialize", "restore"}

\* No exchange is repeated, and no refresh token the provider may have rotated
\* is sent again: whatever was killed, lost, restored or enrolled before, a
\* process about to contact the provider does so for a later revision than any
\* exchange of its enrollment, and sends a token that was sent before only if
\* every answer it got left it in force (docs: "rather than replaying a possibly
\* rotated refresh token").  The operator's own roll-backs, which the
\* documentation says cannot be detected, are excepted.
NoReplay ==
    lapses = {} => \A p \in Procs : pc[p] = "dispatch" =>
        \A a \in sent : a.enr = st[p].enr =>
            a.rev < st[p].rev /\ (a.token = st[p].token => a \in retained)

\* When an access token is released, both the checkpoint and whatever is left
\* of the live file hold the grant it came from, settled, and would still hold
\* it after a power loss (Config: "the current checkpoint is encrypted on every
\* successful enrollment/rotation before credentials are released to apps").
ReleasedIsRecoverable ==
    \A p \in Procs : pc[p] = "release" =>
        /\ Enrolled(st[p])
        /\ vis.ckpt = st[p] /\ dur.ckpt = st[p]
        /\ vis.live \in {st[p], NoState} /\ dur.live \in {st[p], NoState}

\* Once a command has reported a generation removed, no access token of that
\* generation or an older one is released, not even after the live file was
\* lost and restored from the current checkpoint.
RemovedStaysRemoved ==
    lapses = {} => \A p \in Procs : pc[p] = "release" => st[p].enr.gen > revoked

\* The store demands a new authorization only when it must: a settled live file
\* is fenced only if its refresh was sent, or was cut off after the intent was
\* recorded (docs: "a failed checkpoint before dispatch is retryable").
FencedOnlyForCause ==
    lock = Nobody /\ vis.live # NoState /\ vis.live.pending =>
        AttemptOf(vis.live) \in sent \cup abandoned

\* What is durable as live never moves back: only a newer generation replaces
\* it, and within a generation revisions only grow, the contents are never
\* exchanged, and a removed grant never returns.
LiveNeverRollsBack ==
    [][dur.live # NoState /\ dur'.live # NoState =>
        \/ dur'.live.enr.gen > dur.live.enr.gen
        \/ /\ dur'.live.enr = dur.live.enr
           /\ dur'.live.rev >= dur.live.rev
           /\ dur'.live.granted => dur.live.granted]_vars

\* A command that has the lock gives it up, whatever fails and however the
\* exchange ends, so no consumer is locked out for good.
LockIsReleased == \A p \in Procs : lock = p ~> lock # p

\* A checkpoint that was not published with the live file it belongs to is
\* eventually repaired by later accesses (comment in Store::access), unless the
\* enrollment is fenced, removed, or lost first.
CheckpointCatchesUp ==
    Enrolled(vis.live) /\ vis.ckpt # vis.live
        ~> \/ vis.ckpt = vis.live
           \/ vis.live = NoState
           \/ lock = Nobody /\ ~Enrolled(vis.live)
=============================================================================

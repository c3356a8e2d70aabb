# Formal models of nix-provenance

TLA+ specifications of the stateful parts of this repository, the TLC instances
that model-check them, and TLAPS proofs of the safety properties that the runs check.

nix-provenance keeps self-hosted services in the state a NixOS configuration
declares. Most of its crates are short programs that run at activation or on
demand, look at files and at a remote server, and change both. Only one of them, the
Proton login, is concurrent inside. What makes them hard is what happens *between* their steps:
they are killed by time-outs, restarted by systemd, cut off by power losses, run
next to each other, and retried by operators, while the other side (an OAuth
provider, a database, an agent process) remembers what was already done. The
models are about exactly that.

Run a check with `tlc -config X.cfg M`, a proof with `tlapm M.tla`;
`PROJECT.json` lists which configuration goes with which module, and for every
definition the source lines it stands for.

## 1. The system

| Component | State it keeps | Operations | Talks to |
|---|---|---|---|
| **provenance-oauth, store** (`state.rs`) | `state.json`, `checkpoint.age`, a lock file | `apply`, `apply --initialize`, `access`, `remove`, `restore`, `status` | an OAuth provider, consumers (adapters) |
| **provenance-oauth, enrollment** (`main.rs`) | pending grant, receipt, encrypted source | `authorize`, `finalize` | the provider's device flow, agenix, the fleet's deployment, and through it the store |
| **stalwart016-provision** | migration marker, registry marker, backup sentinel | one activation per unit start | `stalwart-cli`, a recovery server, PostgreSQL, systemd |
| **provenance-rbw** | two durable trees, a marker, a lock | `prepare` before every wrapped client or agent, `status` | the rbw agent, clients outside the wrapper |
| **provenance-core** | generated secret files, password and pending markers | `ensure`, `rotate`, `replace`, `recover`; `needs_update`, `commit`, `mark_pending` | used by the provisioners |
| **rauthy-provision** | transient API key, password markers, client secret files | reconcile groups, roles, attributes, scopes, users, providers, clients | Rauthy's API |
| **tuwunel-provision** | admin token file, password markers, the server's runtime configuration | obtain a token, create users, open and close a registration window, reconcile a room | Tuwunel, systemctl |
| **stalwart-oauth-bootstrap** | refresh token in the desktop keyring | refresh, or bootstrap by password and PKCE | Stalwart, secret service |
| **proton-vpn-auth** | none (an encrypted account document) | drive a client's prompts under a deadline | the VPN client |
| **forgejo-provision, github-provision** | none | list and plan keys, then apply; collaborators and invitations | the service's API |
| **vikunja-provision** | none | reconcile projects, labels, teams, members, a webhook | Vikunja |
| **immich-provision** | password markers | create and update users | Immich |
| **identity-cli** | none | operator's commands | Kanidm, Rauthy, Bitwarden |
| **kanidm-, rauthy-state-render** | none | render one JSON document from another | - |
| **adapters/oauth** | none | call the store's `access` with a nine-second limit | the store |
| **Nix modules, CI** | none | declarative wiring | - |

How they interact. Consumers reach a token only through the store's `access`.
`authorize` and `finalize` feed the store: the encrypted source they publish is
deployed, applied on the target (`apply`), and acknowledged by the operator with
the generation read there. The Stalwart provisioner is the `ExecStartPre` of the
mail server's unit, which decides when it is started, restarted and killed. The
provisioners share provenance-core's files and markers, and nothing else.

What is hard, and what has to be right:

* **OAuth store.** Refresh tokens rotate, or an answer leaves the one sent in force:
  sending a rotated one again makes the provider revoke the grant, and a process can be
  cut off between sending one and storing its successor. Two files must agree through
  kills, power losses and failed writes, and so must what is restored from a backup of
  one of them. Right means: no token is sent again that may have been rotated; no
  consumer gets a token that could not be recovered; a removed grant stays removed;
  nobody has to enroll again without a cause; the lock is never kept for ever.
* **Enrollment.** Two directories, one of them holding a plaintext grant that
  must disappear neither too early (the target may still need it) nor too late
  (a consumed grant must never be encrypted again), and generations taken from a
  clock that may be set back.
* **Stalwart provisioner.** A marker is a cached claim about a database. It can
  be lost, or outlive what it describes, and non-idempotent documents can be cut
  off half-way. Right means: the mail server only starts on a migrated store
  with the deployed plan, nothing touches a store that was not backed up, the
  two servers never share the store, and no state is a trap.
* **rbw migration.** Two renames and a marker, cut off anywhere, against an
  agent that keeps writing and against a purge that must not be undone.
* **Rauthy provisioner.** It acts on listings that are outdated when it acts, and
  on a cache that outlives the rows it answers for; remote changes have local
  records (password markers, a secret file) that a kill can separate. Right
  means: success is what it says; no run costs a user the account, a role or a
  password; what was cut off is neither forgotten nor done twice.
* **Tuwunel provisioner.** For a moment it makes a server accept registrations
  from anybody, by a file and a signal that the server handles when it comes to
  it. It checks a private room and then invites into it. Right means: the window
  closes however the run ends, nobody is invited into a room that is not what it
  was checked to be, and success is what it says.
* **Key provisioners.** They delete by ids listed earlier while others add and
  remove keys. Right means: a doubtful plan changes nothing, for nobody; only
  what was listed and declared is deleted; one repository that fails does not
  hold back the others; the exit status says whether a retry can help.
* **Vikunja provisioner.** Names are not unique at the server, the list of teams
  comes by pages, and members differ from one request to the next. Right means:
  nothing is made twice, and only surplus members are removed.
* **Session logins.** Secrets go to another program's prompts, which arrive in
  pieces over two streams; a token rotates at the server before the keyring has
  it; the keyring may be locked at any time. Right means: secrets go only where
  they are asked for, a final failure is final for a reason, success is real,
  and a lost rotation is made good.

`PROJECT.json` lists the hazards one by one with the source line where each
bites and the properties that would notice it.

## 2. The modules

Conventions. A program that holds a lock, or that systemd runs one at a time, is
sequential, so its progress is one variable `pc`; a step of it is what the code
does up to the next point where another actor, a failure or a power loss can
make a difference. Files have two values, the one processes *see* and the one
that is certain to be *durable*; a rename changes the first, the fsync of its
directory the second, and a power loss leaves either, file by file (the rbw
model journals whole states instead, see below). A command that is refused, or
fails before it has changed anything, is not a step. Definitions marked
"Mutation" are plausible bugs: replacing the definition that follows by one of
them must break a property, and none of them is used by a specification.
Ghost variables remember history for the properties (`sent`, `revoked`,
`lapses`, `faults`, ...); no guard of the program reads them.

### OAuthStore

One state directory shared by the processes `Procs`. `vis` and `dur` map the two
files to a `State` or to `NoState`; `lock`, `pc`, `io`, `st` are the lock holder,
each process's next phase, the half of `atomic_write` it is in, and the state it
holds in memory; `backup` is an off-host copy of the checkpoint.

| Action | Code |
|---|---|
| `UseGrant`, `BeginRefresh` | `Store::access` with a good, or an expiring, grant |
| `BeginInitialize`, `BeginApply` | `Store::apply` |
| `BeginRemove`, `BeginRestore` | `Store::remove`, `Store::restore` |
| `Rename`, `Sync`, `WriteFails` | `atomic_write`, for every file and phase, and its errors |
| `Dispatch`, `ExchangeOk`, `ExchangeFails` | the exchange between `Store::access` and the provider |
| `Release` | the token leaves the process |
| `Kill`, `PowerLoss`, `LoseLive`, `TakeBackup` | the environment |

`OnOk` and `OnErr` are the control flow of the commands: which file is published
next, and where an error leads. A State is named by its enrollment and revision,
its refresh token by the revision whose exchange brought it (`token`): an answer
that names no refresh token leaves the old one in force (openai.rs:171-174), and the
next revision sends it again. So what is sent, an attempt, is an enrollment, a
revision and a token; `retained` are the attempts answered that way. Time is a
free choice wherever
the code compares `expires_at` with the clock. `Backups` lets the operator copy the
checkpoint, `RollBacks` restore an outdated copy or initialize over a covered
checkpoint, which the store cannot detect (and says so); `lapses` records that it
happened.

### EnrollmentTransaction

The operator's directory: `pending` (the plaintext grant), `receipt` (the newest
acknowledged generation) and `secret` (the published, encrypted source, in a
directory of its own). `AuthorizeFinished`, `AuthorizeResume`, `AuthorizeFresh`
are the three ways `authorize` begins; `SavePending`, `Encrypt`, `SaveSecret`
its writes; `Finalize`, `FinalizeAgain`, `SaveReceipt`, `Unlink` are `finalize`.
`Deploy` is the target: it takes any source ever published, in generation order
(which is what OAuthStore!LiveNeverRollsBack promises). `SetClockBack` and
`PowerLoss` are the faults; `faults` records them.

### StalwartProvision

One start of `stalwart.service` after another. `marks` and `kept` are the marker
files; `store` says of every migration document whether it was applied `"none"`,
`"partly"`, `"once"` or `"again"`, and which plan the registry reflects; `server`
is the recovery server. `settings` are the three options of a host that change
the control flow; they are chosen once, so that one run covers hosts of every
kind. `PromoteLegacyMarker ... Exit` follow `main` in order; `ApplyFails` and
`RecoveryFails` are its errors, all of which pass through `RecoveryServer::drop`
(`Terminate`, `Exit`). `Activate` is systemd starting the unit, `Kill` systemd
killing its control group, `Deploy` a new configuration, `Wipe` a recreated
database, `VerifyBackup` the operator.

### RbwMigration

`prepare` runs under a lock, hence the single `step`. `fs` holds both trees in both
places and the marker; a tree is the last version rbw wrote to it. Here the file
system journals: `past` holds the states a power loss can go back to since the
last fsync (renames move whole trees between directories, so half of one is not
a state). The `agent` knows nothing of the lock; `LegacyStart` is a client
outside the wrapper that starts one on the old directories.

### RauthyProvision

One run after another of `rauthy-provision`; `pc` is the next request or local
step, `loc` what the run has read so far. The items of a class (two users, two
clients) never meet in the code, so a behaviour follows one item, chosen with its
kind and the options in `settings`: a group, role, attribute or scope (`named`),
an upstream provider with its duplicates (`links`), a user (`row`, `cached`,
`marks`), or a client with its secret file (`client`). Comparisons of contents
are reduced to flags: an item is `"drifted"` or `"ok"`, a user shows some of its
declared parts (`synced`), and a federated user's `link` is `"unsound"` if the audit
refuses it: to another provider than the canonical one, to a deleted one, without a
UID, or of an account type that contradicts it or is missing. A link breaks in the
user class by a change of others; that the provider class of the same program can
break it is `LinkUser` and `DeleteProvider` there.

| Actions | Code |
|---|---|
| `Start`, `MintKey`, `RotateKey`, `DeleteKey`, `After` | `main`, `run_with_transient_api_key` |
| `ListNames`, `ApplyName` | `reconcile_groups`, `_roles`, `_user_attributes`, `_scopes` |
| `ListProviders` ... `BindProvider` | `reconcile_providers` with the link counts and `select_canonical_provider` |
| `ListUsers`, `GetUser`, `Evict`, `Route` | the listing, the lookup and the choice of an arm in `reconcile_users` |
| `MarkPending` ... `RequestPasswordReset` | creating or updating a user, initial password, audit, mail |
| `DeleteUser`, `CreateThrowaway` | the last arms of `reconcile_users`, `clear_stale_email_key` |
| `GetClient` ... `WriteSecretFile` | `reconcile_clients`, `ensure_client_secret_file` |
| `Rejected` | an error answer the present state of the server calls for, and an expired key |
| `FailInside`, `FailOutside`, `Kill`, `ExpireKey` | transport errors, lost answers, unwritable files, systemd, time |
| `Change`, `Redeclare`, `CacheExpires` | administrators, users, Rauthy's own clean-up; a new declaration |

The server is modelled from how the code describes it: a lookup by email is
answered from a cache that can outlive the row, the list of users from the
database unless it is paged; creating a user does not touch the cache, saving
one rewrites its entry, deleting one clears both keys. Two approximations: a key
that expires may end a run one local decision early, and the reads that bind a
declared provider to its id are one step.

### TuwunelProvision

One run after another. `loc` is the run's memory, with `open` for the part of the
code inside `with_registration_open` and `body` for the outcome its restore must
not lose. The server is `reg` (does it accept registrations?), a pending `signal`,
`accounts`, `rooms` and the declared `alias`; `HandleSignal` reads the runtime
configuration at a moment of its own choosing.

| Actions | Code |
|---|---|
| `ReadToken`, `WriteToken`, `RefreshToken` | obtaining, keeping and refreshing the admin token |
| `Register` ... `SetDisplayName` | `client.rs` registration with the dummy flow, login with the declared password |
| `OpenWrite` ... `CloseSignal` | the window, its retries and its restore |
| `CheckUser`, `PostUser`, `CommitMarker` | the loop over users and their markers |
| `EnterRoom` ... `Logout` | shared and private rooms, `verify_private_room_state`, invitations, the creator's device |
| `Fail`, `Kill`, `RestartServer` | lost calls and answers, systemd, the server |
| `RotateCredential`, `ChangeAccount`, `ChangeRoom` | new password files, users, other members and administrators |

### KeyProvision

`forgejo-provision` and `github-provision` have one shape: list all, plan all,
refuse or apply. `settings.service` says which one a behaviour runs; a shelf is
the keys of one user (Forgejo) or of one kind (GitHub). `Doubtful` and `Plan`
are the planners, `List` the phase that must finish before `Apply` begins;
`SelectRepositories` (those that are owned and not archived, or those that are named),
`CheckAccess` and `CheckInvites` (two requests), `Invite`, `ListInvitations`, `AcceptOne`
are GitHub's collaborators. `Retry` is the restart of GitHub's unit. `ghost.since` holds the
keys somebody registered after the run had listed their shelf, `ghost.moved` the
repositories whose standing changed after the run had looked, `ghost.twice` the OpenPGP
keys that the listing showed more than once: of one that is to go `plan_gpg` deletes
the first.

### VikunjaProvision

`teams` is the list in the server's order, `FirstPage` what the program reads of
it. `ReconcileTeam` treats the next declared team, `RelistTeams` reads the list
anew, `GetTeam`, `AddMember`, `RemoveMember` carry out `MembershipDiff`, the
webhook comes last. `Found` is the team at the first of a name's `Places` on a list,
as `find` is over the listing. `ghost.fits` says whether the teams fitted on the page
when the run started. `Stop` is a failed call, a lost answer or a kill: nothing in
the code distinguishes them.

### ProtonLogin, StalwartOAuthBootstrap, SessionLogins

The two programs that sign in the user of a desktop session. `ProtonLogin` has the
client (`client`, with what it still has to write), its output (`pipe`), two reader
threads, the bounded `channel` and the main loop, each with steps of their own; `Judge`
is `Output::check` and what `run` makes of it. Before there is a client an attempt
protects itself (`Protect`) and takes its lock (`TakeLock`); `InvokeFails` stands for
the failures around a client: it is not launched, its words are too many or cannot be
read. `ghost.cause` says that something the code takes for final happened in the
attempt, `ghost.transient` that the client said what is to be retried.
`StalwartOAuthBootstrap` has the token in the keyring (`kept`), the tokens the server
takes (`live`), what the server offers (`offers`: tokens, a code that brings no refresh
token, or metadata that are not the issuer's), and the run's calls one by one.
`SessionLogins` composes them: both instances share the keyring (`unlocked`, changed by
`ToggleKeyring`) and the bound on the user's moves. They share nothing else, so that
interleaving them shows nothing; `enabled` chooses the one whose unit the session has,
and the other rests.

### TokenLedger, OAuthStoreLedger

`TokenLedger` is what the store promises, without files, locks or processes: a set of
exchanges made, those that left their token in force, one record that moves forward, who
is being handed an access token, and the newest generation removed. `OAuthStoreLedger`
gives the refinement mapping (`spent <- sent`, `kept <- retained`, `record <- dur.live`,
`out <- HandedOut`, `removed <- revoked`) and `ImplementsLedger` says that every step of
every process and every fault is one step of the ledger, or none. It says more than the
invariants one by one: that a spending, a hand-out and a removal never happen in the
same step, that no two processes hand out at once, and that a hand-out agrees with the
durable record at the moment it happens.

## 3. What is checked

| Run | Instance | Shows |
|---|---|---|
| `oauth_store` | 2 processes, 2 generations, 2 contents, revisions 0..1, no roll-backs | all safety properties of the store, and that it implements TokenLedger |
| `oauth_store_live` | 1 process, 1 generation, revisions 0..1, backups, fairness | the lock is released, the checkpoint catches up |
| `enrollment` | 4 generations and clock readings, 3 grants | all properties of the transaction |
| `stalwart_provision` | 2 plans, 2 documents, 4 kinds of host, fairness | safety and `ComesUp` |
| `stalwart_rollback` | no documents | *violated*: finding 1 |
| `rbw_migration` | 3 versions per tree, fairness | safety and `Completes` |
| `rauthy_provision` | 17 declarations, 2 faults, 3 changes by others, 4 duplicate providers, fairness | safety and `RunsSucceed` |
| `tuwunel_provision` | 2 users, 2 passwords, 1 invitee, 2 tries per window, 1 fault, 2 changes by others, fairness | safety and `WindowCloses` |
| `key_provision` | 7 declarations, 2 titles, 2 keys, 2 repositories, 2 invitations, 1 fault, 2 changes, fairness | safety and `Settles` |
| `key_mismatch` | no faults, no changes | *violated*: finding 2 |
| `vikunja_provision` | 5 declarations, 2 people, 3 team names, pages of 2, 3 teams, 1 fault, 3 changes | safety |
| `session_logins` | 5 account documents, a channel of 2, 3 starts, 2 faults, 2 moves of the user, fairness | safety and `RunsSettle` |

Some properties are conjunctions, so that one run of a mutant speaks for each:
`StoreIsSafe` is `ServesMigrated`, `OneServer` and `NoTouchBeforeBackup`;
`MigrationIsSafe` is `LatestKept`, `MarkerMeansMoved` and `MigratedIsLatest`;
`NothingTakenAway` is `AccountsKept` and `LinkedProviderKept`;
`LeftBehindOnlyForCause` is `RegistrationOpenOnlyForCause` and `DeviceLoggedOut`;
`OnlyDeclaredChanges` is `DeletesOnlyListed` and `StandingsKept`;
`SuccessIsGenuine` and `SecretsGoWhereAsked` have one conjunct for each login.
Every module has a `TypeOK` (`RbwMigration` a `MigrationTypeOK`). Those of the
modules with a proof module are proved, the others were checked with the instances
above; none is a property of a listed run.

More configurations, for runs by hand:

| Configuration, module | Shows |
|---|---|
| `OAuthStoreRollBack.cfg`, MCOAuthStore | what still holds after an undetectable roll-back |
| `OAuthStoreRollBackLive.cfg`, MCOAuthStore | the liveness of the store through roll-backs, revision 0 |
| `EnrollmentRetry.cfg`, EnrollmentTransaction | *violated*: `RetryReusesGrant`, observation 3 |
| `StalwartProvisionOnce.cfg`, MCStalwartProvision | *violated*: `MigrationAppliedOnce`, observation 4 |
| `RauthyEviction.cfg`, MCRauthyProvision | *violated*: `EvictionDeletesNoRow`, observation 5 |
| `TuwunelWindow.cfg`, MCTuwunelProvision | *violated*: `ClosedAfterSuccess`, observation 6 |
| `VikunjaTeams.cfg`, MCVikunjaProvision | *violated*: `TeamCreatedOnce`, observation 7 |

Why the bounds suffice. Store: the lock admits one command at a time, so two
processes show every hand-over; two generations let one supersede, precede and
repeat the other, and two contents let one generation come with the wrong
contents. One revision is one full rotation, with a new token or the same one, and the
second refresh, which does not commit, stands for one whose exchange never succeeds.
The properties relate at most two exchanges. For liveness one process is enough, because only
the lock holder ever is in a command (`Exclusive`, proved) and a waiting one
changes nothing. Enrollment: four generations let the clock be set back past the
receipt and a third grant follow; with fewer the refused cases do not arise.
Stalwart: two documents are the least for "the first applied, the second
failed"; two plans suffice to deploy forward and back. rbw: a version before the
move, one written by an agent that survives into it, and one after it. Rauthy:
two faults let a run that recovers from a first one be cut off too; three
changes are what it takes to add a duplicate provider and to link users to two,
or to lose a row behind the cache, have it made again and edited. Ids and
secrets are reused once nothing refers to them, so five and four are enough for
`NewId` and `NewSecret` always to exist.

Tuwunel: the second user is the one after the admin, whose registration needs a
window of its own when there is no admin API; two tries show the retry and its
limit; one fault cuts any step; two changes let the alias go and come back, or a
member join between the check and the invitation. Keys: two titles and two bodies
give every doubtful listing (a title twice, a body under another title, a body
that drifted); two shelves let the second be in doubt after the first was planned;
two changes let a listed key be removed and one of the same title be registered.
Vikunja: pages of two let a run's own team be the last that fits, and a third
team, somebody else's, be the first that does not; of three names one is to be and
two are not, so that the deletion of one can bring another onto the page; three
changes put such a team behind it. Session logins: a channel of two is
the least that fills up while one reader waits; a start limit of three is the
unit's; five documents are a right one for either kind of account and one for each
way to be wrong; two faults and two moves lose a rotation and lock the keyring in
the run that repairs it.

`enrollment` says CHECK_DEADLOCK FALSE: an operator who has used up the grants of
the instance and acknowledged everything has nothing left to do. No other run
needs it; in VikunjaProvision, whose `Start` is bounded, `Rest` says that there
need not be another run.

Properties that hold only without a certain fault say so in their text, by a
ghost variable, rather than in the configuration, so that the other properties are
checked with it. One configuration does leave a fault out: `oauth_store` has no
operator roll-backs (`OAuthStoreRollBack.cfg` has them), and `ImplementsLedger` needs that.

* `NoReplay` and `RemovedStaysRemoved` exclude the operator's own roll-backs.
* `ConsumedNotEncrypted` and `SecretNeverOlder` exclude power losses that really
  undid a rename, for the reason of observation 3: a retry trusts a file whose
  name is not durable. `GenerationNamesGrant` and `DiscardedOnlyApplied` exclude only
  the coincidence of such a power loss with a clock that was set back.
* `ServesProvisioned` excludes deploying back to an earlier plan (finding 1) and
  a registry marker whose removal or replacement was lost.
* `ServesMigrated` excludes a database that was recreated empty: the migration
  marker outlives it by design, and the health check re-applies the plan only.
* `MigratedIsLatest` excludes clients outside the wrapper and lost state.
* The properties of RauthyProvision that speak of a run's effects exclude runs
  during which somebody else changed the server (`quiet`), whose changes such a
  run may overwrite: every update is a full replace of what was read before. The
  finer exclusions are behaviours of the code worth knowing:
  `SuccessMeansDeclared` excludes a row that a stale cache entry hid (`hid`): the
  run evicts the entry and does not look again, so a user declared absent stays
  until the next run. `KeyLeftOnlyForCause` excludes a failure to rotate the
  secret of a minted key, on which `?` returns before the deletion.
  `SecretFileIsCurrent` excludes a client that was deleted and made again under
  an existing file (`recreated`). `AccountsKept` excludes the user's own password
  while the creation is pending: the pending marker outlives the setting of the
  password by two file operations, and a kill between them makes the next run
  set it again. `PasswordNotForgotten` excludes a password that was sent to the
  id of a deleted row because the cache still answered with it (`missed`).

* TuwunelProvision. `SuccessMeansProvisioned` excludes runs others interfered with
  (`quiet`), a password the user changed, and a user an earlier run gave a
  password without coming to write the marker (`ahead`): if the password file then
  goes back to the marker's password, the run believes the marker.
  `LeftBehindOnlyForCause` and `WindowCloses` exclude a run killed inside the window and a
  restore that failed (`cut`), and a kill or a failed call around the device
  (`left`); `RoomGuarded` the changes others make after the check (`still`).
* KeyProvision. `SuccessMeansDeclared` and `RepositoriesIndependent` exclude runs others
  interfered with, the first also an OpenPGP key to go that its listing showed twice
  (`twice`). `OnlyDeclaredChanges` excludes no fault and no interference, but it speaks
  of what the run had seen: a key registered later (`since`) must stay, the standing of
  a collaborator changed later (`moved`) may be overwritten. `Settles` is about runs
  that could succeed (`Acceptable`): a token of the account, no key in doubt, and no
  named repository that is archived (`Closed`).
* VikunjaProvision. Its first two properties suppose that the teams fit on the first
  page, `SuccessMeansDeclared` both when the run starts and when it ends (observation
  8), and `NothingMadeTwice` that nobody else creates anything (`alone`).
* SessionLogins. Success is judged unless somebody signed in or out, or the server
  forgot the token, during or after the run (`quiet`, `fresh`). `PermanentForCause`
  takes the code's word for what is final: that a later attempt would meet it again is
  not claimed, and not true (observations below). `RunsSettle` excuses a run that was
  refused for good (`refused`): the password, a refresh token, or the metadata.

## 4. Fairness

* Store, `CommandsProgress`: a command that has the lock keeps running. Nothing
  it waits for is unbounded: the exchange has a five-second limit and file
  operations return. `Kill` and `PowerLoss` need no fairness, they only end
  commands. `FaultsPass`, for `CheckpointCatchesUp` only: consumers ask again
  and get the lock again and again, and a publication that accesses attempt over
  and over succeeds some time (strong fairness of exactly the writes an access
  needs). `LockIsReleased` uses the first alone, and holds under both.
* Stalwart, `FairSpec`: a sequential program proceeds, and systemd restarts the
  unit (`Restart = "on-failure"`). `FaultsEnd`: from some time on there are only
  activations and successful steps; a server asked to terminate terminates.
  The last is an assumption the code does not enforce: `drop` sends SIGTERM once
  and waits without a limit (recovery.rs:126-132), although the comment above it
  promises SIGKILL as a fallback. What ends such a wait is systemd's start-up
  limit, which is the model's `Kill`.
* rbw: clients prepare their state again and again, and from some time on
  without interruption.

* Rauthy, `FairSpec`: a run does not stand still (every request has a time limit
  of thirty seconds), and the unit is started at boot and again after a failure
  (`wantedBy`, `Restart = "on-failure"`). systemd gives up after six starts in
  five minutes; the instance has room for fewer failures than that in a row, and
  past it the next activation starts the unit. A run that succeeded need never
  be followed by another.

* Tuwunel, `FairSpec`: a run proceeds, and the server handles its signals. The
  strong fairness of handling one *between* two runs says that runs do not follow
  each other so closely, for ever, that every reload finds the next window open;
  a boot or an activation lies between them.
* Keys, `FairSpec`: a run proceeds, and GitHub's unit is restarted after a failure
  (`Restart=on-failure`, five minutes, no status 2). Forgejo's is not restarted,
  and nothing is promised for it.
* Session logins: the bootstrap's calls return, its limit of fifteen seconds on a
  keyring call passes, systemd restarts it. None for the Proton login: whether
  the client ever answers is the client's.

No fairness is assumed in `enrollment`, where an operator may walk away, nor in
VikunjaProvision, whose unit is not restarted.

## 5. What is proved

Each proof module proves about its component what section 3 checks on an
instance, for every value of the constants. Each rests on one inductive
invariant, checked with TLC on the instance before it was proved, and has three
parts: lemmas about what the actions do, one lemma per part of the invariant with
a step per action, and the theorems.

### OAuthStoreProofs

Every safety property of the store, for every set of processes, generations and
contents and every revision bound, with or without operator roll-backs. The
first part deals with what a running command has in memory and on disk:

* `Typing`: `Spec => [](TypeOK /\ Held /\ Exclusive)`. `TypeOK` alone is not
  inductive, since a running command could then have `NoState` in memory and publish
  it; `Held` says that it has a `State`, and `Exclusive` that the commands that run are
  exactly the lock's holder, so no other process disturbs the files between two
  steps of one.
* `Releasing`: `Spec => []ReleasedIsRecoverable`. The property speaks of the phase
  `release` only, but why it holds is spread over the whole command. The inductive
  invariant adds to `Typing` two facts: `Shape`, which flags the state in memory has in
  each phase; and `Published`, what the two files hold of it in each phase, seen and
  durable. A fsync makes *both* files durable, since they share a directory, and that is
  why the publication of the checkpoint also settles the live file.

The second deals with what happened before. Its invariants speak of all
`Copies` of a State there are: in each file, as seen and as durable, and in the
memory of a running command. One lemma per kind of step says where new copies
come from, one per invariant what the commands make of a State that has it.

* `SendingOnce`: `Spec => []NoReplay`. Invariant `Unsent`: every copy covers
  every exchange sent, that is, it is of a newer enrollment, or of a later revision
  with a token the exchange did not send or left in force, or is itself fenced or
  removed. The delicate step is `Dispatch`, the only one that
  makes an exchange: by `Published` all copies then are the one in memory, with
  its intent. That both files hold the intent, durably, is needed: the mutation
  that skips the checkpoint breaks exactly this step.
* `RemovalLasts`: `Spec => []RemovedStaysRemoved`. Invariant `Gone`, of the same
  kind; the delicate step is the fsync that completes `remove`.
* `Fencing`: `Spec => []FencedOnlyForCause`. Invariant `Cause`: an intent in a live
  file was sent, was cut off, or is being carried out.
* `Forward`: `Spec => LiveNeverRollsBack`, an action property. Invariant
  `Advancing`: durable live file, visible live file and the running command's
  State follow each other in the order the property demands.

The third is the refinement of TokenLedger:

* `StoreIsLedger`: `Spec /\ [](lapses = {}) => ImplementsLedger`. `LedgerStep` takes the
  actions one by one: a dispatch is the ledger's `Spend` (by `Unsent` no earlier attempt
  forbids it), an answer without a new token a `Keep`, the fsync that completes
  `publish` is a `Hand` (by `Published` and `Gone` of a recorded grant that was not
  removed), the fsync that makes a removal durable is `Remove`, and everything else, a
  failed call, a kill and a power loss included, is a `Write`, in which the record goes
  forward by `Advancing` and no grant is handed out anew, or changes nothing the ledger
  sees.
* `UntamperedStoreIsLedger`: `RollBacks = FALSE => (Spec => ImplementsLedger)`. The
  operator's roll-backs are the only cause of a lapse, so without them the
  condition holds by itself; that is the configuration TLC checks.

### EnrollmentProofs

For any bounds on generations and grants: `EnrollmentTyping`,
`GenerationsAreNames`, `ConsumedStaysConsumed`, and the action properties
`DiscardingWaits` and `SecretAdvances`. Two mechanisms keep generations apart,
the files that the next one must exceed and the clock; a power loss disables the
first and a clock set back the second, and the property is claimed as long as not
both happened. So the invariant has a part for each, `FilesKeepApart` and
`ClockKeepsApart`, conditional on its fault, and `Working`, what a command holds
in memory by phase. `ClockKeepsApart` is about every enrollment there is a copy of
(`Known`), a durable file that a power loss would bring back included.

### MigrationProofs

The two one-time migrations, of a mail server's store and of rbw's login state.
The two modules share no name, so that this one can extend both: what
`RbwMigration` calls `MigrationSpec`, `MigrationTypeOK` and `step` the others call
`Spec`, `TypeOK` and `pc`.

rbw, for any bound on the versions it writes: `MigrationTyping`, `MoveIsSafe`
(`MigrationSpec => []MigrationIsSafe`) and `NoResurrection`
(`MigrationSpec => NeverResurrected`). The invariant speaks of `Survivors`, the
file system as it is and all those a power loss can bring back: in each, a legacy
tree before the marker is the latest version (`LegacyCurrent`), the latest version
is in one of the two places (`Kept`), and the marker is the last thing to be taken
back (`MarkedLast`). It must quantify over all survivors, for a power loss makes
any of them the present.

Stalwart, for any plans, hosts and number of migration documents: `ProvisioningTyping`,
`StoreStaysSafe` (`Spec => []StoreIsSafe`) and `SkippingIsSound`
(`Spec => []ServesProvisioned`). `DocsVouched` and `TouchVouched` say what a
marker, the administrator's word, or how far the activation got proves of the
store; they hold whatever is lost. `Forwards` and `RegistryVouched` say what the
registry marker proves of the registry, and only hold until a plan is rolled back
or a marker's change is lost (`ForwardInv`), as finding 1 demands.

### KeyProofs

For any declarations, titles, keys, repositories and invitations: `KeyTyping`,
`RefusingIsHarmless`, `SuccessIsDeclared`, `RepositoriesStayApart`, and the action
property `ChangesAreDeclared`. A plan is made from a listing that is outdated
when it is carried out. `PlanSound` is what of it stays true whatever others do:
an id is given once (`IdsName`) and a key keeps its title and body, so what is
deleted by id is still what was listed, or gone. `PlanComplete` is what only holds
while nobody interferes: once the planned operations are done, a shelf is as
declared. `Rounds` and `RoundsComplete` are the same for repositories.

### TuwunelProofs

For any declarations, users, passwords, invitees and bounds: `TuwunelTyping`,
`SuccessIsProvisioned` (`Spec => []SuccessMeansProvisioned`), `LeavingIsExcused`
(`Spec => []LeftBehindOnlyForCause`) and the action property `RoomIsGuarded`
(`Spec => RoomGuarded`). The three files and the server change in turn, with a
possible cut between any two changes, so the invariant says what each is worth
by itself: `Windows`, that a run that left the window has had the closed
configuration in place before its signal; `Devices`, that a device is logged in on
a private room's steps only; `Markers`, that a marker tells the account's
password, unless a later one was given and not recorded; `Progress`, that the users
before the current one are up to date; `WorkingRoom` and `RoomComplete`, that the room
the run works on is the declared one, with those invited so far. `Phases` is the
control behind them: above all that the window is open during registration only
and that every error inside it leads to its restore.

### RauthyProofs

For any declarations, ids, providers, secrets and bounds: `RauthyTyping` and all the
safety properties of a run, `KeyIsDeleted`, `SecretFileCurrent`,
`PendingRemembered`, `SuccessDeclares` and the action property `NothingIsTakenAway`.
A behaviour follows one item through its class, so the invariant has a part for each class;
`SplitSteps` and `SplitOthers` sort the steps into those that begin or end a run, those of
others, and the class's own requests, and only the last need a closer look. `Orderly` is
the control: a run stays in its class, starts with an empty memory, and reports success
only as it returns.

* `KeyOfRun` and `FileOfSecret` account for what a run leaves behind, its transient
  key and the secret file, wherever it is cut.
* `UserInv`, the user class. Four parts hold whatever others do. `Directed`: why the run is
  at a request. `Coherent`: the cache may name a row that is gone, never another version of
  the row that is there. `MarksKept` and `MailsKept`: the pending mark is set before the
  account is made, and falls only with its password; one mail is asked for at the most.
  `ThrowawaysKept`: a throwaway account is the run's own until the run is cut. Two parts
  hold while nobody interferes: `QuietKnows`, for any list, is enough to take nothing away;
  `QuietLists`, that the run never works on a ghost, needs a list that is not paged.
* `ProviderInv`. `LinksCounted` holds under interference: of the providers
  looked at, each linked one was counted or was linked during this run, which is why only
  such a one can be deleted. `ProvidersKnown` is for an undisturbed run: the canonical
  provider (the only linked one, else the least id) is never among those to delete, and
  is left alone in the end. That there is a least id rests on the well-foundedness of the
  natural numbers.
* `NameInv` and `ClientInv`: names, and a client with its secret.

### SessionProofs

For any account documents, any capacity of the channel, any start limit and bounds:
`SessionTyping`, `SuccessGenuine` (`Spec => []SuccessIsGenuine`), `PermanentOnlyForCause`
(`Spec => []PermanentForCause`) and `SecretsWhereAsked` (`Spec => []SecretsGoWhereAsked`).

What the Proton client says is on its way in four places: what it still has to
write, the pipe of a stream, the events in the channel, and what the main loop has
heard. The main loop judges by the last alone, and the properties need the others.
`On(s, x, k, i)` says that a piece of text `x` is at place `i` of the `k`-th of these, for
stream `s`; `ReadsPlaces`, `TakesPlaces` and `WritesPlaces` say how a step moves every such
place, so that what was said stays said (`SaidStays`), and two requests for a code
stay two. Every step of the login is of one sort (`ProtonSorted`): the attempt is over, a
client has started, the client acts, its text flows, or something else happens. The invariant has
one lemma per part, and each goes through these sorts:

* `Dialogue`: the password is asked for first, then the code; what was given was asked for;
  and while a client asks, it has nothing before it but the answer to that. `AskedOnce`: a
  second request for a code is at a second place only for a cause.
* `Causes`: what a client says at its end, and its status, have the cause they should have.
  `ClosedAtEnd`: a stream closes after all of it was read, so that an attempt which is judged
  when both are closed has heard all that was said. This is what `PermanentForCause` rests on.
* `Passing`: a client that names a reason to retry has said so, or is about to, and has
  asked for nothing, so that no other failure can end the attempt before it is judged.
* `SessionKnown`: the account a client has named stays the session's while nobody changes it.

`StalwartInv` ties the token in hand to the step of the run: it is the kept one until the
server has refused it, live when it is stored, and not live when the password is used.
Neither program's steps touch the other's variables; `ProtonRests` and `StalwartRests` say
that the shared keyring may change at any moment under both.

### VikunjaProofs

For any declarations, people, page size and number of teams: `VikunjaTyping`,
`SuccessDeclares` (`Spec => []SuccessMeansDeclared`), `NothingTwice`
(`Spec => []NothingMadeTwice`) and the action property `MembersStay`
(`Spec => MembersKept`). Nothing at the server has a name of its own, so everything
rests on what a listing still says when it is used. The invariant has three layers:

* Whatever others do: `Ids`, an id is given once, to teams and webhooks alike;
  `SameTeam`, a team that still has the id it was listed with still has the name;
  `Plan`, what is left to add and remove is what is declared of that name. `MembersStay`
  follows from these alone, which is why it needs no proviso.
* While nobody has interfered in any run, `Alone`: nothing is doubled, and as long
  as the teams fit on the page, each is on the list `reconcile_teams` works through. A
  creation makes that list stale, which is why it is read anew before the next name.
* While nobody interferes in this run: `Things` for projects, labels and webhooks,
  `TeamsKnown` for the names still to be treated (`Known`: first of its name on the list
  is first of its name at the server) and those that were (`Settled`), `MembersKnown`
  for the members (`Manned`, up to what is still to be added and removed). The first listing
  shows all teams if they fitted on the page; a later one may not, but what it does not
  show was made by this run and is not to be treated again.

The lemmas about lists say where a name is found after an entry was appended
(`AppendedIsLast`), taken out (`RemovedOther`) or changed in place (`SameNames`), and on
the first page (`PageShows`).

### Assumptions

They are those of the modules. OAuthStore: generations are positive integers, the
revision bound is a natural number, `Nobody` is not a process, `NoState` is not
a state; `Unsent` and `Gone` hold until the operator rolls the store back, as
the properties do. The others bound their counters by natural numbers, and say
that a value that stands for "none" is none of the others. KeyProvision's
`SettingsAssumption` also says that collaborators and invitations are declared on
GitHub only: `forgejo-provision` has no such options. RauthyProvision's
`FreshAssumption` says that there is always an id and a secret not in use: Rauthy makes
both at random, and no more than four are in use or remembered at a time.
SessionLogins' `ParametersAssumption` says what an account document is, and that the
channel and the start limit are positive.

### Model-checked only

Liveness and ENABLED are out of the prover's reach and stay with TLC:
`LockIsReleased`, `CheckpointCatchesUp`, `ComesUp`, `Completes`, `RunsSucceed`, `WindowCloses`,
`Settles` and `RunsSettle`. So does induction over data, which no proof here needs; no
module has a RECURSIVE operator. Every safety property of a run that passes is proved.

## 6. Findings

1. `stalwart_rollback`. The registry marker is "content-addressed by the Nix
   store path of the plan" so that a changed configuration is re-applied. It is
   not invalidated before a new plan is applied. If that is cut off and the
   operator deploys the old plan again, the old marker matches, nothing is
   applied, and the server starts on a half-applied registry.
2. `key_mismatch`. The guide says of a GitHub token of another account that the
   mismatch "exits with status 2, which the unit treats as permanent instead of
   retrying". The comparison is made inside the fallible part of the run, whose
   errors exit with status 1; the unit retries every five minutes.

Observations, all but the last with a configuration of its own (section 3):

3. The guide on shared OAuth says that after a failure of encryption, rekey or
   deployment "the same grant and generation are reused". A first `authorize` that
   is cut off between the rename of the pending file and the fsync of its
   directory leaves a file that is visible and not durable; the retry publishes
   the encrypted source from it. After a power loss the pending grant is gone
   and the next `authorize` begins anew.
4. Migration documents are "one-time, non-idempotent"; one marker covers all of
   them and is written after the last. A failure of the second document, or a
   kill before the marker, applies the first one again.
5. A comment calls the deletion that evicts a stale cached user of Rauthy a no-op
   in the database. What makes a user stale is that its id is not in a listing
   read once at the beginning. An account that comes into being between that
   listing and the lookup of its email, as at a first sign-in, is not in the
   listing either; it is deleted.
6. A Tuwunel run killed inside the registration window leaves it open, and a
   later run that succeeds need not close it, since runs touch the runtime configuration
   only when they need the window themselves. A restart of the server does.
7. A Vikunja team beyond the first page of the list is not found and is made again
   by every run.
8. Nor is it deleted. If the run deletes another team, the list may fit on the page
   afterwards, and a team that is declared absent is on it: the run has succeeded, and
   what it leaves shows no sign that it had not seen everything. The attempt to prove
   `SuccessMeansDeclared` with a page that fits at the end found this; the instance with two
   names did not show it. The property supposes a page that fits at the start as well.

Not modelled as properties, because nothing in the repository says otherwise, but
worth knowing:

* Rauthy: the exclusions of section 3, and what obstructs it until somebody
  intervenes (`Obstructed`): users linked to two duplicates of a provider, a local
  password of a federated user, a link of such a user that the audit refuses, a
  stale cache entry that hides a row or cannot be told from a user because the list
  is paged. The second and third end every later run with an error, which the unit
  retries: so a user who linked to a duplicate between the count and the deletion
  (`late`) not only loses the link, but the runs fail until somebody removes it.
* GitHub: a named repository that is archived takes no invitation, so every run fails on
  it and the unit retries every five minutes, for ever; of an OpenPGP key that is to go
  and is held twice, each run deletes one. The guide says that "existing permissions are
  never changed" (github-accounts.md:18); a collaborator whom somebody adds between the
  run's look and its invitation gets the declared permission (`StandingsKept` allows
  exactly that).
* Tuwunel: a refused display name is a warning, and the marker is written all the
  same, so it is never set later. The token file is not validated before it is
  used. `RefreshToken` writes a new token to the file while the run goes on with
  the old one.
* Vikunja: the members of a team that is not on the page are passed over with
  success; the deletion of a webhook obeys neither `--no-auto-remove` nor
  `--allow-team-delete`. A team declared without a description, where the server has one,
  is updated by every run in vain: a missing description is left out of the request. In
  the model every declared team has one.
* Stalwart bootstrap: any answer of `/api/auth` but success, 503 too, ends the
  unit for good, and so do metadata that do not name the issuer (main.rs:313-328) and a
  code exchanged without a refresh token (475-477), until the next session or password
  change; a locked keyring ends the run with status 0, so the token waits for
  the next session or password change; a password changed during a run does not
  start another.
* Proton: the account document is a systemd credential, a copy made at the start, so the
  check that it did not change during the login cannot fire. "Will retry when the client
  is available" lasts as long as the start limit. A locked keyring that the client
  reports as an error is a permanent failure. So is all that goes wrong in
  `Protection::acquire`: a logind that does not answer in three seconds, or a sleep that
  begins just then (protection.rs:32-59; a test asserts the exit status of the second),
  after which the unit stays failed until the next session or a new declaration.

## 7. What is not modelled

Contents and formats (token fields, age encryption, JSON plans, account
documents) and the validation of configuration: they decide whether a command is
refused, which is not a step. Timers are free choices. The device authorization
of `authorize` ends with a grant or an error. What `stalwart-cli` does with a
document it cannot apply in full is its own choice; the model lets it fail after
any part. Whether a second program listens on the recovery port is not modelled.
Power losses are not modelled for Rauthy's password markers, which nothing syncs:
one can lose a pending marker and with it an initial password. Nor is a second
`rauthy-provision` next to the first, which systemd excludes.
Left out of modules that model the rest of their component: the Proton login's interactive
making of the account document and the arithmetic of codes; Forgejo's `read_only` flag, which
is compared like a body, and its admin password, taken to be right; a Vikunja member's
admin flag, set only when the member is added, and a webhook's secret.
provenance-core's generated secrets are not modelled, because their callers are
not: identity-cli is an operator's interactive tool. immich-provision has
nothing that TuwunelProvision's users and markers do not show. The state
renderers are pure functions, the Nix modules declarations; both are listed as
such.

## 8. Plan

Modelled: the store, enrollment, Stalwart, rbw, Rauthy, Tuwunel, the key
provisioners, Vikunja and the session logins, and the abstract TokenLedger. Proved:
all their safety properties.

Next, as extensions of the models: the composition of EnrollmentTransaction with
the store, so that `Deploy` becomes `apply`; generated secrets with identity-cli
as their caller; Immich. All modules are written without RECURSIVE operators.

--------------------------- MODULE TuwunelProvision ---------------------------
(***************************************************************************)
(* tuwunel-provision: one run obtains an admin token, creates the declared *)
(* Matrix users or updates their passwords, refreshes the token, and       *)
(* reconciles a declared room (crates/tuwunel-provision).  Where the       *)
(* server has no admin user API the run opens public registration for one  *)
(* request: it writes the server's runtime configuration, signals the      *)
(* server, which reloads in its own time, and closes it again the same way. *)
(*                                                                          *)
(* The unit is a oneshot that runs at boot and at activation, one at a     *)
(* time; it can be killed anywhere, and the server restarted.              *)
(***************************************************************************)
EXTENDS Naturals, FiniteSets

CONSTANTS
    Settings,   \* the declarations and options to consider
    N,          \* users are 1 .. N, in the order of the state file; 1 is an admin
    Passwords,  \* values a password file can hold
    Invitees,   \* who is declared to be invited to the room
    MaxTries,   \* requests in one registration window (20 in the code)
    MaxFaults,  \* kills, failed or lost calls and restarts in a behaviour
    MaxChanges  \* changes by others in a behaviour

\* users: how many are declared; the last one creates a private room.
\* api: has the server the admin user API?  window: are the bootstrap
\* configurations given?  session: does registration ask for m.login.dummy?
\* refresh: is adminTokenUser set?  room: which room is declared?  pin: is its
\* first id declared as expectedRoomId?
Setting == [users : 1 .. N, api : BOOLEAN, window : BOOLEAN, session : BOOLEAN, refresh : BOOLEAN,
            room : {"none", "shared", "private"}, pin : BOOLEAN]

ASSUME SettingsAssumption == Settings \subseteq Setting
ASSUME UsersAssumption == N \in Nat \ {0}
ASSUME PasswordsAssumption == Passwords \cap {"none", "own"} = {}
ASSUME InviteesAssumption == Invitees \cap {"creator", "stranger"} = {}
ASSUME BoundsAssumption == MaxTries \in Nat \ {0} /\ MaxFaults \in Nat /\ MaxChanges \in Nat

VARIABLES
    settings,  \* the declaration in force
    pc,        \* the request or local step the run makes next
    loc,       \* what the run holds in memory
    result,    \* of the last run: "ok", "err", or "none" so far
    creds,     \* the password file of each user
    markers,   \* the password each user's marker is about
    tokenFile, \* the admin token file
    runtime,   \* the runtime configuration file: "open" or "closed"
    signal,    \* a SIGUSR2 the server has not handled
    reg,       \* does the server accept registrations?
    accounts,  \* the users' accounts at the server
    rooms,     \* the rooms at the server
    alias,     \* the room the declared alias names, 0 for none
    device,    \* is the creator's provisioning device logged in?
    faults, changes, \* what is left of the bounds
    ahead,     \* history: users given a password no marker has recorded since
    ghost      \* history: what else the properties refer to

files == <<creds, markers, tokenFile, runtime>>
server == <<signal, reg, accounts, rooms, alias, device>>
vars == <<settings, pc, loc, result, files, server, faults, changes, ahead, ghost>>

Users == 1 .. settings.users
Creator == settings.users
RoomIds == 1 .. MaxChanges + 1
People == Invitees \cup {"creator", "stranger"}
NoAccount == [pw |-> "none", named |-> FALSE]
NoRoom == [guarded |-> FALSE, members |-> {}]
Allowed == Invitees \cup {"creator"}

\* why: whom a registration is for.  open: is it inside the window?  body: the
\* outcome inside it.  rec: the outcome of the room's reconciliation.
Blank == [at |-> 1, why |-> "admin", open |-> FALSE, tries |-> 0, body |-> "none",
          token |-> "none", id |-> 0, missing |-> {}, rec |-> "none"]

Init ==
    /\ settings \in Settings
    /\ pc = "idle"
    /\ loc = Blank
    /\ result = "none"
    /\ creds \in [Users -> Passwords \cup {"none"}]
    /\ markers = [u \in Users |-> "none"]
    /\ tokenFile = "none"
    /\ runtime = "closed"
    /\ signal = FALSE
    /\ reg = FALSE
    /\ accounts = [u \in Users |-> NoAccount]
    /\ alias = IF settings.pin THEN 1 ELSE 0
    /\ rooms = [r \in RoomIds |->
                  IF r = alias THEN [guarded |-> TRUE, members |-> Allowed] ELSE NoRoom]
    /\ device = FALSE
    /\ faults = MaxFaults
    /\ changes = MaxChanges
    /\ ahead = {}
    /\ ghost = [cut |-> FALSE, left |-> FALSE, quiet |-> TRUE, still |-> FALSE]

Window == {"openWrite", "openSignal", "closeWrite", "closeSignal"}
InWindow == pc \in Window \/ loc.open
RoomSteps == {"resolve", "create", "check", "invite", "recheck"}

Goto(p) == pc' = p /\ UNCHANGED result
Finish(r) == pc' = "idle" /\ result' = r /\ loc' = Blank

Start ==
    /\ pc = "idle"
    /\ pc' = "readToken"
    /\ result' = "none"
    /\ ghost' = [ghost EXCEPT !.quiet = TRUE, !.still = FALSE]
    /\ UNCHANGED <<settings, loc, files, server, faults, changes, ahead>>

\* The logout is attempted whatever became of the room.
LeaveRoom(r) ==
    IF settings.room = "private"
    THEN loc' = [loc EXCEPT !.rec = r] /\ Goto("logout")
    ELSE Finish(r)

\* Where an error leads: out of the window through its restore, out of the
\* room through the logout, and else to the end of the run.
Error ==
    IF loc.open \/ pc \in {"openWrite", "openSignal"}
    THEN loc' = [loc EXCEPT !.body = "err", !.open = FALSE] /\ Goto("closeWrite")
    ELSE IF pc \in RoomSteps THEN LeaveRoom("err") ELSE Finish("err")

-----------------------------------------------------------------------------
(* The admin token.                                                        *)

\* A token file with content is used as it is, whether it still works or not.
ReadToken ==
    /\ pc = "readToken"
    /\ IF tokenFile # "none"
       THEN loc' = [loc EXCEPT !.token = tokenFile] /\ Goto("user")
       ELSE IF creds[1] # "none"
       THEN loc' = [loc EXCEPT !.why = "admin"] /\ Goto("register")
       ELSE Finish("err")
    /\ UNCHANGED <<files, server>>

WriteToken ==
    /\ pc = "writeToken"
    /\ tokenFile' = loc.token
    /\ Goto("user")
    /\ UNCHANGED <<loc, creds, markers, runtime, server>>

\* The file gets a new token; the run goes on with the one it has.
RefreshToken ==
    /\ pc = "refresh"
    /\ IF ~settings.refresh
       THEN UNCHANGED <<loc, tokenFile>> /\ Goto("room")
       ELSE IF creds[1] # "none" /\ accounts[1].pw = creds[1]
       THEN tokenFile' = "good" /\ UNCHANGED loc /\ Goto("room")
       ELSE UNCHANGED tokenFile /\ Finish("err")
    /\ UNCHANGED <<creds, markers, runtime, server>>

-----------------------------------------------------------------------------
(* Registration, and the window in which it is open.                       *)

User == IF loc.why = "admin" THEN 1 ELSE loc.at

\* The request worked: inside the window the restore comes next.
Registered ==
    IF loc.open
    THEN loc' = [loc EXCEPT !.body = "ok", !.open = FALSE,
                            !.token = IF loc.why = "admin" THEN "good" ELSE @] /\ Goto("closeWrite")
    ELSE loc' = [loc EXCEPT !.token = "good"] /\ Goto("writeToken")

Register ==
    /\ pc = "register"
    /\ reg
    /\ IF accounts[User].pw # "none" THEN UNCHANGED <<loc, accounts>> /\ Goto("login")
       ELSE IF settings.session THEN UNCHANGED <<loc, accounts>> /\ Goto("dummy")
       ELSE /\ accounts' = [accounts EXCEPT ![User].pw = creds[User]]
            /\ IF loc.why = "user" THEN UNCHANGED loc /\ Goto("setName") ELSE Registered
    /\ UNCHANGED <<files, signal, reg, rooms, alias, device>>

\* The second request of the flow; a user in use is an error here.
CompleteDummy ==
    /\ pc = "dummy"
    /\ reg
    /\ accounts' = [accounts EXCEPT ![User].pw = creds[User]]
    /\ IF loc.why = "user" THEN UNCHANGED loc /\ Goto("setName") ELSE Registered
    /\ UNCHANGED <<files, signal, reg, rooms, alias, device>>

\* registration_disabled: outside the window it opens it, inside it is retried.
RegistrationDisabled ==
    /\ pc \in {"register", "dummy"}
    /\ ~reg
    /\ IF ~loc.open
       THEN IF settings.window THEN UNCHANGED loc /\ Goto("openWrite") ELSE Error
       ELSE IF loc.tries + 1 < MaxTries
       THEN /\ loc' = [loc EXCEPT !.tries = @ + 1]
            /\ Goto(IF loc.why = "admin" THEN "register" ELSE "post")
       ELSE Error
    /\ UNCHANGED <<files, server>>

\* An account of that name counts if the declared password opens it.
LoginExisting ==
    /\ pc = "login"
    /\ IF accounts[User].pw # creds[User] THEN Error
       ELSE IF loc.why = "user" THEN UNCHANGED loc /\ Goto("setName") ELSE Registered
    /\ UNCHANGED <<files, server>>

\* A refused display name is a warning.
SetDisplayName ==
    /\ pc = "setName"
    /\ \E set \in BOOLEAN : accounts' = [accounts EXCEPT ![User].named = @ \/ set]
    /\ Registered
    /\ UNCHANGED <<files, signal, reg, rooms, alias, device>>

OpenWrite ==
    /\ pc = "openWrite"
    /\ runtime' = "open"
    /\ Goto("openSignal")
    /\ UNCHANGED <<loc, creds, markers, tokenFile, server>>

\* SIGUSR2, and a fixed delay: the server may not have reloaded yet.
OpenSignal ==
    /\ pc = "openSignal"
    /\ signal' = TRUE
    /\ loc' = [loc EXCEPT !.open = TRUE, !.tries = 0]
    /\ Goto(IF loc.why = "admin" THEN "register" ELSE "post")
    /\ UNCHANGED <<files, reg, accounts, rooms, alias, device>>

\* Mutation: an error inside the window returns before the restore.
CloseWriteIfDone ==
    /\ pc = "closeWrite"
    /\ IF loc.body = "ok" THEN runtime' = "closed" /\ UNCHANGED loc /\ Goto("closeSignal")
                          ELSE UNCHANGED runtime /\ Finish("err")
    /\ UNCHANGED <<creds, markers, tokenFile, server>>

CloseWrite ==
    /\ pc = "closeWrite"
    /\ runtime' = "closed"
    /\ Goto("closeSignal")
    /\ UNCHANGED <<loc, creds, markers, tokenFile, server>>

AfterWindow ==
    IF loc.body = "err" THEN Finish("err")
    ELSE UNCHANGED loc /\ Goto(IF loc.why = "admin" THEN "writeToken" ELSE "commit")

\* Mutation: the closed configuration is written and nobody told.
CloseSilently ==
    /\ pc = "closeSignal"
    /\ AfterWindow
    /\ ghost' = [ghost EXCEPT !.cut = FALSE]
    /\ UNCHANGED <<files, server>>

CloseSignal ==
    /\ pc = "closeSignal"
    /\ signal' = TRUE
    /\ AfterWindow
    /\ ghost' = [ghost EXCEPT !.cut = FALSE]
    /\ UNCHANGED <<files, reg, accounts, rooms, alias, device>>

-----------------------------------------------------------------------------
(* The users.                                                              *)

NextUser == IF loc.at = settings.users THEN Goto("refresh") /\ UNCHANGED loc
                          ELSE Goto("user") /\ loc' = [loc EXCEPT !.at = @ + 1]

\* Mutation: any marker will do.
EverMarked(u) == creds[u] = "none" \/ markers[u] # "none"

\* A user with no readable password file is skipped; so is one whose marker
\* is about the password in the file.
UpToDate(u) == creds[u] \in {"none", markers[u]}

CheckUser ==
    /\ pc = "user"
    /\ IF UpToDate(loc.at) THEN NextUser
       ELSE loc' = [loc EXCEPT !.why = "user"] /\ Goto("post")
    /\ UNCHANGED <<files, server>>

\* The admin API creates the user or sets its password and display name.
\* Without the API the run needs registration, in the window only.
PostUser ==
    /\ pc = "post"
    /\ IF settings.api
       THEN IF loc.token = "good"
            THEN /\ accounts' = [accounts EXCEPT ![loc.at] = [pw |-> creds[loc.at], named |-> TRUE]]
                 /\ UNCHANGED loc
                 /\ Goto("commit")
            ELSE UNCHANGED accounts /\ Error
       ELSE /\ UNCHANGED accounts
            /\ IF loc.open THEN UNCHANGED loc /\ Goto("register")
               ELSE IF settings.window THEN UNCHANGED loc /\ Goto("openWrite")
               ELSE Error
    /\ UNCHANGED <<files, signal, reg, rooms, alias, device>>

CommitMarker ==
    /\ pc = "commit"
    /\ markers' = [markers EXCEPT ![loc.at] = creds[loc.at]]
    /\ ahead' = ahead \ {loc.at}
    /\ NextUser
    /\ UNCHANGED <<creds, tokenFile, runtime, server, ghost>>

-----------------------------------------------------------------------------
(* The room.  A private one is the creator's, and the admin never joins.   *)

EnterRoom ==
    /\ pc = "room"
    /\ CASE settings.room = "none" -> Finish("ok") /\ UNCHANGED device
         [] settings.room = "shared" -> UNCHANGED <<loc, device>> /\ Goto("resolve")
         [] OTHER ->
              IF creds[Creator] # "none" /\ accounts[Creator].pw = creds[Creator]
              THEN device' = TRUE /\ UNCHANGED loc /\ Goto("resolve")
              ELSE UNCHANGED device /\ Finish("err")
    /\ UNCHANGED <<files, signal, reg, accounts, rooms, alias>>

Found(id) ==
    IF settings.pin /\ id # 1 THEN Error
    ELSE /\ loc' = [loc EXCEPT !.id = id, !.missing = Invitees]
         /\ Goto(IF settings.room = "private" THEN "check" ELSE "invite")

\* Mutation: a pinned room whose alias is missing is created again.
ResolveAnyAlias ==
    /\ pc = "resolve"
    /\ IF alias # 0 THEN Found(alias) ELSE UNCHANGED loc /\ Goto("create")
    /\ UNCHANGED <<files, server>>

ResolveAlias ==
    /\ pc = "resolve"
    /\ IF alias # 0 THEN Found(alias)
       ELSE IF settings.pin THEN Error ELSE UNCHANGED loc /\ Goto("create")
    /\ UNCHANGED <<files, server>>

\* Encryption, join rule and guest access are part of a private room's
\* creation, and so are the invitations.
CreateRoom ==
    /\ pc = "create"
    /\ \E id \in RoomIds :
         /\ rooms[id] = NoRoom
         /\ rooms' = [rooms EXCEPT ![id] = [guarded |-> settings.room = "private",
                                            members |-> Allowed]]
         /\ alias' = id
         /\ Found(id)
    /\ alias = 0
    /\ (settings.room = "private" \/ loc.token = "good")
    /\ UNCHANGED <<files, signal, reg, accounts, device>>

\* verify_private_room_state: invite-only, no guests, encrypted, the creator
\* in it, and nobody who is not declared.
Verified(room) == room.guarded /\ "creator" \in room.members /\ room.members \subseteq Allowed

CheckRoom ==
    /\ pc = "check"
    /\ IF Verified(rooms[loc.id])
       THEN /\ loc' = [loc EXCEPT !.missing = Invitees \ rooms[loc.id].members]
            /\ Goto("invite")
       ELSE Error
    /\ ghost' = [ghost EXCEPT !.still = TRUE]
    /\ UNCHANGED <<files, server>>

AfterInvitations ==
    IF settings.room = "private" THEN UNCHANGED loc /\ Goto("recheck") ELSE Finish("ok")

\* One invitation; of someone already there it is refused and ignored.
Invite ==
    /\ pc = "invite"
    /\ IF loc.missing = {} THEN AfterInvitations /\ UNCHANGED rooms
       ELSE \E who \in loc.missing :
              /\ "creator" \in rooms[loc.id].members
              /\ (settings.room = "private" \/ loc.token = "good")
              /\ rooms' = [rooms EXCEPT ![loc.id].members = @ \cup {who}]
              /\ loc' = [loc EXCEPT !.missing = @ \ {who}]
              /\ Goto("invite")
    /\ UNCHANGED <<files, signal, reg, accounts, alias, device>>

RecheckRoom ==
    /\ pc = "recheck"
    /\ LeaveRoom(IF Verified(rooms[loc.id]) /\ Invitees \subseteq rooms[loc.id].members
                 THEN "ok" ELSE "err")
    /\ UNCHANGED <<files, server>>

\* The room's request is refused: the alias is taken meanwhile, the inviter
\* has left, the token no longer works.
RoomRefused ==
    /\ \/ pc = "create" /\ (alias # 0 \/ (settings.room = "shared" /\ loc.token # "good"))
       \/ /\ pc = "invite"
          /\ loc.missing # {}
          /\ \/ "creator" \notin rooms[loc.id].members
             \/ (settings.room = "shared" /\ loc.token # "good")
    /\ Error
    /\ UNCHANGED <<files, server>>

Logout ==
    /\ pc = "logout"
    /\ device' = FALSE
    /\ Finish(loc.rec)
    /\ UNCHANGED <<files, signal, reg, accounts, rooms, alias>>

-----------------------------------------------------------------------------
(* The server, what fails, and what others do.                             *)

\* admin_signal_execute: the server reloads the runtime configuration.
HandleSignal ==
    /\ signal
    /\ signal' = FALSE
    /\ reg' = (runtime = "open")
    /\ UNCHANGED <<settings, pc, loc, result, files, accounts, rooms, alias, device, faults, changes,
                   ahead, ghost>>

\* It comes back with its own configuration, which declares registration closed.
RestartServer ==
    /\ faults > 0
    /\ faults' = faults - 1
    /\ signal' = FALSE
    /\ reg' = FALSE
    /\ ghost' = [ghost EXCEPT !.cut = FALSE]
    /\ UNCHANGED <<settings, pc, loc, result, files, accounts, rooms, alias, device, changes, ahead>>

Ahead == ahead \cup {u \in Users : accounts'[u].pw # accounts[u].pw}

\* A request or a write fails, or its answer is lost after the server acted;
\* neither is retried.
Fail ==
    /\ pc \notin {"idle", "setName"}
    /\ faults > 0
    /\ faults' = faults - 1
    /\ IF pc \in {"closeWrite", "closeSignal", "logout"} THEN Finish("err") ELSE Error
    /\ accounts' \in IF pc = "post" /\ settings.api /\ loc.token = "good"
                     THEN {accounts, [accounts EXCEPT ![loc.at] = [pw |-> creds[loc.at], named |-> TRUE]]}
                     ELSE IF pc \in {"register", "dummy"} /\ reg /\ accounts[User].pw = "none"
                     THEN {accounts, [accounts EXCEPT ![User].pw = creds[User]]}
                     ELSE {accounts}
    /\ device' \in IF pc = "room" /\ settings.room = "private"
                      /\ creds[Creator] # "none" /\ accounts[Creator].pw = creds[Creator]
                   THEN {device, TRUE} ELSE {device}
    /\ ghost' = [ghost EXCEPT !.cut = @ \/ pc \in {"closeWrite", "closeSignal"},
                              !.left = @ \/ pc \in {"room", "logout"}]
    /\ ahead' = Ahead
    /\ UNCHANGED <<settings, files, signal, reg, rooms, alias, changes>>

\* The run is killed; a marker being written may be left empty.
Kill ==
    /\ pc # "idle"
    /\ faults > 0
    /\ faults' = faults - 1
    /\ Finish("err")
    /\ markers' \in IF pc = "commit" THEN {markers, [markers EXCEPT ![loc.at] = "none"]} ELSE {markers}
    /\ ghost' = [ghost EXCEPT !.cut = @ \/ InWindow, !.left = @ \/ device]
    /\ UNCHANGED <<settings, creds, tokenFile, runtime, server, changes, ahead>>

ChangeBound == changes > 0 /\ changes' = changes - 1

\* A new password file; credentials are read once, when the unit starts.
RotateCredential ==
    /\ pc = "idle"
    /\ ChangeBound
    /\ \E u \in Users, pw \in Passwords : pw # creds[u] /\ creds' = [creds EXCEPT ![u] = pw]
    /\ UNCHANGED <<settings, pc, loc, result, markers, tokenFile, runtime, server, faults, ahead>>
    /\ ghost' = [ghost EXCEPT !.quiet = FALSE]

\* A user changes the password, or the admin's token is revoked.
ChangeAccount ==
    /\ ChangeBound
    /\ \/ \E u \in Users : /\ accounts[u].pw \in Passwords
                           /\ accounts' = [accounts EXCEPT ![u].pw = "own"]
                           /\ UNCHANGED <<loc, tokenFile>>
       \/ /\ tokenFile = "good"
          /\ tokenFile' = "bad"
          /\ loc' = [loc EXCEPT !.token = IF @ = "good" THEN "bad" ELSE @]
          /\ UNCHANGED accounts
    /\ ghost' = [ghost EXCEPT !.quiet = FALSE]
    /\ UNCHANGED <<settings, pc, result, creds, markers, runtime, signal, reg, rooms, alias, device,
                   faults, ahead>>

\* Members come and go, the room's rules change, the alias is removed or
\* moved to a room of another's.
ChangeRoom ==
    /\ ChangeBound
    /\ alias # 0
    /\ \/ \E who \in People :
            /\ rooms' = [rooms EXCEPT ![alias].members =
                            IF who \in @ THEN @ \ {who} ELSE @ \cup {who}]
            /\ UNCHANGED alias
       \/ rooms' = [rooms EXCEPT ![alias].guarded = ~@] /\ UNCHANGED alias
       \/ alias' = 0 /\ UNCHANGED rooms
       \/ \E id \in RoomIds :
            /\ rooms[id] = NoRoom
            /\ rooms' = [rooms EXCEPT ![id] = [guarded |-> TRUE, members |-> {"stranger"}]]
            /\ alias' = id
    /\ ghost' = [ghost EXCEPT !.quiet = FALSE, !.still = FALSE]
    /\ UNCHANGED <<settings, pc, loc, result, files, signal, reg, accounts, device, faults, ahead>>

TokenStep == ReadToken \/ WriteToken \/ RefreshToken
RegistrationStep ==
    \/ Register \/ CompleteDummy \/ RegistrationDisabled \/ LoginExisting \/ SetDisplayName
    \/ OpenWrite \/ OpenSignal \/ CloseWrite
UserStep == CheckUser \/ PostUser
RoomStep ==
    \/ EnterRoom \/ ResolveAlias \/ CreateRoom \/ Invite \/ RecheckRoom \/ RoomRefused \/ Logout

\* The run's own steps; those that record history come apart.
RunStep ==
    \/ /\ TokenStep \/ RegistrationStep \/ UserStep \/ RoomStep
       /\ ahead' = Ahead
       /\ UNCHANGED <<settings, faults, changes, ghost>>
    \/ /\ CloseSignal \/ CheckRoom
       /\ UNCHANGED <<settings, faults, changes, ahead>>
    \/ /\ CommitMarker
       /\ UNCHANGED <<settings, faults, changes>>

Next ==
    \/ Start
    \/ RunStep
    \/ HandleSignal
    \/ Fail \/ Kill \/ RestartServer
    \/ RotateCredential \/ ChangeAccount \/ ChangeRoom

Spec == Init /\ [][Next]_vars

\* A run that has begun goes on, the server handles its signals, and if runs
\* are started for ever it does so between two of them now and then: a boot or
\* an activation lies between them, and a reload takes less than a second.
FairSpec ==
    Spec /\ WF_vars(RunStep) /\ WF_vars(HandleSignal) /\ SF_vars(pc = "idle" /\ HandleSignal)

-----------------------------------------------------------------------------
TypeOK ==
    /\ settings \in Settings
    /\ pc \in {"idle", "readToken", "writeToken", "refresh", "register", "dummy", "login", "setName",
               "user", "post", "commit", "room", "logout"} \cup Window \cup RoomSteps
    /\ loc \in [at : Users, why : {"admin", "user"}, open : BOOLEAN, tries : 0 .. MaxTries,
                body : {"none", "ok", "err"}, token : {"none", "good", "bad"}, id : RoomIds \cup {0},
                missing : SUBSET Invitees, rec : {"none", "ok", "err"}]
    /\ result \in {"none", "ok", "err"}
    /\ creds \in [Users -> Passwords \cup {"none"}]
    /\ markers \in [Users -> Passwords \cup {"none"}]
    /\ tokenFile \in {"none", "good", "bad"}
    /\ runtime \in {"open", "closed"}
    /\ accounts \in [Users -> [pw : Passwords \cup {"none", "own"}, named : BOOLEAN]]
    /\ rooms \in [RoomIds -> [guarded : BOOLEAN, members : SUBSET People]]
    /\ alias \in RoomIds \cup {0}
    /\ signal \in BOOLEAN /\ reg \in BOOLEAN /\ device \in BOOLEAN
    /\ faults \in 0 .. MaxFaults /\ changes \in 0 .. MaxChanges
    /\ ahead \subseteq Users
    /\ ghost \in [cut : BOOLEAN, left : BOOLEAN, quiet : BOOLEAN, still : BOOLEAN]

\* Outside a window the server refuses registrations, or has a reload to the
\* closed configuration before it; the causes that leave it open are a run
\* killed inside the window and a restore that failed.
RegistrationOpenOnlyForCause ==
    (reg \/ signal) /\ ~InWindow => ghost.cut \/ (signal /\ runtime = "closed")

\* A run that succeeded while nobody interfered leaves what is declared: each
\* user with a password file can log in with it, unless the user has chosen
\* another since, the refreshed token works, and the room is as declared.  The
\* one exception is a user whom an earlier run gave a password and whose
\* marker it did not come to write.
SuccessMeansProvisioned ==
    result = "ok" /\ ghost.quiet =>
        /\ \A u \in Users : creds[u] # "none" /\ u \notin ahead =>
                accounts[u].pw \in {creds[u], "own"}
        /\ settings.refresh => tokenFile = "good"
        /\ settings.room # "none" =>
              /\ alias # 0
              /\ settings.pin => alias = 1
              /\ Invitees \subseteq rooms[alias].members
              /\ settings.room = "private" => Verified(rooms[alias])

\* A run logs its provisioning device out, whatever became of the room; one
\* stays only when the run was killed or its login or logout call failed.
DeviceLoggedOut == pc = "idle" /\ device => ghost.left

\* However a run ended, an open registration and a device it leaves behind have
\* one of the causes the code cannot help.
LeftBehindOnlyForCause == RegistrationOpenOnlyForCause /\ DeviceLoggedOut

\* What a run does to a room it does to the declared one: it never makes a
\* replacement for a pinned room, and it invites into a private room only
\* after a check, since which nobody else changed the room, found it private.
RoomGuarded ==
    [][rooms' # rooms /\ changes' = changes =>
        /\ alias' # alias => ~settings.pin /\ alias = 0
        /\ alias' = alias /\ settings.room = "private" /\ ghost.still =>
              Verified(rooms[loc.id]) /\ (settings.pin => loc.id = 1)
        /\ alias' = alias /\ settings.room = "private" => pc = "invite" /\ loc.id # 0]_vars

\* Registration that a run opened is closed again, unless that run is killed
\* or its restore fails.
WindowCloses == reg ~> (~reg \/ ghost.cut)

\* What registrationBootstrap promises: the reload is temporary, so after a
\* run that succeeded registration is, or is about to be, closed.
ClosedAfterSuccess == pc = "idle" /\ result = "ok" => ~reg \/ signal
=============================================================================

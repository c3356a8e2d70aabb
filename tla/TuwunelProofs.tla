--------------------------- MODULE TuwunelProofs ---------------------------
(***************************************************************************)
(* Proofs about TuwunelProvision, for any declarations, users, passwords   *)
(* and invitees.  The run writes the server and its own files in turn and  *)
(* may be cut between any two writes; the inductive invariant says what    *)
(* each file and each phase vouches for: a marker for an account, the end  *)
(* of a window for a reload to come, a resolved id for the declared room.  *)
(***************************************************************************)
EXTENDS TuwunelProvision, TLAPS

-----------------------------------------------------------------------------
(* The inductive invariant.                                                *)

\* Where a run is when it holds registration open, and for whom: the window is
\* never open when the admin API is used.
Phases ==
    /\ pc = "idle" => loc = Blank
    /\ loc.open => pc \in {"register", "dummy", "login", "setName", "post"}
    /\ loc.open \/ pc \in {"register", "dummy", "login", "setName"} \cup Window =>
          loc.why = "admin" \/ ~settings.api
    /\ pc \in {"post", "setName"} => loc.why = "user"
    /\ pc \in {"closeWrite", "closeSignal"} => loc.body \in {"ok", "err"}
    /\ pc = "create" => ~settings.pin
    /\ pc \in RoomSteps \cup {"logout"} => settings.room # "none"
    /\ pc \in {"check", "recheck", "logout"} => settings.room = "private"
    /\ pc # "idle" => result = "none"

\* The closed configuration is in place before the signal to reload it.
Windows ==
    /\ pc = "closeSignal" => runtime = "closed"
    /\ RegistrationOpenOnlyForCause

\* The provisioning device is logged in for the steps on a private room only.
Devices ==
    device => \/ ghost.left
              \/ settings.room = "private" /\ pc \in RoomSteps \cup {"logout"}

\* A user has the password, or one of the user's own choice since.
Has(u, pw) == accounts[u].pw \in {pw, "own"}

\* A marker tells the password of its account, unless a later one was given.
Vouched == \A u \in Users : markers[u] # "none" /\ u \notin ahead => Has(u, markers[u])

\* A marker is written only for an account that has the password.
Provided ==
    \/ pc \in {"commit", "setName"}
    \/ pc \in {"closeWrite", "closeSignal"} /\ loc.why = "user" /\ loc.body = "ok"
    => Has(loc.at, creds[loc.at])

Markers == Vouched /\ Provided

\* The users a run is past are up to date.
Past == {"refresh", "room", "logout"} \cup RoomSteps
Progress ==
    /\ pc # "idle" => \A u \in Users : u < loc.at => UpToDate(u)
    /\ pc \in Past \/ (result = "ok" /\ ghost.quiet) => \A u \in Users : UpToDate(u)

\* The refreshed token is kept while nobody revokes it.
Refreshed ==
    ghost.quiet /\ settings.refresh /\ (pc \in Past \ {"refresh"} \/ result = "ok") =>
        tokenFile = "good"

\* The room the run works on: a pinned one is the pinned one, and a private one
\* was verified before anybody is invited.
InRoom == pc \in {"check", "invite", "recheck"}
WorkingRoom ==
    /\ InRoom => loc.id # 0 /\ (settings.pin => loc.id = 1)
    /\ pc = "invite" /\ settings.room = "private" /\ ghost.still => Verified(rooms[loc.id])

\* The declared room is there, with everybody declared in it.
RoomAsDeclared ==
    /\ alias # 0
    /\ settings.pin => alias = 1
    /\ Invitees \subseteq rooms[alias].members
    /\ settings.room = "private" => Verified(rooms[alias])

\* While nobody interferes, the room the run works on is the declared one, and
\* comes to be as declared.
RoomComplete ==
    ghost.quiet =>
        /\ InRoom => loc.id = alias
        /\ pc = "invite" => Invitees \ loc.missing \subseteq rooms[loc.id].members
        /\ pc = "logout" /\ loc.rec = "ok" => RoomAsDeclared
        /\ result = "ok" /\ settings.room # "none" => RoomAsDeclared

TuwunelInv ==
    /\ TypeOK /\ Phases /\ Windows /\ Devices /\ Markers /\ Progress
    /\ Refreshed /\ WorkingRoom /\ RoomComplete

-----------------------------------------------------------------------------
(* The types.                                                              *)

Places == {"idle", "readToken", "writeToken", "refresh", "register", "dummy", "login", "setName",
           "user", "post", "commit", "room", "logout"} \cup Window \cup RoomSteps
Memory == [at : Users, why : {"admin", "user"}, open : BOOLEAN, tries : 0 .. MaxTries,
           body : {"none", "ok", "err"}, token : {"none", "good", "bad"}, id : RoomIds \cup {0},
           missing : SUBSET Invitees, rec : {"none", "ok", "err"}]
Account == [pw : Passwords \cup {"none", "own"}, named : BOOLEAN]
Room == [guarded : BOOLEAN, members : SUBSET People]
History == [cut : BOOLEAN, left : BOOLEAN, quiet : BOOLEAN, still : BOOLEAN]

\* TypeOK in four parts.
RunTypes == settings \in Settings /\ pc \in Places /\ loc \in Memory /\ result \in {"none", "ok", "err"}
FileTypes ==
    /\ creds \in [Users -> Passwords \cup {"none"}]
    /\ markers \in [Users -> Passwords \cup {"none"}]
    /\ tokenFile \in {"none", "good", "bad"}
    /\ runtime \in {"open", "closed"}
ServerTypes ==
    /\ accounts \in [Users -> Account]
    /\ rooms \in [RoomIds -> Room]
    /\ alias \in RoomIds \cup {0}
    /\ signal \in BOOLEAN /\ reg \in BOOLEAN /\ device \in BOOLEAN
BookTypes ==
    /\ faults \in 0 .. MaxFaults /\ changes \in 0 .. MaxChanges
    /\ ahead \subseteq Users
    /\ ghost \in History

\* The four parts are TypeOK.
LEMMA Types == TypeOK <=> RunTypes /\ FileTypes /\ ServerTypes /\ BookTypes
BY DEF TypeOK, RunTypes, FileTypes, ServerTypes, BookTypes, Places, Memory, Account, Room, History

\* The declared users are numbered, the creator among them.
LEMMA UserNumbers ==
  ASSUME RunTypes
  PROVE  /\ settings.users \in Nat /\ 1 \in Users /\ Creator \in Users
         /\ \A u \in Users : u \in Nat /\ (u = settings.users \/ u + 1 \in Users)
         /\ loc.at \in Users /\ User \in Users
         /\ settings \in Setting
BY SettingsAssumption, UsersAssumption DEF RunTypes, Setting, Users, Creator, User, Memory

\* The declaration is in force for the whole behaviour.
LEMMA Declared == [Next]_vars => settings' = settings
<1> SUFFICES ASSUME [Next]_vars PROVE settings' = settings
  OBVIOUS
<1> USE DEF TokenStep, RegistrationStep, UserStep, RoomStep
<1>1. CASE RunStep
  BY <1>1 DEF RunStep
<1>2. CASE Start \/ HandleSignal \/ Fail \/ Kill \/ RestartServer
  BY <1>2 DEF Start, HandleSignal, Fail, Kill, RestartServer
<1>3. CASE RotateCredential \/ ChangeAccount \/ ChangeRoom
  BY <1>3 DEF RotateCredential, ChangeAccount, ChangeRoom
<1>4. CASE UNCHANGED vars
  BY <1>4 DEF vars
<1> QED
  BY <1>1, <1>2, <1>3, <1>4 DEF Next

\* A run that ends forgets everything.
LEMMA FinishType ==
  ASSUME RunTypes, settings' = settings, NEW r \in {"ok", "err"}, Finish(r)
  PROVE  RunTypes' /\ loc' = Blank /\ pc' = "idle" /\ result' = r
<1>1. Blank \in Memory
  BY UserNumbers, BoundsAssumption DEF Blank, Memory, RoomIds
<1>2. Memory' = Memory
  BY DEF Memory, Users
<1> QED
  BY <1>1, <1>2 DEF RunTypes, Finish, Places

\* A run that goes on keeps its types if its memory does.
LEMMA GotoType ==
  ASSUME RunTypes, settings' = settings, NEW p \in Places, Goto(p), loc' \in Memory
  PROVE  RunTypes' /\ pc' = p /\ result' = result
<1>1. Memory' = Memory
  BY DEF Memory, Users
<1> QED
  BY <1>1 DEF RunTypes, Goto

\* The room is left by way of the logout when it is private.
LEMMA LeaveRoomWays ==
  ASSUME RunTypes, settings' = settings, NEW r \in {"ok", "err"}, LeaveRoom(r)
  PROVE  /\ RunTypes'
         /\ \/ /\ settings.room = "private" /\ pc' = "logout" /\ result' = result
               /\ loc' = [loc EXCEPT !.rec = r]
            \/ /\ settings.room # "private" /\ pc' = "idle" /\ result' = r /\ loc' = Blank
<1>1. CASE settings.room = "private"
  <2>1. loc' = [loc EXCEPT !.rec = r] /\ Goto("logout")
    BY <1>1 DEF LeaveRoom
  <2>2. loc' \in Memory
    BY <2>1 DEF RunTypes, Memory
  <2> QED
    BY <1>1, <2>1, <2>2, GotoType DEF Places
<1>2. CASE settings.room # "private"
  BY <1>2, FinishType DEF LeaveRoom
<1> QED
  BY <1>1, <1>2

\* Where an error leads.
LEMMA ErrorWays ==
  ASSUME RunTypes, settings' = settings, Error
  PROVE  /\ RunTypes'
         /\ \/ /\ loc.open \/ pc \in {"openWrite", "openSignal"}
               /\ pc' = "closeWrite" /\ result' = result
               /\ loc' = [loc EXCEPT !.body = "err", !.open = FALSE]
            \/ /\ pc \in RoomSteps /\ settings.room = "private"
               /\ pc' = "logout" /\ result' = result
               /\ loc' = [loc EXCEPT !.rec = "err"]
            \/ /\ ~loc.open /\ pc \notin {"openWrite", "openSignal"}
               /\ pc \in RoomSteps => settings.room # "private"
               /\ pc' = "idle" /\ result' = "err" /\ loc' = Blank
<1>1. CASE loc.open \/ pc \in {"openWrite", "openSignal"}
  <2>1. loc' = [loc EXCEPT !.body = "err", !.open = FALSE] /\ Goto("closeWrite")
    BY <1>1 DEF Error
  <2>2. loc' \in Memory
    BY <2>1 DEF RunTypes, Memory
  <2> QED
    BY <1>1, <2>1, <2>2, GotoType DEF Places, Window
<1>2. CASE ~(loc.open \/ pc \in {"openWrite", "openSignal"}) /\ pc \in RoomSteps
  BY <1>2, LeaveRoomWays DEF Error
<1>3. CASE ~(loc.open \/ pc \in {"openWrite", "openSignal"}) /\ pc \notin RoomSteps
  BY <1>3, FinishType DEF Error
<1> QED
  BY <1>1, <1>2, <1>3

\* Where a registration that worked leads.
LEMMA RegisteredWays ==
  ASSUME RunTypes, settings' = settings, Registered
  PROVE  /\ RunTypes' /\ result' = result
         /\ \/ /\ loc.open /\ pc' = "closeWrite"
               /\ loc'.at = loc.at /\ loc'.why = loc.why /\ loc'.body = "ok" /\ ~loc'.open
            \/ /\ ~loc.open /\ pc' = "writeToken" /\ ~loc'.open /\ loc'.at = loc.at
<1>1. CASE loc.open
  <2>1. /\ loc' = [loc EXCEPT !.body = "ok", !.open = FALSE,
                              !.token = IF loc.why = "admin" THEN "good" ELSE @]
        /\ Goto("closeWrite")
    BY <1>1 DEF Registered
  <2>2. /\ loc' \in Memory
        /\ loc'.at = loc.at /\ loc'.why = loc.why /\ loc'.body = "ok" /\ ~loc'.open
    BY <2>1 DEF RunTypes, Memory
  <2> QED
    BY <1>1, <2>1, <2>2, GotoType DEF Places, Window
<1>2. CASE ~loc.open
  <2>1. loc' = [loc EXCEPT !.token = "good"] /\ Goto("writeToken")
    BY <1>2 DEF Registered
  <2>2. loc' \in Memory /\ loc'.at = loc.at /\ ~loc'.open
    BY <1>2, <2>1 DEF RunTypes, Memory
  <2> QED
    BY <1>2, <2>1, <2>2, GotoType DEF Places
<1> QED
  BY <1>1, <1>2

\* The next user, or the token when there is none.
LEMMA NextUserWays ==
  ASSUME RunTypes, settings' = settings, NextUser
  PROVE  /\ RunTypes' /\ result' = result
         /\ \/ loc.at = settings.users /\ pc' = "refresh" /\ loc' = loc
            \/ /\ loc.at # settings.users /\ pc' = "user"
               /\ loc' = [loc EXCEPT !.at = loc.at + 1] /\ loc'.at = loc.at + 1
<1>1. CASE loc.at = settings.users
  <2>1. Goto("refresh") /\ loc' = loc
    BY <1>1 DEF NextUser
  <2> QED
    BY <1>1, <2>1, GotoType DEF Places, RunTypes
<1>2. CASE loc.at # settings.users
  <2>1. Goto("user") /\ loc' = [loc EXCEPT !.at = loc.at + 1]
    BY <1>2 DEF NextUser
  <2>2. loc' \in Memory /\ loc'.at = loc.at + 1
    BY <1>2, <2>1, UserNumbers DEF RunTypes, Memory
  <2> QED
    BY <1>2, <2>1, <2>2, GotoType DEF Places
<1> QED
  BY <1>1, <1>2

\* A resolved room is checked or invited into, unless it is not the pinned one.
LEMMA FoundWays ==
  ASSUME RunTypes, settings' = settings, NEW id \in RoomIds, Found(id)
  PROVE  /\ RunTypes'
         /\ \/ settings.pin /\ id # 1 /\ Error
            \/ /\ ~(settings.pin /\ id # 1) /\ result' = result
               /\ loc' = [loc EXCEPT !.id = id, !.missing = Invitees]
               /\ loc'.id = id /\ loc'.missing = Invitees
               /\ pc' = IF settings.room = "private" THEN "check" ELSE "invite"
<1>1. CASE settings.pin /\ id # 1
  BY <1>1, ErrorWays DEF Found
<1>2. CASE ~(settings.pin /\ id # 1)
  <2>1. /\ loc' = [loc EXCEPT !.id = id, !.missing = Invitees]
        /\ Goto(IF settings.room = "private" THEN "check" ELSE "invite")
    BY <1>2 DEF Found
  <2>2. loc' \in Memory /\ loc'.id = id /\ loc'.missing = Invitees
    BY <2>1 DEF RunTypes, Memory
  <2>3. (IF settings.room = "private" THEN "check" ELSE "invite") \in Places
    BY DEF Places, RoomSteps
  <2> QED
    BY <1>2, <2>1, <2>2, <2>3, GotoType DEF Goto
<1> QED
  BY <1>1, <1>2

\* Every step keeps the types.
LEMMA TypeStep == TypeOK /\ Phases /\ [Next]_vars => TypeOK'
<1> SUFFICES ASSUME TypeOK, Phases, [Next]_vars
             PROVE  TypeOK'
  OBVIOUS
<1> SUFFICES RunTypes' /\ FileTypes' /\ ServerTypes' /\ BookTypes'
  BY DEF TypeOK, RunTypes, FileTypes, ServerTypes, BookTypes, Places, Memory, Account, Room, History
<1>0. RunTypes /\ FileTypes /\ ServerTypes /\ BookTypes
  BY Types
<1>1. settings' = settings
  BY Declared
<1>2. Users' = Users /\ Memory' = Memory
  BY <1>1 DEF Users, Memory
<1>f. UNCHANGED files => FileTypes'
  BY <1>0, <1>2 DEF files, FileTypes
<1>s. UNCHANGED server => ServerTypes'
  BY <1>0, <1>2 DEF server, ServerTypes
<1>b. UNCHANGED <<faults, changes, ahead>> /\ ghost' \in History => BookTypes'
  BY <1>0, <1>2 DEF BookTypes
<1>n. /\ 1 \in Users /\ Creator \in Users /\ loc.at \in Users /\ User \in Users
      /\ \A u \in Users : creds[u] \in Passwords \cup {"none"}
  BY <1>0, UserNumbers DEF FileTypes
<1>a. [pw |-> creds[loc.at], named |-> TRUE] \in Account
  BY <1>n DEF Account
<1>c. ChangeBound => changes' \in 0 .. MaxChanges
  BY <1>0, BoundsAssumption DEF ChangeBound, BookTypes
<1>d. faults > 0 => faults - 1 \in 0 .. MaxFaults
  BY <1>0, BoundsAssumption DEF BookTypes
<1>x. ASSUME loc' = loc, NEW p \in Places, Goto(p) PROVE RunTypes'
  BY <1>0, <1>1, <1>x, GotoType DEF RunTypes
<1>3. CASE Start
  <2>1. RunTypes'
    BY <1>0, <1>1, <1>2, <1>3 DEF Start, RunTypes, Places
  <2>2. BookTypes'
    BY <1>0, <1>b, <1>3 DEF Start, BookTypes, History
  <2> QED
    BY <1>f, <1>s, <1>3, <2>1, <2>2 DEF Start
<1>4. ASSUME TokenStep PROVE RunTypes' /\ FileTypes' /\ ServerTypes'
  <2>1. CASE ReadToken
    <3>1. CASE tokenFile # "none"
      <4>1. loc' \in Memory /\ Goto("user")
        BY <1>0, <2>1, <3>1 DEF ReadToken, RunTypes, FileTypes, Memory
      <4> QED
        BY <1>0, <1>1, <1>f, <1>s, <2>1, <4>1, GotoType DEF ReadToken, Places
    <3>2. CASE tokenFile = "none" /\ creds[1] # "none"
      <4>1. loc' \in Memory /\ Goto("register")
        BY <1>0, <2>1, <3>2 DEF ReadToken, RunTypes, Memory
      <4> QED
        BY <1>0, <1>1, <1>f, <1>s, <2>1, <4>1, GotoType DEF ReadToken, Places
    <3>3. CASE tokenFile = "none" /\ creds[1] = "none"
      BY <1>0, <1>1, <1>f, <1>s, <2>1, <3>3, FinishType DEF ReadToken
    <3> QED
      BY <3>1, <3>2, <3>3
  <2>2. CASE WriteToken
    <3>1. RunTypes'
      BY <1>x, <2>2 DEF WriteToken, Places
    <3>2. FileTypes'
      BY <1>0, <1>2, <2>2 DEF WriteToken, FileTypes, RunTypes, Memory
    <3> QED
      BY <1>s, <2>2, <3>1, <3>2 DEF WriteToken
  <2>3. CASE RefreshToken
    <3>1. RunTypes'
      BY <1>0, <1>1, <1>x, <2>3, FinishType DEF RefreshToken, Places
    <3>2. FileTypes'
      BY <1>0, <1>2, <2>3 DEF RefreshToken, FileTypes
    <3> QED
      BY <1>s, <2>3, <3>1, <3>2 DEF RefreshToken
  <2> QED
    BY <1>4, <2>1, <2>2, <2>3 DEF TokenStep
<1>5. ASSUME RegistrationStep PROVE RunTypes' /\ FileTypes' /\ ServerTypes'
  <2>1. CASE Register \/ CompleteDummy
    <3>1. RunTypes'
      <4>1. \/ loc' = loc /\ \E p \in {"login", "dummy", "setName"} : Goto(p)
            \/ Registered
        BY <2>1 DEF Register, CompleteDummy
      <4>2. {"login", "dummy", "setName"} \subseteq Places
        BY DEF Places
      <4> QED
        BY <1>0, <1>1, <1>x, <4>1, <4>2, RegisteredWays
    <3>2. accounts' \in [Users -> Account]
      <4>1. accounts' = accounts \/ accounts' = [accounts EXCEPT ![User].pw = creds[User]]
        BY <2>1 DEF Register, CompleteDummy
      <4> QED
        BY <1>0, <1>n, <4>1 DEF Account, ServerTypes
    <3>3. UNCHANGED <<files, signal, reg, rooms, alias, device>>
      BY <2>1 DEF Register, CompleteDummy
    <3> QED
      BY <1>0, <1>2, <1>f, <3>1, <3>2, <3>3 DEF ServerTypes
  <2>2. CASE RegistrationDisabled
    <3>1. RunTypes'
      <4>1. CASE loc.open /\ loc.tries + 1 < MaxTries
        <5>1. loc' \in Memory
          BY <1>0, <2>2, <4>1, BoundsAssumption DEF RegistrationDisabled, RunTypes, Memory
        <5> QED
          BY <1>0, <1>1, <2>2, <4>1, <5>1, GotoType DEF RegistrationDisabled, Places
      <4>2. CASE ~(loc.open /\ loc.tries + 1 < MaxTries)
        BY <1>0, <1>1, <1>x, <2>2, <4>2, ErrorWays DEF RegistrationDisabled, Places, Window
      <4> QED
        BY <4>1, <4>2
    <3> QED
      BY <1>f, <1>s, <2>2, <3>1 DEF RegistrationDisabled
  <2>3. CASE LoginExisting
    BY <1>0, <1>1, <1>f, <1>s, <1>x, <2>3, ErrorWays, RegisteredWays DEF LoginExisting, Places
  <2>4. CASE SetDisplayName
    <3>1. RunTypes'
      BY <1>0, <1>1, <2>4, RegisteredWays DEF SetDisplayName
    <3>2. PICK set \in BOOLEAN : accounts' = [accounts EXCEPT ![User].named = @ \/ set]
      BY <2>4 DEF SetDisplayName
    <3>3. (accounts[User].named \/ set) \in BOOLEAN
      BY <1>0, <1>n DEF ServerTypes, Account
    <3>4. accounts' \in [Users -> Account]
      BY <1>0, <1>n, <3>2, <3>3 DEF ServerTypes, Account
    <3> QED
      BY <1>0, <1>2, <1>f, <2>4, <3>1, <3>4 DEF SetDisplayName, ServerTypes
  <2>5. CASE OpenWrite \/ CloseWrite
    <3>1. RunTypes'
      BY <1>x, <2>5 DEF OpenWrite, CloseWrite, Places, Window
    <3>2. FileTypes'
      BY <1>0, <1>2, <2>5 DEF OpenWrite, CloseWrite, FileTypes
    <3> QED
      BY <1>s, <2>5, <3>1, <3>2 DEF OpenWrite, CloseWrite
  <2>6. CASE OpenSignal
    <3>1. loc' \in Memory
      <4>1. 0 \in 0 .. MaxTries
        BY BoundsAssumption
      <4> QED
        BY <1>0, <2>6, <4>1 DEF OpenSignal, RunTypes, Memory
    <3>2. RunTypes'
      BY <1>0, <1>1, <2>6, <3>1, GotoType DEF OpenSignal, Places
    <3>3. ServerTypes'
      BY <1>0, <1>2, <2>6 DEF OpenSignal, ServerTypes
    <3> QED
      BY <1>f, <2>6, <3>2, <3>3 DEF OpenSignal
  <2> QED
    BY <1>5, <2>1, <2>2, <2>3, <2>4, <2>5, <2>6 DEF RegistrationStep
<1>6. ASSUME UserStep PROVE RunTypes' /\ FileTypes' /\ ServerTypes'
  <2>1. CASE CheckUser
    <3>1. CASE UpToDate(loc.at)
      BY <1>0, <1>1, <1>f, <1>s, <2>1, <3>1, NextUserWays DEF CheckUser
    <3>2. CASE ~UpToDate(loc.at)
      <4>1. loc' \in Memory /\ Goto("post")
        BY <1>0, <2>1, <3>2 DEF CheckUser, RunTypes, Memory
      <4> QED
        BY <1>0, <1>1, <1>f, <1>s, <2>1, <4>1, GotoType DEF CheckUser, Places
    <3> QED
      BY <3>1, <3>2
  <2>2. CASE PostUser
    <3>1. RunTypes'
      <4>1. \/ loc' = loc /\ \E p \in {"commit", "register", "openWrite"} : Goto(p)
            \/ Error
        BY <2>2 DEF PostUser
      <4>2. {"commit", "register", "openWrite"} \subseteq Places
        BY DEF Places, Window
      <4> QED
        BY <1>0, <1>1, <1>x, <4>1, <4>2, ErrorWays
    <3>2. accounts' \in [Users -> Account]
      <4>1. \/ accounts' = accounts
            \/ accounts' = [accounts EXCEPT ![loc.at] = [pw |-> creds[loc.at], named |-> TRUE]]
        BY <2>2 DEF PostUser
      <4> QED
        BY <1>0, <1>a, <1>n, <4>1 DEF ServerTypes
    <3> QED
      BY <1>0, <1>2, <1>f, <2>2, <3>1, <3>2 DEF PostUser, ServerTypes
  <2> QED
    BY <1>6, <2>1, <2>2 DEF UserStep
<1>7. ASSUME RoomStep PROVE RunTypes' /\ FileTypes' /\ ServerTypes'
  <2> USE DEF Places, RoomSteps
  <2>1. CASE EnterRoom
    <3>1. RunTypes' /\ UNCHANGED <<files, signal, reg, accounts, rooms, alias>>
      BY <1>0, <1>1, <1>x, <2>1, FinishType, UserNumbers DEF EnterRoom, Setting
    <3>2. device' \in BOOLEAN
      BY <1>0, <2>1, UserNumbers DEF EnterRoom, ServerTypes, Setting
    <3> QED
      BY <1>0, <1>2, <1>f, <3>1, <3>2 DEF ServerTypes
  <2>2. CASE ResolveAlias
    <3>1. alias # 0 => alias \in RoomIds
      BY <1>0 DEF ServerTypes
    <3> QED
      BY <1>0, <1>1, <1>f, <1>s, <1>x, <2>2, <3>1, FoundWays, ErrorWays DEF ResolveAlias
  <2>3. CASE CreateRoom
    <3>1. PICK id \in RoomIds :
             /\ rooms' = [rooms EXCEPT ![id] = [guarded |-> settings.room = "private",
                                                members |-> Allowed]]
             /\ alias' = id
             /\ Found(id)
      BY <2>3 DEF CreateRoom
    <3>2. (settings.room = "private") \in BOOLEAN /\ Allowed \in SUBSET People
      BY DEF Allowed, People
    <3>3. rooms' \in [RoomIds -> Room]
      BY <1>0, <3>1, <3>2 DEF ServerTypes, Room
    <3> QED
      BY <1>0, <1>1, <1>2, <1>f, <2>3, <3>1, <3>3, FoundWays DEF CreateRoom, ServerTypes
  <2>4. CASE Invite
    <3>1. CASE loc.missing = {}
      BY <1>0, <1>1, <1>f, <1>s, <1>x, <2>4, <3>1, FinishType DEF Invite, AfterInvitations, server
    <3>2. CASE loc.missing # {}
      <4>1. PICK who \in loc.missing :
               /\ rooms' = [rooms EXCEPT ![loc.id].members = @ \cup {who}]
               /\ loc' = [loc EXCEPT !.missing = @ \ {who}]
               /\ Goto("invite")
        BY <2>4, <3>2 DEF Invite
      <4>2. loc' \in Memory /\ who \in People
        BY <1>0, <4>1 DEF RunTypes, Memory, People
      <4>3. rooms' \in [RoomIds -> Room]
        BY <1>0, <4>1, <4>2 DEF ServerTypes, Room
      <4> QED
        BY <1>0, <1>1, <1>2, <1>f, <2>4, <4>1, <4>2, <4>3, GotoType DEF Invite, ServerTypes
    <3> QED
      BY <3>1, <3>2
  <2>5. CASE RecheckRoom
    <3>1. (IF Verified(rooms[loc.id]) /\ Invitees \subseteq rooms[loc.id].members
           THEN "ok" ELSE "err") \in {"ok", "err"}
      OBVIOUS
    <3> QED
      BY <1>0, <1>1, <1>f, <1>s, <2>5, <3>1, LeaveRoomWays DEF RecheckRoom
  <2>6. CASE RoomRefused
    BY <1>0, <1>1, <1>f, <1>s, <2>6, ErrorWays DEF RoomRefused
  <2>7. CASE Logout
    <3>1. RunTypes'
      <4>1. loc' = Blank /\ pc' = "idle" /\ result' \in {"none", "ok", "err"}
        BY <1>0, <2>7 DEF Logout, Finish, RunTypes, Memory
      <4>2. Blank \in Memory
        BY <1>n, BoundsAssumption DEF Blank, Memory, RoomIds
      <4> QED
        BY <1>0, <1>1, <1>2, <4>1, <4>2 DEF RunTypes
    <3> QED
      BY <1>0, <1>2, <1>f, <2>7, <3>1 DEF Logout, ServerTypes
  <2> QED
    BY <1>7, <2>1, <2>2, <2>3, <2>4, <2>5, <2>6, <2>7 DEF RoomStep
<1>8. CASE RunStep
  <2>5. RunTypes' /\ FileTypes' /\ ServerTypes'
    <3>1. CASE TokenStep \/ RegistrationStep \/ UserStep \/ RoomStep
      BY <1>4, <1>5, <1>6, <1>7, <3>1
    <3>2. CASE CloseSignal
      <4>1. RunTypes'
        <5>1. \/ loc' = loc /\ \E p \in {"writeToken", "commit"} : Goto(p)
              \/ Finish("err")
          BY <3>2 DEF CloseSignal, AfterWindow
        <5>2. {"writeToken", "commit"} \subseteq Places
          BY DEF Places
        <5> QED
          BY <1>0, <1>1, <1>x, <5>1, <5>2, FinishType
      <4> QED
        BY <1>0, <1>2, <1>f, <3>2, <4>1 DEF CloseSignal, ServerTypes
    <3>3. CASE CheckRoom
      <4>1. CASE Verified(rooms[loc.id])
        <5>1. loc' \in Memory /\ Goto("invite")
          BY <1>0, <3>3, <4>1 DEF CheckRoom, RunTypes, Memory
        <5> QED
          BY <1>0, <1>1, <1>f, <1>s, <3>3, <5>1, GotoType DEF CheckRoom, Places, RoomSteps
      <4>2. CASE ~Verified(rooms[loc.id])
        BY <1>0, <1>1, <1>f, <1>s, <3>3, <4>2, ErrorWays DEF CheckRoom
      <4> QED
        BY <4>1, <4>2
    <3>4. CASE CommitMarker
      <4>1. RunTypes'
        BY <1>0, <1>1, <3>4, NextUserWays DEF CommitMarker
      <4>2. FileTypes'
        BY <1>0, <1>2, <1>n, <3>4 DEF CommitMarker, FileTypes
      <4> QED
        BY <1>s, <3>4, <4>1, <4>2 DEF CommitMarker
    <3> QED
      BY <1>8, <3>1, <3>2, <3>3, <3>4 DEF RunStep
  <2>6. BookTypes'
    <3>1. Ahead \subseteq Users
      BY <1>0 DEF Ahead, BookTypes
    <3>2. [ghost EXCEPT !.cut = FALSE] \in History /\ [ghost EXCEPT !.still = TRUE] \in History
      BY <1>0 DEF BookTypes, History
    <3>3. ahead' \subseteq Users
      BY <1>0, <1>8, <3>1 DEF RunStep, CommitMarker, BookTypes
    <3>4. ghost' \in History /\ UNCHANGED <<faults, changes>>
      BY <1>0, <1>8, <3>2 DEF RunStep, CloseSignal, CheckRoom, CommitMarker, BookTypes
    <3> QED
      BY <1>0, <1>2, <3>3, <3>4 DEF BookTypes
  <2> QED
    BY <2>5, <2>6
<1>9. CASE HandleSignal
  <2>1. ServerTypes'
    BY <1>0, <1>2, <1>9 DEF HandleSignal, ServerTypes
  <2> QED
    BY <1>0, <1>1, <1>2, <1>b, <1>f, <1>9, <2>1 DEF HandleSignal, RunTypes, BookTypes
<1>10. CASE RestartServer
  <2>1. ServerTypes'
    BY <1>0, <1>2, <1>10 DEF RestartServer, ServerTypes
  <2>2. BookTypes'
    BY <1>0, <1>2, <1>d, <1>10 DEF RestartServer, BookTypes, History
  <2> QED
    BY <1>0, <1>1, <1>2, <1>f, <1>10, <2>1, <2>2 DEF RestartServer, RunTypes
<1>11. CASE Fail
  <2>1. RunTypes'
    <3>1. Finish("err") \/ Error
      BY <1>11 DEF Fail
    <3> QED
      BY <1>0, <1>1, <3>1, FinishType, ErrorWays
  <2>2. accounts' \in [Users -> Account]
    <3>1. \/ accounts' = accounts
          \/ accounts' = [accounts EXCEPT ![loc.at] = [pw |-> creds[loc.at], named |-> TRUE]]
          \/ accounts' = [accounts EXCEPT ![User].pw = creds[User]]
      BY <1>11 DEF Fail
    <3> QED
      <4>1. CASE accounts' = [accounts EXCEPT ![User].pw = creds[User]]
        BY <1>0, <1>n, <4>1 DEF Account, ServerTypes
      <4>2. CASE \/ accounts' = accounts
                 \/ accounts' = [accounts EXCEPT ![loc.at] = [pw |-> creds[loc.at], named |-> TRUE]]
        BY <1>0, <1>a, <1>n, <4>2 DEF ServerTypes
      <4> QED
        BY <3>1, <4>1, <4>2
  <2>3. ServerTypes'
    BY <1>0, <1>2, <1>11, <2>2 DEF Fail, ServerTypes
  <2>4. BookTypes'
    <3>1. Ahead \subseteq Users
      BY <1>0 DEF Ahead, BookTypes
    <3>2. /\ (ghost.cut \/ pc \in {"closeWrite", "closeSignal"}) \in BOOLEAN
          /\ (ghost.left \/ pc \in {"room", "logout"}) \in BOOLEAN
      BY <1>0 DEF BookTypes, History
    <3>3. ghost' \in History
      BY <1>0, <1>11, <3>2 DEF Fail, BookTypes, History
    <3> QED
      BY <1>0, <1>2, <1>d, <1>11, <3>1, <3>3 DEF Fail, BookTypes
  <2> QED
    BY <1>f, <1>11, <2>1, <2>3, <2>4 DEF Fail
<1>12. CASE Kill
  <2>1. RunTypes'
    BY <1>0, <1>1, <1>12, FinishType DEF Kill
  <2>2. FileTypes'
    BY <1>0, <1>2, <1>n, <1>12 DEF Kill, FileTypes
  <2>3. BookTypes'
    <3>1. (ghost.cut \/ InWindow) \in BOOLEAN /\ (ghost.left \/ device) \in BOOLEAN
      BY <1>0 DEF BookTypes, History, InWindow, ServerTypes, RunTypes, Memory
    <3>2. ghost' \in History
      BY <1>0, <1>12, <3>1 DEF Kill, BookTypes, History
    <3> QED
      BY <1>0, <1>2, <1>d, <1>12, <3>2 DEF Kill, BookTypes
  <2> QED
    BY <1>s, <1>12, <2>1, <2>2, <2>3 DEF Kill
<1>13. CASE RotateCredential
  <2>1. FileTypes'
    BY <1>0, <1>2, <1>13 DEF RotateCredential, FileTypes
  <2>2. BookTypes'
    BY <1>0, <1>2, <1>c, <1>13 DEF RotateCredential, BookTypes, History
  <2> QED
    BY <1>0, <1>1, <1>2, <1>s, <1>13, <2>1, <2>2 DEF RotateCredential, RunTypes
<1>14. CASE ChangeAccount
  <2>1. RunTypes'
    <3>1. loc' \in Memory
      BY <1>0, <1>14 DEF ChangeAccount, RunTypes, Memory
    <3> QED
      BY <1>0, <1>1, <1>2, <1>14, <3>1 DEF ChangeAccount, RunTypes
  <2>2. FileTypes'
    BY <1>0, <1>2, <1>14 DEF ChangeAccount, FileTypes
  <2>3. ServerTypes'
    BY <1>0, <1>2, <1>14 DEF ChangeAccount, ServerTypes, Account
  <2>4. BookTypes'
    BY <1>0, <1>2, <1>c, <1>14 DEF ChangeAccount, BookTypes, History
  <2> QED
    BY <2>1, <2>2, <2>3, <2>4
<1>15. CASE ChangeRoom
  <2>1. ServerTypes'
    <3>1. rooms' \in [RoomIds -> Room] /\ alias' \in RoomIds \cup {0}
      <4>a. alias \in RoomIds
        BY <1>0, <1>15 DEF ChangeRoom, ServerTypes
      <4>1. CASE \E who \in People :
                   /\ rooms' = [rooms EXCEPT ![alias].members =
                                   IF who \in @ THEN @ \ {who} ELSE @ \cup {who}]
                   /\ UNCHANGED alias
        BY <1>0, <4>a, <4>1 DEF ServerTypes, Room
      <4>2. CASE rooms' = [rooms EXCEPT ![alias].guarded = ~@] /\ UNCHANGED alias
        <5>1. (~rooms[alias].guarded) \in BOOLEAN
          OBVIOUS
        <5> QED
          BY <1>0, <4>a, <4>2, <5>1 DEF ServerTypes, Room
      <4>3. CASE alias' = 0 /\ UNCHANGED rooms
        BY <1>0, <4>3 DEF ServerTypes
      <4>4. CASE \E id \in RoomIds :
                   /\ rooms[id] = NoRoom
                   /\ rooms' = [rooms EXCEPT ![id] = [guarded |-> TRUE, members |-> {"stranger"}]]
                   /\ alias' = id
        <5>1. {"stranger"} \in SUBSET People
          BY DEF People
        <5> QED
          BY <1>0, <4>4, <5>1 DEF ServerTypes, Room
      <4> QED
        BY <1>15, <4>1, <4>2, <4>3, <4>4 DEF ChangeRoom
    <3> QED
      BY <1>0, <1>2, <1>15, <3>1 DEF ChangeRoom, ServerTypes
  <2>2. BookTypes'
    BY <1>0, <1>2, <1>c, <1>15 DEF ChangeRoom, BookTypes, History
  <2> QED
    BY <1>0, <1>1, <1>2, <1>f, <1>15, <2>1, <2>2 DEF ChangeRoom, RunTypes
<1>16. CASE UNCHANGED vars
  BY <1>0, <1>1, <1>2, <1>b, <1>f, <1>s, <1>16 DEF vars, RunTypes, BookTypes
<1> QED
  BY <1>3, <1>8, <1>9, <1>10, <1>11, <1>12, <1>13, <1>14, <1>15, <1>16 DEF Next

-----------------------------------------------------------------------------
(* What each action preserves.                                             *)

\* What a run that is not under way holds in memory.
LEMMA BlankFields ==
  /\ Blank.at = 1 /\ Blank.why = "admin" /\ Blank.open = FALSE /\ Blank.body = "none"
  /\ Blank.token = "none" /\ Blank.id = 0 /\ Blank.rec = "none"
BY DEF Blank

\* The control of a run: an error, an end, and every other step.
LEMMA PhasesStep == TypeOK /\ Phases /\ [Next]_vars => Phases'
<1> SUFFICES ASSUME TypeOK, Phases, [Next]_vars
             PROVE  Phases'
  OBVIOUS
<1>0. RunTypes /\ settings' = settings
  BY Types, Declared
<1>1. pc' = "idle" /\ loc' = Blank => Phases'
  BY BlankFields DEF Phases, Window, RoomSteps
<1>2. /\ UNCHANGED <<pc, result>>
      /\ loc' = loc \/ loc' = [loc EXCEPT !.token = IF @ = "good" THEN "bad" ELSE @]
      => Phases'
  BY <1>0, BlankFields DEF Phases, RunTypes, Memory
<1>3. ASSUME pc # "idle", Error PROVE Phases'
  BY <1>0, <1>1, <1>3, ErrorWays DEF Phases, RunTypes, Memory, Window, RoomSteps
<1>4. ASSUME pc # "idle", pc \notin Window, Registered PROVE Phases'
  BY <1>0, <1>4, RegisteredWays DEF Phases, Window, RoomSteps
<1>5. ASSUME pc \in {"user", "commit"}, NextUser PROVE Phases'
  BY <1>0, <1>5, NextUserWays DEF Phases, Window, RoomSteps, RunTypes, Memory
<1>6. CASE Start
  BY <1>6, BlankFields DEF Start, Phases, Window, RoomSteps
<1>7. ASSUME TokenStep PROVE Phases'
  <2>1. CASE ReadToken
    BY <1>0, <1>1, <2>1 DEF ReadToken, Goto, Finish, Phases, RunTypes, Memory, Window, RoomSteps
  <2>2. CASE WriteToken \/ RefreshToken
    BY <1>0, <1>1, <2>2
    DEF WriteToken, RefreshToken, Goto, Finish, Phases, Window, RoomSteps
  <2> QED
    BY <1>7, <2>1, <2>2 DEF TokenStep
<1>8. ASSUME RegistrationStep PROVE Phases'
  <2>1. CASE Register \/ CompleteDummy
    <3>1. pc \in {"register", "dummy"}
      BY <2>1 DEF Register, CompleteDummy
    <3>2. CASE Registered
      BY <1>4, <3>1, <3>2 DEF Window
    <3>3. CASE loc' = loc /\ (Goto("login") \/ Goto("dummy") \/ (Goto("setName") /\ loc.why = "user"))
      BY <1>0, <3>1, <3>3 DEF Goto, Phases, Window, RoomSteps
    <3>4. \/ loc' = loc /\ Goto("login")
          \/ loc' = loc /\ Goto("dummy")
          \/ loc' = loc /\ Goto("setName") /\ loc.why = "user"
          \/ Registered
      BY <2>1 DEF Register, CompleteDummy
    <3> QED
      BY <3>2, <3>3, <3>4
  <2>2. CASE RegistrationDisabled
    <3>1. pc \in {"register", "dummy"}
      BY <2>2 DEF RegistrationDisabled
    <3>2. CASE Error
      BY <1>3, <3>1, <3>2
    <3>3. CASE loc' = loc /\ ~loc.open /\ Goto("openWrite")
      BY <1>0, <3>1, <3>3 DEF Goto, Phases, Window, RoomSteps
    <3>4. CASE /\ loc.open /\ loc' = [loc EXCEPT !.tries = @ + 1]
               /\ Goto(IF loc.why = "admin" THEN "register" ELSE "post")
      BY <1>0, <3>1, <3>4 DEF Goto, Phases, Window, RoomSteps, RunTypes, Memory
    <3> QED
      BY <2>2, <3>2, <3>3, <3>4 DEF RegistrationDisabled
  <2>3. CASE LoginExisting
    <3>1. pc = "login"
      BY <2>3 DEF LoginExisting
    <3>2. CASE loc' = loc /\ Goto("setName") /\ loc.why = "user"
      BY <1>0, <3>1, <3>2 DEF Goto, Phases, Window, RoomSteps
    <3> QED
      BY <1>3, <1>4, <2>3, <3>1, <3>2 DEF LoginExisting, Window
  <2>4. CASE SetDisplayName
    BY <1>4, <2>4 DEF SetDisplayName, Window
  <2>5. CASE OpenWrite \/ CloseWrite
    BY <1>0, <2>5 DEF OpenWrite, CloseWrite, Goto, Phases, Window, RoomSteps
  <2>6. CASE OpenSignal
    BY <1>0, <2>6 DEF OpenSignal, Goto, Phases, Window, RoomSteps, RunTypes, Memory
  <2> QED
    BY <1>8, <2>1, <2>2, <2>3, <2>4, <2>5, <2>6 DEF RegistrationStep
<1>9. ASSUME UserStep PROVE Phases'
  <2>1. CASE CheckUser
    <3>1. CASE NextUser
      BY <1>5, <2>1, <3>1 DEF CheckUser
    <3>2. CASE ~NextUser
      BY <1>0, <2>1, <3>2 DEF CheckUser, Goto, Phases, Window, RoomSteps, RunTypes, Memory
    <3> QED
      BY <3>1, <3>2
  <2>2. CASE PostUser
    <3>1. CASE Error
      BY <1>3, <2>2, <3>1 DEF PostUser
    <3>2. CASE ~Error
      BY <1>0, <2>2, <3>2 DEF PostUser, Goto, Phases, Window, RoomSteps
    <3> QED
      BY <3>1, <3>2
  <2> QED
    BY <1>9, <2>1, <2>2 DEF UserStep
<1>10. ASSUME pc \in RoomSteps, NEW id \in RoomIds, Found(id) PROVE Phases'
  <2>1. pc # "idle" /\ ~loc.open /\ settings.room # "none" /\ result = "none"
    BY <1>10 DEF Phases, RoomSteps
  <2>2. CASE Error
    BY <1>3, <2>1, <2>2
  <2>3. CASE ~Error
    BY <1>0, <1>10, <2>1, <2>3, FoundWays DEF Phases, Window, RoomSteps, RunTypes, Memory
  <2> QED
    BY <2>2, <2>3
<1>11. ASSUME RoomStep PROVE Phases'
  <2>1. CASE EnterRoom
    BY <1>0, <1>1, <2>1, UserNumbers DEF EnterRoom, Goto, Finish, Phases, Window, RoomSteps, Setting
  <2>2. CASE ResolveAlias
    <3>1. pc = "resolve" /\ (alias # 0 => alias \in RoomIds)
      BY <2>2 DEF ResolveAlias, TypeOK
    <3>2. CASE alias # 0
      BY <1>10, <2>2, <3>1, <3>2 DEF ResolveAlias, RoomSteps
    <3>3. CASE alias = 0 /\ settings.pin
      BY <1>3, <2>2, <3>1, <3>3 DEF ResolveAlias
    <3>4. CASE alias = 0 /\ ~settings.pin
      BY <1>0, <2>2, <3>1, <3>4 DEF ResolveAlias, Goto, Phases, Window, RoomSteps
    <3> QED
      BY <3>2, <3>3, <3>4
  <2>3. CASE CreateRoom
    BY <1>10, <2>3 DEF CreateRoom, RoomSteps
  <2>4. CASE Invite
    BY <1>0, <1>1, <2>4
    DEF Invite, AfterInvitations, Goto, Finish, Phases, Window, RoomSteps, RunTypes, Memory
  <2>5. CASE RecheckRoom
    <3>1. PICK r \in {"ok", "err"} : LeaveRoom(r)
      BY <2>5 DEF RecheckRoom
    <3> QED
      BY <1>0, <1>1, <2>5, <3>1, LeaveRoomWays
      DEF RecheckRoom, Phases, Window, RoomSteps, RunTypes, Memory
  <2>6. CASE RoomRefused
    BY <1>3, <2>6 DEF RoomRefused
  <2>7. CASE Logout
    BY <1>1, <2>7 DEF Logout, Finish
  <2> QED
    BY <1>11, <2>1, <2>2, <2>3, <2>4, <2>5, <2>6, <2>7 DEF RoomStep
<1>12. CASE RunStep
  <2>1. CASE CloseSignal
    BY <1>0, <1>1, <2>1 DEF CloseSignal, AfterWindow, Goto, Finish, Phases, Window, RoomSteps
  <2>2. CASE CheckRoom
    <3>1. CASE Verified(rooms[loc.id])
      BY <1>0, <2>2, <3>1 DEF CheckRoom, Goto, Phases, Window, RoomSteps, RunTypes, Memory
    <3>2. CASE ~Verified(rooms[loc.id])
      BY <1>3, <2>2, <3>2 DEF CheckRoom
    <3> QED
      BY <3>1, <3>2
  <2>3. CASE CommitMarker
    BY <1>5, <2>3 DEF CommitMarker
  <2> QED
    BY <1>7, <1>8, <1>9, <1>11, <1>12, <2>1, <2>2, <2>3 DEF RunStep
<1>13. CASE Fail
  <2>1. pc # "idle" /\ (Error \/ Finish("err"))
    BY <1>13 DEF Fail
  <2> QED
    BY <1>1, <1>3, <2>1 DEF Finish
<1>14. CASE Kill
  BY <1>1, <1>14 DEF Kill, Finish
<1>15. CASE HandleSignal \/ RestartServer \/ RotateCredential \/ ChangeRoom \/ UNCHANGED vars
  BY <1>2, <1>15 DEF HandleSignal, RestartServer, RotateCredential, ChangeRoom, vars
<1>16. CASE ChangeAccount
  BY <1>2, <1>16 DEF ChangeAccount
<1> QED
  BY <1>6, <1>12, <1>13, <1>14, <1>15, <1>16 DEF Next

\* A run leaves the window by the signal that closes it, or cut short.
LEMMA WindowsStep == TypeOK /\ Phases /\ Windows /\ [Next]_vars => Windows'
<1> SUFFICES ASSUME TypeOK, Phases, Windows, [Next]_vars
             PROVE  Windows'
  OBVIOUS
<1>0. RunTypes /\ settings' = settings
  BY Types, Declared
<1>1. ASSUME UNCHANGED <<reg, signal, runtime>>, ghost'.cut = ghost.cut,
             InWindow => InWindow', pc' = "closeSignal" => pc = "closeSignal"
      PROVE  Windows'
  BY <1>1 DEF Windows, RegistrationOpenOnlyForCause
<1>2. ASSUME UNCHANGED <<reg, signal, runtime>>, ghost'.cut = ghost.cut, ~InWindow,
             pc' # "closeSignal"
      PROVE  Windows'
  BY <1>1, <1>2
<1>3. ASSUME UNCHANGED <<reg, signal, runtime>>, ghost'.cut = ghost.cut,
             pc \notin {"closeWrite", "closeSignal"}, Error
      PROVE  Windows'
  <2>1. \/ pc' = "closeWrite"
        \/ ~loc.open /\ pc \notin {"openWrite", "openSignal"} /\ pc' \in {"idle", "logout"}
    BY <1>0, <1>3, ErrorWays DEF Phases, RoomSteps
  <2>2. CASE pc' = "closeWrite"
    BY <1>1, <1>3, <2>2 DEF InWindow, Window
  <2>3. CASE ~loc.open /\ pc \notin {"openWrite", "openSignal"} /\ pc' \in {"idle", "logout"}
    BY <1>2, <1>3, <2>3 DEF InWindow, Window
  <2> QED
    BY <2>1, <2>2, <2>3
<1>4. ASSUME UNCHANGED <<reg, signal, runtime>>, ghost'.cut = ghost.cut, pc \notin Window, Registered
      PROVE  Windows'
  BY <1>0, <1>1, <1>2, <1>4, RegisteredWays DEF InWindow, Window
<1>5. ASSUME TokenStep \/ CheckUser, UNCHANGED ghost PROVE Windows'
  <2>1. ~InWindow /\ UNCHANGED <<reg, signal, runtime>>
    BY <1>5
    DEF TokenStep, ReadToken, WriteToken, RefreshToken, CheckUser, files, server, InWindow, Window, Phases
  <2>2. pc' # "closeSignal"
    BY <1>0, <1>5, NextUserWays
    DEF TokenStep, ReadToken, WriteToken, RefreshToken, CheckUser, Goto, Finish
  <2> QED
    BY <1>2, <1>5, <2>1, <2>2
<1>6. ASSUME RegistrationStep, UNCHANGED ghost PROVE Windows'
  <2>1. CASE Register \/ CompleteDummy \/ LoginExisting \/ SetDisplayName
    <3>1. /\ pc \in {"register", "dummy", "login", "setName"}
          /\ UNCHANGED <<reg, signal, runtime>>
      BY <2>1 DEF Register, CompleteDummy, LoginExisting, SetDisplayName, files, server
    <3>2. \/ loc' = loc /\ pc' \in {"login", "dummy", "setName"}
          \/ Registered
          \/ Error
      BY <2>1 DEF Register, CompleteDummy, LoginExisting, SetDisplayName, Goto
    <3>3. CASE loc' = loc /\ pc' \in {"login", "dummy", "setName"}
      BY <1>1, <1>6, <3>1, <3>3 DEF InWindow, Window
    <3> QED
      BY <1>3, <1>4, <1>6, <3>1, <3>2, <3>3 DEF Window
  <2>2. CASE RegistrationDisabled
    <3>1. pc \in {"register", "dummy"} /\ UNCHANGED <<reg, signal, runtime>>
      BY <2>2 DEF RegistrationDisabled, files, server
    <3>2. CASE Error
      BY <1>3, <1>6, <3>1, <3>2
    <3>3. CASE loc' = loc /\ Goto("openWrite")
      BY <1>1, <1>6, <3>1, <3>3 DEF InWindow, Window, Goto
    <3>4. CASE /\ loc.open /\ loc' = [loc EXCEPT !.tries = @ + 1]
               /\ Goto(IF loc.why = "admin" THEN "register" ELSE "post")
      BY <1>0, <1>1, <1>6, <3>1, <3>4 DEF InWindow, Window, Goto, RunTypes, Memory
    <3> QED
      BY <2>2, <3>2, <3>3, <3>4 DEF RegistrationDisabled
  <2>3. CASE OpenWrite \/ OpenSignal
    BY <1>0, <2>3
    DEF OpenWrite, OpenSignal, Windows, RegistrationOpenOnlyForCause, InWindow, Window, Goto, files,
        RunTypes, Memory
  <2>4. CASE CloseWrite
    BY <2>4 DEF CloseWrite, Windows, RegistrationOpenOnlyForCause, InWindow, Window, Goto
  <2> QED
    BY <1>6, <2>1, <2>2, <2>3, <2>4 DEF RegistrationStep
<1>7. ASSUME PostUser, UNCHANGED ghost PROVE Windows'
  <2>1. pc = "post" /\ UNCHANGED <<reg, signal, runtime>>
    BY <1>7 DEF PostUser, files
  <2>2. CASE Error
    BY <1>3, <1>7, <2>1, <2>2
  <2>3. CASE ~Error
    <3>1. loc' = loc /\ pc' \in {"commit", "register", "openWrite"}
      BY <1>7, <2>3 DEF PostUser, Goto
    <3>2. InWindow => InWindow'
      BY <1>7, <2>1, <2>3, <3>1 DEF PostUser, Goto, InWindow, Window, Phases
    <3> QED
      BY <1>1, <1>7, <2>1, <3>1, <3>2
  <2> QED
    BY <2>2, <2>3
<1>8. ASSUME RoomStep, UNCHANGED ghost PROVE Windows'
  <2>1. /\ pc \in RoomSteps \cup {"room", "logout"} /\ ~loc.open
        /\ UNCHANGED <<reg, signal, runtime>>
    BY <1>8
    DEF RoomStep, EnterRoom, ResolveAlias, CreateRoom, Invite, RecheckRoom, RoomRefused, Logout,
        files, server, Phases, RoomSteps
  <2>2. ~InWindow
    BY <2>1 DEF InWindow, Window, RoomSteps
  <2>3. ASSUME NEW id \in RoomIds, Found(id) PROVE pc' # "closeSignal"
    BY <1>0, <2>3, FoundWays, ErrorWays
  <2>4. pc' # "closeSignal"
    <3>1. CASE EnterRoom \/ Invite \/ Logout
      BY <3>1 DEF EnterRoom, Invite, Logout, AfterInvitations, Goto, Finish
    <3>2. CASE ResolveAlias
      <4>1. alias # 0 => alias \in RoomIds
        BY DEF TypeOK
      <4> QED
        BY <1>0, <2>3, <3>2, <4>1, ErrorWays DEF ResolveAlias, Goto
    <3>3. CASE CreateRoom
      BY <2>3, <3>3 DEF CreateRoom
    <3>4. CASE RecheckRoom
      BY <3>4 DEF RecheckRoom, LeaveRoom, Goto, Finish
    <3>5. CASE RoomRefused
      BY <1>0, <3>5, ErrorWays DEF RoomRefused
    <3> QED
      BY <1>8, <3>1, <3>2, <3>3, <3>4, <3>5 DEF RoomStep
  <2> QED
    BY <1>2, <1>8, <2>1, <2>2, <2>4
<1>9. CASE RunStep
  <2>1. CASE CloseSignal
    BY <2>1 DEF CloseSignal, AfterWindow, Goto, Finish, Windows, RegistrationOpenOnlyForCause, files
  <2>2. CASE CheckRoom
    <3>1. pc = "check" /\ UNCHANGED <<reg, signal, runtime>> /\ ghost'.cut = ghost.cut
      BY <2>2 DEF CheckRoom, files, server, TypeOK
    <3>2. ~InWindow
      BY <3>1 DEF InWindow, Window, Phases
    <3>3. pc' # "closeSignal"
      BY <1>0, <2>2, ErrorWays DEF CheckRoom, Goto
    <3> QED
      BY <1>2, <3>1, <3>2, <3>3
  <2>3. CASE CommitMarker
    <3>1. pc = "commit" /\ UNCHANGED <<reg, signal, runtime, ghost>>
      BY <2>3 DEF CommitMarker, server
    <3>2. ~InWindow /\ pc' # "closeSignal"
      BY <1>0, <2>3, NextUserWays DEF CommitMarker, InWindow, Window, Phases
    <3> QED
      BY <1>2, <3>1, <3>2
  <2> QED
    BY <1>5, <1>6, <1>7, <1>8, <1>9, <2>1, <2>2, <2>3 DEF RunStep, UserStep
<1>10. CASE Start
  <2>1. ~InWindow
    BY <1>10, BlankFields DEF Start, InWindow, Window, Phases
  <2> QED
    BY <1>2, <1>10, <2>1 DEF Start, files, server, TypeOK
<1>11. CASE HandleSignal
  BY <1>11 DEF HandleSignal, files, Windows, RegistrationOpenOnlyForCause, InWindow
<1>12. CASE RestartServer
  BY <1>12 DEF RestartServer, files, Windows, RegistrationOpenOnlyForCause, InWindow
<1>13. CASE Fail
  <2>1. UNCHANGED <<reg, signal, runtime>>
    BY <1>13 DEF Fail, files
  <2>2. CASE pc \in {"closeWrite", "closeSignal"}
    <3>1. ghost'.cut /\ pc' = "idle"
      BY <1>13, <2>2 DEF Fail, Finish, TypeOK
    <3> QED
      BY <3>1 DEF Windows, RegistrationOpenOnlyForCause
  <2>3. CASE pc \notin {"closeWrite", "closeSignal"}
    <3>1. ghost'.cut = ghost.cut
      BY <1>13, <2>3 DEF Fail, TypeOK
    <3>2. CASE pc = "logout"
      <4>1. ~InWindow /\ pc' = "idle"
        BY <1>13, <3>2 DEF Fail, Finish, InWindow, Window, Phases
      <4> QED
        BY <1>2, <2>1, <3>1, <4>1
    <3>3. CASE pc # "logout"
      BY <1>3, <1>13, <2>1, <2>3, <3>1, <3>3 DEF Fail
    <3> QED
      BY <3>2, <3>3
  <2> QED
    BY <2>2, <2>3
<1>14. CASE Kill
  <2>1. /\ UNCHANGED <<reg, signal, runtime>> /\ pc' = "idle"
        /\ ghost'.cut = (ghost.cut \/ InWindow)
    BY <1>14 DEF Kill, Finish, server, TypeOK
  <2> QED
    BY <2>1 DEF Windows, RegistrationOpenOnlyForCause
<1>15. CASE RotateCredential \/ ChangeRoom \/ UNCHANGED vars
  BY <1>1, <1>15 DEF RotateCredential, ChangeRoom, vars, files, server, TypeOK, InWindow
<1>16. CASE ChangeAccount
  <2>1. loc'.open = loc.open
    BY <1>0, <1>16 DEF ChangeAccount, RunTypes, Memory
  <2> QED
    BY <1>1, <1>16, <2>1 DEF ChangeAccount, TypeOK, InWindow
<1> QED
  BY <1>9, <1>10, <1>11, <1>12, <1>13, <1>14, <1>15, <1>16 DEF Next

\* A private room is left through the logout.
LEMMA DevicesStep == TypeOK /\ Phases /\ Devices /\ [Next]_vars => Devices'
<1> SUFFICES ASSUME TypeOK, Phases, Devices, [Next]_vars
             PROVE  Devices'
  OBVIOUS
<1>0. RunTypes /\ settings' = settings
  BY Types, Declared
<1>1. ASSUME device' = device, ghost'.left = ghost.left,
             \/ pc \notin RoomSteps \cup {"logout"}
             \/ settings.room = "private" => pc' \in RoomSteps \cup {"logout"}
      PROVE  Devices'
  BY <1>0, <1>1 DEF Devices
<1>2. ASSUME NEW id \in RoomIds, Found(id), pc \in RoomSteps, settings.room = "private"
      PROVE  pc' \in RoomSteps \cup {"logout"}
  BY <1>0, <1>2, FoundWays, ErrorWays DEF Phases, RoomSteps
<1>3. ASSUME Error, pc \in RoomSteps, settings.room = "private"
      PROVE  pc' \in RoomSteps \cup {"logout"}
  BY <1>0, <1>3, ErrorWays DEF Phases, RoomSteps
<1>4. ASSUME TokenStep \/ RegistrationStep \/ UserStep, UNCHANGED ghost PROVE Devices'
  <2>1. CASE TokenStep
    BY <1>1, <1>4, <2>1 DEF TokenStep, ReadToken, WriteToken, RefreshToken, server, RoomSteps
  <2>2. CASE RegistrationStep
    BY <1>1, <1>4, <2>2
    DEF RegistrationStep, Register, CompleteDummy, RegistrationDisabled, LoginExisting,
        SetDisplayName, OpenWrite, OpenSignal, CloseWrite, server, RoomSteps
  <2>3. CASE UserStep
    BY <1>1, <1>4, <2>3 DEF UserStep, CheckUser, PostUser, server, RoomSteps
  <2> QED
    BY <1>4, <2>1, <2>2, <2>3
<1>5. ASSUME RoomStep, UNCHANGED ghost PROVE Devices'
  <2>1. CASE EnterRoom
    BY <1>0, <1>5, <2>1, UserNumbers DEF EnterRoom, Devices, Goto, Finish, RoomSteps, Setting
  <2>2. CASE ResolveAlias
    <3>1. alias # 0 => alias \in RoomIds
      BY DEF TypeOK
    <3>2. pc = "resolve" /\ device' = device
      BY <2>2 DEF ResolveAlias, server
    <3>3. \/ alias # 0 /\ Found(alias)
          \/ Error
          \/ pc' = "create"
      BY <2>2 DEF ResolveAlias, Goto
    <3> QED
      BY <1>1, <1>2, <1>3, <1>5, <3>1, <3>2, <3>3 DEF RoomSteps
  <2>3. CASE CreateRoom
    BY <1>1, <1>2, <1>5, <2>3 DEF CreateRoom, RoomSteps
  <2>4. CASE Invite
    BY <1>1, <1>5, <2>4 DEF Invite, AfterInvitations, Goto, RoomSteps
  <2>5. CASE RecheckRoom
    BY <1>1, <1>5, <2>5 DEF RecheckRoom, LeaveRoom, Goto, server
  <2>6. CASE RoomRefused
    <3>1. pc \in RoomSteps /\ device' = device /\ Error
      BY <2>6 DEF RoomRefused, server, RoomSteps
    <3> QED
      BY <1>1, <1>3, <1>5, <3>1
  <2>7. CASE Logout
    BY <2>7 DEF Logout, Devices
  <2> QED
    BY <1>5, <2>1, <2>2, <2>3, <2>4, <2>5, <2>6, <2>7 DEF RoomStep
<1>6. CASE RunStep
  <2>1. CASE CloseSignal
    BY <1>1, <2>1 DEF CloseSignal, RoomSteps, TypeOK
  <2>2. CASE CheckRoom
    <3>1. pc = "check" /\ device' = device /\ ghost'.left = ghost.left
      BY <2>2 DEF CheckRoom, server, TypeOK
    <3>2. Error \/ pc' = "invite"
      BY <2>2 DEF CheckRoom, Goto
    <3> QED
      BY <1>1, <1>3, <3>1, <3>2 DEF RoomSteps
  <2>3. CASE CommitMarker
    BY <1>1, <2>3 DEF CommitMarker, server, RoomSteps
  <2> QED
    BY <1>4, <1>5, <1>6, <2>1, <2>2, <2>3 DEF RunStep
<1>7. CASE Start
  BY <1>1, <1>7 DEF Start, server, RoomSteps, TypeOK
<1>8. CASE HandleSignal \/ RestartServer \/ RotateCredential \/ ChangeAccount \/ ChangeRoom \/ UNCHANGED vars
  <2>1. device' = device /\ ghost'.left = ghost.left /\ pc' = pc
    BY <1>8
    DEF HandleSignal, RestartServer, RotateCredential, ChangeAccount, ChangeRoom, vars, server, TypeOK
  <2> QED
    BY <1>0, <2>1 DEF Devices
<1>9. CASE Fail
  <2>1. CASE pc \in {"room", "logout"}
    BY <1>9, <2>1 DEF Fail, TypeOK, Devices
  <2>2. CASE pc \notin {"room", "logout"}
    <3>1. device' = device /\ ghost'.left = ghost.left
      BY <1>9, <2>2 DEF Fail, TypeOK
    <3>2. pc \in RoomSteps => Error
      BY <1>9 DEF Fail, RoomSteps
    <3> QED
      BY <1>1, <1>3, <2>2, <3>1, <3>2
  <2> QED
    BY <2>1, <2>2
<1>10. CASE Kill
  BY <1>10 DEF Kill, server, TypeOK, Devices
<1> QED
  BY <1>6, <1>7, <1>8, <1>9, <1>10 DEF Next

\* What a run wrote about a user is true, and stays so until the user has
\* another password.
LEMMA MarkersStep == TypeOK /\ Phases /\ Markers /\ [Next]_vars => Markers'
<1> SUFFICES ASSUME TypeOK, Phases, Markers, [Next]_vars
             PROVE  Markers'
  OBVIOUS
<1>0. RunTypes /\ settings' = settings /\ Users' = Users
  BY Types, Declared DEF Users
<1>n. loc.at \in Users /\ User \in Users /\ (loc.why = "user" => User = loc.at)
  BY <1>0, UserNumbers DEF User
<1>1. ASSUME markers' = markers,
             \A u \in Users : u \notin ahead' =>
                u \notin ahead /\ accounts'[u].pw \in {accounts[u].pw, "own"}
      PROVE  Vouched'
  BY <1>0, <1>1 DEF Markers, Vouched, Has
<1>2. ASSUME markers' = markers, ahead' = Ahead PROVE Vouched'
  BY <1>1, <1>2 DEF Ahead
<1>3. ASSUME UNCHANGED <<markers, ahead, accounts>> PROVE Vouched'
  BY <1>1, <1>3
<1>4. pc' \notin {"commit", "setName", "closeWrite", "closeSignal"} => Provided'
  BY DEF Provided
<1>5. ASSUME pc' = pc, loc'.at = loc.at, loc'.why = loc.why, loc'.body = loc.body, creds' = creds,
             accounts'[loc.at].pw \in {accounts[loc.at].pw, "own"}
      PROVE  Provided'
  BY <1>5 DEF Markers, Provided, Has
<1>6. Error => Provided'
  <2>1. ASSUME Error PROVE pc' \in {"idle", "logout"} \/ (pc' = "closeWrite" /\ loc'.body = "err")
    BY <1>0, <2>1, ErrorWays DEF RunTypes, Memory
  <2> QED
    BY <2>1 DEF Provided
<1>7. ASSUME Registered, creds' = creds,
             loc.why = "user" => accounts'[loc.at].pw \in {creds[loc.at], "own"}
      PROVE  Provided'
  BY <1>0, <1>7, RegisteredWays DEF Provided, Has, RunTypes, Memory
<1>8. ASSUME TokenStep \/ UserStep \/ RoomStep, ahead' = Ahead PROVE Markers'
  <2>1. markers' = markers
    BY <1>8
    DEF TokenStep, ReadToken, WriteToken, RefreshToken, UserStep, CheckUser, PostUser, RoomStep,
        EnterRoom, ResolveAlias, CreateRoom, Invite, RecheckRoom, RoomRefused, Logout, files
  <2> SUFFICES Provided'
    BY <1>2, <1>8, <2>1 DEF Markers
  <2>2. CASE TokenStep
    BY <1>4, <2>2 DEF TokenStep, ReadToken, WriteToken, RefreshToken, Goto, Finish
  <2>3. CASE CheckUser
    BY <1>0, <1>4, <2>3, NextUserWays DEF CheckUser, Goto
  <2>4. CASE PostUser
    <3>1. CASE settings.api /\ loc.token = "good"
      <4>1. accounts'[loc.at].pw = creds[loc.at] /\ creds' = creds /\ loc' = loc
        BY <1>n, <2>4, <3>1 DEF PostUser, files, TypeOK
      <4> QED
        BY <4>1 DEF Provided, Has
    <3>2. CASE Error
      BY <1>6, <3>2
    <3>3. CASE ~(settings.api /\ loc.token = "good") /\ ~Error
      BY <1>4, <2>4, <3>3 DEF PostUser, Goto
    <3> QED
      BY <3>1, <3>2, <3>3
  <2>5. CASE RoomStep
    <3>1. ASSUME NEW id \in RoomIds, Found(id), pc \in RoomSteps
          PROVE  pc' \in {"check", "invite", "logout", "idle"}
      BY <1>0, <3>1, FoundWays, ErrorWays DEF Phases, RoomSteps
    <3>2. CASE EnterRoom \/ Invite \/ Logout \/ RecheckRoom
      BY <1>4, <3>2 DEF EnterRoom, Invite, Logout, RecheckRoom, AfterInvitations, LeaveRoom, Goto, Finish
    <3>3. CASE ResolveAlias
      <4>1. alias # 0 => alias \in RoomIds
        BY DEF TypeOK
      <4>2. \/ alias # 0 /\ Found(alias)
            \/ Error
            \/ pc' = "create"
        BY <3>3 DEF ResolveAlias, Goto
      <4> QED
        BY <1>4, <1>6, <3>1, <3>3, <4>1, <4>2 DEF ResolveAlias, RoomSteps
    <3>4. CASE CreateRoom
      BY <1>4, <3>1, <3>4 DEF CreateRoom, RoomSteps
    <3>5. CASE RoomRefused
      BY <1>6, <3>5 DEF RoomRefused
    <3> QED
      BY <2>5, <3>2, <3>3, <3>4, <3>5 DEF RoomStep
  <2> QED
    BY <1>8, <2>2, <2>3, <2>4, <2>5 DEF UserStep
<1>9. ASSUME RegistrationStep, ahead' = Ahead PROVE Markers'
  <2>1. markers' = markers /\ creds' = creds
    BY <1>9
    DEF RegistrationStep, Register, CompleteDummy, RegistrationDisabled, LoginExisting,
        SetDisplayName, OpenWrite, OpenSignal, CloseWrite, files
  <2> SUFFICES Provided'
    BY <1>2, <1>9, <2>1 DEF Markers
  <2>2. CASE Register \/ CompleteDummy
    <3>1. CASE accounts' = [accounts EXCEPT ![User].pw = creds[User]]
      <4>1. accounts'[User].pw = creds[User]
        BY <1>n, <3>1 DEF TypeOK
      <4>2. (loc' = loc /\ loc.why = "user" /\ Goto("setName")) \/ Registered
            \/ (Goto("login") \/ Goto("dummy"))
        BY <2>2 DEF Register, CompleteDummy
      <4> QED
        BY <1>4, <1>7, <1>n, <2>1, <4>1, <4>2 DEF Provided, Has, Goto
    <3>2. CASE Goto("login") \/ Goto("dummy")
      BY <1>4, <3>2 DEF Goto
    <3> QED
      BY <2>2, <3>1, <3>2 DEF Register, CompleteDummy
  <2>3. CASE RegistrationDisabled
    BY <1>4, <1>6, <2>3 DEF RegistrationDisabled, Goto
  <2>4. CASE LoginExisting
    <3>1. accounts' = accounts /\ (accounts[User].pw = creds[User] \/ Error)
      BY <2>4 DEF LoginExisting, server
    <3>2. (loc' = loc /\ loc.why = "user" /\ pc' = "setName") \/ Registered \/ Error
      BY <2>4 DEF LoginExisting, Goto
    <3> QED
      BY <1>6, <1>7, <1>n, <2>1, <3>1, <3>2 DEF Provided, Has
  <2>5. CASE SetDisplayName
    <3>1. accounts'[loc.at].pw = accounts[loc.at].pw /\ pc = "setName" /\ Registered
      BY <1>n, <2>5 DEF SetDisplayName, TypeOK
    <3> QED
      BY <1>7, <2>1, <3>1 DEF Markers, Provided, Has
  <2>6. CASE OpenWrite \/ OpenSignal
    BY <1>4, <2>6 DEF OpenWrite, OpenSignal, Goto
  <2>7. CASE CloseWrite
    BY <2>1, <2>7 DEF CloseWrite, server, Goto, Markers, Provided, Has
  <2> QED
    BY <1>9, <2>2, <2>3, <2>4, <2>5, <2>6, <2>7 DEF RegistrationStep
<1>10. CASE RunStep
  <2>1. CASE CloseSignal /\ UNCHANGED ahead
    <3>1. Vouched'
      BY <1>3, <2>1 DEF CloseSignal, files
    <3>2. Provided'
      <4>1. CASE loc.body = "err" \/ loc.why = "admin"
        BY <1>4, <2>1, <4>1 DEF CloseSignal, AfterWindow, Goto, Finish
      <4>2. CASE loc.body = "ok" /\ loc.why = "user"
        BY <2>1, <4>2 DEF CloseSignal, AfterWindow, Goto, Markers, Provided, Has, files
      <4> QED
        BY <1>0, <2>1, <4>1, <4>2 DEF CloseSignal, Phases, RunTypes, Memory
    <3> QED
      BY <3>1, <3>2 DEF Markers
  <2>2. CASE CheckRoom /\ UNCHANGED ahead
    <3>1. Vouched'
      BY <1>3, <2>2 DEF CheckRoom, files, server
    <3>2. Provided'
      BY <1>4, <1>6, <2>2 DEF CheckRoom, Goto
    <3> QED
      BY <3>1, <3>2 DEF Markers
  <2>3. CASE CommitMarker
    <3>1. Provided'
      BY <1>0, <1>4, <2>3, NextUserWays DEF CommitMarker
    <3>2. Has(loc.at, creds[loc.at])
      BY <2>3 DEF CommitMarker, Markers, Provided
    <3>3. ASSUME NEW u \in Users, markers'[u] # "none", u \notin ahead'
          PROVE  accounts'[u].pw \in {markers'[u], "own"}
      <4>1. accounts' = accounts /\ markers' = [markers EXCEPT ![loc.at] = creds[loc.at]]
            /\ (u = loc.at \/ u \notin ahead)
        BY <2>3, <3>3 DEF CommitMarker, server
      <4>2. CASE u = loc.at
        BY <1>n, <3>2, <4>1, <4>2 DEF Has, TypeOK
      <4>3. CASE u # loc.at
        BY <3>3, <4>1, <4>3 DEF Has, Markers, Vouched, TypeOK
      <4> QED
        BY <4>2, <4>3
    <3>4. Vouched'
      BY <1>0, <3>3 DEF Vouched, Has
    <3> QED
      BY <3>1, <3>4 DEF Markers
  <2>4. CASE /\ TokenStep \/ RegistrationStep \/ UserStep \/ RoomStep
             /\ ahead' = Ahead
    BY <1>8, <1>9, <2>4
  <2> QED
    BY <1>10, <2>1, <2>2, <2>3, <2>4 DEF RunStep
<1>11. CASE Start
  BY <1>3, <1>4, <1>11 DEF Start, files, server, Markers
<1>12. CASE HandleSignal \/ RestartServer \/ ChangeRoom \/ UNCHANGED vars
  BY <1>3, <1>5, <1>12 DEF HandleSignal, RestartServer, ChangeRoom, vars, files, server, Markers
<1>13. CASE Fail
  <2>1. Vouched'
    BY <1>2, <1>13 DEF Fail, files
  <2>2. Provided'
    BY <1>4, <1>6, <1>13 DEF Fail, Finish
  <2> QED
    BY <2>1, <2>2 DEF Markers
<1>14. CASE Kill
  <2>1. Provided'
    BY <1>4, <1>14 DEF Kill, Finish
  <2>2. \A u \in Users : markers'[u] \in {"none", markers[u]}
    BY <1>n, <1>14 DEF Kill, TypeOK
  <2>3. accounts' = accounts /\ ahead' = ahead
    BY <1>14 DEF Kill, server
  <2>4. Vouched'
    BY <1>0, <2>2, <2>3 DEF Vouched, Has, Markers
  <2> QED
    BY <2>1, <2>4 DEF Markers
<1>15. CASE RotateCredential
  BY <1>3, <1>4, <1>15 DEF RotateCredential, server, Markers
<1>16. CASE ChangeAccount
  <2>1. \A u \in Users : accounts'[u].pw \in {accounts[u].pw, "own"}
    BY <1>16 DEF ChangeAccount, TypeOK
  <2>2. loc'.at = loc.at /\ loc'.why = loc.why /\ loc'.body = loc.body
    BY <1>0, <1>16 DEF ChangeAccount, RunTypes, Memory
  <2>3. UNCHANGED <<pc, creds, markers, ahead>>
    BY <1>16 DEF ChangeAccount
  <2>4. Vouched'
    BY <1>1, <2>1, <2>3
  <2>5. Provided'
    BY <1>5, <1>n, <2>1, <2>2, <2>3
  <2> QED
    BY <2>4, <2>5 DEF Markers
<1> QED
  BY <1>10, <1>11, <1>12, <1>13, <1>14, <1>15, <1>16 DEF Next

\* Who writes the password files and the markers, and when the quiet returns.
LEMMA NextFiles ==
  ASSUME TypeOK, [Next]_vars
  PROVE  \/ Start \/ CommitMarker \/ Kill \/ RotateCredential
         \/ UNCHANGED <<creds, markers>> /\ (ghost'.quiet => ghost.quiet)
<1>1. CASE RunStep
  BY <1>1
  DEF RunStep, TokenStep, ReadToken, WriteToken, RefreshToken, RegistrationStep, Register,
      CompleteDummy, RegistrationDisabled, LoginExisting, SetDisplayName, OpenWrite, OpenSignal,
      CloseWrite, CloseSignal, UserStep, CheckUser, PostUser, RoomStep, EnterRoom, ResolveAlias,
      CreateRoom, CheckRoom, Invite, RecheckRoom, RoomRefused, Logout, files, TypeOK
<1>2. CASE HandleSignal \/ Fail \/ RestartServer \/ ChangeAccount \/ ChangeRoom \/ UNCHANGED vars
  BY <1>2 DEF HandleSignal, Fail, RestartServer, ChangeAccount, ChangeRoom, vars, files, TypeOK
<1> QED
  BY <1>1, <1>2 DEF Next

\* Who writes the token file.
LEMMA NextToken ==
  ASSUME TypeOK, [Next]_vars
  PROVE  \/ Start \/ WriteToken \/ RefreshToken \/ ~ghost'.quiet
         \/ tokenFile' = tokenFile /\ (ghost'.quiet => ghost.quiet)
<1>1. CASE RunStep
  BY <1>1
  DEF RunStep, TokenStep, ReadToken, RegistrationStep, Register,
      CompleteDummy, RegistrationDisabled, LoginExisting, SetDisplayName, OpenWrite, OpenSignal,
      CloseWrite, CloseSignal, UserStep, CheckUser, PostUser, CommitMarker, RoomStep, EnterRoom,
      ResolveAlias, CreateRoom, CheckRoom, Invite, RecheckRoom, RoomRefused, Logout, files, TypeOK
<1>2. CASE \/ HandleSignal \/ Fail \/ Kill \/ RestartServer
           \/ RotateCredential \/ ChangeAccount \/ ChangeRoom \/ UNCHANGED vars
  BY <1>2
  DEF HandleSignal, Fail, Kill, RestartServer, RotateCredential, ChangeAccount, ChangeRoom, vars,
      files, TypeOK
<1> QED
  BY <1>1, <1>2 DEF Next

\* A step that neither starts a run nor turns to the next user leaves the run
\* where it is among the users, and reaches nothing past them.
Onward ==
    /\ pc' # "idle" => pc # "idle" /\ loc'.at = loc.at
    /\ pc' \in Past => pc \in Past
    /\ pc' \in Past \ {"refresh"} => pc \in Past \ {"refresh"} \/ RefreshToken
    /\ result' = "ok" => result = "ok" \/ pc \in Past \ {"refresh"}

\* Every step is the start of a run, a turn to the next user, or such a step.
LEMMA OnwardStep ==
  ASSUME TypeOK, Phases, [Next]_vars
  PROVE  Start \/ ((CheckUser \/ CommitMarker) /\ NextUser) \/ Onward
<1> DEFINE Elsewhere == Start \/ ((CheckUser \/ CommitMarker) /\ NextUser)
<1> SUFFICES Elsewhere \/ Onward
  OBVIOUS
<1>0. RunTypes /\ settings' = settings
  BY Types, Declared
<1>1. ASSUME UNCHANGED <<pc, result>>, loc'.at = loc.at PROVE Onward
  BY <1>1 DEF Onward
<1>2. ASSUME pc' = "idle", result' = "err" PROVE Onward
  BY <1>2 DEF Onward, Past, RoomSteps
<1>3. ASSUME pc # "idle", loc'.at = loc.at, result' = result, pc' \notin Past PROVE Onward
  BY <1>3 DEF Onward
<1>4. ASSUME pc \in Past \ {"refresh"}, loc'.at = loc.at PROVE Onward
  BY <1>4 DEF Onward, Past, RoomSteps
<1>5. ASSUME pc \in Past \ {"refresh"}, pc' = "idle" PROVE Onward
  BY <1>5 DEF Onward, Past, RoomSteps
<1>6. ASSUME Error, pc # "idle" PROVE Onward
  <2>1. CASE pc' = "closeWrite" /\ loc'.at = loc.at /\ result' = result
    BY <1>3, <1>6, <2>1 DEF Past, RoomSteps
  <2>2. CASE pc' = "idle" /\ result' = "err"
    BY <1>2, <2>2
  <2>3. CASE pc \in RoomSteps /\ loc'.at = loc.at
    BY <1>4, <2>3 DEF Past, RoomSteps
  <2> QED
    BY <1>0, <1>6, <2>1, <2>2, <2>3, ErrorWays DEF RunTypes, Memory
<1>7. ASSUME Registered, pc # "idle" PROVE Onward
  BY <1>0, <1>3, <1>7, RegisteredWays DEF Past, RoomSteps
<1>8. ASSUME NEW id \in RoomIds, Found(id), pc \in RoomSteps PROVE Onward
  <2>1. CASE Error
    BY <1>6, <1>8, <2>1 DEF RoomSteps
  <2>2. CASE loc' = [loc EXCEPT !.id = id, !.missing = Invitees]
    <3>1. loc'.at = loc.at
      BY <1>0, <2>2 DEF RunTypes, Memory
    <3> QED
      BY <1>4, <1>8, <3>1 DEF Past, RoomSteps
  <2> QED
    BY <1>0, <1>8, <2>1, <2>2, FoundWays
<1>9. ASSUME TokenStep PROVE Onward
  <2>1. CASE ReadToken
    <3>1. pc = "readToken"
      BY <2>1 DEF ReadToken
    <3>2. \/ loc'.at = loc.at /\ result' = result /\ pc' \in {"user", "register"}
          \/ pc' = "idle" /\ result' = "err"
      BY <1>0, <2>1 DEF ReadToken, Goto, Finish, RunTypes, Memory
    <3> QED
      BY <1>2, <1>3, <3>1, <3>2 DEF Past, RoomSteps
  <2>2. CASE WriteToken
    BY <1>3, <2>2 DEF WriteToken, Goto, Past, RoomSteps
  <2>3. CASE RefreshToken
    BY <2>3 DEF RefreshToken, Goto, Finish, Onward, Past, RoomSteps
  <2> QED
    BY <1>9, <2>1, <2>2, <2>3 DEF TokenStep
<1>10. ASSUME RegistrationStep PROVE Onward
  <2>1. pc \in {"register", "dummy", "login", "setName", "openWrite", "openSignal", "closeWrite"}
    BY <1>10
    DEF RegistrationStep, Register, CompleteDummy, RegistrationDisabled, LoginExisting,
        SetDisplayName, OpenWrite, OpenSignal, CloseWrite
  <2>2. \/ Error
        \/ Registered
        \/ /\ loc'.at = loc.at /\ result' = result
           /\ pc' \in {"login", "dummy", "setName", "register", "post", "openWrite", "openSignal",
                       "closeSignal"}
    BY <1>0, <1>10
    DEF RegistrationStep, Register, CompleteDummy, RegistrationDisabled, LoginExisting,
        SetDisplayName, OpenWrite, OpenSignal, CloseWrite, Goto, RunTypes, Memory
  <2> QED
    BY <1>3, <1>6, <1>7, <2>1, <2>2 DEF Past, RoomSteps
<1>11. ASSUME UserStep PROVE Elsewhere \/ Onward
  <2>1. pc \in {"user", "post"}
    BY <1>11 DEF UserStep, CheckUser, PostUser
  <2>2. \/ CheckUser /\ NextUser
        \/ Error
        \/ /\ loc'.at = loc.at /\ result' = result
           /\ pc' \in {"post", "commit", "register", "openWrite"}
    BY <1>0, <1>11 DEF UserStep, CheckUser, PostUser, Goto, RunTypes, Memory
  <2> QED
    BY <1>3, <1>6, <2>1, <2>2 DEF Past, RoomSteps
<1>12. ASSUME RoomStep PROVE Onward
  <2>1. CASE EnterRoom \/ Invite \/ Logout \/ RecheckRoom
    <3>1. pc \in Past \ {"refresh"}
      BY <2>1 DEF EnterRoom, Invite, Logout, RecheckRoom, Past, RoomSteps
    <3>2. loc'.at = loc.at \/ pc' = "idle"
      BY <1>0, <2>1
      DEF EnterRoom, Invite, Logout, RecheckRoom, AfterInvitations, LeaveRoom, Goto, Finish,
          RunTypes, Memory
    <3> QED
      BY <1>4, <1>5, <3>1, <3>2
  <2>2. CASE ResolveAlias
    <3>1. alias # 0 => alias \in RoomIds
      BY DEF TypeOK
    <3>2. pc = "resolve"
      BY <2>2 DEF ResolveAlias
    <3>3. \/ alias # 0 /\ Found(alias)
          \/ Error
          \/ loc' = loc
      BY <2>2 DEF ResolveAlias
    <3> QED
      BY <1>4, <1>6, <1>8, <3>1, <3>2, <3>3 DEF Past, RoomSteps
  <2>3. CASE CreateRoom
    BY <1>8, <2>3 DEF CreateRoom, RoomSteps
  <2>4. CASE RoomRefused
    BY <1>6, <2>4 DEF RoomRefused
  <2> QED
    BY <1>12, <2>1, <2>2, <2>3, <2>4 DEF RoomStep
<1>13. ASSUME RunStep PROVE Elsewhere \/ Onward
  <2>1. CASE CloseSignal
    <3>1. pc = "closeSignal"
      BY <2>1 DEF CloseSignal
    <3>2. \/ pc' = "idle" /\ result' = "err"
          \/ loc' = loc /\ result' = result /\ pc' \in {"writeToken", "commit"}
      BY <2>1 DEF CloseSignal, AfterWindow, Goto, Finish
    <3> QED
      BY <1>2, <1>3, <3>1, <3>2 DEF Past, RoomSteps
  <2>2. CASE CheckRoom
    <3>1. pc = "check" /\ (Error \/ loc'.at = loc.at)
      BY <1>0, <2>2 DEF CheckRoom, RunTypes, Memory
    <3> QED
      BY <1>4, <1>6, <3>1 DEF Past, RoomSteps
  <2>3. CASE CommitMarker
    BY <2>3 DEF CommitMarker
  <2> QED
    BY <1>9, <1>10, <1>11, <1>12, <1>13, <2>1, <2>2, <2>3 DEF RunStep
<1>14. CASE HandleSignal \/ RestartServer \/ RotateCredential \/ ChangeRoom \/ UNCHANGED vars
  BY <1>1, <1>14 DEF HandleSignal, RestartServer, RotateCredential, ChangeRoom, vars
<1>15. CASE ChangeAccount
  <2>1. UNCHANGED <<pc, result>> /\ loc'.at = loc.at
    BY <1>0, <1>15 DEF ChangeAccount, RunTypes, Memory
  <2> QED
    BY <1>1, <2>1
<1>16. CASE Fail
  <2>1. pc # "idle" /\ (Error \/ Finish("err"))
    BY <1>16 DEF Fail
  <2> QED
    BY <1>2, <1>6, <2>1 DEF Finish
<1>17. CASE Kill
  BY <1>2, <1>17 DEF Kill, Finish
<1> QED
  BY <1>13, <1>14, <1>15, <1>16, <1>17 DEF Next

\* The users are provisioned one after the other.
LEMMA ProgressStep == TypeOK /\ Phases /\ Progress /\ [Next]_vars => Progress'
<1> SUFFICES ASSUME TypeOK, Phases, Progress, [Next]_vars
             PROVE  Progress'
  OBVIOUS
<1>0. RunTypes /\ settings' = settings /\ Users' = Users
  BY Types, Declared DEF Users
<1>n. loc.at \in Users /\ \A u \in Users : u \in Nat
  BY <1>0, UserNumbers
<1>1. CASE Start
  <2>1. pc' = "readToken" /\ result' = "none" /\ loc' = Blank
    BY <1>1 DEF Start, Phases
  <2>2. \A u \in Users : ~(u < Blank.at)
    BY BlankFields DEF Users
  <2> QED
    BY <1>0, <2>1, <2>2 DEF Progress, Past, RoomSteps
<1>2. CASE (CheckUser \/ CommitMarker) /\ NextUser
  <2>1. /\ creds' = creds
        /\ creds[loc.at] \in {"none", markers'[loc.at]}
        /\ \A u \in Users \ {loc.at} : markers'[u] = markers[u]
        /\ pc \in {"user", "commit"}
    <3>1. CASE CommitMarker
      BY <1>n, <3>1 DEF CommitMarker, TypeOK
    <3>2. CASE CheckUser
      <4>1. UpToDate(loc.at)
        BY <1>n, <1>0, <1>2, <3>2, NextUserWays DEF CheckUser, Goto
      <4> QED
        BY <3>2, <4>1 DEF CheckUser, UpToDate, files
    <3> QED
      BY <1>2, <3>1, <3>2
  <2>2. \A u \in Users : u = loc.at \/ UpToDate(u) => creds'[u] \in {"none", markers'[u]}
    BY <1>n, <2>1 DEF UpToDate
  <2>3. \A u \in Users : u < loc.at => UpToDate(u)
    BY <2>1 DEF Progress
  <2>4. CASE loc.at = settings.users /\ pc' = "refresh" /\ loc' = loc
    <3>1. \A u \in Users : u < loc.at \/ u = loc.at
      BY <1>0, <2>4, UserNumbers DEF Users
    <3> QED
      BY <1>0, <2>2, <2>3, <2>4, <3>1 DEF Progress, UpToDate, Past
  <2>5. CASE pc' = "user" /\ loc'.at = loc.at + 1
    <3>1. \A u \in Users : u < loc.at + 1 => u < loc.at \/ u = loc.at
      BY <1>n
    <3>2. result' = "none"
      BY <1>0, <1>2, <2>1, NextUserWays DEF Phases
    <3> QED
      BY <1>0, <2>2, <2>3, <2>5, <3>1, <3>2 DEF Progress, UpToDate, Past, RoomSteps
  <2> QED
    BY <1>0, <1>2, <2>4, <2>5, NextUserWays
<1>3. CASE Onward /\ UNCHANGED <<creds, markers>> /\ (ghost'.quiet => ghost.quiet)
  BY <1>0, <1>3 DEF Onward, Progress, UpToDate, Past, RoomSteps
<1>4. CASE Kill
  BY <1>4 DEF Kill, Finish, Progress, Past, RoomSteps
<1>5. CASE RotateCredential
  BY <1>5 DEF RotateCredential, Progress, Past, RoomSteps, TypeOK
<1>6. Start \/ CommitMarker \/ Kill \/ RotateCredential
      \/ (UNCHANGED <<creds, markers>> /\ (ghost'.quiet => ghost.quiet))
  BY NextFiles DEF TypeOK
<1>7. Start \/ ((CheckUser \/ CommitMarker) /\ NextUser) \/ Onward
  BY OnwardStep
<1> QED
  BY <1>1, <1>2, <1>3, <1>4, <1>5, <1>6, <1>7 DEF CommitMarker

\* The token is refreshed before the room.
LEMMA RefreshedStep == TypeOK /\ Phases /\ Refreshed /\ [Next]_vars => Refreshed'
<1> SUFFICES ASSUME TypeOK, Phases, Refreshed, [Next]_vars
             PROVE  Refreshed'
  OBVIOUS
<1>0. settings' = settings
  BY Declared
<1>1. CASE Start
  BY <1>1 DEF Start, Refreshed, Past, RoomSteps
<1>2. CASE (CheckUser \/ CommitMarker) /\ NextUser
  BY <1>2, Types, <1>0, NextUserWays DEF CheckUser, CommitMarker, Refreshed, Phases, Past, RoomSteps
<1>3. CASE RefreshToken
  BY <1>0, <1>3 DEF RefreshToken, Goto, Finish, Refreshed, Phases, Past, RoomSteps
<1>4. CASE Onward /\ ~RefreshToken /\ tokenFile' = tokenFile /\ (ghost'.quiet => ghost.quiet)
  BY <1>0, <1>4 DEF Onward, Refreshed, Past, RoomSteps
<1>5. CASE WriteToken
  BY <1>5 DEF WriteToken, Goto, Refreshed, Phases, Past, RoomSteps
<1>6. CASE ~ghost'.quiet
  BY <1>6 DEF Refreshed
<1> QED
  BY <1>1, <1>2, <1>3, <1>4, <1>5, <1>6, OnwardStep, NextToken

\* The room the run works on stays the declared one, and is left as declared.
LEMMA RoomWorkStep ==
  ASSUME TypeOK, Phases, WorkingRoom, RoomComplete, [Next]_vars
  PROVE  WorkingRoom' /\ RoomComplete'
<1> DEFINE Both == WorkingRoom' /\ RoomComplete'
<1> SUFFICES Both
  OBVIOUS
<1>0. /\ RunTypes /\ settings' = settings /\ RoomIds' = RoomIds
      /\ RoomIds \subseteq Nat \ {0} /\ rooms \in [RoomIds -> Room]
      /\ alias # 0 => alias \in RoomIds
      /\ loc.id # 0 => loc.id \in RoomIds
      /\ loc.missing \subseteq Invitees
  BY Types, Declared, BoundsAssumption DEF RoomIds, TypeOK, Room
<1>1. ASSUME pc' \notin {"check", "invite", "recheck"}, result' # "ok",
             pc' = "logout" => loc'.rec # "ok"
      PROVE  Both
  BY <1>1 DEF WorkingRoom, RoomComplete, InRoom
<1>2. ASSUME UNCHANGED <<pc, result, rooms, alias>>, ghost'.quiet => ghost.quiet,
             ghost'.still => ghost.still,
             loc'.id = loc.id, loc'.missing = loc.missing, loc'.rec = loc.rec
      PROVE  Both
  BY <1>0, <1>2 DEF WorkingRoom, RoomComplete, InRoom, RoomAsDeclared, Verified
<1>3. ASSUME pc # "idle", Error PROVE Both
  BY <1>0, <1>1, <1>3, ErrorWays DEF Phases, RunTypes, Memory
<1>4. ASSUME NEW id \in RoomIds, Found(id), alias' = id, pc \in RoomSteps PROVE Both
  <2>1. pc # "idle" /\ result = "none"
    BY <1>4 DEF RoomSteps, Phases
  <2>2. CASE Error
    BY <1>3, <2>1, <2>2
  <2>3. CASE ~Error
    <3>1. /\ settings.pin => id = 1
          /\ loc'.id = id /\ loc'.missing = Invitees /\ result' = "none"
          /\ pc' \in {"check", "invite"} /\ (pc' = "invite" => settings.room # "private")
      BY <1>0, <1>4, <2>1, <2>3, FoundWays
    <3>2. WorkingRoom'
      BY <1>0, <3>1 DEF WorkingRoom, InRoom
    <3>3. RoomComplete'
      BY <1>0, <1>4, <3>1 DEF RoomComplete, InRoom
    <3> QED
      BY <3>2, <3>3
  <2> QED
    BY <2>2, <2>3
<1>5. CASE Start
  BY <1>1, <1>5 DEF Start
<1>6. CASE pc \notin (Past \ {"refresh"}) \cup {"idle"}
  <2>1. result = "none"
    BY <1>6 DEF Phases
  <2>2. CASE Onward
    <3>1. result' # "ok" /\ (pc' \in Past \ {"refresh"} => RefreshToken)
      BY <1>6, <2>1, <2>2 DEF Onward
    <3>2. pc' \notin RoomSteps \cup {"logout"}
      BY <3>1 DEF RefreshToken, Goto, Finish, Past, RoomSteps
    <3> QED
      BY <1>1, <3>1, <3>2 DEF RoomSteps
  <2>3. CASE NextUser
    BY <1>0, <1>1, <2>1, <2>3, NextUserWays
  <2> QED
    BY <1>5, <2>2, <2>3, OnwardStep
<1>7. CASE EnterRoom
  <2>1. result = "none" /\ pc = "room"
    BY <1>7 DEF EnterRoom, Phases
  <2>2. CASE settings.room = "none"
    <3>1. pc' = "idle"
      BY <1>7, <2>2 DEF EnterRoom, Finish
    <3> QED
      BY <1>0, <2>2, <3>1 DEF WorkingRoom, RoomComplete, InRoom
  <2>3. CASE settings.room # "none"
    <3>1. pc' \in {"resolve", "idle"} /\ result' # "ok"
      BY <1>0, <1>7, <2>1, <2>3, UserNumbers DEF EnterRoom, Goto, Finish, Setting
    <3> QED
      BY <1>1, <3>1
  <2> QED
    BY <2>2, <2>3
<1>8. CASE ResolveAlias
  <2>1. pc = "resolve" /\ alias' = alias /\ result = "none"
    BY <1>8 DEF ResolveAlias, server, Phases
  <2>2. CASE alias # 0
    BY <1>0, <1>4, <1>8, <2>1, <2>2 DEF ResolveAlias, RoomSteps
  <2>3. CASE Error
    BY <1>3, <2>1, <2>3
  <2>4. CASE Goto("create")
    BY <1>1, <2>1, <2>4 DEF Goto
  <2> QED
    BY <1>8, <2>2, <2>3, <2>4 DEF ResolveAlias
<1>9. CASE CreateRoom
  BY <1>4, <1>9 DEF CreateRoom, RoomSteps
<1>10. CASE CheckRoom
  <2>1. /\ pc = "check" /\ UNCHANGED <<rooms, alias>> /\ ghost'.quiet = ghost.quiet
        /\ result = "none"
    BY <1>10 DEF CheckRoom, server, Phases, TypeOK
  <2>2. CASE Error
    BY <1>3, <2>1, <2>2
  <2>3. CASE Verified(rooms[loc.id])
    <3>1. /\ loc'.id = loc.id /\ loc'.missing = Invitees \ rooms[loc.id].members
          /\ pc' = "invite" /\ result' = "none"
      BY <1>0, <1>10, <2>1, <2>3 DEF CheckRoom, Goto, RunTypes, Memory
    <3>2. WorkingRoom'
      BY <1>0, <2>1, <2>3, <3>1 DEF WorkingRoom, InRoom, Verified
    <3>3. RoomComplete'
      BY <1>0, <2>1, <3>1 DEF RoomComplete, InRoom
    <3> QED
      BY <3>2, <3>3
  <2> QED
    BY <1>10, <2>2, <2>3 DEF CheckRoom
<1>11. CASE Invite /\ UNCHANGED ghost
  <2>1. /\ pc = "invite" /\ alias' = alias /\ result = "none"
        /\ loc.id \in RoomIds /\ (settings.pin => loc.id = 1)
    BY <1>0, <1>11 DEF Invite, Phases, WorkingRoom, InRoom
  <2>2. CASE loc.missing = {}
    <3>1. rooms' = rooms
      BY <1>11, <2>2 DEF Invite
    <3>2. CASE settings.room = "private"
      <4>1. loc' = loc /\ pc' = "recheck" /\ result' = "none"
        BY <1>11, <2>1, <2>2, <3>2 DEF Invite, AfterInvitations, Goto
      <4> QED
        BY <1>0, <1>11, <2>1, <3>1, <4>1 DEF WorkingRoom, RoomComplete, InRoom
    <3>3. CASE settings.room # "private"
      <4>1. pc' = "idle" /\ result' = "ok"
        BY <1>11, <2>2, <3>3 DEF Invite, AfterInvitations, Finish
      <4>2. ghost.quiet => RoomAsDeclared
        BY <1>0, <2>1, <2>2, <3>3 DEF RoomComplete, InRoom, RoomAsDeclared
      <4> QED
        BY <1>0, <1>11, <2>1, <3>1, <4>1, <4>2
        DEF WorkingRoom, RoomComplete, InRoom, RoomAsDeclared, Verified
    <3> QED
      BY <3>2, <3>3
  <2>3. CASE loc.missing # {}
    <3>1. PICK who \in loc.missing :
             /\ rooms' = [rooms EXCEPT ![loc.id].members = @ \cup {who}]
             /\ loc' = [loc EXCEPT !.missing = @ \ {who}]
             /\ Goto("invite")
      BY <1>11, <2>3 DEF Invite
    <3>2. /\ loc'.id = loc.id /\ loc'.missing = loc.missing \ {who}
          /\ pc' = "invite" /\ result' = "none" /\ who \in Allowed
          /\ rooms'[loc.id].guarded = rooms[loc.id].guarded
          /\ rooms'[loc.id].members = rooms[loc.id].members \cup {who}
      BY <1>0, <2>1, <3>1 DEF Goto, Allowed, RunTypes, Memory, Room
    <3>3. Verified(rooms[loc.id]) => Verified(rooms'[loc.id])
      BY <3>2 DEF Verified
    <3>4. WorkingRoom'
      BY <1>0, <1>11, <2>1, <3>2, <3>3 DEF WorkingRoom, InRoom, Verified
    <3>5. RoomComplete'
      BY <1>0, <1>11, <2>1, <3>2 DEF RoomComplete, InRoom
    <3> QED
      BY <3>4, <3>5
  <2> QED
    BY <2>2, <2>3
<1>12. CASE RecheckRoom /\ UNCHANGED ghost
  <2>1. /\ pc = "recheck" /\ UNCHANGED <<rooms, alias>> /\ result = "none"
        /\ settings.room = "private"
        /\ loc.id # 0 /\ (settings.pin => loc.id = 1)
    BY <1>0, <1>12 DEF RecheckRoom, server, Phases, WorkingRoom, InRoom
  <2>2. CASE Verified(rooms[loc.id]) /\ Invitees \subseteq rooms[loc.id].members
    <3>1. pc' = "logout" /\ result' = "none"
      BY <1>12, <2>1, <2>2 DEF RecheckRoom, LeaveRoom, Goto
    <3>2. ghost.quiet => RoomAsDeclared
      BY <2>1, <2>2 DEF RoomComplete, InRoom, RoomAsDeclared
    <3> QED
      BY <1>0, <1>12, <2>1, <3>1, <3>2
      DEF WorkingRoom, RoomComplete, InRoom, RoomAsDeclared, Verified
  <2>3. CASE ~(Verified(rooms[loc.id]) /\ Invitees \subseteq rooms[loc.id].members)
    <3>1. pc' = "logout" /\ result' = "none" /\ loc'.rec = "err"
      BY <1>0, <1>12, <2>1, <2>3 DEF RecheckRoom, LeaveRoom, Goto, RunTypes, Memory
    <3> QED
      BY <1>1, <3>1
  <2> QED
    BY <2>2, <2>3
<1>13. CASE RoomRefused
  BY <1>3, <1>13 DEF RoomRefused
<1>14. CASE Logout /\ UNCHANGED ghost
  <2>1. /\ pc = "logout" /\ pc' = "idle" /\ result' = loc.rec /\ UNCHANGED <<rooms, alias>>
    BY <1>14 DEF Logout, Finish
  <2>2. ghost.quiet /\ loc.rec = "ok" => RoomAsDeclared
    BY <2>1 DEF RoomComplete
  <2> QED
    BY <1>0, <1>14, <2>1, <2>2
    DEF WorkingRoom, RoomComplete, InRoom, RoomAsDeclared, Verified
<1>15. CASE Fail
  <2>1. pc # "idle" /\ (Error \/ Finish("err"))
    BY <1>15 DEF Fail
  <2> QED
    BY <1>1, <1>3, <2>1 DEF Finish
<1>16. CASE Kill
  BY <1>1, <1>16 DEF Kill, Finish
<1>17. CASE HandleSignal \/ RestartServer \/ RotateCredential \/ UNCHANGED vars
  BY <1>2, <1>17 DEF HandleSignal, RestartServer, RotateCredential, vars, server, TypeOK
<1>18. CASE ChangeAccount
  <2>1. /\ loc'.id = loc.id /\ loc'.missing = loc.missing /\ loc'.rec = loc.rec
        /\ ~ghost'.quiet /\ ghost'.still = ghost.still
    BY <1>0, <1>18 DEF ChangeAccount, RunTypes, Memory, TypeOK
  <2> QED
    BY <1>2, <1>18, <2>1 DEF ChangeAccount
<1>19. CASE ChangeRoom
  <2>1. ~ghost'.quiet /\ ~ghost'.still /\ UNCHANGED <<pc, loc>>
    BY <1>19 DEF ChangeRoom, TypeOK
  <2> QED
    BY <1>0, <2>1 DEF WorkingRoom, RoomComplete, InRoom
<1>20. CASE RunStep
  <2>1. CASE RoomStep /\ UNCHANGED ghost
    BY <1>7, <1>8, <1>9, <1>11, <1>12, <1>13, <1>14, <2>1 DEF RoomStep
  <2>2. CASE TokenStep
    BY <1>6, <2>2 DEF TokenStep, ReadToken, WriteToken, RefreshToken, Past, RoomSteps
  <2>3. CASE RegistrationStep
    BY <1>6, <2>3
    DEF RegistrationStep, Register, CompleteDummy, RegistrationDisabled, LoginExisting,
        SetDisplayName, OpenWrite, OpenSignal, CloseWrite, Past, RoomSteps
  <2>4. CASE UserStep \/ CloseSignal \/ CommitMarker
    BY <1>6, <2>4 DEF UserStep, CheckUser, PostUser, CloseSignal, CommitMarker, Past, RoomSteps
  <2> QED
    BY <1>10, <1>20, <2>1, <2>2, <2>3, <2>4 DEF RunStep
<1> QED
  BY <1>5, <1>15, <1>16, <1>17, <1>18, <1>19, <1>20 DEF Next

-----------------------------------------------------------------------------
(* The invariant, and what follows from it.                                *)

\* The program starts in a state of the invariant.
LEMMA TuwunelStart == Init => TuwunelInv
<1> SUFFICES ASSUME Init PROVE TuwunelInv
  OBVIOUS
<1>1. settings \in Settings /\ settings \in Setting
  BY SettingsAssumption DEF Init
<1>2. RunTypes
  <2>1. Blank \in Memory
    BY <1>1, UsersAssumption, BoundsAssumption DEF Blank, Memory, RoomIds, Users, Setting
  <2> QED
    BY <1>1, <2>1 DEF Init, RunTypes, Places
<1>3. FileTypes
  BY DEF Init, FileTypes
<1>4. ServerTypes
  <2>1. 1 \in RoomIds
    BY BoundsAssumption DEF RoomIds
  <2>2. alias \in RoomIds \cup {0}
    BY <2>1 DEF Init
  <2>3. [guarded |-> TRUE, members |-> Allowed] \in Room /\ NoRoom \in Room
    BY DEF Room, Allowed, People, NoRoom
  <2>4. rooms \in [RoomIds -> Room]
    BY <2>3 DEF Init
  <2>5. NoAccount \in Account
    BY DEF NoAccount, Account
  <2>6. accounts \in [Users -> Account]
    BY <2>5 DEF Init
  <2> QED
    BY <2>2, <2>4, <2>6 DEF Init, ServerTypes
<1>5. BookTypes
  BY BoundsAssumption DEF Init, BookTypes, History
<1>6. Phases /\ Windows /\ Devices
  BY BlankFields
  DEF Init, Phases, Windows, RegistrationOpenOnlyForCause, Devices, Window, RoomSteps
<1>7. Markers /\ Progress
  BY DEF Init, Markers, Vouched, Provided, Progress, Past, RoomSteps
<1>8. Refreshed /\ WorkingRoom /\ RoomComplete
  BY DEF Init, Refreshed, WorkingRoom, RoomComplete, InRoom, Past, RoomSteps
<1> QED
  BY <1>2, <1>3, <1>4, <1>5, <1>6, <1>7, <1>8, Types DEF TuwunelInv

\* Every step keeps the invariant.
LEMMA TuwunelSteps == TuwunelInv /\ [Next]_vars => TuwunelInv'
BY TypeStep, PhasesStep, WindowsStep, DevicesStep, MarkersStep, ProgressStep, RefreshedStep,
   RoomWorkStep
DEF TuwunelInv

\* The invariant holds throughout.
LEMMA Provisioning == Spec => []TuwunelInv
BY TuwunelStart, TuwunelSteps, PTL DEF Spec

\* The state of the run, of its files and of the server keeps its types,
\* whatever is killed, lost, restarted or changed by others.
THEOREM TuwunelTyping == Spec => []TypeOK
<1>1. TuwunelInv => TypeOK
  BY DEF TuwunelInv
<1> QED
  BY <1>1, Provisioning, PTL

\* main returns success only with everything provisioned: each user with a
\* password file can log in with it, the refreshed token works, and the room
\* is there, its members invited and its state verified.
THEOREM SuccessIsProvisioned == Spec => []SuccessMeansProvisioned
<1>1. TuwunelInv => SuccessMeansProvisioned
  <2> SUFFICES ASSUME TuwunelInv, result = "ok", ghost.quiet
               PROVE  /\ \A u \in Users : creds[u] # "none" /\ u \notin ahead =>
                            accounts[u].pw \in {creds[u], "own"}
                      /\ settings.refresh => tokenFile = "good"
                      /\ settings.room # "none" => RoomAsDeclared
    BY DEF SuccessMeansProvisioned, RoomAsDeclared
  <2>1. \A u \in Users : UpToDate(u)
    BY DEF TuwunelInv, Progress
  <2>2. \A u \in Users : markers[u] # "none" /\ u \notin ahead => Has(u, markers[u])
    BY DEF TuwunelInv, Markers, Vouched
  <2>3. \A u \in Users : creds[u] # "none" /\ u \notin ahead => Has(u, creds[u])
    BY <2>1, <2>2 DEF UpToDate
  <2> QED
    BY <2>3 DEF Has, TuwunelInv, Refreshed, RoomComplete
<1> QED
  BY <1>1, Provisioning, PTL

\* bootstrap_register and with_private_creator_session undo what they did
\* whatever failed inside them: registration is open, or a device logged in,
\* after a run only because the run was killed, or because the undoing failed.
THEOREM LeavingIsExcused == Spec => []LeftBehindOnlyForCause
<1>1. TuwunelInv => LeftBehindOnlyForCause
  BY DEF TuwunelInv, Windows, Devices, LeftBehindOnlyForCause, DeviceLoggedOut, RoomSteps
<1> QED
  BY <1>1, Provisioning, PTL

\* provision_room never replaces a pinned room, and never invites into a
\* private one that it has not found private.
THEOREM RoomIsGuarded == Spec => RoomGuarded
<1> DEFINE A == rooms' # rooms /\ changes' = changes =>
                  /\ alias' # alias => ~settings.pin /\ alias = 0
                  /\ alias' = alias /\ settings.room = "private" /\ ghost.still =>
                        Verified(rooms[loc.id]) /\ (settings.pin => loc.id = 1)
                  /\ alias' = alias /\ settings.room = "private" => pc = "invite" /\ loc.id # 0
<1>1. TuwunelInv /\ [Next]_vars => [A]_vars
  <2> SUFFICES ASSUME TuwunelInv, Next, rooms' # rooms, changes' = changes
               PROVE  A
    BY DEF vars, server
  <2>1. CreateRoom \/ Invite
    <3>1. CASE RunStep
      BY <3>1
      DEF RunStep, TokenStep, ReadToken, WriteToken, RefreshToken, RegistrationStep, Register,
          CompleteDummy, RegistrationDisabled, LoginExisting, SetDisplayName, OpenWrite, OpenSignal,
          CloseWrite, CloseSignal, UserStep, CheckUser, PostUser, CommitMarker, RoomStep, EnterRoom,
          ResolveAlias, CheckRoom, RecheckRoom, RoomRefused, Logout, server
    <3>2. ~ChangeRoom
      BY DEF ChangeRoom, ChangeBound, TuwunelInv, TypeOK
    <3> QED
      BY <3>1, <3>2
      DEF Next, Start, HandleSignal, Fail, Kill, RestartServer, RotateCredential, ChangeAccount, server
  <2>2. CASE CreateRoom
    BY <2>2, BoundsAssumption DEF CreateRoom, RoomIds, TuwunelInv, Phases
  <2>3. CASE Invite
    BY <2>3 DEF Invite, TuwunelInv, WorkingRoom, InRoom
  <2> QED
    BY <2>1, <2>2, <2>3
<1> QED
  BY <1>1, Provisioning, PTL DEF Spec, RoomGuarded
=============================================================================

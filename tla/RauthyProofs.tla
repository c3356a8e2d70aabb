---------------------------- MODULE RauthyProofs ----------------------------
(***************************************************************************)
(* Proofs about RauthyProvision, for any settings, ids, providers, secrets *)
(* and parts of a declaration.  Much of what a run does is right only as   *)
(* long as nobody changes the server during it (ghost.quiet), so most of   *)
(* the invariant says what a quiet run knows at each of its steps.         *)
(***************************************************************************)
EXTENDS RauthyProvision, FiniteSetTheorems, WellFoundedInduction, TLAPS

-----------------------------------------------------------------------------
(* Types.                                                                   *)

\* What the run remembers.
Memory ==
    [name : Items, listed : SUBSET Ids, user : Accounts, stale : BOOLEAN, created : BOOLEAN,
     seen : SUBSET Providers, drift : SUBSET Providers, todo : SUBSET Providers,
     linked : SUBSET Providers, client : Items, secret : Secrets \cup {0}]

History ==
    [quiet : BOOLEAN, cut : BOOLEAN, left : BOOLEAN, late : SUBSET Providers,
     recreated : BOOLEAN, missed : BOOLEAN, hid : BOOLEAN]

Considered == Settings \cup {[s EXCEPT !.present = ~@] : s \in Settings}

\* The requests about a user whose id was read before.
WithUser == {"updateUser", "rekey", "patch", "password"}

Typed ==
    /\ settings \in Considered
    /\ pc \in Steps
    /\ result \in {"none", "ok", "err"}
    /\ loc \in Memory
    /\ \E x \in Ids \cup {0} : loc.listed \subseteq {x}
    /\ pc \in WithUser => loc.user.id # 0
    /\ key \in {"none", "live", "expired"}
    /\ named \in Items
    /\ row \in Accounts
    /\ cached \in Accounts
    /\ links \in [ids : SUBSET Providers, linked : SUBSET Providers, drift : SUBSET Providers]
    /\ links.linked \subseteq links.ids
    /\ links.drift \subseteq links.ids
    /\ client \in [state : Items, secret : Secrets \cup {0}, file : Secrets \cup {0}]
    /\ marks \in [file : {1, 2}, marker : 0..2, pending : BOOLEAN]
    /\ faults \in 0..MaxFaults
    /\ changes \in 0..MaxChanges
    /\ ghost \in History

\* Redeclaring twice restores a declaration, and nothing else of it changes.
LEMMA ConsideredSetting ==
    ASSUME NEW s \in Considered
    PROVE  /\ s \in Setting
           /\ s.kind \in Kinds[s.focus]
           /\ s.focus \in {"name", "provider", "user", "client"}
           /\ [s EXCEPT !.present = ~@] \in Considered
<1>1. /\ \A t \in Settings : t \in Setting /\ t.kind \in Kinds[t.focus]
      /\ DOMAIN Kinds = {"name", "provider", "user", "client"}
  BY SettingsAssumption DEF Kinds
<1>2. CASE s \in Settings
  BY <1>1, <1>2 DEF Considered, Setting
<1>3. CASE s \in {[t EXCEPT !.present = ~@] : t \in Settings}
  <2>1. PICK t \in Settings : s = [t EXCEPT !.present = ~@]
    BY <1>3
  <2>2. /\ s \in Setting /\ s.kind = t.kind /\ s.focus = t.focus
        /\ [s EXCEPT !.present = ~@] = t
    BY <1>1, <2>1 DEF Setting
  <2> QED BY <1>1, <2>2 DEF Considered, Setting
<1> QED BY <1>2, <1>3 DEF Considered

\* What accounts are, and what becomes of them.
LEMMA AccountFacts ==
    /\ NoUser \in Accounts /\ NoUser.id = 0 /\ NoUser.by = "other" /\ NoUser.pw = "none"
    /\ ~NoUser.granted /\ NoUser.synced = {} /\ NoUser.mails = 0 /\ 0 \notin Ids
    /\ \A u \in Accounts :
          /\ u.id \in Ids \cup {0} /\ u.by \in {"tool", "throwaway", "other"}
          /\ u.pw \in {"none", "initial", "own"} /\ u.link \in Links /\ u.granted \in BOOLEAN
          /\ u.synced \subseteq Parts /\ u.mails \in Nat
          /\ u.id = 0 => u = NoUser
          /\ u # NoUser => u \in Account
<1>1. NoUser \in Accounts /\ NoUser.id = 0 /\ NoUser.by = "other" /\ NoUser.pw = "none"
  BY DEF NoUser, Accounts, Links
<1>2. ~NoUser.granted /\ NoUser.synced = {} /\ NoUser.mails = 0 /\ 0 \notin Ids
  BY IdsAssumption DEF NoUser
<1> SUFFICES ASSUME NEW u \in Accounts
             PROVE  /\ u.id \in Ids \cup {0} /\ u.by \in {"tool", "throwaway", "other"}
                    /\ u.pw \in {"none", "initial", "own"} /\ u.link \in Links
                    /\ u.granted \in BOOLEAN
                    /\ u.synced \subseteq Parts /\ u.mails \in Nat
                    /\ u.id = 0 => u = NoUser
                    /\ u # NoUser => u \in Account
  BY <1>1, <1>2
<1>3. CASE u = NoUser
  <2>1. u.granted \in BOOLEAN /\ u.link \in Links
    BY <1>3 DEF NoUser, Links
  <2> QED BY <1>1, <1>2, <1>3, <2>1
<1>4. CASE u \in Account
  <2>1. u.granted \in BOOLEAN
    BY <1>4 DEF Account
  <2>2. u.id \in Ids
    BY <1>4 DEF Account
  <2> QED BY <1>2, <1>4, <2>1, <2>2 DEF Account
<1> QED BY <1>3, <1>4 DEF Accounts

\* A new account is one, and has a fresh id; so is a new secret.
LEMMA FreshIds ==
    ASSUME Typed
    PROVE  /\ NewId \in Ids \ {row.id, cached.id, loc.user.id} /\ NewId # 0
           /\ NewSecret \in Secrets \ {client.secret, client.file, loc.secret} /\ NewSecret # 0
<1>1. PICK x \in Ids \cup {0} : loc.listed \subseteq {x}
  BY DEF Typed
<1>2. {row.id, cached.id, loc.user.id} \subseteq Ids \cup {0}
  BY AccountFacts DEF Typed, Memory
<1>3. Ids \ {row.id, cached.id, loc.user.id, x} # {}
  BY <1>2, FreshAssumption
<1>4. Ids \ ({row.id, cached.id, loc.user.id} \cup loc.listed) # {}
  BY <1>1, <1>3
<1>5. NewId \in Ids \ ({row.id, cached.id, loc.user.id} \cup loc.listed)
  BY <1>4 DEF NewId, Unused
<1>6. Secrets \ {client.secret, client.file, loc.secret} # {}
  <2>1. {client.secret, client.file, loc.secret} \subseteq Secrets \cup {0}
    BY DEF Typed, Memory
  <2> QED BY <2>1, FreshAssumption
<1>7. NewSecret \in Secrets \ {client.secret, client.file, loc.secret}
  BY <1>6 DEF NewSecret, Unused
<1> QED BY <1>5, <1>7, IdsAssumption, SecretsAssumption

\* A new account is an account.
LEMMA NewAccountTyped ==
    ASSUME NEW id \in Ids, NEW by \in {"tool", "throwaway", "other"}, NEW s \in SUBSET Parts
    PROVE  /\ NewAccount(id, by, s) \in Accounts
           /\ NewAccount(id, by, s).id = id
           /\ NewAccount(id, by, s).by = by
           /\ NewAccount(id, by, s).pw = "none"
           /\ ~NewAccount(id, by, s).granted
           /\ NewAccount(id, by, s).synced = s
           /\ NewAccount(id, by, s).mails = 0
<1> DEFINE n == NewAccount(id, by, s)
<1>1. n \in Account
  BY DEF NewAccount, NoUser, Account, Links
<1>2. n.id = id /\ n.by = by /\ n.synced = s /\ n.mails = 0 /\ n.pw = "none"
  BY DEF NewAccount, NoUser
<1>3. n.granted = FALSE
  BY DEF NewAccount, NoUser
<1> QED BY <1>1, <1>2, <1>3 DEF Accounts

\* The edits of an account leave an account with the same id.
LEMMA EditTyped ==
    ASSUME NEW u \in Accounts, u.id # 0
    PROVE  /\ u \in Account
           /\ \A s \in SUBSET Parts : [u EXCEPT !.synced = s] \in Account
           /\ \A p \in {"none", "initial", "own"} : [u EXCEPT !.pw = p] \in Account
           /\ [u EXCEPT !.granted = TRUE] \in Account
           /\ \A l \in Links : [u EXCEPT !.link = l] \in Account
           /\ [u EXCEPT !.mails = @ + 1] \in Account
           /\ \A s \in SUBSET Parts, g \in BOOLEAN, p \in {"none", "initial", "own"} :
                 [u EXCEPT !.synced = s, !.granted = g, !.pw = p] \in Account
<1>1. u \in Account
  BY AccountFacts
<1>2. \A s \in SUBSET Parts, g \in BOOLEAN, p \in {"none", "initial", "own"} :
         [u EXCEPT !.synced = s, !.granted = g, !.pw = p] \in Account
  BY <1>1 DEF Account
<1>3. [u EXCEPT !.granted = TRUE] \in Account
  BY <1>1 DEF Account
<1>4. [u EXCEPT !.mails = @ + 1] \in Account
  BY <1>1 DEF Account
<1>5. /\ \A s \in SUBSET Parts : [u EXCEPT !.synced = s] \in Account
      /\ \A l \in Links : [u EXCEPT !.link = l] \in Account
      /\ \A p \in {"none", "initial", "own"} : [u EXCEPT !.pw = p] \in Account
  BY <1>1 DEF Account
<1> QED BY <1>1, <1>2, <1>3, <1>4, <1>5

\* What the run reads of an account.
LEMMA ReadTyped ==
    ASSUME NEW u \in Accounts
    PROVE  /\ Read(u) \in Accounts /\ Read(u).id = u.id /\ Read(u).granted = u.granted
           /\ Read(u).synced = u.synced \ {"attributes"} /\ Read(u).by = u.by
           /\ Read(u).pw = u.pw
<1>1. CASE u = NoUser
  <2>1. Read(u) = [id |-> 0, by |-> "other", pw |-> "none", link |-> "none",
                   granted |-> FALSE, synced |-> {}, mails |-> 0]
    BY <1>1 DEF Read, NoUser
  <2>2. Read(u) = u
    BY <1>1, <2>1 DEF NoUser
  <2> QED BY <1>1, <2>2, AccountFacts
<1>2. CASE u \in Account
  BY <1>2 DEF Read, Account, Accounts
<1> QED BY <1>1, <1>2 DEF Accounts

-----------------------------------------------------------------------------
(* Every step keeps the types.  First the run's own steps, by class.       *)

\* A run that has read nothing, and where it starts.
LEMMA BlankTyped ==
    /\ Blank \in Memory /\ \E x \in Ids \cup {0} : Blank.listed \subseteq {x}
    /\ Blank.user = NoUser /\ ~Blank.stale /\ ~Blank.created
    /\ Blank.listed = {} /\ Blank.linked = {}
<1>1. /\ Blank.listed = {} /\ Blank.linked = {} /\ Blank.user = NoUser
      /\ ~Blank.stale /\ ~Blank.created
  BY DEF Blank
<1>2. Blank \in Memory
  BY AccountFacts DEF Blank, Memory, Items
<1> QED BY <1>1, <1>2

\* The class of the item decides where a run begins.
LEMMA FirstStepTyped ==
    ASSUME Typed
    PROVE  FirstStep = CASE settings.focus = "name" -> "listNames"
                         [] settings.focus = "provider" -> "listProviders"
                         [] settings.focus = "user" -> "listUsers"
                         [] settings.focus = "client" -> "getClient"
<1>1. settings.focus \in {"name", "provider", "user", "client"}
  BY ConsideredSetting DEF Typed
<1> QED BY <1>1 DEF FirstStep

\* What a step of the reconciliation may do to the types of things.
KeepsTypes ==
    /\ pc' \in Steps /\ result' \in {"none", "ok", "err"}
    /\ loc' \in Memory /\ \E x \in Ids \cup {0} : (loc').listed \subseteq {x}
    /\ pc' \in WithUser => (loc').user.id # 0

\* Returning keeps the types, whatever the run reports.
LEMMA FinishTyped ==
    ASSUME Typed, NEW r \in {"ok", "err"}, Finish(r)
    PROVE  /\ KeepsTypes /\ result' = r /\ loc' = Blank
           /\ pc' = IF settings.transient THEN "deleteKey" ELSE "idle"
BY BlankTyped DEF Finish, After, KeepsTypes, Steps, Outside, WithUser

\* So does going on, with a user in hand where the next request is about one.
LEMMA GotoTyped ==
    ASSUME Typed, NEW p \in Steps, Goto(p),
           p \in WithUser => (loc').user.id # 0,
           \/ UNCHANGED loc
           \/ loc' \in Memory /\ \E x \in Ids \cup {0} : (loc').listed \subseteq {x}
    PROVE  KeepsTypes
BY DEF Typed, Goto, KeepsTypes

\* Type correctness of the requests about a group, role, attribute or scope.
LEMMA NameTyped ==
    ASSUME Typed, ListNames \/ ApplyName
    PROVE  KeepsTypes /\ named' \in Items
<1>1. CASE ListNames
  <2>1. loc' \in Memory /\ (loc').listed = loc.listed
    BY <1>1 DEF ListNames, Remember, Typed, Memory
  <2>2. Goto("applyName") /\ UNCHANGED named
    BY <1>1 DEF ListNames
  <2> QED BY <2>1, <2>2, GotoTyped DEF Typed, Steps, WithUser
<1>2. CASE ApplyName
  <2>1. Finish("ok") /\ named' \in {"ok", "none", named}
    BY <1>2 DEF ApplyName
  <2> QED BY <2>1, FinishTyped DEF Typed, Items
<1> QED BY <1>1, <1>2

\* Type correctness of the requests about providers.
LEMMA ProviderTyped ==
    ASSUME Typed,
           \/ ListProviders \/ CreateProvider \/ CountLinks \/ SelectProvider
           \/ DeleteProvider \/ ProvidersDeleted \/ BindProvider
    PROVE  /\ KeepsTypes
           /\ links' \in [ids : SUBSET Providers, linked : SUBSET Providers, drift : SUBSET Providers]
           /\ (links').linked \subseteq (links').ids
           /\ (links').drift \subseteq (links').ids
<1>0. /\ loc \in Memory
      /\ links \in [ids : SUBSET Providers, linked : SUBSET Providers, drift : SUBSET Providers]
      /\ links.linked \subseteq links.ids /\ links.drift \subseteq links.ids
      /\ \E x \in Ids \cup {0} : loc.listed \subseteq {x}
  BY DEF Typed
<1>1. CASE ListProviders
  <2>1. loc' \in Memory /\ (loc').listed = loc.listed
    BY <1>0, <1>1 DEF ListProviders, Remember, Memory
  <2>2. /\ \E p \in {"createProvider", "countLinks", "deleteProviders", "bindProvider"} : Goto(p)
        /\ UNCHANGED links
    BY <1>1 DEF ListProviders
  <2> QED BY <1>0, <2>1, <2>2, GotoTyped DEF Steps, WithUser
<1>2. CASE CreateProvider
  <2>1. PICK p \in Providers : links' = [links EXCEPT !.ids = @ \cup {p}]
    BY <1>2 DEF CreateProvider
  <2>2. Goto("bindProvider") /\ UNCHANGED loc
    BY <1>2 DEF CreateProvider
  <2> QED BY <1>0, <2>1, <2>2, GotoTyped DEF Steps, WithUser
<1>3. CASE CountLinks
  <2>1. loc' \in Memory /\ (loc').listed = loc.listed
    BY <1>0, <1>3 DEF CountLinks, Remember, Memory
  <2>2. Goto("countLinks") /\ UNCHANGED links
    BY <1>3 DEF CountLinks
  <2> QED BY <1>0, <2>1, <2>2, GotoTyped DEF Steps, WithUser
<1>4. CASE SelectProvider
  <2> DEFINE c == CanonicalProvider(loc.seen, loc.linked)
  <2>1. loc' \in Memory /\ (loc').listed = loc.listed
    BY <1>0, <1>4 DEF SelectProvider, Remember, Memory
  <2>2. /\ Goto("deleteProviders")
        /\ links' = IF c \in loc.drift THEN [links EXCEPT !.drift = @ \ {c}] ELSE links
    BY <1>4 DEF SelectProvider
  <2> HIDE DEF c
  <2> QED BY <1>0, <2>1, <2>2, GotoTyped DEF Steps, WithUser
<1>5. CASE DeleteProvider
  <2>2. PICK p \in loc.todo :
          /\ links' = [links EXCEPT !.ids = @ \ {p}, !.linked = @ \ {p}, !.drift = @ \ {p}]
          /\ loc' = [loc EXCEPT !.todo = @ \ {p}]
    BY <1>5 DEF DeleteProvider, Remember
  <2>1. loc' \in Memory /\ (loc').listed = loc.listed
    BY <1>0, <2>2 DEF Memory
  <2>3. Goto("deleteProviders")
    BY <1>5 DEF DeleteProvider
  <2> QED BY <1>0, <2>1, <2>2, <2>3, GotoTyped DEF Steps, WithUser
<1>6. CASE ProvidersDeleted
  BY <1>0, <1>6, GotoTyped DEF ProvidersDeleted, Steps, WithUser
<1>7. CASE BindProvider
  BY <1>0, <1>7, FinishTyped DEF BindProvider
<1> QED BY <1>1, <1>2, <1>3, <1>4, <1>5, <1>6, <1>7

\* Type correctness of the steps about a client and its secret file.
LEMMA ClientTyped ==
    ASSUME Typed,
           \/ GetClient \/ CreateClient \/ UpdateClient \/ DeleteClient
           \/ CheckSecretFile \/ RotateSecret \/ WriteSecretFile
    PROVE  /\ KeepsTypes /\ ghost' \in History
           /\ client' \in [state : Items, secret : Secrets \cup {0}, file : Secrets \cup {0}]
<1>0. /\ loc \in Memory /\ ghost \in History
      /\ client \in [state : Items, secret : Secrets \cup {0}, file : Secrets \cup {0}]
      /\ \E x \in Ids \cup {0} : loc.listed \subseteq {x}
      /\ NewSecret \in Secrets
  BY FreshIds DEF Typed
<1>1. CASE GetClient
  <2>1. loc' \in Memory /\ (loc').listed = loc.listed
    BY <1>0, <1>1 DEF GetClient, Remember, Memory
  <2>2. /\ \E p \in {"createClient", "updateClient", "checkSecret", "deleteClient", "finish"} : Goto(p)
        /\ UNCHANGED <<client, ghost>>
    BY <1>1 DEF GetClient
  <2> QED BY <1>0, <2>1, <2>2, GotoTyped DEF Steps, WithUser, Local
<1>2. CASE CreateClient
  <2>1. client' = [client EXCEPT !.state = "drifted", !.secret = NewSecret]
    BY <1>2 DEF CreateClient
  <2>2. (client.file # 0) \in BOOLEAN
    OBVIOUS
  <2>3. ghost' = [ghost EXCEPT !.recreated = (client.file # 0)]
    BY <1>2 DEF CreateClient
  <2>4. ghost' \in History
    BY <1>0, <2>2, <2>3 DEF History
  <2>5. Goto("updateClient") /\ UNCHANGED loc
    BY <1>2 DEF CreateClient
  <2> QED BY <1>0, <2>1, <2>4, <2>5, GotoTyped DEF Steps, WithUser, Items
<1>3. CASE UpdateClient
  BY <1>0, <1>3, GotoTyped DEF UpdateClient, Steps, WithUser, Local, Items
<1>4. CASE DeleteClient
  BY <1>0, <1>4, GotoTyped DEF DeleteClient, Steps, WithUser, Local, Items
<1>5. CASE CheckSecretFile
  BY <1>0, <1>5, GotoTyped DEF CheckSecretFile, Steps, WithUser, Local
<1>6. CASE RotateSecret
  <2>1. loc' \in Memory /\ (loc').listed = loc.listed
    BY <1>0, <1>6 DEF RotateSecret, Remember, Memory
  <2> QED BY <1>0, <1>6, <2>1, GotoTyped DEF RotateSecret, Steps, WithUser, Local
<1>7. CASE WriteSecretFile
  <2>1. ghost' \in History
    BY <1>0, <1>7 DEF WriteSecretFile, History
  <2>2. client' \in [state : Items, secret : Secrets \cup {0}, file : Secrets \cup {0}]
    BY <1>0, <1>7 DEF WriteSecretFile, Memory
  <2> QED BY <1>0, <1>7, <2>1, <2>2, GotoTyped DEF WriteSecretFile, Steps, WithUser, Local
<1> QED BY <1>1, <1>2, <1>3, <1>4, <1>5, <1>6, <1>7

\* A full replace of a user's row, by an id that is not 0.
LEMMA PutTyped ==
    ASSUME Typed, loc.user.id # 0, NEW pw \in {"none", "initial", "own"}, Put(pw)
    PROVE  /\ row' \in Accounts /\ cached' \in Accounts /\ (row').id = row.id
           /\ row.id = loc.user.id =>
                 /\ cached' = row' /\ (row').granted = loc.user.granted /\ (row').pw = pw
                 /\ (row').synced = row.synced \cup {"roles"}
                 /\ (row').by = row.by /\ (row').mails = row.mails
           /\ row.id # loc.user.id => UNCHANGED <<row, cached>>
<1>1. row \in Accounts /\ cached \in Accounts /\ loc.user \in Accounts
  BY DEF Typed, Memory
<1>2. CASE row.id # loc.user.id
  BY <1>1, <1>2 DEF Put
<1>3. CASE row.id = loc.user.id
  <2>1. /\ row' = [row EXCEPT !.synced = @ \cup {"roles"}, !.granted = loc.user.granted, !.pw = pw]
        /\ cached' = row'
    BY <1>3 DEF Put
  <2>2. row \in Account /\ loc.user.granted \in BOOLEAN
    BY <1>1, <1>3, AccountFacts
  <2>3. row' \in Account
    BY <2>1, <2>2 DEF Account, Parts
  <2>4. (row').granted = loc.user.granted
    BY <2>1, <2>2 DEF Account
  <2> QED BY <1>3, <2>1, <2>2, <2>3, <2>4 DEF Account, Accounts
<1> QED BY <1>2, <1>3

\* Type correctness of the steps about a user and the password markers.
LEMMA UserTyped ==
    ASSUME Typed, UserStep
    PROVE  /\ KeepsTypes /\ ghost' \in History
           /\ row' \in Accounts /\ cached' \in Accounts
           /\ marks' \in [file : {1, 2}, marker : 0..2, pending : BOOLEAN]
<1> DEFINE Marks == [file : {1, 2}, marker : 0..2, pending : BOOLEAN]
<1>0. /\ loc \in Memory /\ ghost \in History /\ marks \in Marks
      /\ row \in Accounts /\ cached \in Accounts /\ loc.user \in Accounts
      /\ Answer \in Accounts /\ Read(Answer) \in Accounts /\ Read(Answer).id = Answer.id
      /\ \E x \in Ids \cup {0} : loc.listed \subseteq {x}
      /\ NewId \in Ids /\ NewId # 0
      /\ pc \in WithUser => loc.user.id # 0
  BY FreshIds, ReadTyped DEF Typed, Answer, Memory
<1>1. CASE ListUsers
  <2>1. /\ loc' = [loc EXCEPT !.listed = {row.id} \ {0}] /\ Goto("getUser")
        /\ UNCHANGED <<row, cached, marks, ghost>>
    BY <1>1 DEF ListUsers, Remember
  <2>2. {row.id} \ {0} \subseteq Ids
    BY <1>0, AccountFacts
  <2>3. row.id \in Ids \cup {0}
    BY <1>0, AccountFacts
  <2>4. loc' \in Memory /\ (loc').listed \subseteq {row.id}
    BY <1>0, <2>1, <2>2 DEF Memory
  <2> QED BY <1>0, <2>1, <2>3, <2>4, GotoTyped DEF Steps, WithUser
<1>2. CASE GetUser
  <2>1. /\ loc' = [loc EXCEPT !.user = Read(Answer)]
        /\ Goto("evict") \/ Goto("route")
        /\ UNCHANGED <<row, marks, ghost>> /\ cached' = Answer
    BY <1>2 DEF GetUser, Remember
  <2>2. loc' \in Memory /\ (loc').listed = loc.listed
    BY <1>0, <2>1 DEF Memory
  <2> QED BY <1>0, <2>1, <2>2, GotoTyped DEF Steps, WithUser, Local
<1>3. CASE Evict
  <2>1. /\ row' \in {row, NoUser} /\ cached' \in {cached, NoUser} /\ UNCHANGED marks
        /\ ghost' = [ghost EXCEPT !.hid = (row.id \notin {0, loc.user.id})] /\ Goto("route")
    BY <1>3 DEF Evict
  <2>2. \/ loc' = [loc EXCEPT !.user = NoUser]
        \/ loc' = [loc EXCEPT !.user = NoUser, !.stale = TRUE]
    BY <1>3 DEF Evict, Remember
  <2>3. loc' \in Memory /\ (loc').listed = loc.listed
    <3>1. NoUser \in Accounts /\ TRUE \in BOOLEAN
      BY AccountFacts
    <3> QED BY <1>0, <2>2, <3>1 DEF Memory
  <2>4. (row.id \notin {0, loc.user.id}) \in BOOLEAN
    OBVIOUS
  <2>5. ghost' \in History
    BY <1>0, <2>1, <2>4 DEF History
  <2> QED BY <1>0, <2>1, <2>3, <2>5, GotoTyped, AccountFacts DEF Steps, WithUser, Local
<1>4. CASE Route
  <2>1. /\ \E p \in {"updateUser", "markPending", "createUser", "deleteUser", "createThrowaway",
                     "finish"} : Goto(p) /\ (p = "updateUser" => loc.user.id # 0)
        /\ UNCHANGED <<row, cached, marks, loc, ghost>>
    BY <1>4 DEF Route, Found
  <2> QED BY <1>0, <2>1, GotoTyped DEF Steps, WithUser, Local
<1>5. CASE MarkPending
  <2>1. marks' \in Marks
    BY <1>0, <1>5 DEF MarkPending
  <2> QED BY <1>0, <1>5, <2>1, GotoTyped DEF MarkPending, Steps, WithUser
<1>6. CASE CreateUser \/ CreateThrowaway
  <2>1. PICK by \in {"tool", "throwaway"} : row' = NewAccount(NewId, by, {"roles"})
    BY <1>6 DEF CreateUser, CreateThrowaway
  <2>2. row' \in Accounts /\ (row').id # 0
    <3>1. {"roles"} \in SUBSET Parts
      BY DEF Parts
    <3>2. by \in {"tool", "throwaway", "other"}
      OBVIOUS
    <3> QED BY <1>0, <2>1, <3>1, <3>2, NewAccountTyped
  <2>3. \/ loc' = [loc EXCEPT !.user = row', !.created = TRUE]
        \/ loc' = [loc EXCEPT !.user = row']
    BY <1>6 DEF CreateUser, CreateThrowaway, Remember
  <2>4. loc' \in Memory /\ (loc').listed = loc.listed /\ (loc').user = row'
    BY <1>0, <2>2, <2>3 DEF Memory
  <2>5. /\ \E p \in {"rekey", "readBack", "deleteThrowaway"} : Goto(p)
        /\ ghost' = [ghost EXCEPT !.cut = FALSE] /\ UNCHANGED <<cached, marks>>
    BY <1>6 DEF CreateUser, CreateThrowaway
  <2>6. ghost' \in History
    BY <1>0, <2>5 DEF History
  <2> QED BY <1>0, <2>2, <2>4, <2>5, <2>6, GotoTyped DEF Steps, WithUser
<1>7. CASE Rekey \/ UpdateUser
  <2>1. loc.user.id # 0 /\ (Put(row.pw) \/ UNCHANGED <<row, cached>>)
    BY <1>0, <1>7 DEF Rekey, UpdateUser, WithUser
  <2>2. row.pw \in {"none", "initial", "own"}
    BY <1>0, AccountFacts
  <2>3. row' \in Accounts /\ cached' \in Accounts
    BY <1>0, <2>1, <2>2, PutTyped
  <2>4. Goto("readBack") \/ Goto("patch")
    BY <1>7 DEF Rekey, UpdateUser
  <2>5. UNCHANGED <<marks, loc, ghost>>
    BY <1>7 DEF Rekey, UpdateUser
  <2> QED BY <1>0, <2>1, <2>3, <2>4, <2>5, GotoTyped DEF Steps, WithUser
<1>8. CASE ReadBack
  <2>1. /\ loc' = [loc EXCEPT !.user = Read(Answer)] /\ Goto("patch") /\ Answer.id # 0
        /\ UNCHANGED <<row, marks, ghost>> /\ cached' = Answer
    BY <1>8 DEF ReadBack, Remember
  <2>2. loc' \in Memory /\ (loc').listed = loc.listed /\ (loc').user.id # 0
    BY <1>0, <2>1 DEF Memory
  <2> QED BY <1>0, <2>1, <2>2, GotoTyped DEF Steps, WithUser
<1>9. CASE PatchUser
  <2>1. PICK a \in Aspects :
          /\ IF row.id = loc.user.id
             THEN row' = [row EXCEPT !.synced = @ \cup {a}] /\ cached' = row'
             ELSE UNCHANGED <<row, cached>>
          /\ loc' = [loc EXCEPT !.user.synced = @ \cup {a}]
    BY <1>9 DEF PatchUser, Remember
  <2>2. loc.user \in Account /\ loc.user.id # 0
    BY <1>0, <1>9, AccountFacts DEF PatchUser, WithUser
  <2>3. [loc.user EXCEPT !.synced = @ \cup {a}] \in Account
    BY <2>2 DEF Account, Parts
  <2>4. loc' = [loc EXCEPT !.user = [loc.user EXCEPT !.synced = @ \cup {a}]]
    BY <1>0, <2>1 DEF Memory
  <2>5. loc' \in Memory /\ (loc').listed = loc.listed /\ (loc').user.id = loc.user.id
    BY <1>0, <2>2, <2>3, <2>4 DEF Memory, Accounts, Account
  <2>6. row.id = loc.user.id => [row EXCEPT !.synced = @ \cup {a}] \in Account
    BY <1>0, <2>2, AccountFacts DEF Account, Parts
  <2>7. row' \in Accounts /\ cached' \in Accounts
    BY <1>0, <2>1, <2>6 DEF Accounts
  <2>8. Goto("patch") /\ UNCHANGED <<marks, ghost>>
    BY <1>9 DEF PatchUser
  <2> QED BY <1>0, <2>2, <2>5, <2>7, <2>8, GotoTyped DEF Steps, WithUser
<1>10. CASE Patched
  <2>1. /\ Goto("password") \/ Goto("audit")
        /\ UNCHANGED <<row, cached, marks, loc, ghost>> /\ loc.user.id # 0
    BY <1>0, <1>10 DEF Patched, WithUser
  <2> QED BY <1>0, <2>1, GotoTyped DEF Steps, WithUser
<1>11. CASE SetPassword
  <2>1. /\ Put("initial") /\ loc.user.id # 0 /\ Goto("commitMarker")
        /\ ghost' = [ghost EXCEPT !.missed = (row.id # loc.user.id)] /\ UNCHANGED <<marks, loc>>
    BY <1>0, <1>11 DEF SetPassword, WithUser
  <2>2. row' \in Accounts /\ cached' \in Accounts
    BY <2>1, PutTyped
  <2>3. (row.id # loc.user.id) \in BOOLEAN
    OBVIOUS
  <2>4. ghost' \in History
    BY <1>0, <2>1, <2>3 DEF History
  <2> QED BY <1>0, <2>1, <2>2, <2>4, GotoTyped DEF Steps, WithUser, Local
<1>12. CASE CommitMarker \/ AdoptMarker
  <2>1. /\ marks' = [marks EXCEPT !.marker = marks.file]
        /\ Goto("clearPending") \/ Goto("audit")
        /\ UNCHANGED <<row, cached, loc, ghost>>
    BY <1>12 DEF CommitMarker, AdoptMarker
  <2>2. marks' \in Marks
    BY <1>0, <2>1
  <2> QED BY <1>0, <2>1, <2>2, GotoTyped DEF Steps, WithUser, Local
<1>13. CASE ClearPending
  <2>1. marks' \in Marks
    BY <1>0, <1>13 DEF ClearPending
  <2> QED BY <1>0, <1>13, <2>1, GotoTyped DEF ClearPending, Steps, WithUser
<1>14. CASE AuditProvider
  <2>1. /\ Goto("mail") \/ Goto("finish")
        /\ UNCHANGED <<row, cached, marks, loc, ghost>>
    BY <1>14 DEF AuditProvider
  <2> QED BY <1>0, <2>1, GotoTyped DEF Steps, WithUser, Local
<1>15. CASE RequestPasswordReset
  <2>1. /\ row' = (IF row.id = 0 THEN row ELSE [row EXCEPT !.mails = @ + 1])
        /\ cached' \in {row', cached} /\ Goto("finish") /\ UNCHANGED <<marks, loc, ghost>>
    BY <1>15 DEF RequestPasswordReset
  <2>2. row' \in Accounts
    BY <1>0, <2>1, EditTyped DEF Accounts
  <2> QED BY <1>0, <2>1, <2>2, GotoTyped DEF Steps, WithUser, Local
<1>16. CASE DeleteUser
  <2>1. /\ row' \in {NoUser, row} /\ cached' = NoUser /\ Goto("finish")
        /\ UNCHANGED <<marks, loc, ghost>>
    BY <1>16 DEF DeleteUser
  <2> QED BY <1>0, <2>1, AccountFacts, GotoTyped DEF Steps, WithUser, Local
<1> QED BY <1>1, <1>2, <1>3, <1>4, <1>5, <1>6, <1>7, <1>8, <1>9, <1>10, <1>11, <1>12, <1>13,
           <1>14, <1>15, <1>16 DEF UserStep

\* A step of the reconciliation.
LEMMA ReconcileTyped ==
    ASSUME Typed, Reconcile
    PROVE  Typed'
<1>0. UNCHANGED <<settings, key, faults, changes>>
  BY DEF Reconcile
<1>1. CASE NameStep
  <2>1. KeepsTypes /\ named' \in Items
    BY <1>1, NameTyped DEF NameStep
  <2>2. UNCHANGED <<row, cached, links, client, marks, ghost>>
    BY <1>1 DEF NameStep
  <2> QED BY <1>0, <2>1, <2>2 DEF Typed, KeepsTypes
<1>2. CASE ProviderStep
  <2>1. /\ KeepsTypes
        /\ links' \in [ids : SUBSET Providers, linked : SUBSET Providers, drift : SUBSET Providers]
        /\ (links').linked \subseteq (links').ids
        /\ (links').drift \subseteq (links').ids
    BY <1>2, ProviderTyped DEF ProviderStep
  <2>2. UNCHANGED <<named, row, cached, client, marks, ghost>>
    BY <1>2 DEF ProviderStep
  <2> QED BY <1>0, <2>1, <2>2 DEF Typed, KeepsTypes
<1>3. CASE UserStep
  <2>1. /\ KeepsTypes /\ ghost' \in History /\ row' \in Accounts /\ cached' \in Accounts
        /\ marks' \in [file : {1, 2}, marker : 0..2, pending : BOOLEAN]
    BY <1>3, UserTyped
  <2>2. UNCHANGED <<named, links, client>>
    BY <1>3 DEF UserStep
  <2> QED BY <1>0, <2>1, <2>2 DEF Typed, KeepsTypes
<1>4. CASE ClientStep
  <2>1. /\ KeepsTypes /\ ghost' \in History
        /\ client' \in [state : Items, secret : Secrets \cup {0}, file : Secrets \cup {0}]
    BY <1>4, ClientTyped DEF ClientStep
  <2>2. UNCHANGED <<named, row, cached, links, marks>>
    BY <1>4 DEF ClientStep
  <2> QED BY <1>0, <2>1, <2>2 DEF Typed, KeepsTypes
<1>5. CASE Done
  <2>1. KeepsTypes /\ UNCHANGED <<world, marks, ghost>>
    BY <1>5, FinishTyped DEF Done
  <2> QED BY <1>0, <2>1 DEF Typed, KeepsTypes, world
<1> QED BY <1>1, <1>2, <1>3, <1>4, <1>5 DEF Reconcile

\* A bound that counts down.
LEMMA CountDown ==
    ASSUME NEW m \in Nat, NEW n \in 0..m, n > 0
    PROVE  n - 1 \in 0..m
OBVIOUS

\* What somebody else changes.
LEMMA ChangeTyped ==
    ASSUME Typed, Change
    PROVE  Typed'
<1>0. /\ ghost \in History /\ marks \in [file : {1, 2}, marker : 0..2, pending : BOOLEAN]
      /\ row \in Accounts /\ cached \in Accounts /\ named \in Items
      /\ links \in [ids : SUBSET Providers, linked : SUBSET Providers, drift : SUBSET Providers]
      /\ links.linked \subseteq links.ids /\ links.drift \subseteq links.ids
      /\ client \in [state : Items, secret : Secrets \cup {0}, file : Secrets \cup {0}]
      /\ NewId \in Ids
  BY FreshIds DEF Typed
<1>1. /\ changes' \in 0..MaxChanges
      /\ UNCHANGED <<settings, pc, result, loc, key, faults>>
  <2>1. changes \in 0..MaxChanges /\ changes > 0 /\ changes' = changes - 1
    BY DEF Typed, Change
  <2>2. UNCHANGED <<settings, pc, result, loc, key, faults>>
    BY DEF Change
  <2> QED BY <2>1, <2>2, BoundsAssumption, CountDown
<1>2. ghost' \in History
  <2>1. \/ ghost' = [ghost EXCEPT !.quiet = FALSE]
        \/ \E p \in Providers : ghost' = [ghost EXCEPT !.quiet = FALSE, !.late = @ \cup {p}]
    BY DEF Change
  <2>2. CASE ghost' = [ghost EXCEPT !.quiet = FALSE]
    BY <1>0, <2>2 DEF History
  <2>3. ASSUME NEW p \in Providers, ghost' = [ghost EXCEPT !.quiet = FALSE, !.late = @ \cup {p}]
        PROVE  ghost' \in History
    <3>1. ghost.late \cup {p} \in SUBSET Providers
      BY <1>0 DEF History
    <3> QED BY <1>0, <2>3, <3>1 DEF History
  <2> QED BY <2>1, <2>2, <2>3
<1>3. CASE ChangeName
  <2>1. named' \in Items
    BY <1>3 DEF ChangeName, Items
  <2> QED BY <1>1, <1>2, <1>3, <2>1 DEF Typed, ChangeName
<1>4. CASE EditUser
  <2>1. row.id # 0 /\ {} \in SUBSET Parts /\ Linkings \subseteq Links
    BY <1>4 DEF EditUser, Linkings, Links
  <2>2. row' \in Account
    BY <1>0, <1>4, <2>1, EditTyped DEF EditUser
  <2>3. row' \in Accounts /\ cached' \in Accounts
    BY <1>0, <1>4, <2>2 DEF EditUser, Cached, Accounts
  <2> QED BY <1>1, <1>2, <1>4, <2>3 DEF Typed, EditUser
<1>5. CASE UserAppears
  <2>1. NewId \in Ids /\ NewId # 0 /\ {} \in SUBSET Parts
    BY FreshIds
  <2>2. NewAccount(NewId, "other", {}) \in Accounts /\ NewAccount(NewId, "other", {}).id # 0
    BY <2>1, NewAccountTyped
  <2>3. PICK l \in Linkings : row' = [NewAccount(NewId, "other", {}) EXCEPT !.link = l]
    BY <1>5 DEF UserAppears
  <2>4. l \in Links
    BY DEF Linkings, Links
  <2>5. row' \in Account
    BY <2>2, <2>3, <2>4, EditTyped
  <2>6. row' \in Accounts /\ cached' \in Accounts
    BY <1>0, <1>5, <2>5 DEF UserAppears, Accounts
  <2> QED BY <1>1, <1>2, <1>5, <2>6 DEF Typed, UserAppears
<1>6. CASE UserDisappears
  <2>1. row' \in Accounts /\ cached' \in Accounts
    BY <1>0, <1>6, AccountFacts DEF UserDisappears
  <2> QED BY <1>1, <1>2, <1>6, <2>1 DEF Typed, UserDisappears
<1>7. CASE ChangeProvider
  <2>1. PICK p \in Providers :
          \/ links' = [links EXCEPT !.ids = @ \cup {p}, !.drift = @ \cup {p}]
          \/ links' = [links EXCEPT !.ids = @ \ {p}, !.linked = @ \ {p}, !.drift = @ \ {p}]
          \/ p \in links.ids /\ links' = [links EXCEPT !.drift = @ \cup {p}]
    BY <1>7 DEF ChangeProvider
  <2>2. /\ links' \in [ids : SUBSET Providers, linked : SUBSET Providers, drift : SUBSET Providers]
        /\ (links').linked \subseteq (links').ids /\ (links').drift \subseteq (links').ids
    <3>1. CASE links' = [links EXCEPT !.ids = @ \cup {p}, !.drift = @ \cup {p}]
      BY <1>0, <3>1
    <3>2. CASE links' = [links EXCEPT !.ids = @ \ {p}, !.linked = @ \ {p}, !.drift = @ \ {p}]
      BY <1>0, <3>2
    <3>3. CASE p \in links.ids /\ links' = [links EXCEPT !.drift = @ \cup {p}]
      BY <1>0, <3>3
    <3> QED BY <2>1, <3>1, <3>2, <3>3
  <2> QED BY <1>1, <1>2, <1>7, <2>2 DEF Typed, ChangeProvider
<1>8. CASE ChangeClient
  <2>1. client' \in [state : Items, secret : Secrets \cup {0}, file : Secrets \cup {0}]
    BY <1>0, <1>8 DEF ChangeClient, Items
  <2> QED BY <1>1, <1>2, <1>8, <2>1 DEF Typed, ChangeClient
<1>9. CASE NewPasswordFile
  <2>1. marks' \in [file : {1, 2}, marker : 0..2, pending : BOOLEAN]
    BY <1>0, <1>9 DEF NewPasswordFile
  <2> QED BY <1>1, <1>2, <1>9, <2>1 DEF Typed, NewPasswordFile, world
<1>10. ASSUME NEW p \in Providers, LinkUser(p) PROVE Typed'
  <2>1. /\ links' \in [ids : SUBSET Providers, linked : SUBSET Providers, drift : SUBSET Providers]
        /\ (links').linked \subseteq (links').ids /\ (links').drift \subseteq (links').ids
    BY <1>0, <1>10 DEF LinkUser
  <2> QED BY <1>1, <1>2, <1>10, <2>1 DEF Typed, LinkUser
<1> QED BY <1>3, <1>4, <1>5, <1>6, <1>7, <1>8, <1>9, <1>10 DEF Change

\* All other steps.
LEMMA StepTyped ==
    ASSUME Typed, [Next]_vars
    PROVE  Typed'
<1>1. CASE Start
  <2>1. FirstStep \in {"listNames", "listProviders", "listUsers", "getClient"}
    BY FirstStepTyped, ConsideredSetting DEF Typed
  <2>2. pc' \in Steps \ WithUser
    BY <1>1, <2>1 DEF Start, Steps, Outside, WithUser
  <2>3. ghost' \in History
    BY <1>1 DEF Start, Typed, History
  <2> QED BY <1>1, <2>2, <2>3 DEF Start, Typed, world
<1>2. CASE MintKey \/ RotateKey \/ DeleteKey
  <2>1. FirstStep \in {"listNames", "listProviders", "listUsers", "getClient"}
    BY FirstStepTyped, ConsideredSetting DEF Typed
  <2>2. pc' \in Steps \ WithUser
    BY <1>2, <2>1 DEF MintKey, RotateKey, DeleteKey, Steps, Outside, WithUser
  <2>3. ghost' \in History
    BY <1>2 DEF MintKey, RotateKey, DeleteKey, Typed, History
  <2>4. key' \in {"none", "live", "expired"} /\ UNCHANGED <<settings, result, loc, marks, world, faults, changes>>
    BY <1>2 DEF MintKey, RotateKey, DeleteKey, Typed
  <2> QED BY <2>2, <2>3, <2>4 DEF Typed, world
<1>3. CASE Reconcile
  BY <1>3, ReconcileTyped
<1>4. CASE Rejected \/ FailInside
  <2>1. KeepsTypes
    BY <1>4, FinishTyped DEF Rejected, FailInside
  <2>2. ghost' \in History
    BY <1>4 DEF Rejected, FailInside, Typed, History
  <2>4. faults' \in 0..MaxFaults
    BY <1>4, BoundsAssumption, CountDown DEF Rejected, FailInside, Fault, Typed
  <2>3. UNCHANGED <<settings, key, marks, world, changes>>
    BY <1>4 DEF Rejected, FailInside
  <2> QED BY <2>1, <2>2, <2>3, <2>4 DEF Typed, KeepsTypes, world
<1>5. CASE FailOutside
  <2>1. (pc # "mintKey" \/ ghost.left) \in BOOLEAN
    OBVIOUS
  <2>2. ghost' = [ghost EXCEPT !.cut = TRUE, !.left = (pc # "mintKey" \/ ghost.left)]
    BY <1>5 DEF FailOutside, Typed, History
  <2>3. ghost' \in History
    BY <2>1, <2>2 DEF Typed, History
  <2>4. faults' \in 0..MaxFaults /\ key' \in {"none", "live", "expired"}
    BY <1>5, BoundsAssumption DEF FailOutside, Fault, Typed
  <2>5. pc' = "idle" /\ result' = "err" /\ UNCHANGED <<settings, loc, marks, world, changes>>
    BY <1>5 DEF FailOutside
  <2> QED BY <2>3, <2>4, <2>5 DEF Typed, world, Steps, Outside, WithUser
<1>6. CASE Kill
  <2>1. (ghost.left \/ key = "live") \in BOOLEAN
    OBVIOUS
  <2>2. ghost' = [ghost EXCEPT !.cut = TRUE, !.left = (ghost.left \/ key = "live")]
    BY <1>6 DEF Kill, Typed, History
  <2>3. ghost' \in History
    BY <2>1, <2>2 DEF Typed, History
  <2>4. marks' \in {marks, [marks EXCEPT !.marker = 0]}
    BY <1>6 DEF Kill
  <2>5. marks' \in [file : {1, 2}, marker : 0..2, pending : BOOLEAN]
    BY <2>4 DEF Typed
  <2>6. /\ faults' \in 0..MaxFaults /\ pc' = "idle" /\ result' = "err" /\ loc' = Blank
        /\ UNCHANGED <<settings, key, world, changes>>
    BY <1>6, BoundsAssumption DEF Kill, Fault, Typed
  <2> QED BY <2>3, <2>5, <2>6, BlankTyped DEF Typed, world, Steps, Outside, WithUser
<1>7. CASE ExpireKey
  <2>1. faults' \in 0..MaxFaults
    BY <1>7, BoundsAssumption DEF ExpireKey, Fault, Typed
  <2> QED BY <1>7, <2>1 DEF ExpireKey, Typed, world
<1>8. CASE Change
  BY <1>8, ChangeTyped
<1>9. CASE Redeclare
  <2>1. settings' \in Considered
    BY <1>9, ConsideredSetting DEF Redeclare, Typed
  <2>2. ghost' \in History
    BY <1>9 DEF Redeclare, Typed, History
  <2>3. changes' \in 0..MaxChanges
    BY <1>9, BoundsAssumption, CountDown DEF Redeclare, Typed
  <2> QED BY <1>9, <2>1, <2>2, <2>3 DEF Redeclare, Typed, world
<1>10. CASE CacheExpires
  BY <1>10, AccountFacts DEF CacheExpires, Typed
<1>11. CASE UNCHANGED vars
  BY <1>11 DEF vars, world, Typed
<1> QED BY <1>1, <1>2, <1>3, <1>4, <1>5, <1>6, <1>7, <1>8, <1>9, <1>10, <1>11 DEF Next, Advance

\* The first state has the types.
LEMMA InitTyped == Init => Typed
<1> SUFFICES ASSUME Init PROVE Typed
  OBVIOUS
<1>1. ghost \in History
  BY DEF Init, History
<1>2. marks \in [file : {1, 2}, marker : 0..2, pending : BOOLEAN]
  BY DEF Init
<1>3. links \in [ids : SUBSET Providers, linked : SUBSET Providers, drift : SUBSET Providers]
  BY DEF Init
<1>4. client \in [state : Items, secret : Secrets \cup {0}, file : Secrets \cup {0}]
  BY DEF Init, Items
<1>5. row \in Accounts /\ cached \in Accounts /\ loc \in Memory
  BY AccountFacts, BlankTyped DEF Init
<1>6. faults \in 0..MaxFaults /\ changes \in 0..MaxChanges
  BY BoundsAssumption DEF Init
<1> QED BY <1>1, <1>2, <1>3, <1>4, <1>5, <1>6, BlankTyped
        DEF Init, Typed, Considered, Steps, Outside, WithUser, Items

\* Type correctness: what the run remembers, what the server and the state
\* directory hold, and the history have the types of RauthyProvision.TypeOK.
THEOREM RauthyTyping == Spec => []TypeOK
<1>1. Spec => []Typed
  BY InitTyped, StepTyped, PTL DEF Spec
<1>2. Typed => TypeOK
  <2> SUFFICES ASSUME Typed PROVE TypeOK
    OBVIOUS
  <2>1. {named, loc.name, client.state, loc.client} \subseteq Items
    BY DEF Typed, Memory
  <2>2. {row, cached, loc.user} \subseteq Accounts /\ loc.listed \subseteq Ids
    BY DEF Typed, Memory
  <2>3. {loc.stale, loc.created} \subseteq BOOLEAN
    BY DEF Typed, Memory
  <2>4. UNION {loc.seen, loc.drift, loc.todo, loc.linked, links.ids} \subseteq Providers
    BY DEF Typed, Memory
  <2>5. {client.secret, client.file, loc.secret} \subseteq Secrets \cup {0}
    BY DEF Typed, Memory
  <2>6. links.linked \cup links.drift \subseteq links.ids
    BY DEF Typed
  <2> QED BY <2>1, <2>2, <2>3, <2>4, <2>5, <2>6 DEF Typed, TypeOK, Considered, History
<1> QED BY <1>1, <1>2, PTL

-----------------------------------------------------------------------------
(* Where the steps of the reconciliation lead.                             *)

NameSteps == {"listNames", "applyName"}
ProviderSteps ==
    {"listProviders", "createProvider", "countLinks", "deleteProviders", "bindProvider"}
UserSteps ==
    {"listUsers", "getUser", "evict", "route", "markPending", "createUser", "rekey", "readBack",
     "updateUser", "patch", "password", "commitMarker", "clearPending", "audit", "mail",
     "deleteUser", "createThrowaway", "deleteThrowaway"}
ClientSteps ==
    {"getClient", "createClient", "updateClient", "deleteClient", "checkSecret", "rotateSecret",
     "writeSecret"}
FirstSteps == {"listNames", "listProviders", "listUsers", "getClient"}

\* A run follows the class its item is of.
InClass ==
    /\ pc \in NameSteps => settings.focus = "name"
    /\ pc \in ProviderSteps => settings.focus = "provider"
    /\ pc \in UserSteps => settings.focus = "user"
    /\ pc \in ClientSteps => settings.focus = "client"
    /\ pc = "finish" => settings.focus \in {"user", "client"}

\* A run has returned.
Returned(r) ==
    /\ result' = r
    /\ loc' = Blank
    /\ pc' = IF settings.transient THEN "deleteKey" ELSE "idle"

\* Finish is returning: the report is set, the memory dropped, and a transient key deleted next.
LEMMA FinishReturns ==
    ASSUME NEW r \in {"ok", "err"}, Finish(r)
    PROVE  Returned(r)
BY DEF Finish, After, Returned

\* A name is listed and then dealt with.
LEMMA NameGoes ==
    ASSUME ListNames \/ ApplyName
    PROVE  \/ pc = "listNames" /\ pc' = "applyName" /\ UNCHANGED result
           \/ pc = "applyName" /\ Returned("ok")
BY FinishReturns DEF ListNames, ApplyName, Goto

\* The steps about providers lead to one another, until the binding returns.
LEMMA ProviderGoes ==
    ASSUME ProviderStep
    PROVE  /\ pc \in ProviderSteps
           /\ \/ pc' \in ProviderSteps \ {"listProviders"} /\ UNCHANGED result
              \/ pc = "bindProvider" /\ Returned("ok")
<1>1. CASE ListProviders
  BY <1>1 DEF ListProviders, Goto, ProviderSteps
<1>2. CASE BindProvider
  BY <1>2, FinishReturns DEF BindProvider, ProviderSteps
<1>3. CASE CreateProvider \/ CountLinks \/ SelectProvider \/ DeleteProvider \/ ProvidersDeleted
  BY <1>3 DEF CreateProvider, CountLinks, SelectProvider, DeleteProvider, ProvidersDeleted,
              Goto, ProviderSteps
<1> QED BY <1>1, <1>2, <1>3 DEF ProviderStep

\* The steps about a user lead to one another and to the end.
LEMMA UserGoes ==
    ASSUME UserStep
    PROVE  /\ pc \in UserSteps
           /\ pc' \in (UserSteps \ {"listUsers"}) \cup {"finish"}
           /\ UNCHANGED result
<1>1. CASE ListUsers \/ GetUser \/ Evict \/ Route
  BY <1>1 DEF ListUsers, GetUser, Evict, Route, Goto, UserSteps
<1>2. CASE MarkPending \/ CreateUser \/ Rekey \/ ReadBack \/ UpdateUser \/ PatchUser \/ Patched
  BY <1>2 DEF MarkPending, CreateUser, Rekey, ReadBack, UpdateUser, PatchUser, Patched, Goto, UserSteps
<1>3. CASE SetPassword \/ CommitMarker \/ ClearPending \/ AdoptMarker
  BY <1>3 DEF SetPassword, CommitMarker, ClearPending, AdoptMarker, Goto, UserSteps
<1>4. CASE AuditProvider \/ RequestPasswordReset \/ DeleteUser \/ CreateThrowaway
  BY <1>4 DEF AuditProvider, RequestPasswordReset, DeleteUser, CreateThrowaway, Goto, UserSteps
<1> QED BY <1>1, <1>2, <1>3, <1>4 DEF UserStep

\* The steps about a client lead to one another and to the end.
LEMMA ClientGoes ==
    ASSUME ClientStep
    PROVE  /\ pc \in ClientSteps
           /\ pc' \in (ClientSteps \ {"getClient"}) \cup {"finish"}
           /\ UNCHANGED result
BY DEF ClientStep, GetClient, CreateClient, UpdateClient, DeleteClient, CheckSecretFile,
       RotateSecret, WriteSecretFile, Goto, ClientSteps

\* A step of the reconciliation leaves these parts of the history alone.
LEMMA ReconcileHistory ==
    ASSUME Typed, Reconcile
    PROVE  /\ (ghost').quiet = ghost.quiet /\ (ghost').left = ghost.left
           /\ (ghost').late = ghost.late
           /\ UNCHANGED <<settings, key, faults, changes>>
<1>0. ghost \in History /\ UNCHANGED <<settings, key, faults, changes>>
  BY DEF Typed, Reconcile
<1>1. \/ UNCHANGED ghost
      \/ ghost' = [ghost EXCEPT !.hid = row.id \notin {0, loc.user.id}]
      \/ ghost' = [ghost EXCEPT !.cut = FALSE]
      \/ ghost' = [ghost EXCEPT !.missed = row.id # loc.user.id]
      \/ ghost' = [ghost EXCEPT !.recreated = client.file # 0]
      \/ ghost' = [ghost EXCEPT !.recreated = FALSE]
  <2>1. CASE NameStep \/ ProviderStep \/ Done
    BY <2>1 DEF NameStep, ProviderStep, Done
  <2>2. CASE UserStep
    BY <2>2 DEF UserStep, ListUsers, GetUser, Evict, Route, MarkPending, CreateUser, Rekey,
       ReadBack, UpdateUser, PatchUser, Patched, SetPassword, CommitMarker, ClearPending,
       AdoptMarker, AuditProvider, RequestPasswordReset, DeleteUser, CreateThrowaway
  <2>3. CASE ClientStep
    BY <2>3 DEF ClientStep, GetClient, CreateClient, UpdateClient, DeleteClient, CheckSecretFile,
       RotateSecret, WriteSecretFile
  <2> QED BY <2>1, <2>2, <2>3 DEF Reconcile
<1> QED BY <1>0, <1>1 DEF History

\* A step of the reconciliation goes on in its class or returns with success.
LEMMA ReconcileGoes ==
    ASSUME Typed, InClass, Reconcile
    PROVE  /\ pc \notin Outside
           /\ \/ pc' \notin Outside \cup FirstSteps /\ UNCHANGED result
              \/ pc \in {"applyName", "bindProvider", "finish"} /\ Returned("ok")
           /\ InClass'
<1>1. UNCHANGED settings
  BY DEF Reconcile
<1>2. CASE NameStep
  BY <1>1, <1>2, NameGoes DEF NameStep, Outside, FirstSteps, Returned, InClass, NameSteps, ProviderSteps,
     UserSteps, ClientSteps
<1>3. CASE ProviderStep
  BY <1>1, <1>3, ProviderGoes DEF Outside, FirstSteps, Returned, InClass, NameSteps, ProviderSteps,
     UserSteps, ClientSteps
<1>4. CASE UserStep
  BY <1>1, <1>4, UserGoes DEF Outside, FirstSteps, InClass, NameSteps, ProviderSteps, UserSteps, ClientSteps
<1>5. CASE ClientStep
  BY <1>1, <1>5, ClientGoes DEF Outside, FirstSteps, InClass, NameSteps, ProviderSteps, UserSteps, ClientSteps
<1>6. CASE Done
  BY <1>1, <1>6, FinishReturns DEF Done, Outside, FirstSteps, Returned, InClass, NameSteps, ProviderSteps,
     UserSteps, ClientSteps
<1> QED BY <1>2, <1>3, <1>4, <1>5, <1>6 DEF Reconcile

\* The course of a run: it starts with nothing in memory, and reports success
\* only when it returns.
Orderly ==
    /\ InClass
    /\ pc \in Outside \cup FirstSteps => loc = Blank
    /\ result = "ok" => pc \in {"deleteKey", "idle"}
    /\ pc \in {"mintKey", "rotateKey", "deleteKey"} => settings.transient

\* A run begins in the class of its item.
LEMMA FirstStepInClass ==
    ASSUME Typed
    PROVE  /\ FirstStep \in FirstSteps
           /\ FirstStep = "listNames" <=> settings.focus = "name"
           /\ FirstStep = "listProviders" <=> settings.focus = "provider"
           /\ FirstStep = "listUsers" <=> settings.focus = "user"
           /\ FirstStep = "getClient" <=> settings.focus = "client"
BY FirstStepTyped, ConsideredSetting DEF Typed, FirstSteps

\* Every step keeps a run in order: no class is entered midway or left for another.
LEMMA StepOrderly ==
    ASSUME Typed, Orderly, [Next]_vars
    PROVE  Orderly'
<1>1. CASE Start
  <2>1. /\ pc' = (IF settings.transient THEN "mintKey" ELSE FirstStep) /\ result' = "none"
        /\ UNCHANGED <<settings, loc>> /\ loc = Blank
    BY <1>1 DEF Start, Orderly, Outside
  <2>2. CASE settings.transient
    BY <2>1, <2>2 DEF Orderly, InClass, Outside, FirstSteps, NameSteps, ProviderSteps, UserSteps, ClientSteps
  <2>3. CASE ~settings.transient
    BY <2>1, <2>3, FirstStepInClass
       DEF Orderly, InClass, Outside, FirstSteps, NameSteps, ProviderSteps, UserSteps, ClientSteps
  <2> QED BY <2>2, <2>3
<1>2. CASE RotateKey
  <2>1. /\ pc' = FirstStep /\ UNCHANGED <<settings, loc, result>> /\ loc = Blank /\ result # "ok"
    BY <1>2 DEF RotateKey, Orderly, Outside
  <2> QED BY <2>1, FirstStepInClass
       DEF Orderly, InClass, Outside, FirstSteps, NameSteps, ProviderSteps, UserSteps, ClientSteps
<1>3. CASE MintKey \/ DeleteKey
  BY <1>3 DEF MintKey, DeleteKey, Orderly, InClass, Outside, FirstSteps, NameSteps, ProviderSteps,
              UserSteps, ClientSteps
<1>4. CASE Reconcile
  BY <1>4, ReconcileGoes, ReconcileHistory DEF Orderly, Returned, Outside
<1>5. CASE Rejected \/ FailInside
  BY <1>5, FinishReturns DEF Rejected, FailInside, Returned, Orderly, InClass, Outside, FirstSteps,
     NameSteps, ProviderSteps, UserSteps, ClientSteps
<1>6. CASE FailOutside
  BY <1>6 DEF FailOutside, Orderly, InClass, Outside, FirstSteps, NameSteps, ProviderSteps,
              UserSteps, ClientSteps
<1>7. CASE Kill
  BY <1>7 DEF Kill, Orderly, InClass, Outside, FirstSteps, NameSteps, ProviderSteps,
              UserSteps, ClientSteps
<1>8. CASE ExpireKey \/ Change \/ CacheExpires
  BY <1>8 DEF ExpireKey, Change, CacheExpires, Orderly, InClass
<1>9. CASE Redeclare
  BY <1>9 DEF Redeclare, Orderly, InClass, Outside, FirstSteps, NameSteps, ProviderSteps,
              UserSteps, ClientSteps
<1>10. CASE UNCHANGED vars
  BY <1>10 DEF vars, Orderly, InClass
<1> QED BY <1>1, <1>2, <1>3, <1>4, <1>5, <1>6, <1>7, <1>8, <1>9, <1>10 DEF Next, Advance

\* No run is under way at first.
LEMMA InitOrderly == Init => Orderly
BY DEF Init, Orderly, InClass, Outside, FirstSteps, NameSteps, ProviderSteps, UserSteps, ClientSteps

-----------------------------------------------------------------------------
(* The transient API key.                                                  *)

\* A live key that is nobody's leftover belongs to a run that has minted it and
\* has yet to delete it.
KeyOfRun ==
    key = "live" /\ ~ghost.left => settings.transient /\ pc \notin {"idle", "mintKey"}

\* Every step keeps the account of the transient key.
LEMMA StepKeyOfRun ==
    ASSUME Typed, Orderly, KeyOfRun, [Next]_vars
    PROVE  KeyOfRun'
<1>0. ghost \in History /\ FirstStep \notin {"idle", "mintKey"}
  BY FirstStepInClass DEF Typed, FirstSteps
<1>1. CASE Start
  <2>1. (ghost').left = ghost.left
    BY <1>0, <1>1 DEF Start, History
  <2> QED BY <1>1, <2>1 DEF Start, KeyOfRun
<1>2. CASE MintKey
  BY <1>2 DEF MintKey, KeyOfRun, Orderly
<1>3. CASE RotateKey \/ DeleteKey
  BY <1>0, <1>3 DEF RotateKey, DeleteKey, KeyOfRun
<1>4. CASE Reconcile
  BY <1>4, ReconcileGoes, ReconcileHistory DEF KeyOfRun, Returned, Outside, Orderly
<1>5. CASE Rejected \/ FailInside
  <2>1. (ghost').left = ghost.left
    BY <1>0, <1>5 DEF Rejected, FailInside, History
  <2> QED BY <1>5, <2>1, FinishReturns DEF Rejected, FailInside, Returned, KeyOfRun
<1>6. CASE FailOutside
  <2>1. pc # "mintKey" \/ ghost.left => (ghost').left
    BY <1>0, <1>6 DEF FailOutside, History
  <2> QED BY <1>6, <2>1 DEF FailOutside, KeyOfRun
<1>7. CASE Kill
  <2>1. ghost.left \/ key = "live" => (ghost').left
    BY <1>0, <1>7 DEF Kill, History
  <2> QED BY <1>7, <2>1 DEF Kill, KeyOfRun
<1>8. CASE ExpireKey
  BY <1>8 DEF ExpireKey, KeyOfRun
<1>9. CASE Change
  <2>1. (ghost').left = ghost.left
    BY <1>0, <1>9 DEF Change, History
  <2> QED BY <1>9, <2>1 DEF Change, KeyOfRun
<1>10. CASE Redeclare
  <2>1. (ghost').left = ghost.left
    BY <1>0, <1>10 DEF Redeclare, History
  <2> QED BY <1>10, <2>1 DEF Redeclare, KeyOfRun
<1>11. CASE CacheExpires
  BY <1>11 DEF CacheExpires, KeyOfRun
<1>12. CASE UNCHANGED vars
  BY <1>12 DEF vars, KeyOfRun
<1> QED BY <1>1, <1>2, <1>3, <1>4, <1>5, <1>6, <1>7, <1>8, <1>9, <1>10, <1>11, <1>12
        DEF Next, Advance

\* A live transient key outlasts the run that minted it only if that run was
\* killed, or failed before or at the deletion (run_with_transient_api_key).
THEOREM KeyIsDeleted == Spec => []KeyLeftOnlyForCause
<1>1. Init => KeyOfRun
  BY DEF Init, KeyOfRun
<1>2. KeyOfRun => KeyLeftOnlyForCause
  BY DEF KeyOfRun, KeyLeftOnlyForCause
<1> QED BY <1>1, <1>2, InitTyped, StepTyped, InitOrderly, StepOrderly, StepKeyOfRun, PTL DEF Spec

-----------------------------------------------------------------------------
(* The file with the client's secret.                                      *)

\* The file holds the present secret; a rotation only happens without a file,
\* and what it is about to write is the present secret.
FileOfSecret ==
    /\ SecretFileIsCurrent
    /\ pc \in {"rotateSecret", "writeSecret"} => client.file = 0
    /\ pc = "writeSecret" /\ client.state # "none" => client.secret = loc.secret

\* Every step keeps the secret file in agreement with the client, or remembers why not.
LEMMA StepFileOfSecret ==
    ASSUME Typed, Orderly, FileOfSecret, [Next]_vars
    PROVE  FileOfSecret'
<1>0. /\ ghost \in History /\ loc \in Memory
      /\ client \in [state : Items, secret : Secrets \cup {0}, file : Secrets \cup {0}]
  BY DEF Typed
<1>1. CASE client' = client /\ (ghost').recreated = ghost.recreated
           /\ pc' \notin {"rotateSecret", "writeSecret"}
  BY <1>1 DEF FileOfSecret, SecretFileIsCurrent
<1>2. CASE Start \/ MintKey \/ RotateKey \/ DeleteKey
  <2>1. /\ client' = client /\ (ghost').recreated = ghost.recreated
    BY <1>0, <1>2 DEF Start, MintKey, RotateKey, DeleteKey, world, History
  <2>2. pc' \notin {"rotateSecret", "writeSecret"}
    BY <1>2, FirstStepInClass DEF Start, MintKey, RotateKey, DeleteKey, FirstSteps
  <2> QED BY <1>1, <2>1, <2>2
<1>3. CASE Rejected \/ FailInside \/ FailOutside \/ Kill
  <2>1. /\ client' = client /\ (ghost').recreated = ghost.recreated
    BY <1>0, <1>3 DEF Rejected, FailInside, FailOutside, Kill, world, History
  <2>2. pc' \notin {"rotateSecret", "writeSecret"}
    BY <1>3, FinishReturns DEF Rejected, FailInside, FailOutside, Kill, Returned
  <2> QED BY <1>1, <2>1, <2>2
<1>4. CASE ExpireKey \/ Redeclare \/ CacheExpires \/ UNCHANGED vars
  <2>1. /\ UNCHANGED <<client, pc, loc>> /\ (ghost').recreated = ghost.recreated
    BY <1>0, <1>4 DEF ExpireKey, Redeclare, CacheExpires, vars, world, History
  <2> QED BY <2>1 DEF FileOfSecret, SecretFileIsCurrent
<1>5. CASE Change
  <2>1. /\ UNCHANGED <<pc, loc>> /\ (ghost').recreated = ghost.recreated
    BY <1>0, <1>5 DEF Change, History
  <2>2. CASE ChangeClient
    BY <1>0, <2>1, <2>2 DEF ChangeClient, FileOfSecret, SecretFileIsCurrent
  <2>3. CASE client' = client
    BY <2>1, <2>3 DEF FileOfSecret, SecretFileIsCurrent
  <2> QED BY <1>5, <2>2, <2>3 DEF Change, ChangeName, EditUser, UserAppears, UserDisappears,
             ChangeProvider, NewPasswordFile, LinkUser, world
<1>6. CASE Reconcile
  <2>1. CASE NameStep \/ ProviderStep \/ Done
    <3>1. client' = client /\ ghost' = ghost
      BY <2>1 DEF NameStep, ProviderStep, Done, world
    <3>2. pc' \notin {"rotateSecret", "writeSecret"}
      BY <2>1, NameGoes, ProviderGoes, FinishReturns
         DEF NameStep, Done, Returned, ProviderSteps
    <3> QED BY <1>1, <3>1, <3>2
  <2>2. CASE UserStep
    <3>1. client' = client
      BY <2>2 DEF UserStep
    <3>2. pc' \notin {"rotateSecret", "writeSecret"}
      BY <2>2, UserGoes DEF UserSteps
    <3>3. (ghost').recreated = ghost.recreated
      BY <1>0, <2>2 DEF History, UserStep, ListUsers, GetUser, Evict, Route, MarkPending, CreateUser, Rekey,
       ReadBack, UpdateUser, PatchUser, Patched, SetPassword, CommitMarker, ClearPending,
       AdoptMarker, AuditProvider, RequestPasswordReset, DeleteUser, CreateThrowaway
    <3> QED BY <1>1, <3>1, <3>2, <3>3
  <2>3. CASE GetClient \/ CheckSecretFile
    BY <2>3 DEF GetClient, CheckSecretFile, Goto, FileOfSecret, SecretFileIsCurrent
  <2>4. CASE CreateClient
    <3>1. (ghost').recreated = (client.file # 0)
      BY <1>0, <2>4 DEF CreateClient, History
    <3>2. (client').file = client.file /\ pc' = "updateClient"
      BY <1>0, <2>4 DEF CreateClient, Goto
    <3> QED BY <3>1, <3>2 DEF FileOfSecret, SecretFileIsCurrent
  <2>5. CASE UpdateClient \/ DeleteClient
    BY <1>0, <2>5 DEF UpdateClient, DeleteClient, Goto, FileOfSecret, SecretFileIsCurrent
  <2>6. CASE RotateSecret
    <3>1. (client').file = 0 /\ pc' = "writeSecret"
      BY <1>0, <2>6 DEF RotateSecret, Goto, FileOfSecret
    <3>2. (client').secret = NewSecret /\ (loc').secret = NewSecret
      BY <1>0, <2>6 DEF RotateSecret, Remember, Memory
    <3> QED BY <3>1, <3>2 DEF FileOfSecret, SecretFileIsCurrent
  <2>7. CASE WriteSecretFile
    <3>1. /\ (client').file = loc.secret /\ (client').secret = client.secret
          /\ (client').state = client.state /\ pc' = "finish" /\ pc = "writeSecret"
      BY <1>0, <2>7 DEF WriteSecretFile, Goto
    <3> QED BY <3>1 DEF FileOfSecret, SecretFileIsCurrent
  <2> QED BY <1>6, <2>1, <2>2, <2>3, <2>4, <2>5, <2>6, <2>7 DEF Reconcile, ClientStep
<1> QED BY <1>2, <1>3, <1>4, <1>5, <1>6 DEF Next, Advance

\* The secret file, once there, holds the client's present secret, whatever run
\* wrote it and wherever one was cut short, unless the client was deleted and
\* made again under it (write_client_secret never replaces an existing file).
THEOREM SecretFileCurrent == Spec => []SecretFileIsCurrent
<1>1. Init => FileOfSecret
  BY DEF Init, FileOfSecret, SecretFileIsCurrent
<1>2. FileOfSecret => SecretFileIsCurrent
  BY DEF FileOfSecret
<1> QED BY <1>1, <1>2, InitTyped, StepTyped, InitOrderly, StepOrderly, StepFileOfSecret, PTL DEF Spec

-----------------------------------------------------------------------------
(* The user's row, the cache, and the markers.                             *)

\* What follows the creation or the reading of a user.
AfterCreate == {"rekey", "readBack", "patch", "password", "commitMarker", "clearPending", "audit", "mail"}

\* Why the run is where it is.
Directed ==
    /\ pc \in {"updateUser", "markPending", "createUser"} \cup AfterCreate => settings.present
    /\ pc = "markPending" => settings.kind = "password"
    /\ pc = "createUser" => settings.kind # "federated"
    /\ pc \in {"password", "commitMarker", "clearPending"} => settings.kind = "password"
    /\ pc = "mail" => settings.kind = "email" /\ loc.created
    /\ pc = "deleteUser" => ~settings.present
    /\ pc \in {"createThrowaway", "deleteThrowaway"} =>
          ~settings.present \/ settings.kind = "federated"
    /\ pc = "evict" => ~settings.paged /\ loc.user.id \notin loc.listed
    /\ pc \in UserSteps /\ loc.created => pc \in AfterCreate
    /\ pc \in {"listUsers", "getUser", "evict"} => ~loc.stale

\* An entry of the cache under the row's id is the row.
Coherent == cached.id # 0 /\ cached.id = row.id => cached = row

\* The marker of a pending creation is there from before the row until after
\* its password; the other marker is up to date once the password is dealt with.
MarksKept ==
    settings.kind = "password" =>
        /\ row.by = "tool" /\ row.pw = "none" => marks.pending \/ ghost.missed
        /\ pc = "createUser" => marks.pending
        /\ pc \in UserSteps \ {"audit", "mail"} /\ loc.created => marks.pending
        /\ pc \in {"commitMarker", "clearPending"} /\ row.by = "tool" /\ row.pw = "none" => ghost.missed
        /\ pc = "clearPending" => marks.marker = marks.file
        /\ pc = "audit" => marks.marker = marks.file /\ ~marks.pending

\* One mail for an account that a run created, unless that run was cut short.
MailsKept ==
    settings.kind = "email" /\ row.by = "tool" =>
        /\ row.mails \in {0, 1}
        /\ row.mails = 0 => ghost.cut \/ (loc.created /\ pc \in UserSteps)
        /\ pc \in UserSteps /\ loc.created => row.mails = 0

\* The throwaway row is the one that is about to be deleted, or a run that was
\* cut short left it; nothing else is created for a federated user.
ThrowawaysKept ==
    /\ pc = "deleteThrowaway" =>
          loc.user.id # 0 /\ (row.by = "throwaway" <=> row.id = loc.user.id)
    /\ settings.kind = "federated" =>
          /\ row.by # "tool"
          /\ row.by = "throwaway" => ghost.cut \/ pc = "deleteThrowaway"

\* What a run knows of the row if nobody else changed it.
QuietKnows ==
    ghost.quiet =>
        /\ pc \in {"getUser", "evict"} => loc.listed = {row.id} \ {0}
        /\ pc \in UserSteps \ {"listUsers", "getUser"} /\ loc.user.id = row.id /\ row.granted =>
              loc.user.granted

\* The run works on the row itself, and no ghost of it is cached.
OnRow == row.id = loc.user.id /\ row.id # 0 /\ cached.id \in {0, row.id}

\* The same if the server's list shows all users: then the run knows a ghost.
QuietLists ==
    ghost.quiet /\ ~settings.paged =>
        /\ pc = "route" /\ loc.user.id # 0 =>
              OnRow /\ ~loc.stale /\ loc.user.synced \subseteq row.synced
        /\ pc = "route" /\ loc.user.id = 0 =>
              (row.id = 0 \/ ghost.hid) /\ (loc.stale \/ cached.id = 0)
        /\ pc \in {"markPending", "createUser"} => loc.stale \/ cached.id = 0
        /\ pc \in {"rekey", "deleteUser", "deleteThrowaway"} => row.id = loc.user.id
        /\ pc = "readBack" => row.id # 0 /\ cached.id \in {0, row.id}
        /\ pc \in {"updateUser", "patch", "password", "commitMarker", "clearPending", "audit", "mail"} =>
              OnRow /\ loc.user.synced \subseteq row.synced
        /\ pc \in AfterCreate => "roles" \in row.synced
        /\ pc \in {"password", "commitMarker", "clearPending", "audit", "mail"} => row.synced = Parts

\* A run about to report success, or one that did.
UserDelivered ==
    /\ settings.focus = "user" /\ ~settings.paged
    /\ ghost.quiet /\ ~ghost.hid
    /\ pc = "finish" \/ result = "ok"
    => ~Ghost /\ UserDeclared

UserInv ==
    Directed /\ Coherent /\ MarksKept /\ MailsKept /\ ThrowawaysKept
    /\ QuietKnows /\ QuietLists /\ UserDelivered

\* A step that does not concern the user: it begins or ends the run, or the
\* item is of another class.
Elsewhere ==
    /\ UNCHANGED <<row, cached>>
    /\ (settings').kind = settings.kind /\ (settings').focus = settings.focus
    /\ (settings').paged = settings.paged
    /\ pc' \in UserSteps => pc' = "listUsers" /\ loc' = Blank
    /\ (marks').pending = marks.pending
    /\ (ghost').missed = ghost.missed
    /\ (ghost').cut \/ ((ghost').cut = ghost.cut /\ pc \notin UserSteps)
    /\ settings.focus = "user" /\ (ghost').quiet /\ (pc' = "finish" \/ result' = "ok") =>
          (pc = "finish" \/ result = "ok") /\ UNCHANGED <<settings, marks, ghost>>

\* A step of others, during a run or not.
Meanwhile ==
    /\ UNCHANGED <<settings, pc, loc, result>>
    /\ (ghost').cut = ghost.cut /\ (ghost').missed = ghost.missed /\ (ghost').hid = ghost.hid
    /\ (ghost').quiet => ghost.quiet /\ UNCHANGED <<row, marks>> /\ cached' \in {cached, NoUser}
    /\ Ours => UNCHANGED row
    /\ \/ UNCHANGED <<row, marks>> /\ cached' \in {cached, NoUser}
       \/ EditUser \/ UserAppears \/ UserDisappears
       \/ UNCHANGED <<row, cached>> /\ pc = "idle" /\ (marks').pending = marks.pending

\* For the user, every step is elsewhere, meanwhile, or a step of the reconciliation.
LEMMA SplitSteps ==
    ASSUME Typed, Orderly, [Next]_vars
    PROVE  \/ Elsewhere
           \/ Meanwhile
           \/ /\ UserStep
              /\ UNCHANGED <<settings, result>>
              /\ pc \in UserSteps /\ pc' \in (UserSteps \ {"listUsers"}) \cup {"finish"}
              /\ (ghost').quiet = ghost.quiet
              /\ settings.focus = "user" /\ result # "ok"
<1>0. /\ ghost \in History /\ settings \in Setting
      /\ marks \in [file : {1, 2}, marker : 0..2, pending : BOOLEAN]
      /\ FirstStep \in FirstSteps
      /\ UserSteps \cap (Outside \cup {"finish"}) = {}
      /\ FirstSteps \cap (Outside \cup {"finish"}) = {} /\ FirstSteps \cap UserSteps = {"listUsers"}
  BY ConsideredSetting, FirstStepInClass DEF Typed, UserSteps, FirstSteps, Outside
<1>1. CASE Start
  <2>1. /\ (ghost').missed = ghost.missed /\ (ghost').cut = ghost.cut
        /\ pc = "idle" /\ loc' = loc /\ loc = Blank /\ result' = "none"
        /\ UNCHANGED <<settings, row, cached, marks>>
    BY <1>0, <1>1 DEF Start, History, Orderly, Outside, world
  <2>2. pc' \in {"mintKey", FirstStep}
    BY <1>1 DEF Start
  <2> QED BY <1>0, <2>1, <2>2 DEF Elsewhere, Outside
<1>2. CASE MintKey \/ RotateKey \/ DeleteKey
  <2>1. /\ (ghost').missed = ghost.missed /\ (ghost').cut = ghost.cut
        /\ UNCHANGED <<settings, result, row, cached, marks, loc>>
        /\ pc \in Outside
    BY <1>0, <1>2 DEF MintKey, RotateKey, DeleteKey, History, Outside, world
  <2>2. pc' \in {"rotateKey", "idle", FirstStep} /\ loc = Blank
    BY <1>2 DEF MintKey, RotateKey, DeleteKey, Orderly, Outside
  <2>3. result = "ok" => ghost' = ghost
    BY <1>2 DEF MintKey, RotateKey, DeleteKey, Orderly
  <2> QED BY <1>0, <2>1, <2>2, <2>3 DEF Elsewhere, Outside
<1>3. CASE Reconcile
  <2>1. /\ UNCHANGED settings /\ (ghost').quiet = ghost.quiet /\ result # "ok"
    BY <1>0, <1>3, ReconcileHistory, ReconcileGoes DEF Orderly, Outside
  <2>2. CASE NameStep \/ ProviderStep
    <3>1. UNCHANGED <<row, cached, marks, ghost>> /\ settings.focus # "user"
      BY <2>2, NameGoes, ProviderGoes DEF NameStep, ProviderStep, Orderly, InClass, NameSteps
    <3>2. pc' \notin UserSteps /\ pc \notin UserSteps
      BY <2>2, NameGoes, ProviderGoes DEF NameStep, ProviderStep, Returned, ProviderSteps, UserSteps
    <3> QED BY <1>0, <2>1, <3>1, <3>2 DEF Elsewhere
  <2>3. CASE ClientStep
    <3>1. UNCHANGED <<row, cached, marks>> /\ settings.focus # "user"
      BY <2>3, ClientGoes DEF ClientStep, Orderly, InClass
    <3>2. pc' \notin UserSteps /\ pc \notin UserSteps
      BY <2>3, ClientGoes DEF ClientSteps, UserSteps
    <3>3. (ghost').missed = ghost.missed /\ (ghost').cut = ghost.cut
      BY <1>0, <2>3 DEF ClientStep, GetClient, CreateClient, UpdateClient, DeleteClient,
         CheckSecretFile, RotateSecret, WriteSecretFile, History
    <3> QED BY <1>0, <2>1, <3>1, <3>2, <3>3 DEF Elsewhere
  <2>4. CASE Done
    <3>1. UNCHANGED <<row, cached, marks, ghost>> /\ pc = "finish" /\ Returned("ok")
      BY <2>4, FinishReturns DEF Done, world
    <3> QED BY <1>0, <2>1, <3>1 DEF Elsewhere, Returned, Outside
  <2>5. CASE UserStep
    <3>1. settings.focus = "user"
      BY <2>5, UserGoes DEF Orderly, InClass
    <3> QED BY <2>1, <2>5, <3>1, UserGoes
  <2> QED BY <1>3, <2>2, <2>3, <2>4, <2>5 DEF Reconcile
<1>4. CASE Rejected \/ FailInside
  <2>1. /\ (ghost').missed = ghost.missed /\ (ghost').cut
        /\ UNCHANGED <<settings, row, cached, marks>> /\ Returned("err")
    BY <1>0, <1>4, FinishReturns DEF Rejected, FailInside, History, world
  <2> QED BY <1>0, <2>1 DEF Elsewhere, Returned, Outside
<1>5. CASE FailOutside \/ Kill
  <2>1. (ghost').missed = ghost.missed /\ (ghost').cut
    BY <1>0, <1>5 DEF FailOutside, Kill, History
  <2>2. /\ UNCHANGED <<settings, row, cached>> /\ pc' = "idle" /\ result' = "err"
        /\ marks' \in {marks, [marks EXCEPT !.marker = 0]}
    BY <1>5 DEF FailOutside, Kill, world
  <2>3. (marks').pending = marks.pending
    BY <1>0, <2>2
  <2> QED BY <1>0, <2>1, <2>2, <2>3 DEF Elsewhere, Outside
<1>6. CASE ExpireKey \/ CacheExpires \/ UNCHANGED vars
  BY <1>6 DEF ExpireKey, CacheExpires, vars, world, Meanwhile
<1>7. CASE Change
  <2>1. /\ (ghost').cut = ghost.cut /\ (ghost').missed = ghost.missed /\ (ghost').hid = ghost.hid
        /\ ~(ghost').quiet /\ UNCHANGED <<settings, pc, loc, result>>
    BY <1>0, <1>7 DEF Change, History
  <2>5. ~Ours
    <3>1. changes \in Nat
      BY BoundsAssumption DEF Typed
    <3>2. changes' = changes - 1
      BY <1>7 DEF Change
    <3> QED BY <3>1, <3>2 DEF Ours
  <2>2. CASE ChangeName \/ ChangeProvider \/ ChangeClient \/ \E p \in Providers : LinkUser(p)
    <3>1. UNCHANGED <<row, cached, marks>>
      BY <2>2 DEF ChangeName, ChangeProvider, ChangeClient, LinkUser
    <3> QED BY <2>1, <2>5, <3>1 DEF Meanwhile
  <2>3. CASE NewPasswordFile
    <3>1. UNCHANGED <<row, cached>> /\ pc = "idle" /\ (marks').pending = marks.pending
      BY <1>0, <2>3 DEF NewPasswordFile, world
    <3> QED BY <2>1, <2>5, <3>1 DEF Meanwhile
  <2>4. CASE EditUser \/ UserAppears \/ UserDisappears
    BY <2>1, <2>4, <2>5 DEF Meanwhile
  <2> QED BY <1>7, <2>2, <2>3, <2>4 DEF Change
<1>8. CASE Redeclare
  <2>1. /\ (ghost').missed = ghost.missed /\ (ghost').cut = ghost.cut /\ ~(ghost').quiet
        /\ UNCHANGED <<row, cached, marks>> /\ pc = "idle" /\ pc' = "idle"
    BY <1>0, <1>8 DEF Redeclare, History, world
  <2>2. /\ (settings').kind = settings.kind /\ (settings').focus = settings.focus
        /\ (settings').paged = settings.paged
    BY <1>0, <1>8 DEF Redeclare, Setting
  <2> QED BY <1>0, <2>1, <2>2 DEF Elsewhere, Outside
<1> QED BY <1>1, <1>2, <1>3, <1>4, <1>5, <1>6, <1>7, <1>8 DEF Next, Advance

\* What others do to the row.
LEMMA OthersRow ==
    ASSUME Typed, EditUser \/ UserAppears \/ UserDisappears
    PROVE  /\ UNCHANGED marks
           /\ \/ /\ (row').by = row.by /\ (row').mails = row.mails /\ (row').id = row.id /\ row.id # 0
                 /\ (row').pw \in {row.pw, "own"} /\ cached' = Cached(row')
              \/ /\ (row').by = "other" /\ row.id = 0 /\ (row').id = NewId
                 /\ cached' \in {cached, row'}
              \/ row' = NoUser /\ cached' \in {cached, NoUser}
<1>1. CASE EditUser
  <2>1. row.id # 0 /\ row \in Account
    BY <1>1, AccountFacts DEF EditUser, Typed
  <2>2. CASE row' \in {[row EXCEPT !.pw = "own"], [row EXCEPT !.granted = TRUE],
                      [row EXCEPT !.synced = {}]}
    BY <1>1, <2>1, <2>2 DEF EditUser, Account
  <2>3. CASE \E l \in Linkings : row' = [row EXCEPT !.link = l]
    BY <1>1, <2>1, <2>3 DEF EditUser, Account
  <2> QED BY <1>1, <2>2, <2>3 DEF EditUser
<1>2. CASE UserAppears
  <2>1. NewId \in Ids /\ {} \in SUBSET Parts
    BY FreshIds
  <2>2. NewAccount(NewId, "other", {}) \in Account
    BY <2>1, NewAccountTyped, IdsAssumption DEF Accounts, NoUser
  <2>3. PICK l \in Linkings : row' = [NewAccount(NewId, "other", {}) EXCEPT !.link = l]
    BY <1>2 DEF UserAppears
  <2>4. (row').by = "other" /\ (row').id = NewId
    BY <2>1, <2>2, <2>3, NewAccountTyped DEF Account
  <2> QED BY <1>2, <2>4 DEF UserAppears
<1>3. CASE UserDisappears
  BY <1>3 DEF UserDisappears
<1> QED BY <1>1, <1>2, <1>3

\* Every request about a user is one the declaration calls for.
LEMMA StepDirected ==
    ASSUME Typed, Orderly, Directed, [Next]_vars
    PROVE  Directed'
<1>0. loc \in Memory
  BY DEF Typed
<1>1. CASE Elsewhere
  BY <1>1, BlankTyped DEF Elsewhere, Directed, UserSteps, AfterCreate
<1>2. CASE Meanwhile
  BY <1>2 DEF Meanwhile, Directed
<1>3. CASE UserStep /\ UNCHANGED settings
  <2>1. CASE ListUsers
    <3>1. /\ pc' = "getUser" /\ (loc').created = loc.created /\ pc = "listUsers"
          /\ (loc').stale = loc.stale
      BY <1>0, <2>1 DEF ListUsers, Goto, Remember, Memory
    <3> QED BY <3>1 DEF Directed, UserSteps, AfterCreate
  <2>2. CASE GetUser
    <3>1. /\ (loc').created = loc.created /\ pc = "getUser" /\ (loc').listed = loc.listed
          /\ (loc').user = Read(Answer) /\ (loc').stale = loc.stale
      BY <1>0, <2>2 DEF GetUser, Remember, Memory
    <3>2. Read(Answer).id = Answer.id
      BY ReadTyped DEF Typed, Answer
    <3>3. pc' = IF Answer.id # 0 /\ IsCacheGhost(Answer.id) THEN "evict" ELSE "route"
      BY <2>2 DEF GetUser, Goto
    <3> QED BY <1>3, <3>1, <3>2, <3>3 DEF Directed, UserSteps, AfterCreate, IsCacheGhost
  <2>3. CASE Evict
    <3>1. pc' = "route" /\ (loc').created = loc.created /\ pc = "evict"
      BY <1>0, <2>3 DEF Evict, Goto, Remember, Memory
    <3> QED BY <3>1 DEF Directed, UserSteps, AfterCreate
  <2>4. CASE Route
    <3>1. pc = "route" /\ UNCHANGED loc /\ ~loc.created
      BY <2>4 DEF Route, Directed, UserSteps, AfterCreate
    <3>2. \/ pc' = "updateUser" /\ settings.present
          \/ pc' = "markPending" /\ settings.present /\ settings.kind = "password"
          \/ pc' = "createUser" /\ settings.present /\ settings.kind # "federated"
          \/ pc' = "deleteUser" /\ ~settings.present
          \/ pc' = "createThrowaway" /\ (~settings.present \/ settings.kind = "federated")
          \/ pc' = "finish"
      BY <2>4 DEF Route, Goto, Creates, Found
    <3> QED BY <1>3, <3>1, <3>2 DEF Directed, UserSteps, AfterCreate
  <2>5. CASE MarkPending
    BY <1>3, <2>5 DEF MarkPending, Goto, Directed, UserSteps, AfterCreate
  <2>6. CASE CreateUser
    BY <1>3, <2>6 DEF CreateUser, Goto, Directed, UserSteps, AfterCreate
  <2>7. CASE Rekey \/ UpdateUser
    BY <1>3, <2>7 DEF Rekey, UpdateUser, Goto, Directed, UserSteps, AfterCreate
  <2>8. CASE ReadBack
    BY <1>3, <2>8 DEF ReadBack, Goto, Directed, UserSteps, AfterCreate
  <2>9. CASE PatchUser \/ Patched
    BY <1>3, <2>9 DEF PatchUser, Patched, Goto, Directed, UserSteps, AfterCreate
  <2>10. CASE SetPassword \/ CommitMarker \/ ClearPending \/ AdoptMarker
    BY <1>3, <2>10 DEF SetPassword, CommitMarker, ClearPending, AdoptMarker, Goto, Directed, UserSteps,
       AfterCreate
  <2>11. CASE AuditProvider
    BY <1>3, <2>11 DEF AuditProvider, Goto, Directed, UserSteps, AfterCreate
  <2>12. CASE RequestPasswordReset \/ DeleteUser
    BY <1>3, <2>12 DEF RequestPasswordReset, DeleteUser, Goto, Directed, UserSteps, AfterCreate
  <2>13. CASE CreateThrowaway
    <3>1. /\ pc' = "deleteThrowaway" /\ (loc').created = loc.created /\ pc = "createThrowaway"
      BY <1>0, <2>13 DEF CreateThrowaway, Goto, Remember, Memory
    <3> QED BY <1>3, <3>1 DEF Directed, UserSteps, AfterCreate
  <2> QED BY <1>3, <2>1, <2>2, <2>3, <2>4, <2>5, <2>6, <2>7, <2>8, <2>9, <2>10, <2>11, <2>12, <2>13
          DEF UserStep
<1> QED BY <1>1, <1>2, <1>3, SplitSteps

\* The cache never holds another version of the row that it names.
LEMMA StepCoherent ==
    ASSUME Typed, Orderly, Coherent, [Next]_vars
    PROVE  Coherent'
<1>0. /\ row \in Accounts /\ cached \in Accounts /\ loc \in Memory
      /\ NewId # cached.id /\ NewId # row.id /\ NewId \in Ids
  BY FreshIds DEF Typed
<1>1. CASE Elsewhere
  BY <1>1 DEF Elsewhere, Coherent
<1>2. CASE Meanwhile
  <2>1. CASE UNCHANGED row /\ cached' \in {cached, NoUser}
    BY <2>1, AccountFacts DEF Coherent
  <2>2. CASE EditUser \/ UserAppears \/ UserDisappears
    BY <1>0, <2>2, OthersRow, AccountFacts DEF Coherent, Cached
  <2> QED BY <1>2, <2>1, <2>2 DEF Meanwhile
<1>3. CASE UserStep
  <2>1. CASE UNCHANGED <<row, cached>>
    BY <2>1 DEF Coherent
  <2>2. CASE cached' = NoUser \/ cached' = row'
    BY <2>2, AccountFacts DEF Coherent
  <2>3. CASE GetUser \/ ReadBack
    BY <2>3 DEF GetUser, ReadBack, Answer, Coherent
  <2>4. CASE CreateUser \/ CreateThrowaway
    <3>1. (row').id = NewId
      <4>1. {"roles"} \in SUBSET Parts
        BY DEF Parts
      <4> QED BY <1>0, <2>4, <4>1, NewAccountTyped DEF CreateUser, CreateThrowaway
    <3>2. UNCHANGED cached
      BY <2>4 DEF CreateUser, CreateThrowaway
    <3> QED BY <1>0, <3>1, <3>2 DEF Coherent
  <2>5. CASE RequestPasswordReset
    <3>1. CASE row.id = 0
      BY <2>5, <3>1 DEF RequestPasswordReset, Coherent
    <3>2. CASE row.id # 0
      <4>1. (row').id = row.id /\ cached' = IF cached.id = row.id THEN row' ELSE cached
        BY <1>0, <2>5, <3>2, AccountFacts DEF RequestPasswordReset, Account
      <4> QED BY <4>1 DEF Coherent
    <3> QED BY <3>1, <3>2
  <2>6. CASE Evict
    BY <2>1, <2>2, <2>6 DEF Evict
  <2>7. CASE ListUsers \/ Route \/ MarkPending \/ Patched \/ CommitMarker \/ ClearPending
             \/ AdoptMarker \/ AuditProvider
    BY <2>1, <2>7 DEF ListUsers, Route, MarkPending, Patched, CommitMarker, ClearPending,
       AdoptMarker, AuditProvider
  <2>8. CASE Rekey \/ UpdateUser \/ SetPassword \/ PatchUser
    BY <2>1, <2>2, <2>8 DEF Rekey, UpdateUser, SetPassword, PatchUser, Put
  <2>9. CASE DeleteUser
    BY <2>2, <2>9 DEF DeleteUser
  <2> QED BY <1>3, <2>3, <2>4, <2>5, <2>6, <2>7, <2>8, <2>9 DEF UserStep
<1> QED BY <1>1, <1>2, <1>3, SplitSteps

\* A row that a run has just created.
LEMMA CreatedRow ==
    ASSUME Typed, CreateUser \/ CreateThrowaway
    PROVE  /\ (row').id = NewId /\ NewId # 0 /\ row.id = 0
           /\ (row').by = IF pc = "createUser" THEN "tool" ELSE "throwaway"
           /\ (row').pw = "none" /\ (row').mails = 0 /\ ~(row').granted
           /\ (row').synced = {"roles"}
           /\ (loc').user = row' /\ (loc').stale = loc.stale
           /\ (loc').created <=> (loc.created \/ pc = "createUser")
           /\ UNCHANGED <<cached, marks>> /\ ~(ghost').cut
           /\ (ghost').missed = ghost.missed /\ (ghost').hid = ghost.hid
<1>0. /\ loc \in Memory /\ ghost \in History /\ NewId \in Ids /\ NewId # 0
      /\ {"roles"} \in SUBSET Parts
  BY FreshIds DEF Typed, Parts
<1>1. CASE CreateUser
  <2>1. /\ row' = NewAccount(NewId, "tool", {"roles"}) /\ row.id = 0 /\ pc = "createUser"
        /\ loc' = [loc EXCEPT !.user = row', !.created = TRUE]
        /\ ghost' = [ghost EXCEPT !.cut = FALSE] /\ UNCHANGED <<cached, marks>>
    BY <1>1 DEF CreateUser, Remember
  <2>2. (loc').user = row' /\ (loc').stale = loc.stale /\ (loc').created
    BY <1>0, <2>1 DEF Memory
  <2>3. ~(ghost').cut /\ (ghost').missed = ghost.missed /\ (ghost').hid = ghost.hid
    BY <1>0, <2>1 DEF History
  <2>4. (loc').created \in BOOLEAN /\ loc.created \in BOOLEAN
    BY <1>0, <2>1 DEF Memory
  <2>5. (loc').created <=> (loc.created \/ pc = "createUser")
    BY <2>1, <2>2, <2>4
  <2> QED BY <1>0, <2>1, <2>2, <2>3, <2>5, NewAccountTyped
<1>2. CASE CreateThrowaway
  <2>1. /\ row' = NewAccount(NewId, "throwaway", {"roles"}) /\ row.id = 0 /\ pc = "createThrowaway"
        /\ loc' = [loc EXCEPT !.user = row']
        /\ ghost' = [ghost EXCEPT !.cut = FALSE] /\ UNCHANGED <<cached, marks>>
    BY <1>2 DEF CreateThrowaway, Remember
  <2>2. (loc').user = row' /\ (loc').stale = loc.stale /\ (loc').created = loc.created
    BY <1>0, <2>1 DEF Memory
  <2>3. ~(ghost').cut /\ (ghost').missed = ghost.missed /\ (ghost').hid = ghost.hid
    BY <1>0, <2>1 DEF History
  <2>4. loc.created \in BOOLEAN
    BY <1>0 DEF Memory
  <2>5. (loc').created <=> (loc.created \/ pc = "createUser")
    BY <2>1, <2>2, <2>4
  <2> QED BY <1>0, <2>1, <2>2, <2>3, <2>5, NewAccountTyped
<1> QED BY <1>1, <1>2

\* A row that a run updates.
LEMMA UpdatedRow ==
    ASSUME Typed, Rekey \/ UpdateUser \/ PatchUser \/ SetPassword
    PROVE  /\ (row').id = row.id /\ (row').by = row.by /\ (row').mails = row.mails
           /\ row.synced \subseteq (row').synced
           /\ (row').pw = IF pc = "password" /\ row.id = loc.user.id THEN "initial" ELSE row.pw
           /\ (row').granted = row.granted
                \/ (row.id = loc.user.id /\ (row').granted = loc.user.granted)
           /\ row.id # loc.user.id => UNCHANGED <<row, cached>>
           /\ cached' = row' \/ UNCHANGED <<row, cached>>
           /\ (loc').created = loc.created /\ (loc').user.id = loc.user.id /\ UNCHANGED marks
           /\ (loc').user.granted = loc.user.granted
           /\ loc.user.id # 0
           /\ (ghost').cut = ghost.cut /\ (ghost').hid = ghost.hid
<1>0. /\ loc \in Memory /\ ghost \in History /\ row \in Accounts /\ loc.user \in Accounts
      /\ row.pw \in {"none", "initial", "own"} /\ loc.user.id # 0
  BY AccountFacts DEF Typed, Rekey, UpdateUser, PatchUser, SetPassword, WithUser, Memory
<1>1. CASE Rekey \/ UpdateUser
  <2>1. (Put(row.pw) \/ UNCHANGED <<row, cached>>) /\ UNCHANGED <<marks, loc, ghost>> /\ pc # "password"
    BY <1>1 DEF Rekey, UpdateUser
  <2> QED BY <1>0, <2>1, PutTyped
<1>2. CASE SetPassword
  <2>1. /\ Put("initial") /\ UNCHANGED <<marks, loc>> /\ pc = "password"
        /\ (ghost').cut = ghost.cut /\ (ghost').hid = ghost.hid
    BY <1>0, <1>2 DEF SetPassword, History
  <2> QED BY <1>0, <2>1, PutTyped
<1>3. CASE PatchUser
  <2>1. PICK a \in Aspects :
          /\ IF row.id = loc.user.id
             THEN row' = [row EXCEPT !.synced = @ \cup {a}] /\ cached' = row'
             ELSE UNCHANGED <<row, cached>>
          /\ loc' = [loc EXCEPT !.user.synced = @ \cup {a}]
    BY <1>3 DEF PatchUser, Remember
  <2>2. UNCHANGED <<marks, ghost>> /\ pc = "patch"
    BY <1>3 DEF PatchUser
  <2>3. /\ (loc').created = loc.created /\ (loc').user.id = loc.user.id
        /\ (loc').user.granted = loc.user.granted
    BY <1>0, <2>1, AccountFacts DEF Memory, Account
  <2>4. row.id = loc.user.id => row \in Account
    BY <1>0, AccountFacts
  <2>5. /\ (row').id = row.id /\ (row').by = row.by /\ (row').mails = row.mails
        /\ row.synced \subseteq (row').synced /\ (row').pw = row.pw /\ (row').granted = row.granted
    BY <1>0, <2>1, <2>4 DEF Account
  <2> QED BY <1>0, <2>1, <2>2, <2>3, <2>5
<1> QED BY <1>1, <1>2, <1>3

\* A row that a run may delete, or mails to, or leaves alone.
LEMMA OtherwiseRow ==
    ASSUME Typed, Orderly, UserStep,
           ~(CreateUser \/ CreateThrowaway), ~(Rekey \/ UpdateUser \/ PatchUser \/ SetPassword)
    PROVE  /\ \/ UNCHANGED row
              \/ pc \in {"evict", "deleteUser", "deleteThrowaway"} /\ row' = NoUser
              \/ /\ pc = "mail" /\ row.id # 0 /\ (row').id = row.id /\ (row').by = row.by
                 /\ (row').pw = row.pw /\ (row').mails = row.mails + 1
                 /\ (row').synced = row.synced /\ (row').granted = row.granted
           /\ (loc').created = loc.created
           /\ (ghost').cut = ghost.cut /\ (ghost').missed = ghost.missed
<1>0. /\ loc \in Memory /\ ghost \in History /\ row \in Accounts
  BY DEF Typed
<1>1. CASE ListUsers \/ GetUser \/ ReadBack
  BY <1>0, <1>1 DEF ListUsers, GetUser, ReadBack, Remember, Memory
<1>2. CASE Evict
  BY <1>0, <1>2 DEF Evict, Remember, Memory, History
<1>3. CASE Route \/ MarkPending \/ Patched \/ CommitMarker \/ ClearPending \/ AdoptMarker \/ AuditProvider
  BY <1>3 DEF Route, MarkPending, Patched, CommitMarker, ClearPending, AdoptMarker, AuditProvider
<1>4. CASE RequestPasswordReset
  <2>1. /\ row' = (IF row.id = 0 THEN row ELSE [row EXCEPT !.mails = @ + 1])
        /\ pc = "mail" /\ UNCHANGED <<loc, ghost>>
    BY <1>4 DEF RequestPasswordReset
  <2>2. row.id # 0 => row \in Account
    BY <1>0, AccountFacts
  <2> QED BY <2>1, <2>2 DEF Account
<1>5. CASE DeleteUser
  BY <1>5 DEF DeleteUser
<1> QED BY <1>1, <1>2, <1>3, <1>4, <1>5 DEF UserStep

\* The pending mark is set before an account is made and goes only with its password.
LEMMA StepMarksKept ==
    ASSUME Typed, Orderly, Directed, MarksKept, [Next]_vars
    PROVE  MarksKept'
<1>0. /\ loc \in Memory /\ ghost \in History
      /\ marks \in [file : {1, 2}, marker : 0..2, pending : BOOLEAN]
  BY DEF Typed
<1>1. CASE Elsewhere
  BY <1>1, BlankTyped DEF Elsewhere, MarksKept, UserSteps
<1>2. CASE Meanwhile
  <2>1. CASE UNCHANGED <<row, marks>>
    BY <1>2, <2>1 DEF Meanwhile, MarksKept
  <2>2. CASE EditUser \/ UserAppears \/ UserDisappears
    BY <1>2, <2>2, OthersRow, AccountFacts DEF Meanwhile, MarksKept
  <2>3. CASE UNCHANGED <<row, cached>> /\ pc = "idle" /\ (marks').pending = marks.pending
    BY <1>2, <2>3 DEF Meanwhile, MarksKept, UserSteps
  <2> QED BY <1>2, <2>1, <2>2, <2>3 DEF Meanwhile
<1>3. CASE UserStep /\ UNCHANGED settings
  <2>0. CASE settings.kind # "password"
    BY <1>3, <2>0 DEF MarksKept
  <2>1. CASE CreateUser \/ CreateThrowaway
    <3>1. pc = "createUser" \/ (row').by = "throwaway"
      BY <2>1, CreatedRow
    <3>2. pc' \in {"rekey", "readBack", "deleteThrowaway"}
      BY <2>1 DEF CreateUser, CreateThrowaway, Goto
    <3>3. pc = "createUser" \/ ~loc.created
      BY <2>1 DEF CreateUser, CreateThrowaway, Directed, UserSteps, AfterCreate
    <3> QED BY <1>3, <2>1, <3>1, <3>2, <3>3, CreatedRow DEF MarksKept, UserSteps
  <2>2. CASE Rekey \/ UpdateUser \/ PatchUser
    <3>1. /\ pc' \in {"readBack", "patch"} /\ UNCHANGED ghost
          /\ pc \in {"rekey", "updateUser", "patch"}
      BY <2>2 DEF Rekey, UpdateUser, PatchUser, Goto
    <3> QED BY <1>3, <2>2, <3>1, UpdatedRow DEF MarksKept, UserSteps
  <2>3. CASE SetPassword
    <3>1. pc = "password" /\ pc' = "commitMarker" /\ ((ghost').missed <=> row.id # loc.user.id)
      BY <1>0, <2>3 DEF SetPassword, Goto, History
    <3> QED BY <1>3, <2>3, <3>1, UpdatedRow DEF MarksKept, UserSteps
  <2>4. CASE ListUsers \/ GetUser \/ Evict \/ Route \/ ReadBack \/ Patched \/ AuditProvider
             \/ RequestPasswordReset \/ DeleteUser
    <3>1. UNCHANGED marks
      BY <2>4 DEF ListUsers, GetUser, Evict, Route, ReadBack, Patched, AuditProvider,
                  RequestPasswordReset, DeleteUser
    <3>3. CASE Patched
      BY <1>3, <3>3 DEF Patched, Goto, MarksKept, UserSteps
    <3>4. CASE ~Patched
      <4> SUFFICES ASSUME settings.kind = "password" PROVE MarksKept'
        BY <2>0
      <4>1. ~(CreateUser \/ CreateThrowaway) /\ ~(Rekey \/ UpdateUser \/ PatchUser \/ SetPassword)
        BY <2>4, <3>4 DEF ListUsers, GetUser, Evict, Route, ReadBack, AuditProvider,
                  RequestPasswordReset, DeleteUser, CreateUser, CreateThrowaway, Rekey, UpdateUser,
                  PatchUser, SetPassword
      <4>2. \/ pc \in UserSteps \ {"audit", "mail"} /\ pc' \in {"getUser", "evict", "route", "updateUser",
                  "markPending", "deleteUser", "createThrowaway", "finish", "patch"}
            \/ pc' \in {"mail", "finish"}
        <5>1. pc' # "createUser"
          BY <2>4, <3>4 DEF ListUsers, GetUser, Evict, Route, ReadBack, AuditProvider,
             RequestPasswordReset, DeleteUser, Goto, Creates, MarksKept
        <5> QED BY <2>4, <3>4, <5>1 DEF ListUsers, GetUser, Evict, Route, ReadBack, AuditProvider,
               RequestPasswordReset, DeleteUser, Goto, UserSteps
      <4>3. /\ \/ (row').by = row.by /\ (row').pw = row.pw
               \/ (row').by = "other"
            /\ (loc').created = loc.created /\ (ghost').missed = ghost.missed
        BY <1>3, <4>1, OtherwiseRow, AccountFacts
      <4> QED BY <1>3, <3>1, <4>2, <4>3 DEF MarksKept, UserSteps
    <3> QED BY <3>3, <3>4
  <2>5. CASE MarkPending
    <3>1. (marks').pending /\ pc' = "createUser" /\ UNCHANGED <<row, loc, ghost>>
      BY <1>0, <2>5 DEF MarkPending, Goto
    <3> QED BY <3>1 DEF MarksKept
  <2>6. CASE CommitMarker
    <3>1. /\ (marks').pending = marks.pending /\ (marks').marker = (marks').file
          /\ pc = "commitMarker" /\ pc' = "clearPending" /\ UNCHANGED <<row, loc, ghost>>
      BY <1>0, <2>6 DEF CommitMarker, Goto
    <3> QED BY <1>3, <3>1 DEF MarksKept, UserSteps
  <2>7. CASE ClearPending
    <3>1. /\ ~(marks').pending /\ (marks').marker = marks.marker /\ (marks').file = marks.file
          /\ pc = "clearPending" /\ pc' = "audit" /\ UNCHANGED <<row, loc, ghost>>
      BY <1>0, <2>7 DEF ClearPending, Goto
    <3> QED BY <1>3, <3>1 DEF MarksKept, UserSteps
  <2>8. CASE AdoptMarker
    <3>1. /\ (marks').pending = marks.pending /\ (marks').marker = (marks').file /\ ~marks.pending
          /\ pc' = "audit" /\ UNCHANGED <<row, loc, ghost>>
      BY <1>0, <2>8 DEF AdoptMarker, Goto, PasswordDue
    <3> QED BY <1>3, <3>1 DEF MarksKept, UserSteps
  <2> QED BY <1>3, <2>0, <2>1, <2>2, <2>3, <2>4, <2>5, <2>6, <2>7, <2>8 DEF UserStep
<1> QED BY <1>1, <1>2, <1>3, SplitSteps

\* An account made for a mail gets one at the most.
LEMMA StepMailsKept ==
    ASSUME Typed, Orderly, Directed, MailsKept, [Next]_vars
    PROVE  MailsKept'
<1>0. loc \in Memory /\ ghost \in History /\ row \in Accounts /\ row.mails \in Nat
  BY AccountFacts DEF Typed
<1>1. CASE Elsewhere
  BY <1>1, BlankTyped DEF Elsewhere, MailsKept, UserSteps
<1>2. CASE Meanwhile
  <2>1. CASE UNCHANGED row
    BY <1>2, <2>1 DEF Meanwhile, MailsKept
  <2>2. CASE EditUser \/ UserAppears \/ UserDisappears
    BY <1>2, <2>2, OthersRow, AccountFacts DEF Meanwhile, MailsKept
  <2> QED BY <1>2, <2>1, <2>2 DEF Meanwhile
<1>3. CASE UserStep /\ UNCHANGED settings
  <2> SUFFICES ASSUME settings.kind = "email" PROVE MailsKept'
    BY <1>3 DEF MailsKept
  <2>1. CASE CreateUser
    <3>1. pc = "createUser" /\ pc' \in {"rekey", "readBack"}
      BY <2>1 DEF CreateUser, Goto
    <3> QED BY <1>3, <2>1, <3>1, CreatedRow DEF MailsKept, UserSteps
  <2>2. CASE CreateThrowaway
    <3>1. pc = "createThrowaway"
      BY <2>2 DEF CreateThrowaway
    <3>2. (row').by = "throwaway"
      BY <2>2, <3>1, CreatedRow
    <3> QED BY <1>3, <3>2 DEF MailsKept
  <2>3. CASE Rekey \/ UpdateUser \/ PatchUser \/ SetPassword
    <3>1. pc \in UserSteps /\ pc' \in UserSteps
      BY <2>3 DEF Rekey, UpdateUser, PatchUser, SetPassword, Goto, UserSteps
    <3> QED BY <1>3, <2>3, <3>1, UpdatedRow DEF MailsKept
  <2>4. CASE RequestPasswordReset
    <3>1. ~(CreateUser \/ CreateThrowaway) /\ ~(Rekey \/ UpdateUser \/ PatchUser \/ SetPassword)
      BY <2>4 DEF RequestPasswordReset, CreateUser, CreateThrowaway, Rekey, UpdateUser,
         PatchUser, SetPassword
    <3>2. pc = "mail" /\ pc' = "finish" /\ loc.created
      BY <2>4 DEF RequestPasswordReset, Goto, Directed
    <3>3. CASE row.id = 0
      <4>1. (row').by = "other"
        BY <1>0, <2>4, <3>3, AccountFacts DEF RequestPasswordReset
      <4> QED BY <4>1 DEF MailsKept
    <3>4. CASE row.id # 0
      <4>1. row \in Account /\ row' = [row EXCEPT !.mails = @ + 1]
        BY <1>0, <2>4, <3>4, AccountFacts DEF RequestPasswordReset
      <4>2. (row').mails = row.mails + 1 /\ (row').by = row.by
        BY <4>1 DEF Account
      <4> QED BY <3>2, <4>2 DEF MailsKept, UserSteps
    <3> QED BY <3>3, <3>4
  <2>5. CASE ~(CreateUser \/ CreateThrowaway) /\ ~(Rekey \/ UpdateUser \/ PatchUser \/ SetPassword)
             /\ ~RequestPasswordReset
    <3>1. pc # "mail"
      BY <1>3, <2>5 DEF UserStep, ListUsers, GetUser, Evict, Route, MarkPending, ReadBack, Patched,
         CommitMarker, ClearPending, AdoptMarker, AuditProvider, DeleteUser
    <3>2. pc' \in UserSteps \/ ~loc.created
      BY <1>3, <2>5 DEF UserStep, ListUsers, GetUser, Evict, Route, MarkPending, ReadBack, Patched,
         CommitMarker, ClearPending, AdoptMarker, AuditProvider, DeleteUser, Goto, UserSteps,
         Directed, AfterCreate
    <3>3. /\ UNCHANGED row \/ (row').by = "other"
          /\ (loc').created = loc.created /\ (ghost').cut = ghost.cut
      BY <1>3, <2>5, <3>1, OtherwiseRow, AccountFacts
    <3>4. pc \in UserSteps
      BY <1>3, UserGoes
    <3> QED BY <1>3, <3>2, <3>3, <3>4 DEF MailsKept
  <2> QED BY <2>1, <2>2, <2>3, <2>4, <2>5
<1> QED BY <1>1, <1>2, <1>3, SplitSteps

\* A throwaway account is the run's own, until the run is cut.
LEMMA StepThrowawaysKept ==
    ASSUME Typed, Orderly, Directed, ThrowawaysKept, [Next]_vars
    PROVE  ThrowawaysKept'
<1>0. /\ loc \in Memory /\ ghost \in History /\ row \in Accounts /\ NewId # 0 /\ NewId # loc.user.id
      /\ row.by \in {"tool", "throwaway", "other"} /\ NoUser.by = "other" /\ NoUser.id = 0
  BY FreshIds, AccountFacts DEF Typed
<1>1. CASE Elsewhere
  BY <1>1 DEF Elsewhere, ThrowawaysKept, UserSteps
<1>2. CASE Meanwhile
  <2>1. CASE UNCHANGED row
    BY <1>2, <2>1 DEF Meanwhile, ThrowawaysKept
  <2>2. CASE EditUser \/ UserAppears \/ UserDisappears
    BY <1>0, <1>2, <2>2, OthersRow DEF Meanwhile, ThrowawaysKept
  <2> QED BY <1>2, <2>1, <2>2 DEF Meanwhile
<1>3. CASE UserStep /\ UNCHANGED settings
  <2>1. CASE CreateUser
    <3>1. pc = "createUser" /\ pc' \in {"rekey", "readBack"}
      BY <2>1 DEF CreateUser, Goto
    <3> QED BY <1>3, <2>1, <3>1, CreatedRow DEF ThrowawaysKept, Directed
  <2>2. CASE CreateThrowaway
    <3>1. pc = "createThrowaway" /\ pc' = "deleteThrowaway"
      BY <2>2 DEF CreateThrowaway, Goto
    <3> QED BY <1>3, <2>2, <3>1, CreatedRow DEF ThrowawaysKept
  <2>3. CASE Rekey \/ UpdateUser \/ PatchUser \/ SetPassword
    <3>1. pc # "deleteThrowaway" /\ pc' # "deleteThrowaway"
      BY <2>3 DEF Rekey, UpdateUser, PatchUser, SetPassword, Goto
    <3> QED BY <1>3, <2>3, <3>1, UpdatedRow DEF ThrowawaysKept
  <2>4. CASE DeleteUser
    <3>1. /\ pc' = "finish" /\ UNCHANGED ghost
          /\ \/ row' = NoUser
             \/ row.id # loc.user.id /\ UNCHANGED row
      BY <2>4 DEF DeleteUser, Goto
    <3> QED BY <1>0, <1>3, <3>1 DEF ThrowawaysKept
  <2>5. CASE ~(CreateUser \/ CreateThrowaway) /\ ~(Rekey \/ UpdateUser \/ PatchUser \/ SetPassword)
             /\ ~DeleteUser
    <3>1. pc # "deleteThrowaway" /\ pc' # "deleteThrowaway"
      BY <1>3, <2>5 DEF UserStep, ListUsers, GetUser, Evict, Route, MarkPending, ReadBack, Patched,
         CommitMarker, ClearPending, AdoptMarker, AuditProvider, RequestPasswordReset, Goto
    <3>2. /\ (row').by \in {row.by, "other"} /\ (ghost').cut = ghost.cut
      BY <1>0, <1>3, <2>5, OtherwiseRow
    <3> QED BY <1>3, <3>1, <3>2 DEF ThrowawaysKept
  <2> QED BY <2>1, <2>2, <2>3, <2>4, <2>5
<1> QED BY <1>1, <1>2, <1>3, SplitSteps

\* What an undisturbed run has read of the row remains true.
LEMMA StepQuietKnows ==
    ASSUME Typed, Orderly, Coherent, QuietKnows, [Next]_vars
    PROVE  QuietKnows'
<1>0. /\ loc \in Memory /\ ghost \in History /\ row \in Accounts /\ cached \in Accounts
      /\ loc.user \in Accounts /\ Answer \in Accounts
      /\ ~NoUser.granted /\ NoUser.id = 0
  BY AccountFacts DEF Typed, Memory, Answer
<1>1. CASE Elsewhere
  BY <1>1 DEF Elsewhere, QuietKnows, UserSteps
<1>2. CASE Meanwhile
  BY <1>2 DEF Meanwhile, QuietKnows
<1>3. CASE UserStep /\ (ghost').quiet = ghost.quiet /\ pc \in UserSteps
  <2> SUFFICES ASSUME ghost.quiet PROVE QuietKnows'
    BY <1>3 DEF QuietKnows
  <2>1. CASE ListUsers
    <3>1. (loc').listed = {row.id} \ {0} /\ pc' = "getUser" /\ UNCHANGED row
      BY <1>0, <2>1 DEF ListUsers, Remember, Goto, Memory
    <3> QED BY <3>1 DEF QuietKnows
  <2>2. CASE GetUser
    <3>1. /\ (loc').listed = loc.listed /\ (loc').user = Read(Answer) /\ UNCHANGED row
          /\ pc = "getUser"
      BY <1>0, <2>2 DEF GetUser, Remember, Memory
    <3>2. Answer.id = row.id => Answer.granted = row.granted
      BY DEF Answer, Coherent
    <3>3. Read(Answer).id = Answer.id /\ Read(Answer).granted = Answer.granted
      BY <1>0, ReadTyped
    <3> QED BY <3>1, <3>2, <3>3 DEF QuietKnows
  <2>3. CASE Evict
    <3>1. /\ (loc').listed = loc.listed /\ (loc').user = NoUser /\ pc' = "route"
          /\ row' \in {row, NoUser}
      BY <1>0, <2>3 DEF Evict, Remember, Memory, Goto
    <3>2. (row').id = 0 => ~(row').granted
      BY <1>0, <3>1, AccountFacts
    <3> QED BY <1>0, <3>1, <3>2 DEF QuietKnows
  <2>4. CASE ReadBack
    <3>1. (loc').user = Read(Answer) /\ UNCHANGED row /\ pc' = "patch"
      BY <1>0, <2>4 DEF ReadBack, Remember, Memory, Goto
    <3>2. Answer.id = row.id => Answer.granted = row.granted
      BY DEF Answer, Coherent
    <3>3. Read(Answer).id = Answer.id /\ Read(Answer).granted = Answer.granted
      BY <1>0, ReadTyped
    <3> QED BY <3>1, <3>2, <3>3 DEF QuietKnows
  <2>5. CASE CreateUser \/ CreateThrowaway
    <3>1. pc' \notin {"getUser", "evict"}
      BY <2>5 DEF CreateUser, CreateThrowaway, Goto
    <3> QED BY <2>5, <3>1, CreatedRow DEF QuietKnows
  <2>6. CASE Rekey \/ UpdateUser \/ PatchUser \/ SetPassword
    <3>1. pc' \notin {"getUser", "evict"} /\ pc \notin {"listUsers", "getUser"}
      BY <2>6 DEF Rekey, UpdateUser, PatchUser, SetPassword, Goto
    <3> QED BY <1>3, <2>6, <3>1, UpdatedRow DEF QuietKnows
  <2>7. CASE Route \/ MarkPending \/ Patched \/ CommitMarker \/ ClearPending \/ AdoptMarker \/ AuditProvider
    <3>1. /\ UNCHANGED <<row, loc>> /\ pc' \notin {"getUser", "evict"}
          /\ pc \notin {"listUsers", "getUser"}
      BY <2>7 DEF Route, MarkPending, Patched, CommitMarker, ClearPending, AdoptMarker,
         AuditProvider, Goto
    <3> QED BY <1>3, <3>1 DEF QuietKnows
  <2>8. CASE RequestPasswordReset \/ DeleteUser
    <3>1. pc' = "finish"
      BY <2>8 DEF RequestPasswordReset, DeleteUser, Goto
    <3> QED BY <3>1 DEF QuietKnows, UserSteps
  <2> QED BY <1>3, <2>1, <2>2, <2>3, <2>4, <2>5, <2>6, <2>7, <2>8 DEF UserStep
<1> QED BY <1>1, <1>2, <1>3, SplitSteps

\* With a complete user list an undisturbed run never works on a ghost.
LEMMA StepQuietLists ==
    ASSUME Typed, Orderly, Directed, Coherent, QuietKnows, QuietLists, [Next]_vars
    PROVE  QuietLists'
<1>0. /\ loc \in Memory /\ ghost \in History /\ row \in Accounts /\ cached \in Accounts
      /\ loc.user \in Accounts /\ Answer \in Accounts /\ row.synced \subseteq Parts
      /\ NoUser.id = 0
      /\ Read(Answer).id = Answer.id /\ Read(Answer).synced \subseteq Answer.synced
  BY AccountFacts, ReadTyped DEF Typed, Memory, Answer
<1>1. CASE Elsewhere
  BY <1>1 DEF Elsewhere, QuietLists, UserSteps, AfterCreate
<1>2. CASE Meanwhile
  BY <1>0, <1>2 DEF Meanwhile, QuietLists, OnRow
<1>3. CASE UserStep /\ UNCHANGED settings /\ (ghost').quiet = ghost.quiet /\ pc \in UserSteps
  <2> SUFFICES ASSUME ghost.quiet, ~settings.paged PROVE QuietLists'
    BY <1>3 DEF QuietLists
  <2>1. CASE ListUsers
    BY <2>1 DEF ListUsers, Goto, QuietLists, AfterCreate
  <2>2. CASE GetUser
    <3>1. /\ (loc').stale = loc.stale /\ (loc').user = Read(Answer) /\ UNCHANGED row
          /\ pc = "getUser" /\ cached' = Answer
      BY <1>0, <2>2 DEF GetUser, Remember, Memory
    <3>2. /\ pc' = (IF Answer.id # 0 /\ IsCacheGhost(Answer.id) THEN "evict" ELSE "route")
          /\ loc.listed = {row.id} \ {0} /\ ~loc.stale
      BY <2>2, <3>1 DEF GetUser, Goto, QuietKnows, Directed
    <3>3. CASE Answer.id = 0
      <4>1. row.id = 0 /\ pc' = "route"
        BY <3>2, <3>3 DEF Answer
      <4> QED BY <1>0, <3>1, <3>3, <4>1 DEF QuietLists, AfterCreate
    <3>4. CASE Answer.id # 0 /\ pc' = "route"
      <4>1. Answer.id = row.id
        BY <3>2, <3>4 DEF IsCacheGhost
      <4>2. Answer.synced = row.synced
        BY <4>1 DEF Answer, Coherent
      <4> QED BY <1>0, <3>1, <3>2, <3>4, <4>1, <4>2 DEF QuietLists, AfterCreate, OnRow
    <3>5. CASE pc' = "evict"
      BY <3>5 DEF QuietLists, AfterCreate
    <3> QED BY <3>2, <3>3, <3>4, <3>5
  <2>3. CASE Evict
    <3>1. /\ (loc').user = NoUser /\ pc' = "route"
          /\ (ghost').hid <=> row.id \notin {0, loc.user.id}
          /\ \/ row' = (IF row.id = loc.user.id THEN NoUser ELSE row) /\ cached' = NoUser
             \/ row.id # loc.user.id /\ (loc').stale /\ UNCHANGED row
      BY <1>0, <2>3 DEF Evict, Remember, Memory, Goto, History
    <3>2. (row').id = 0 \/ (ghost').hid
      BY <1>0, <3>1
    <3>3. (loc').stale \/ (cached').id = 0
      BY <1>0, <3>1
    <3> QED BY <1>0, <3>1, <3>2, <3>3 DEF QuietLists, AfterCreate
  <2>4. CASE Route
    <3>1. /\ pc = "route" /\ UNCHANGED <<row, cached, loc>>
          /\ \/ pc' \in {"updateUser", "deleteUser"} /\ loc.user.id # 0
             \/ pc' \in {"markPending", "createUser"} /\ loc.user.id = 0
             \/ pc' \in {"createThrowaway", "finish"}
      BY <2>4 DEF Route, Goto, Found, Creates
    <3> QED BY <3>1 DEF QuietLists, AfterCreate, OnRow
  <2>5. CASE MarkPending
    BY <2>5 DEF MarkPending, Goto, QuietLists, AfterCreate
  <2>6. CASE CreateUser
    <3>1. pc = "createUser" /\ pc' = (IF loc.stale THEN "rekey" ELSE "readBack")
      BY <2>6 DEF CreateUser, Goto
    <3> QED BY <2>6, <3>1, CreatedRow DEF QuietLists, AfterCreate
  <2>7. CASE Rekey
    <3>1. /\ pc = "rekey" /\ pc' = "readBack" /\ Put(row.pw) /\ row.id = loc.user.id
          /\ loc.user.id # 0 /\ row.pw \in {"none", "initial", "own"}
      BY <1>0, <2>7, AccountFacts DEF Rekey, Goto, QuietLists, Typed, WithUser
    <3>2. cached' = row' /\ (row').id = row.id /\ "roles" \in (row').synced
      BY <3>1, PutTyped
    <3> QED BY <3>1, <3>2 DEF QuietLists, AfterCreate
  <2>8. CASE ReadBack
    <3>1. /\ (loc').user = Read(Answer) /\ UNCHANGED row /\ pc' = "patch" /\ pc = "readBack"
          /\ cached' = Answer /\ row.id # 0 /\ cached.id \in {0, row.id} /\ "roles" \in row.synced
      BY <1>0, <2>8 DEF ReadBack, Remember, Memory, Goto, QuietLists, AfterCreate
    <3>2. Answer.id = row.id /\ Answer.synced = row.synced
      BY <3>1 DEF Answer, Coherent
    <3> QED BY <1>0, <3>1, <3>2 DEF QuietLists, AfterCreate, OnRow
  <2>9. CASE UpdateUser
    <3>1. /\ pc = "updateUser" /\ pc' = "patch" /\ OnRow /\ loc.user.synced \subseteq row.synced
          /\ UNCHANGED loc /\ row.pw \in {"none", "initial", "own"}
      BY <1>0, <2>9, AccountFacts DEF UpdateUser, Goto, QuietLists
    <3>2. CASE "roles" \in loc.user.synced
      <4>1. UNCHANGED <<row, cached>>
        BY <2>9, <3>2 DEF UpdateUser
      <4> QED BY <3>1, <3>2, <4>1 DEF QuietLists, AfterCreate, OnRow
    <3>3. CASE "roles" \notin loc.user.synced
      <4>1. Put(row.pw) /\ loc.user.id # 0 /\ row.id = loc.user.id
        BY <2>9, <3>1, <3>3 DEF UpdateUser, OnRow
      <4>2. cached' = row' /\ (row').id = row.id /\ (row').synced = row.synced \cup {"roles"}
        BY <3>1, <4>1, PutTyped
      <4> QED BY <3>1, <4>1, <4>2 DEF QuietLists, AfterCreate, OnRow
    <3> QED BY <3>2, <3>3
  <2>10. CASE PatchUser
    <3>1. /\ pc = "patch" /\ pc' = "patch" /\ OnRow /\ loc.user.synced \subseteq row.synced
          /\ "roles" \in row.synced
      BY <2>10 DEF PatchUser, Goto, QuietLists, AfterCreate
    <3>2. PICK a \in Aspects :
            /\ row' = [row EXCEPT !.synced = @ \cup {a}] /\ cached' = row'
            /\ loc' = [loc EXCEPT !.user.synced = @ \cup {a}]
      BY <2>10, <3>1 DEF PatchUser, Remember, OnRow
    <3>3. row \in Account /\ loc.user \in Account
      BY <1>0, <3>1, AccountFacts DEF OnRow
    <3>4. (loc').user.id = loc.user.id /\ (loc').user.synced = loc.user.synced \cup {a}
      BY <1>0, <3>2, <3>3 DEF Memory, Account
    <3>5. (row').id = row.id /\ (row').synced = row.synced \cup {a}
      BY <3>2, <3>3 DEF Account
    <3> QED BY <3>1, <3>2, <3>4, <3>5 DEF QuietLists, AfterCreate, OnRow
  <2>11. CASE Patched
    <3>1. /\ pc = "patch" /\ pc' \in {"password", "audit"} /\ OnRow
          /\ loc.user.synced \subseteq row.synced /\ Aspects \subseteq loc.user.synced
          /\ "roles" \in row.synced /\ UNCHANGED <<row, cached, loc>>
      BY <2>11 DEF Patched, Goto, QuietLists, AfterCreate
    <3>2. row.synced = Parts
      BY <1>0, <3>1 DEF Parts
    <3> QED BY <3>1, <3>2 DEF QuietLists, AfterCreate, OnRow
  <2>12. CASE SetPassword
    <3>1. /\ pc = "password" /\ pc' = "commitMarker" /\ OnRow /\ UNCHANGED loc /\ Put("initial")
          /\ loc.user.synced \subseteq row.synced /\ row.synced = Parts /\ "roles" \in Parts
      BY <2>12 DEF SetPassword, Goto, QuietLists, AfterCreate, Parts
    <3>2. cached' = row' /\ (row').id = row.id /\ (row').synced = row.synced \cup {"roles"}
      BY <3>1, PutTyped DEF OnRow
    <3> QED BY <3>1, <3>2 DEF QuietLists, AfterCreate, OnRow
  <2>13. CASE CommitMarker \/ ClearPending \/ AdoptMarker \/ AuditProvider
    <3>1. /\ pc \in {"commitMarker", "clearPending", "password", "audit"}
          /\ pc' \in {"clearPending", "audit", "mail", "finish"} /\ UNCHANGED <<row, cached, loc>>
      BY <2>13 DEF CommitMarker, ClearPending, AdoptMarker, AuditProvider, Goto
    <3> QED BY <3>1 DEF QuietLists, AfterCreate, OnRow
  <2>14. CASE RequestPasswordReset \/ DeleteUser
    <3>1. pc' = "finish"
      BY <2>14 DEF RequestPasswordReset, DeleteUser, Goto
    <3> QED BY <3>1 DEF QuietLists, AfterCreate
  <2>15. CASE CreateThrowaway
    <3>1. pc' = "deleteThrowaway"
      BY <2>15 DEF CreateThrowaway, Goto
    <3> QED BY <2>15, <3>1, CreatedRow DEF QuietLists, AfterCreate
  <2> QED BY <1>3, <2>1, <2>2, <2>3, <2>4, <2>5, <2>6, <2>7, <2>8, <2>9, <2>10, <2>11, <2>12,
             <2>13, <2>14, <2>15 DEF UserStep
<1> QED BY <1>1, <1>2, <1>3, SplitSteps

\* A run that ends undisturbed has delivered the user as declared.
LEMMA StepUserDelivered ==
    ASSUME Typed, Orderly, UserInv, [Next]_vars
    PROVE  UserDelivered'
<1>0. /\ row \in Accounts /\ cached \in Accounts /\ ghost \in History /\ loc \in Memory
      /\ NoUser.id = 0 /\ NoUser.pw = "none" /\ NoUser.by = "other"
      /\ row.id = 0 => row = NoUser
      /\ row.by \in {"tool", "throwaway", "other"} /\ row.mails \in Nat
  BY AccountFacts DEF Typed
<1>1. CASE Elsewhere
  <2> SUFFICES ASSUME settings.focus = "user", ~settings.paged, (ghost').quiet, ~(ghost').hid,
                      pc' = "finish" \/ result' = "ok"
               PROVE  ~Ghost' /\ UserDeclared'
    BY <1>1 DEF Elsewhere, UserDelivered
  <2>1. (pc = "finish" \/ result = "ok") /\ UNCHANGED <<settings, marks, ghost, row, cached>>
    BY <1>1 DEF Elsewhere
  <2>2. ~Ghost /\ UserDeclared
    BY <2>1 DEF UserInv, UserDelivered
  <2> QED BY <2>1, <2>2 DEF Ghost, UserDeclared, Acceptable
<1>2. CASE Meanwhile
  <2> SUFFICES ASSUME settings.focus = "user", ~settings.paged, (ghost').quiet, ~(ghost').hid,
                      pc' = "finish" \/ result' = "ok"
               PROVE  ~Ghost' /\ UserDeclared'
    BY <1>2 DEF Meanwhile, UserDelivered
  <2>1. /\ (pc = "finish" \/ result = "ok") /\ UNCHANGED <<settings, marks, row>>
        /\ cached' \in {cached, NoUser} /\ (ghost').cut = ghost.cut /\ (ghost').missed = ghost.missed
        /\ ghost.quiet /\ ~ghost.hid
    BY <1>2 DEF Meanwhile
  <2>2. ~Ghost /\ UserDeclared
    BY <2>1 DEF UserInv, UserDelivered
  <2> QED BY <1>0, <2>1, <2>2 DEF Ghost, UserDeclared, Acceptable
<1>3. CASE UserStep /\ UNCHANGED <<settings, result>> /\ (ghost').quiet = ghost.quiet
           /\ result # "ok"
  <2> SUFFICES ASSUME settings.focus = "user", ~settings.paged, ghost.quiet, ~(ghost').hid,
                      pc' = "finish"
               PROVE  ~Ghost' /\ UserDeclared'
    BY <1>3 DEF UserDelivered
  <2>0. /\ Directed /\ Coherent /\ MarksKept /\ MailsKept /\ ThrowawaysKept /\ QuietLists
        /\ UNCHANGED settings
    BY <1>3 DEF UserInv
  <2>1. CASE Route
    <3>1. /\ pc = "route" /\ UNCHANGED <<row, cached, marks, ghost>>
          /\ \/ ~settings.present /\ loc.user.id # 0 /\ settings.keep
             \/ loc.user.id = 0 /\ ~loc.stale /\ (~settings.present \/ settings.kind = "federated")
      BY <2>1 DEF Route, Goto, Found, Creates
    <3>2. CASE loc.user.id # 0
      BY <2>0, <3>1, <3>2 DEF QuietLists, OnRow, Ghost, UserDeclared
    <3>3. CASE loc.user.id = 0
      BY <1>0, <2>0, <3>1, <3>3 DEF QuietLists, Ghost, UserDeclared
    <3> QED BY <3>2, <3>3
  <2>2. CASE AuditProvider
    <3>1. /\ pc = "audit" /\ UNCHANGED <<row, cached, marks, ghost>> /\ settings.present
          /\ settings.kind = "federated" => Acceptable(Answer)
          /\ settings.kind = "email" => ~loc.created
      BY <2>0, <2>2 DEF AuditProvider, Goto, Directed, AfterCreate
    <3>2. OnRow /\ row.synced = Parts
      BY <2>0, <3>1 DEF QuietLists
    <3>3. ~Ghost' /\ Answer = row
      BY <2>0, <3>1, <3>2 DEF OnRow, Ghost, Answer, Coherent
    <3>4. CASE settings.kind = "federated"
      BY <1>0, <2>0, <3>1, <3>3, <3>4 DEF UserDeclared, ThrowawaysKept, Acceptable
    <3>5. CASE settings.kind = "password"
      BY <2>0, <3>1, <3>2, <3>3, <3>5 DEF UserDeclared, MarksKept, OnRow
    <3>6. CASE settings.kind = "email"
      BY <2>0, <3>1, <3>2, <3>3, <3>6 DEF UserDeclared, MailsKept, OnRow
    <3>7. CASE settings.kind \notin {"federated", "password", "email"}
      BY <2>0, <3>1, <3>2, <3>3, <3>7 DEF UserDeclared, OnRow
    <3> QED BY <3>4, <3>5, <3>6, <3>7
  <2>3. CASE RequestPasswordReset
    <3>1. /\ pc = "mail" /\ UNCHANGED <<marks, ghost>> /\ settings.present
          /\ settings.kind = "email" /\ loc.created
      BY <2>0, <2>3 DEF RequestPasswordReset, Directed, AfterCreate
    <3>2. OnRow /\ row.synced = Parts
      BY <2>0, <3>1 DEF QuietLists
    <3>3. row' = [row EXCEPT !.mails = @ + 1] /\ row \in Account
      BY <1>0, <2>3, <3>2, AccountFacts DEF RequestPasswordReset, OnRow
    <3>4. /\ (row').id = row.id /\ (row').synced = Parts /\ (row').by = row.by
          /\ (row').mails = row.mails + 1
      BY <3>2, <3>3 DEF Account
    <3>5. (cached').id \in {0, row.id}
      BY <2>3, <3>2, <3>4 DEF RequestPasswordReset, OnRow
    <3>6. row.by = "tool" => row.mails = 0
      BY <2>0, <3>1 DEF MailsKept, UserSteps
    <3> QED BY <2>0, <3>1, <3>2, <3>4, <3>5, <3>6 DEF OnRow, Ghost, UserDeclared
  <2>4. CASE DeleteUser
    <3>1. /\ pc \in {"deleteUser", "deleteThrowaway"} /\ cached' = NoUser
          /\ ~settings.present \/ settings.kind = "federated"
      BY <2>0, <2>4 DEF DeleteUser, Directed
    <3>2. row' = NoUser
      BY <2>0, <2>4, <3>1 DEF DeleteUser, QuietLists
    <3> QED BY <1>0, <2>0, <3>1, <3>2 DEF Ghost, UserDeclared
  <2>5. CASE ListUsers \/ GetUser \/ Evict \/ MarkPending \/ CreateUser \/ Rekey \/ ReadBack
    BY <2>5 DEF ListUsers, GetUser, Evict, MarkPending, CreateUser, Rekey, ReadBack, Goto
  <2>6. CASE UpdateUser \/ PatchUser \/ Patched \/ SetPassword \/ CommitMarker \/ ClearPending
             \/ AdoptMarker \/ CreateThrowaway
    BY <2>6 DEF UpdateUser, PatchUser, Patched, SetPassword, CommitMarker, ClearPending,
       AdoptMarker, CreateThrowaway, Goto
  <2> QED BY <1>3, <2>1, <2>2, <2>3, <2>4, <2>5, <2>6 DEF UserStep
<1> QED BY <1>1, <1>2, <1>3, SplitSteps

\* The user's invariant holds at first, with no user.
LEMMA InitUserInv == Init => UserInv
<1> SUFFICES ASSUME Init PROVE UserInv
  OBVIOUS
<1>1. /\ pc = "idle" /\ result = "none" /\ row = NoUser /\ cached = NoUser /\ loc = Blank
  BY DEF Init
<1>2. Directed /\ Coherent /\ QuietKnows /\ QuietLists
  BY <1>1 DEF Directed, Coherent, QuietKnows, QuietLists, UserSteps, AfterCreate
<1>3. MarksKept /\ MailsKept /\ ThrowawaysKept /\ UserDelivered
  BY <1>1, AccountFacts DEF MarksKept, MailsKept, ThrowawaysKept, UserDelivered, UserSteps
<1> QED BY <1>2, <1>3 DEF UserInv

\* The invariant of the user class as a whole.
LEMMA StepUserInv ==
    ASSUME Typed, Orderly, UserInv, [Next]_vars
    PROVE  UserInv'
<1>1. Directed' /\ Coherent' /\ MarksKept' /\ MailsKept' /\ ThrowawaysKept' /\ QuietKnows'
  BY StepDirected, StepCoherent, StepMarksKept, StepMailsKept, StepThrowawaysKept, StepQuietKnows
     DEF UserInv
<1>2. QuietLists'
  BY StepQuietLists DEF UserInv
<1>3. UserDelivered'
  BY StepUserDelivered
<1> QED BY <1>1, <1>2, <1>3 DEF UserInv

\* An account that the program made for a user with an initial password and
\* that has none yet is marked pending, wherever a run was cut short
\* (set_user_initial_password), unless its password was sent to a deleted id.
THEOREM PendingRemembered == Spec => []PasswordNotForgotten
<1>1. UserInv => PasswordNotForgotten
  BY DEF UserInv, MarksKept, PasswordNotForgotten
<1> QED BY <1>1, InitTyped, StepTyped, InitOrderly, StepOrderly, InitUserInv, StepUserInv, PTL DEF Spec

-----------------------------------------------------------------------------
(* What a run may not take away: accounts.                                 *)

\* A step of the program that meets no step of others in this run.
LEMMA StepAccountsKept ==
    ASSUME Typed, Orderly, UserInv, [Next]_vars,
           ghost.quiet, Ours, settings.present, row.id # 0, row.by # "throwaway"
    PROVE  /\ (row').id = row.id
           /\ row.granted => (row').granted
           /\ row.pw = "own" => (row').pw = "own" \/ marks.pending
<1>0. /\ ghost \in History /\ loc \in Memory /\ row \in Accounts
      /\ Directed /\ MarksKept /\ ThrowawaysKept /\ QuietKnows
  BY DEF Typed, UserInv
<1>1. CASE UNCHANGED row
  BY <1>1
<1>2. CASE UserStep
  <2>0. pc \in UserSteps
    BY <1>2, UserGoes
  <2>1. CASE CreateUser \/ CreateThrowaway
    BY <2>1 DEF CreateUser, CreateThrowaway
  <2>2. CASE Rekey \/ UpdateUser \/ PatchUser \/ SetPassword
    <3>1. pc \notin {"listUsers", "getUser"}
      BY <2>2 DEF Rekey, UpdateUser, PatchUser, SetPassword
    <3>2. row.granted /\ row.id = loc.user.id => loc.user.granted
      BY <1>0, <2>0, <3>1 DEF QuietKnows
    <3>3. pc = "password" => marks.pending
      <4> SUFFICES ASSUME pc = "password" PROVE marks.pending
        OBVIOUS
      <4>1. PasswordDue
        BY <2>2 DEF SetPassword, Rekey, UpdateUser, PatchUser
      <4>2. settings.kind = "password"
        BY <1>0 DEF Directed
      <4> QED BY <1>0, <4>1, <4>2 DEF PasswordDue, MarksKept, UserSteps
    <3> QED BY <2>2, <3>2, <3>3, UpdatedRow
  <2>3. CASE RequestPasswordReset
    <3>1. row' = [row EXCEPT !.mails = @ + 1] /\ row \in Account
      BY <1>0, <2>3, AccountFacts DEF RequestPasswordReset
    <3> QED BY <3>1 DEF Account
  <2>4. CASE DeleteUser
    <3>1. pc \in {"deleteUser", "deleteThrowaway"} /\ (row.id = loc.user.id \/ UNCHANGED row)
      BY <2>4 DEF DeleteUser
    <3>2. UNCHANGED row
      BY <1>0, <3>1 DEF Directed, ThrowawaysKept
    <3> QED BY <3>2
  <2>5. CASE Evict
    <3>1. pc = "evict" /\ (row.id = loc.user.id \/ UNCHANGED row)
      BY <2>5 DEF Evict
    <3>2. loc.user.id \notin loc.listed /\ loc.listed = {row.id} \ {0}
      BY <1>0, <3>1 DEF Directed, QuietKnows
    <3>3. UNCHANGED row
      BY <3>1, <3>2
    <3> QED BY <3>3
  <2>6. CASE ListUsers \/ GetUser \/ Route \/ MarkPending \/ ReadBack \/ Patched \/ CommitMarker
             \/ ClearPending \/ AdoptMarker \/ AuditProvider
    BY <2>6 DEF ListUsers, GetUser, Route, MarkPending, ReadBack, Patched, CommitMarker,
       ClearPending, AdoptMarker, AuditProvider
  <2> QED BY <1>2, <2>1, <2>2, <2>3, <2>4, <2>5, <2>6 DEF UserStep
<1>3. CASE Meanwhile
  BY <1>1, <1>3 DEF Meanwhile
<1> QED BY <1>1, <1>2, <1>3, SplitSteps DEF Elsewhere

-----------------------------------------------------------------------------
(* Names, providers and clients.                                           *)

\* A step that begins or ends a run, or goes on outside the reconciliation.
Between ==
    /\ UNCHANGED <<named, links, client>>
    /\ (settings').kind = settings.kind /\ (settings').focus = settings.focus
    /\ pc' \in Outside \cup FirstSteps
    /\ pc' \in FirstSteps => loc' = Blank
    /\ (ghost').quiet /\ result' = "ok" => ghost.quiet /\ result = "ok" /\ UNCHANGED settings

\* A step of others, during a run or not.
Others ==
    /\ UNCHANGED <<settings, pc, loc, result>>
    /\ (ghost').quiet => ghost.quiet /\ UNCHANGED <<named, links, client>>
    /\ named' = "drifted" => named = "drifted" \/ settings.kind = "attribute"
    /\ Ours => UNCHANGED links
    /\ \/ (links').linked \subseteq links.linked /\ (ghost').late = ghost.late
       \/ \E p \in Providers : /\ (links').linked = links.linked \cup {p}
                               /\ (ghost').late = ghost.late \cup {p}

\* For the other classes, every step is between, by others, or of the reconciliation.
LEMMA SplitOthers ==
    ASSUME Typed, Orderly, [Next]_vars
    PROVE  Between \/ Others \/ Reconcile
<1>0. ghost \in History /\ settings \in Setting /\ FirstStep \in FirstSteps
  BY ConsideredSetting, FirstStepInClass DEF Typed
<1>1. CASE Start
  BY <1>0, <1>1 DEF Start, world, Between, Orderly, Outside
<1>2. CASE MintKey \/ RotateKey \/ DeleteKey
  <2>1. (ghost').quiet = ghost.quiet /\ UNCHANGED <<named, links, client, settings, result>>
    BY <1>0, <1>2 DEF MintKey, RotateKey, DeleteKey, History, world
  <2>2. pc' \in {"rotateKey", "idle", FirstStep} /\ UNCHANGED loc /\ loc = Blank
    BY <1>2 DEF MintKey, RotateKey, DeleteKey, Orderly, Outside
  <2> QED BY <1>0, <2>1, <2>2 DEF Between, Outside
<1>3. CASE Rejected \/ FailInside
  <2>1. UNCHANGED <<settings, world>> /\ Returned("err")
    BY <1>3, FinishReturns DEF Rejected, FailInside
  <2> QED BY <2>1 DEF Between, Returned, world, Outside
<1>4. CASE FailOutside \/ Kill
  BY <1>4 DEF FailOutside, Kill, Between, world, Outside, FirstSteps
<1>5. CASE ExpireKey \/ CacheExpires \/ UNCHANGED vars
  BY <1>5 DEF ExpireKey, CacheExpires, vars, world, Others
<1>6. CASE Redeclare
  <2>1. ~(ghost').quiet /\ (settings').kind = settings.kind /\ (settings').focus = settings.focus
    BY <1>0, <1>6 DEF Redeclare, History, Setting
  <2> QED BY <1>6, <2>1 DEF Redeclare, Between, world, Outside, FirstSteps
<1>7. CASE Change
  <2>1. ~(ghost').quiet /\ UNCHANGED <<settings, pc, loc, result>>
    BY <1>0, <1>7 DEF Change, History
  <2>2. ~Ours
    <3>1. changes \in Nat
      BY BoundsAssumption DEF Typed
    <3>2. changes' = changes - 1
      BY <1>7 DEF Change
    <3> QED BY <3>1, <3>2 DEF Ours
  <2>3. CASE ghost' = [ghost EXCEPT !.quiet = FALSE] /\ ~ChangeName /\ ~ChangeProvider
             /\ UNCHANGED <<named, links>>
    <3>1. (ghost').late = ghost.late
      BY <1>0, <2>3 DEF History
    <3> QED BY <2>1, <2>2, <2>3, <3>1 DEF Others
  <2>4. CASE ghost' = [ghost EXCEPT !.quiet = FALSE] /\ ChangeName
    <3>1. (ghost').late = ghost.late
      BY <1>0, <2>4 DEF History
    <3>2. UNCHANGED links /\ (named' = "drifted" => settings.kind = "attribute")
      BY <2>4 DEF ChangeName
    <3> QED BY <2>1, <2>2, <3>1, <3>2 DEF Others
  <2>5. CASE ghost' = [ghost EXCEPT !.quiet = FALSE] /\ ChangeProvider
    <3>1. (ghost').late = ghost.late
      BY <1>0, <2>5 DEF History
    <3>2. UNCHANGED named /\ (links').linked \subseteq links.linked
      <4>1. PICK p \in Providers :
              \/ links' = [links EXCEPT !.ids = @ \cup {p}, !.drift = @ \cup {p}]
              \/ links' = [links EXCEPT !.ids = @ \ {p}, !.linked = @ \ {p}, !.drift = @ \ {p}]
              \/ links' = [links EXCEPT !.drift = @ \cup {p}]
        BY <2>5 DEF ChangeProvider
      <4>2. links \in [ids : SUBSET Providers, linked : SUBSET Providers, drift : SUBSET Providers]
        BY DEF Typed
      <4>3. (links').linked \in {links.linked, links.linked \ {p}}
        BY <4>1, <4>2
      <4> QED BY <2>5, <4>3 DEF ChangeProvider
    <3> QED BY <2>1, <2>2, <3>1, <3>2 DEF Others
  <2>6. ASSUME NEW p \in Providers, LinkUser(p), ghost' = [ghost EXCEPT !.quiet = FALSE, !.late = @ \cup {p}]
        PROVE  Others
    <3>1. (ghost').late = ghost.late \cup {p}
      BY <1>0, <2>6 DEF History
    <3>2. UNCHANGED named /\ (links').linked = links.linked \cup {p}
      BY <2>6 DEF LinkUser, Typed
    <3> QED BY <2>1, <2>2, <3>1, <3>2 DEF Others
  <2>7. CASE ghost' = [ghost EXCEPT !.quiet = FALSE] /\ (EditUser \/ UserAppears \/ UserDisappears
               \/ ChangeClient \/ NewPasswordFile)
    <3>1. (ghost').late = ghost.late
      BY <1>0, <2>7 DEF History
    <3>2. UNCHANGED <<named, links>>
      BY <2>7 DEF EditUser, UserAppears, UserDisappears, ChangeClient, NewPasswordFile, world
    <3> QED BY <2>1, <2>2, <3>1, <3>2 DEF Others
  <2> QED BY <1>7, <2>4, <2>5, <2>6, <2>7 DEF Change
<1> QED BY <1>1, <1>2, <1>3, <1>4, <1>5, <1>6, <1>7 DEF Next, Advance

\* A group, role, attribute or scope.
NameInv ==
    /\ named = "drifted" => settings.kind = "attribute"
    /\ ghost.quiet /\ pc = "applyName" => loc.name = named
    /\ ghost.quiet /\ settings.focus = "name" /\ result = "ok" => NameDeclared

\* What the listing showed of a name decides a request that leaves it as declared.
LEMMA StepNameInv ==
    ASSUME Typed, Orderly, NameInv, [Next]_vars
    PROVE  NameInv'
<1>0. loc \in Memory /\ named \in Items
  BY DEF Typed
<1>1. CASE Between
  BY <1>1 DEF Between, NameInv, NameDeclared, Outside, FirstSteps
<1>2. CASE Others
  BY <1>2 DEF Others, NameInv, NameDeclared
<1>3. CASE Reconcile
  <2>1. UNCHANGED settings /\ (ghost').quiet = ghost.quiet /\ result # "ok"
    BY <1>3, ReconcileHistory, ReconcileGoes DEF Orderly, Outside
  <2>2. CASE ListNames
    <3>1. (loc').name = named /\ pc' = "applyName" /\ UNCHANGED <<named, result>>
      BY <1>0, <2>2 DEF ListNames, Remember, Goto, Memory
    <3> QED BY <2>1, <3>1 DEF NameInv
  <2>3. CASE ApplyName
    <3>1. pc = "applyName" /\ pc' # "applyName"
      BY <2>3, FinishReturns DEF ApplyName, Returned
    <3>2. named' \in {named, "ok", "none"}
      BY <2>3 DEF ApplyName
    <3>3. loc.name = named => NameDeclared'
      BY <1>0, <2>1, <2>3 DEF ApplyName, NameRequest, NameDeclared, Items, NameInv
    <3> QED BY <2>1, <3>1, <3>2, <3>3 DEF NameInv
  <2>4. CASE ProviderStep \/ UserStep \/ ClientStep \/ Done
    <3>1. UNCHANGED named /\ settings.focus # "name"
      BY <2>4, ProviderGoes, UserGoes, ClientGoes
         DEF ProviderStep, UserStep, ClientStep, Done, world, Orderly, InClass
    <3>2. pc' # "applyName"
      BY <2>4, ProviderGoes, UserGoes, ClientGoes, FinishReturns
         DEF Done, Returned, ProviderSteps, UserSteps, ClientSteps
    <3> QED BY <2>1, <3>1, <3>2 DEF NameInv
  <2> QED BY <1>3, <2>2, <2>3, <2>4 DEF Reconcile, NameStep
<1> QED BY <1>1, <1>2, <1>3, SplitOthers

\* A client.
ClientInv ==
    /\ pc \in {"createClient", "updateClient"} => settings.present
    /\ pc = "deleteClient" => ~settings.present
    /\ pc \in {"rotateSecret", "writeSecret"} => settings.kind = "confidential"
    /\ pc = "writeSecret" => loc.secret # 0
    /\ ghost.quiet /\ pc \in {"checkSecret", "rotateSecret", "writeSecret"} =>
          settings.present /\ client.state = "ok"
    /\ ghost.quiet /\ settings.focus = "client" /\ (pc = "finish" \/ result = "ok") => ClientDeclared

\* A client is brought to its declaration before its secret file is looked at.
LEMMA StepClientInv ==
    ASSUME Typed, Orderly, ClientInv, [Next]_vars
    PROVE  ClientInv'
<1>0. /\ loc \in Memory /\ NewSecret # 0
      /\ client \in [state : Items, secret : Secrets \cup {0}, file : Secrets \cup {0}]
  BY FreshIds DEF Typed
<1>1. CASE Between
  BY <1>1 DEF Between, ClientInv, ClientDeclared, Outside, FirstSteps
<1>2. CASE Others
  BY <1>2 DEF Others, ClientInv, ClientDeclared
<1>3. CASE Reconcile
  <2>1. UNCHANGED settings /\ (ghost').quiet = ghost.quiet /\ result # "ok"
    BY <1>3, ReconcileHistory, ReconcileGoes DEF Orderly, Outside
  <2>2. CASE GetClient
    <3>1. /\ UNCHANGED <<client, result>> /\ client.state \in {"none", "drifted", "ok"}
          /\ \/ pc' \in {"createClient", "updateClient"} /\ settings.present
             \/ pc' = "checkSecret" /\ settings.present /\ client.state = "ok"
             \/ pc' = "deleteClient" /\ ~settings.present
             \/ pc' = "finish" /\ ~settings.present /\ (client.state = "none" \/ settings.keep)
      BY <1>0, <2>2 DEF GetClient, Goto, Items
    <3> QED BY <2>1, <3>1 DEF ClientInv, ClientDeclared
  <2>3. CASE CreateClient
    BY <2>1, <2>3 DEF CreateClient, Goto, ClientInv
  <2>4. CASE UpdateClient
    <3>1. (client').state = "ok" /\ pc' = "checkSecret" /\ pc = "updateClient" /\ UNCHANGED result
      BY <1>0, <2>4 DEF UpdateClient, Goto
    <3> QED BY <2>1, <3>1 DEF ClientInv
  <2>5. CASE DeleteClient
    <3>1. (client').state = "none" /\ pc' = "finish" /\ pc = "deleteClient" /\ UNCHANGED result
      BY <1>0, <2>5 DEF DeleteClient, Goto
    <3> QED BY <2>1, <3>1 DEF ClientInv, ClientDeclared
  <2>6. CASE CheckSecretFile
    <3>1. /\ UNCHANGED <<client, result>> /\ pc = "checkSecret"
          /\ \/ pc' = "rotateSecret" /\ settings.kind = "confidential"
             \/ pc' = "finish" /\ (settings.kind = "confidential" => client.file # 0)
      BY <2>6 DEF CheckSecretFile, Goto
    <3> QED BY <2>1, <3>1 DEF ClientInv, ClientDeclared
  <2>7. CASE RotateSecret
    <3>1. /\ (client').state = client.state /\ (loc').secret # 0 /\ UNCHANGED result
          /\ pc = "rotateSecret" /\ pc' = "writeSecret"
      BY <1>0, <2>7 DEF RotateSecret, Remember, Goto, Memory
    <3> QED BY <2>1, <3>1 DEF ClientInv
  <2>8. CASE WriteSecretFile
    <3>1. /\ (client').state = client.state /\ (client').file = loc.secret /\ UNCHANGED result
          /\ pc = "writeSecret" /\ pc' = "finish"
      BY <1>0, <2>8 DEF WriteSecretFile, Goto
    <3> QED BY <2>1, <3>1 DEF ClientInv, ClientDeclared
  <2>9. CASE Done
    <3>1. /\ UNCHANGED client /\ pc = "finish" /\ pc' \in {"idle", "deleteKey"}
      BY <2>9, FinishReturns DEF Done, world, Returned
    <3> QED BY <2>1, <3>1 DEF ClientInv, ClientDeclared
  <2>10. CASE NameStep \/ ProviderStep \/ UserStep
    <3>1. UNCHANGED client /\ settings.focus # "client"
      BY <2>10, NameGoes, ProviderGoes, UserGoes
         DEF NameStep, ProviderStep, UserStep, Orderly, InClass, NameSteps
    <3>2. pc' \notin ClientSteps
      BY <2>10, NameGoes, ProviderGoes, UserGoes
         DEF NameStep, Returned, ProviderSteps, UserSteps, ClientSteps
    <3> QED BY <2>1, <3>1, <3>2 DEF ClientInv, ClientSteps
  <2> QED BY <1>3, <2>2, <2>3, <2>4, <2>5, <2>6, <2>7, <2>8, <2>9, <2>10 DEF Reconcile, ClientStep
<1> QED BY <1>1, <1>2, <1>3, SplitOthers

\* Both hold at first, with nothing read.
LEMMA InitNameClientInv == Init => NameInv /\ ClientInv
BY DEF Init, NameInv, ClientInv

\* What a run has counted: of the providers it has looked at, the linked ones
\* were counted, or were linked since it began.
LinksCounted ==
    /\ pc = "countLinks" =>
          /\ IsFiniteSet(loc.linked)
          /\ (loc.seen \ loc.todo) \cap links.linked \subseteq loc.linked \cup ghost.late
    /\ pc = "deleteProviders" /\ settings.present => loc.todo \cap links.linked \subseteq ghost.late

\* What a run knows of the providers as long as nobody else changes them.
ProvidersKnown ==
    /\ pc = "createProvider" => links.ids = {}
    /\ pc = "countLinks" =>
          /\ loc.seen # {} /\ loc.seen = links.ids /\ loc.drift = links.drift
          /\ loc.todo \subseteq loc.seen
          /\ loc.linked = links.linked \ loc.todo
    /\ pc = "deleteProviders" /\ ~settings.present => links.ids = loc.todo
    /\ pc = "deleteProviders" /\ settings.present =>
          \E c \in links.ids \ links.drift :
              /\ links.linked \subseteq {c} /\ c \notin loc.todo
              /\ settings.keep \/ links.ids = {c} \cup loc.todo
    /\ pc = "bindProvider" => ProviderDeclared
    /\ settings.focus = "provider" /\ result = "ok" => ProviderDeclared

ProviderInv ==
    /\ pc \in {"createProvider", "countLinks"} => settings.present
    /\ pc = "deleteProviders" /\ ~settings.present => ~settings.keep
    /\ LinksCounted
    /\ ghost.quiet => ProvidersKnown

\* Nothing is counted at first.
LEMMA InitProviderInv == Init => ProviderInv
BY DEF Init, ProviderInv, LinksCounted, ProvidersKnown

\* A set of numbers that is not empty has a least one, and LeastId is it.
LEMMA LeastIsLeast ==
    ASSUME NEW S \in SUBSET Nat, S # {}
    PROVE  LeastId(S) \in S /\ \A q \in S : LeastId(S) <= q
<1>1. PICK x \in S : \A y \in S : ~ (<<y, x>> \in OpToRel(<, Nat))
  BY WFMin, NatLessThanWellFounded
<1>2. \A y \in S : ~ (y < x)
  BY <1>1, Zenon DEF OpToRel
<1>3. \A y \in S : x <= y
  BY <1>2
<1> QED BY <1>3 DEF LeastId

\* The canonical provider (select_canonical_provider) is one of those listed,
\* and the only linked one that was counted.
LEMMA CanonicalIsOnlyLinked ==
    ASSUME NEW ids \in SUBSET Providers, ids # {}, NEW linked \in SUBSET Providers,
           IsFiniteSet(linked), Cardinality(linked) <= 1
    PROVE  /\ CanonicalProvider(ids, linked) \in ids \cup linked
           /\ linked \subseteq {CanonicalProvider(ids, linked)}
<1>0. Providers \subseteq Nat
  BY IdsAssumption
<1>1. CASE linked = {}
  <2>1. LeastId(ids) \in ids
    BY <1>0, LeastIsLeast
  <2> QED BY <1>1, <2>1 DEF CanonicalProvider
<1>2. CASE linked # {}
  <2>1. LeastId(linked) \in linked
    BY <1>0, <1>2, LeastIsLeast
  <2>2. Cardinality(linked) = 1
    BY <1>2, FS_CardinalityType, FS_EmptySet
  <2>3. PICK x : linked = {x}
    BY <2>2, FS_Singleton
  <2>4. linked = {LeastId(linked)}
    BY <2>1, <2>3
  <2> QED BY <1>2, <2>4 DEF CanonicalProvider
<1> QED BY <1>1, <1>2

\* What a run has counted stays so, whoever else is linked meanwhile.
LEMMA StepLinksCounted ==
    ASSUME Typed, Orderly, ProviderInv, [Next]_vars
    PROVE  LinksCounted'
<1>0. /\ loc \in Memory /\ LinksCounted
      /\ links \in [ids : SUBSET Providers, linked : SUBSET Providers, drift : SUBSET Providers]
  BY DEF Typed, ProviderInv
<1>1. CASE Between
  BY <1>1 DEF Between, LinksCounted, Outside, FirstSteps
<1>2. CASE Others
  BY <1>0, <1>2 DEF Others, LinksCounted
<1>3. CASE Reconcile
  <2>0. UNCHANGED settings /\ (ghost').late = ghost.late
    BY <1>3, ReconcileHistory
  <2>1. CASE ListProviders
    <3>1. /\ (loc').seen = links.ids /\ (loc').todo = links.ids /\ (loc').linked = loc.linked
          /\ UNCHANGED links /\ loc = Blank
      BY <1>0, <2>1 DEF ListProviders, Remember, Memory, Orderly, FirstSteps
    <3>2. (loc').linked = {} /\ IsFiniteSet({})
      BY <3>1, FS_EmptySet DEF Blank
    <3>3. pc' # "deleteProviders" \/ ~settings.present
      BY <2>1 DEF ListProviders, Goto
    <3> QED BY <2>0, <3>1, <3>2, <3>3 DEF LinksCounted
  <2>2. CASE CountLinks
    <3>1. PICK p \in loc.todo :
            loc' = [loc EXCEPT !.todo = @ \ {p}, !.linked = @ \cup ({p} \cap links.linked)]
      BY <2>2 DEF CountLinks, Remember
    <3>2. /\ (loc').seen = loc.seen /\ (loc').todo = loc.todo \ {p}
          /\ (loc').linked = loc.linked \cup ({p} \cap links.linked)
      BY <1>0, <3>1 DEF Memory
    <3>3. pc = "countLinks" /\ pc' = "countLinks" /\ UNCHANGED links
      BY <2>2 DEF CountLinks, Goto
    <3>4. IsFiniteSet((loc').linked)
      <4>1. IsFiniteSet(loc.linked)
        BY <1>0, <3>3 DEF LinksCounted
      <4>2. (loc').linked = loc.linked \/ (loc').linked = loc.linked \cup {p}
        BY <3>2
      <4> QED BY <4>1, <4>2, FS_AddElement
    <3>5. ((loc').seen \ (loc').todo) \cap links.linked \subseteq (loc').linked \cup ghost.late
      BY <1>0, <3>2, <3>3 DEF LinksCounted
    <3> QED BY <2>0, <3>3, <3>4, <3>5 DEF LinksCounted
  <2>3. CASE SelectProvider
    <3> DEFINE c == CanonicalProvider(loc.seen, loc.linked)
    <3>1. pc = "countLinks" /\ loc.todo = {} /\ Cardinality(loc.linked) <= 1
      BY <2>3 DEF SelectProvider
    <3>2. (loc').todo \in {{}, loc.seen \ {c}}
      BY <1>0, <2>3 DEF SelectProvider, Remember, Memory
    <3>3. (links').linked = links.linked
      BY <1>0, <2>3 DEF SelectProvider
    <3>4. pc' = "deleteProviders"
      BY <2>3 DEF SelectProvider, Goto
    <3>5. CASE loc.seen = {}
      BY <2>0, <3>2, <3>4, <3>5 DEF LinksCounted
    <3>6. CASE loc.seen # {}
      <4>1. loc.linked \subseteq {c}
        BY <1>0, <3>1, <3>6, CanonicalIsOnlyLinked DEF LinksCounted, Memory
      <4>2. loc.seen \cap links.linked \subseteq loc.linked \cup ghost.late
        BY <1>0, <3>1 DEF LinksCounted
      <4> HIDE DEF c
      <4>3. (loc').todo \cap links.linked \subseteq ghost.late
        BY <3>2, <4>1, <4>2
      <4> QED BY <2>0, <3>3, <3>4, <4>3 DEF LinksCounted
    <3> QED BY <3>5, <3>6
  <2>4. CASE DeleteProvider
    <3>1. PICK p \in loc.todo :
            /\ links' = [links EXCEPT !.ids = @ \ {p}, !.linked = @ \ {p}, !.drift = @ \ {p}]
            /\ loc' = [loc EXCEPT !.todo = @ \ {p}]
      BY <2>4 DEF DeleteProvider, Remember
    <3>2. (links').linked = links.linked \ {p} /\ (loc').todo = loc.todo \ {p}
      BY <1>0, <3>1 DEF Memory
    <3>3. pc = "deleteProviders" /\ pc' = "deleteProviders"
      BY <2>4 DEF DeleteProvider, Goto
    <3> QED BY <1>0, <2>0, <3>2, <3>3 DEF LinksCounted
  <2>5. CASE CreateProvider \/ ProvidersDeleted \/ BindProvider
    BY <2>5, FinishReturns DEF CreateProvider, ProvidersDeleted, BindProvider, Goto, Returned, LinksCounted
  <2>6. CASE NameStep \/ UserStep \/ ClientStep \/ Done
    <3>1. pc' \notin ProviderSteps
      BY <2>6, NameGoes, UserGoes, ClientGoes, FinishReturns
         DEF NameStep, Done, Returned, ProviderSteps, UserSteps, ClientSteps
    <3> QED BY <3>1 DEF LinksCounted, ProviderSteps
  <2> QED BY <1>3, <2>1, <2>2, <2>3, <2>4, <2>5, <2>6 DEF Reconcile, ProviderStep
<1> QED BY <1>1, <1>2, <1>3, SplitOthers

\* A provider request of a run that nobody disturbs keeps what the run knows.
LEMMA ProviderStepKnows ==
    ASSUME Typed, Orderly, ProviderInv, ghost.quiet, ProviderStep, UNCHANGED settings
    PROVE  ProvidersKnown'
<1>0. /\ loc \in Memory /\ LinksCounted /\ ProvidersKnown
      /\ links \in [ids : SUBSET Providers, linked : SUBSET Providers, drift : SUBSET Providers]
      /\ links.linked \subseteq links.ids /\ links.drift \subseteq links.ids
      /\ result # "ok"
  BY ProviderGoes DEF Typed, ProviderInv, Orderly, ProviderSteps
<1>1. CASE ListProviders
  <2>1. /\ (loc').seen = links.ids /\ (loc').todo = links.ids /\ (loc').drift = links.drift
        /\ (loc').linked = loc.linked /\ UNCHANGED <<links, result>> /\ loc = Blank
    BY <1>0, <1>1 DEF ListProviders, Remember, Goto, Memory, Orderly, FirstSteps
  <2>2. (loc').linked = {}
    BY <2>1 DEF Blank
  <2>3. \/ pc' = "createProvider" /\ links.ids = {}
        \/ pc' = "countLinks" /\ links.ids # {}
        \/ pc' = "deleteProviders" /\ ~settings.present
        \/ pc' = "bindProvider" /\ ~settings.present /\ settings.keep
    BY <1>1 DEF ListProviders, Goto
  <2> QED BY <1>0, <2>1, <2>2, <2>3 DEF ProvidersKnown, ProviderDeclared
<1>2. CASE CreateProvider
  <2>1. PICK p \in Providers : links' = [links EXCEPT !.ids = @ \cup {p}]
    BY <1>2 DEF CreateProvider
  <2>2. links.ids = {} /\ pc' = "bindProvider" /\ UNCHANGED result /\ settings.present
    BY <1>0, <1>2 DEF CreateProvider, Goto, ProvidersKnown, ProviderInv
  <2>3. (links').ids = {p} /\ (links').linked = {} /\ (links').drift = {}
    BY <1>0, <2>1, <2>2
  <2> QED BY <1>0, <2>2, <2>3 DEF ProvidersKnown, ProviderDeclared
<1>3. CASE CountLinks
  <2>1. PICK p \in loc.todo :
          loc' = [loc EXCEPT !.todo = @ \ {p}, !.linked = @ \cup ({p} \cap links.linked)]
    BY <1>3 DEF CountLinks, Remember
  <2>2. /\ (loc').seen = loc.seen /\ (loc').todo = loc.todo \ {p} /\ (loc').drift = loc.drift
        /\ (loc').linked = loc.linked \cup ({p} \cap links.linked)
    BY <1>0, <2>1 DEF Memory
  <2>3. pc = "countLinks" /\ pc' = "countLinks" /\ UNCHANGED <<links, result>>
    BY <1>3 DEF CountLinks, Goto
  <2>4. /\ (loc').seen # {} /\ (loc').seen = links.ids /\ (loc').drift = links.drift
        /\ (loc').todo \subseteq (loc').seen
    BY <1>0, <2>2, <2>3 DEF ProvidersKnown
  <2>5. (loc').linked = links.linked \ (loc').todo
    BY <1>0, <2>2, <2>3 DEF ProvidersKnown
  <2> QED BY <1>0, <2>3, <2>4, <2>5 DEF ProvidersKnown
<1>4. CASE SelectProvider
  <2> DEFINE c == CanonicalProvider(loc.seen, loc.linked)
  <2>1. pc = "countLinks" /\ loc.todo = {} /\ Cardinality(loc.linked) <= 1 /\ UNCHANGED result
    BY <1>4 DEF SelectProvider, Goto
  <2>2. /\ loc.seen # {} /\ loc.seen = links.ids /\ loc.drift = links.drift
        /\ loc.linked = links.linked
    BY <1>0, <2>1 DEF ProvidersKnown
  <2>3. links.linked \subseteq {c} /\ c \in links.ids
    <3>1. c \in loc.seen \cup loc.linked /\ loc.linked \subseteq {c}
      BY <1>0, <2>1, <2>2, CanonicalIsOnlyLinked DEF LinksCounted, Memory
    <3> QED BY <1>0, <2>2, <3>1
  <2>4. /\ links' = IF c \in loc.drift THEN [links EXCEPT !.drift = @ \ {c}] ELSE links
        /\ loc' = [loc EXCEPT !.todo = IF settings.keep THEN {} ELSE loc.seen \ {c}]
        /\ pc' = "deleteProviders" /\ settings.present
    BY <1>4, <2>1 DEF SelectProvider, Remember, Goto, ProviderInv
  <2> HIDE DEF c
  <2>5. /\ (links').ids = links.ids /\ (links').linked = links.linked
        /\ c \notin (links').drift
    BY <1>0, <2>2, <2>4
  <2>6. (loc').todo = IF settings.keep THEN {} ELSE loc.seen \ {c}
    BY <1>0, <2>4 DEF Memory
  <2>7. c \notin (loc').todo /\ (settings.keep \/ (links').ids = {c} \cup (loc').todo)
    BY <2>2, <2>3, <2>5, <2>6
  <2>8. \E k \in (links').ids \ (links').drift :
           /\ (links').linked \subseteq {k} /\ k \notin (loc').todo
           /\ settings.keep \/ (links').ids = {k} \cup (loc').todo
    BY <2>3, <2>5, <2>7
  <2> QED BY <1>0, <2>1, <2>4, <2>8 DEF ProvidersKnown
<1>5. CASE DeleteProvider
  <2>1. PICK p \in loc.todo :
          /\ links' = [links EXCEPT !.ids = @ \ {p}, !.linked = @ \ {p}, !.drift = @ \ {p}]
          /\ loc' = [loc EXCEPT !.todo = @ \ {p}]
    BY <1>5 DEF DeleteProvider, Remember
  <2>2. /\ (links').ids = links.ids \ {p} /\ (links').linked = links.linked \ {p}
        /\ (links').drift = links.drift \ {p} /\ (loc').todo = loc.todo \ {p}
    BY <1>0, <2>1 DEF Memory
  <2>3. pc = "deleteProviders" /\ pc' = "deleteProviders" /\ UNCHANGED result
    BY <1>5 DEF DeleteProvider, Goto
  <2>4. CASE ~settings.present
    BY <1>0, <2>2, <2>3, <2>4 DEF ProvidersKnown
  <2>5. CASE settings.present
    <3>1. PICK c \in links.ids \ links.drift :
              /\ links.linked \subseteq {c} /\ c \notin loc.todo
              /\ settings.keep \/ links.ids = {c} \cup loc.todo
      BY <1>0, <2>3, <2>5 DEF ProvidersKnown
    <3>2. /\ c \in (links').ids \ (links').drift
          /\ (links').linked \subseteq {c} /\ c \notin (loc').todo
          /\ settings.keep \/ (links').ids = {c} \cup (loc').todo
      BY <2>2, <3>1
    <3> QED BY <1>0, <2>3, <2>5, <3>2 DEF ProvidersKnown
  <2> QED BY <2>4, <2>5
<1>6. CASE ProvidersDeleted
  <2>1. /\ pc = "deleteProviders" /\ pc' = "bindProvider" /\ loc.todo = {}
        /\ UNCHANGED <<links, loc, result>>
    BY <1>6 DEF ProvidersDeleted, Goto
  <2>2. ProviderDeclared
    <3>1. CASE ~settings.present
      BY <1>0, <2>1, <3>1 DEF ProvidersKnown, ProviderDeclared
    <3>2. CASE settings.present
      BY <1>0, <2>1, <3>2 DEF ProvidersKnown, ProviderDeclared
    <3> QED BY <3>1, <3>2
  <2>3. ProviderDeclared'
    BY <2>1, <2>2 DEF ProviderDeclared
  <2> QED BY <1>0, <2>1, <2>3 DEF ProvidersKnown
<1>7. CASE BindProvider
  <2>1. pc = "bindProvider" /\ pc' \in {"deleteKey", "idle"} /\ UNCHANGED links
    BY <1>7, FinishReturns DEF BindProvider, Returned
  <2>2. ProviderDeclared'
    BY <1>0, <2>1 DEF ProvidersKnown, ProviderDeclared
  <2> QED BY <2>1, <2>2 DEF ProvidersKnown
<1> QED BY <1>1, <1>2, <1>3, <1>4, <1>5, <1>6, <1>7 DEF ProviderStep

\* The invariant of the providers as a whole.
LEMMA StepProviderInv ==
    ASSUME Typed, Orderly, ProviderInv, [Next]_vars
    PROVE  ProviderInv'
<1>1. LinksCounted'
  BY StepLinksCounted
<1>2. CASE Between
  BY <1>1, <1>2 DEF Between, ProviderInv, ProvidersKnown, ProviderDeclared, Outside, FirstSteps
<1>3. CASE Others
  BY <1>1, <1>3 DEF Others, ProviderInv, ProvidersKnown, ProviderDeclared
<1>4. CASE Reconcile
  <2>1. /\ UNCHANGED settings /\ (ghost').quiet = ghost.quiet /\ result # "ok"
    BY <1>4, ReconcileHistory, ReconcileGoes DEF Orderly, Outside
  <2>2. CASE ProviderStep
    <3>1. /\ pc' \in {"createProvider", "countLinks"} => settings.present
          /\ pc' = "deleteProviders" /\ ~settings.present => ~settings.keep
      <4>1. CASE ListProviders
        BY <4>1 DEF ListProviders, Goto
      <4>2. CASE BindProvider
        BY <4>2, FinishReturns DEF BindProvider, Returned
      <4>3. CASE CreateProvider \/ CountLinks \/ SelectProvider \/ DeleteProvider \/ ProvidersDeleted
        BY <4>3 DEF CreateProvider, CountLinks, SelectProvider, DeleteProvider, ProvidersDeleted,
           Goto, ProviderInv
      <4> QED BY <2>2, <4>1, <4>2, <4>3 DEF ProviderStep
    <3>2. ghost.quiet => ProvidersKnown'
      BY <2>1, <2>2, ProviderStepKnows
    <3> QED BY <1>1, <2>1, <3>1, <3>2 DEF ProviderInv
  <2>3. CASE NameStep \/ UserStep \/ ClientStep \/ Done
    <3>1. UNCHANGED links /\ settings.focus # "provider"
      BY <2>3, NameGoes, UserGoes, ClientGoes
         DEF NameStep, UserStep, ClientStep, Done, world, Orderly, InClass, NameSteps
    <3>2. pc' \notin ProviderSteps
      BY <2>3, NameGoes, UserGoes, ClientGoes, FinishReturns
         DEF NameStep, Done, Returned, ProviderSteps, UserSteps, ClientSteps
    <3> QED BY <1>1, <2>1, <3>1, <3>2 DEF ProviderInv, ProvidersKnown, ProviderSteps
  <2> QED BY <1>4, <2>2, <2>3 DEF Reconcile
<1> QED BY <1>2, <1>3, <1>4, SplitOthers

-----------------------------------------------------------------------------
(* What a run delivers, and what it leaves alone.                          *)

RauthyInv == Typed /\ Orderly /\ UserInv /\ NameInv /\ ClientInv /\ ProviderInv

\* The classes do not disturb each other: together they are an invariant.
LEMMA RauthyInvariant == Spec => []RauthyInv
<1>1. Init => RauthyInv
  BY InitTyped, InitOrderly, InitUserInv, InitNameClientInv, InitProviderInv DEF RauthyInv
<1>2. RauthyInv /\ [Next]_vars => RauthyInv'
  BY StepTyped, StepOrderly, StepUserInv, StepNameInv, StepClientInv, StepProviderInv DEF RauthyInv
<1> QED BY <1>1, <1>2, PTL DEF Spec

\* A run that reports success, and was not disturbed, has brought the server to
\* its declaration, whatever the class of its item, and left no ghost behind.
THEOREM SuccessDeclares == Spec => []SuccessMeansDeclared
<1>1. ASSUME RauthyInv, pc = "idle", result = "ok", ghost.quiet, ~ghost.hid
      PROVE  CASE settings.focus = "name" -> NameDeclared
               [] settings.focus = "provider" -> ProviderDeclared
               [] settings.focus = "user" -> settings.paged \/ (~Ghost /\ UserDeclared)
               [] settings.focus = "client" -> ClientDeclared
  <2>1. settings.focus = "name" => NameDeclared
    BY <1>1 DEF RauthyInv, NameInv
  <2>2. settings.focus = "provider" => ProviderDeclared
    BY <1>1 DEF RauthyInv, ProviderInv, ProvidersKnown
  <2>3. settings.focus = "user" => settings.paged \/ (~Ghost /\ UserDeclared)
    BY <1>1 DEF RauthyInv, UserInv, UserDelivered
  <2>4. settings.focus = "client" => ClientDeclared
    BY <1>1 DEF RauthyInv, ClientInv
  <2>5. settings.focus \in {"name", "provider", "user", "client"}
    BY <1>1, ConsideredSetting DEF RauthyInv, Typed
  <2> QED BY <2>1, <2>2, <2>3, <2>4, <2>5
<1>2. RauthyInv => SuccessMeansDeclared
  BY <1>1 DEF SuccessMeansDeclared
<1> QED BY <1>2, RauthyInvariant, PTL

\* A step of the program that deletes a provider deletes no linked one, unless
\* the link was made during this very run.
LEMMA StepLinkedKept ==
    ASSUME Typed, Orderly, ProviderInv, [Next]_vars, Ours, settings.present
    PROVE  links.linked \ (links').linked \subseteq ghost.late
<1>0. links \in [ids : SUBSET Providers, linked : SUBSET Providers, drift : SUBSET Providers]
  BY DEF Typed
<1>1. CASE UNCHANGED links
  BY <1>1
<1>2. CASE ProviderStep
  <2>1. CASE CreateProvider \/ SelectProvider
    <3>1. (links').linked = links.linked
      <4>1. CASE CreateProvider
        BY <1>0, <4>1 DEF CreateProvider
      <4>2. CASE SelectProvider
        BY <1>0, <4>2 DEF SelectProvider
      <4> QED BY <2>1, <4>1, <4>2
    <3> QED BY <3>1
  <2>2. CASE DeleteProvider
    <3>1. PICK p \in loc.todo :
            links' = [links EXCEPT !.ids = @ \ {p}, !.linked = @ \ {p}, !.drift = @ \ {p}]
      BY <2>2 DEF DeleteProvider
    <3>2. pc = "deleteProviders" /\ (links').linked = links.linked \ {p}
      BY <1>0, <2>2, <3>1 DEF DeleteProvider
    <3> QED BY <3>2 DEF ProviderInv, LinksCounted
  <2>3. CASE ListProviders \/ CountLinks \/ ProvidersDeleted \/ BindProvider
    BY <2>3 DEF ListProviders, CountLinks, ProvidersDeleted, BindProvider
  <2> QED BY <1>2, <2>1, <2>2, <2>3 DEF ProviderStep
<1>3. CASE NameStep \/ UserStep \/ ClientStep \/ Done
  BY <1>1, <1>3 DEF NameStep, UserStep, ClientStep, Done, world
<1> QED BY <1>1, <1>2, <1>3, SplitOthers DEF Between, Others, Reconcile

\* No step of a run takes away what a user holds: the account of a declared
\* user, a password of their own, a role granted by hand, or the provider they
\* sign in with.
THEOREM NothingIsTakenAway == Spec => NothingTakenAway
<1> DEFINE Kept ==
        ghost.quiet /\ Ours /\ settings.present /\ row.id # 0 /\ row.by # "throwaway" =>
          /\ (row').id = row.id
          /\ row.granted => (row').granted
          /\ row.pw = "own" => (row').pw = "own" \/ marks.pending
<1> DEFINE Linked == Ours /\ settings.present => links.linked \ (links').linked \subseteq ghost.late
<1>1. RauthyInv /\ [Next]_vars => Kept
  BY StepAccountsKept DEF RauthyInv
<1>2. RauthyInv /\ [Next]_vars => Linked
  BY StepLinkedKept DEF RauthyInv
<1>3. AccountsKept <=> [][Kept]_vars
  BY DEF AccountsKept
<1>4. LinkedProviderKept <=> [][Linked]_vars
  BY DEF LinkedProviderKept
<1> HIDE DEF Kept, Linked
<1> QED BY <1>1, <1>2, <1>3, <1>4, RauthyInvariant, PTL DEF Spec, NothingTakenAway
=============================================================================

--------------------------- MODULE RauthyProvision ---------------------------
(***************************************************************************)
(* rauthy-provision: one run reads the declared groups, roles, attributes, *)
(* scopes, upstream providers, users and clients and brings a Rauthy       *)
(* server to them over its admin API (crates/rauthy-provision).  It keeps  *)
(* three things of its own: a transient API key at the server, the         *)
(* password markers in its state directory, and the client-secret file.    *)
(*                                                                          *)
(* systemd runs one at a time and repeats it; meanwhile administrators,    *)
(* users, and Rauthy's own clean-up change the server.  The items of a     *)
(* class never meet in the code, so one behaviour follows one item,        *)
(* settings.focus, through its class.                                      *)
(***************************************************************************)
EXTENDS Naturals, FiniteSets

CONSTANTS
    Settings,   \* the declarations and options to consider
    Ids,        \* ids of user rows
    Providers,  \* ids of upstream providers with the declared identity
    Secrets,    \* client secrets
    Aspects,    \* what a user's declaration manages besides roles and groups
    MaxFaults,  \* kills, failed calls and expiries in a behaviour
    MaxChanges  \* changes by others in a behaviour

Kinds == [name     |-> {"group", "attribute"},
          provider |-> {"provider"},
          user     |-> {"plain", "password", "email", "federated"},
          client   |-> {"public", "confidential"}]

\* present: is the item declared present?  keep: --no-auto-remove.
\* transient: --transient-api-key.  paged: does the server page its user list?
Setting == [focus : DOMAIN Kinds, kind : UNION {Kinds[f] : f \in DOMAIN Kinds},
            present : BOOLEAN, keep : BOOLEAN, transient : BOOLEAN, paged : BOOLEAN]

ASSUME SettingsAssumption ==
    Settings \subseteq {s \in Setting : s.kind \in Kinds[s.focus]}
ASSUME IdsAssumption == Ids \subseteq Nat \ {0} /\ Providers \subseteq Nat \ {0}
ASSUME SecretsAssumption == Secrets \subseteq Nat \ {0}
\* Rauthy makes ids and secrets at random: there is always one not in use.
ASSUME FreshAssumption ==
    /\ \A a, b, c, d \in Ids \cup {0} : Ids \ {a, b, c, d} # {}
    /\ \A a, b, c \in Secrets \cup {0} : Secrets \ {a, b, c} # {}
ASSUME AspectsAssumption == Aspects # {} /\ "roles" \notin Aspects
ASSUME BoundsAssumption == MaxFaults \in Nat /\ MaxChanges \in Nat

VARIABLES
    settings, \* the declaration in force
    pc,       \* the request or local step the run makes next
    result,   \* of the run: "ok", "err", or "none" so far
    loc,      \* what the run has read and remembers
    key,      \* the transient API key at the server
    named,    \* the group, role, attribute or scope at the server
    row,      \* the user's row in the server's database
    cached,   \* what the server's user cache holds for the user's email
    marks,    \* the password file and the markers about it
    links,    \* the upstream providers at the server
    client,   \* the client at the server and the file with its secret
    faults,   \* kills, failures and expiries left
    changes,  \* changes by others left
    ghost     \* history: what the properties refer to

world == <<named, row, cached, links, client>>
vars == <<settings, pc, result, loc, key, marks, world, faults, changes, ghost>>

Parts == Aspects \cup {"roles"}

\* What an account shows of its upstream link: none yet, one to the required
\* provider, or one the audit refuses: to another or a deleted provider,
\* without its UID, or of an account type that contradicts it or is missing.
Links == {"none", "sound", "unsound"}

\* by: who created it.  granted: a role given to it by hand.  synced: the
\* declared parts it shows.  mails: set-password mails the run asked for.
Account == [id : Ids, by : {"tool", "throwaway", "other"}, pw : {"none", "initial", "own"},
            link : Links, granted : BOOLEAN, synced : SUBSET Parts, mails : Nat]
NoUser == [id |-> 0, by |-> "other", pw |-> "none", link |-> "none",
           granted |-> FALSE, synced |-> {}, mails |-> 0]

NewAccount(id, by, synced) == [NoUser EXCEPT !.id = id, !.by = by, !.synced = synced]

Unused(S, used) == CHOOSE x \in S \ used : TRUE

\* A run that has read nothing yet.
Blank == [name |-> "none", listed |-> {}, user |-> NoUser, stale |-> FALSE, created |-> FALSE,
          seen |-> {}, drift |-> {}, todo |-> {}, linked |-> {},
          client |-> "none", secret |-> 0]

Init ==
    /\ settings \in Settings
    /\ pc = "idle"
    /\ result = "none"
    /\ loc = Blank
    /\ key = "none"
    /\ named = "none"
    /\ row = NoUser
    /\ cached = NoUser
    /\ marks = [file |-> 1, marker |-> 0, pending |-> FALSE]
    /\ links = [ids |-> {}, linked |-> {}, drift |-> {}]
    /\ client = [state |-> "none", secret |-> 0, file |-> 0]
    /\ faults = MaxFaults
    /\ changes = MaxChanges
    /\ ghost = [quiet |-> TRUE, cut |-> FALSE, left |-> FALSE, late |-> {}, recreated |-> FALSE,
                missed |-> FALSE, hid |-> FALSE]

-----------------------------------------------------------------------------
(* The run around the reconciliation: the transient API key.               *)

FirstStep == [name |-> "listNames", provider |-> "listProviders",
              user |-> "listUsers", client |-> "getClient"][settings.focus]

Start ==
    /\ pc = "idle"
    /\ pc' = IF settings.transient THEN "mintKey" ELSE FirstStep
    /\ result' = "none"
    /\ ghost' = [ghost EXCEPT !.quiet = TRUE, !.late = {}, !.hid = FALSE]
    /\ UNCHANGED <<settings, loc, key, marks, world, faults, changes>>

\* Mutation: a key of this name is an error, as it is to a plain POST.
MintNewKey ==
    /\ pc = "mintKey"
    /\ key = "none"
    /\ key' = "live"
    /\ pc' = "rotateKey"
    /\ ghost' = [ghost EXCEPT !.left = FALSE]
    /\ UNCHANGED <<settings, result, loc, marks, world, faults, changes>>

\* Creates the key, or takes over the one of this name an earlier run left.
MintKey ==
    /\ pc = "mintKey"
    /\ key' = "live"
    /\ pc' = "rotateKey"
    /\ ghost' = [ghost EXCEPT !.left = FALSE]
    /\ UNCHANGED <<settings, result, loc, marks, world, faults, changes>>

RotateKey ==
    /\ pc = "rotateKey"
    /\ pc' = FirstStep
    /\ UNCHANGED <<settings, result, loc, key, marks, world, faults, changes, ghost>>

\* The manager's key deletes it, whether it has expired or not.
DeleteKey ==
    /\ pc = "deleteKey"
    /\ key' = "none"
    /\ pc' = "idle"
    /\ UNCHANGED <<settings, result, loc, marks, world, faults, changes, ghost>>

\* Mutation: an error returns before the key is deleted.
AfterUnlessFailed(r) == IF settings.transient /\ r = "ok" THEN "deleteKey" ELSE "idle"

\* Where the run goes once reconcile has returned.
After(r) == IF settings.transient THEN "deleteKey" ELSE "idle"

Finish(r) ==
    /\ result' = r
    /\ pc' = After(r)
    /\ loc' = Blank

\* Steps that make no request with the provisioning key.
Local == {"route", "markPending", "commitMarker", "adoptMarker", "clearPending", "mail",
          "checkSecret", "writeSecret", "finish"}
HasKey == settings.transient => key = "live" \/ pc \in Local

Goto(p) == pc' = p /\ UNCHANGED result
Remember(l) == loc' = l

-----------------------------------------------------------------------------
(* Groups, roles, user attributes and scopes: list, then one request.      *)

ListNames ==
    /\ pc = "listNames"
    /\ Remember([loc EXCEPT !.name = named])
    /\ Goto("applyName")
    /\ UNCHANGED named

\* What the listing calls for.  Groups and roles have nothing to update.
NameRequest ==
    CASE settings.present /\ loc.name = "none" -> "create"
      [] settings.present /\ loc.name = "drifted" /\ settings.kind = "attribute" -> "update"
      [] ~settings.present /\ loc.name # "none" /\ ~settings.keep -> "delete"
      [] OTHER -> "nothing"

ApplyName ==
    /\ pc = "applyName"
    /\ \/ NameRequest = "create" /\ named = "none" /\ named' = "ok"
       \/ NameRequest = "update" /\ named # "none" /\ named' = "ok"
       \/ NameRequest = "delete" /\ named # "none" /\ named' = "none"
       \/ NameRequest = "nothing" /\ UNCHANGED named
    /\ Finish("ok")

\* The item appeared or went away since the listing.
NameRejected ==
    /\ pc = "applyName"
    /\ \/ NameRequest = "create" /\ named # "none"
       \/ NameRequest \in {"update", "delete"} /\ named = "none"

-----------------------------------------------------------------------------
(* Upstream providers: the server picks their ids, and several may carry   *)
(* the declared issuer and client id.                                      *)

ListProviders ==
    /\ pc = "listProviders"
    /\ Remember([loc EXCEPT !.seen = links.ids, !.drift = links.drift, !.todo = links.ids])
    /\ Goto(CASE settings.present /\ links.ids = {} -> "createProvider"
              [] settings.present /\ links.ids # {} -> "countLinks"
              [] ~settings.present /\ ~settings.keep -> "deleteProviders"
              [] OTHER -> "bindProvider")
    /\ UNCHANGED links

CreateProvider ==
    /\ pc = "createProvider"
    /\ \E p \in Providers \ links.ids : links' = [links EXCEPT !.ids = @ \cup {p}]
    /\ Goto("bindProvider")
    /\ UNCHANGED loc

CountLinks ==
    /\ pc = "countLinks"
    /\ \E p \in loc.todo \cap links.ids :
          Remember([loc EXCEPT !.todo = @ \ {p}, !.linked = @ \cup ({p} \cap links.linked)])
    /\ Goto("countLinks")
    /\ UNCHANGED links

LeastId(S) == CHOOSE p \in S : \A q \in S : p <= q

\* select_canonical_provider: the linked one, else the least id.
CanonicalProvider(ids, linked) == LeastId(IF linked # {} THEN linked ELSE ids)

\* All counted: update the canonical one if the listing showed it drifted.
SelectProvider ==
    /\ pc = "countLinks"
    /\ loc.todo = {}
    /\ Cardinality(loc.linked) <= 1
    /\ LET c == CanonicalProvider(loc.seen, loc.linked)
       IN  /\ c \in loc.drift => c \in links.ids
           /\ links' = IF c \in loc.drift THEN [links EXCEPT !.drift = @ \ {c}] ELSE links
           /\ Remember([loc EXCEPT !.todo = IF settings.keep THEN {} ELSE loc.seen \ {c}])
    /\ Goto("deleteProviders")

\* Duplicates of the canonical provider, or all of an absent one.
DeleteProvider ==
    /\ pc = "deleteProviders"
    /\ \E p \in loc.todo \cap links.ids :
          /\ links' = [links EXCEPT !.ids = @ \ {p}, !.linked = @ \ {p}, !.drift = @ \ {p}]
          /\ Remember([loc EXCEPT !.todo = @ \ {p}])
    /\ Goto("deleteProviders")

ProvidersDeleted ==
    /\ pc = "deleteProviders"
    /\ loc.todo = {}
    /\ Goto("bindProvider")
    /\ UNCHANGED <<links, loc>>

\* The second listing and its counts, which only decide the binding.
BindProvider ==
    /\ pc = "bindProvider"
    /\ settings.present => links.ids # {} /\ Cardinality(links.linked) <= 1
    /\ Finish("ok")
    /\ UNCHANGED links

ProviderRejected ==
    \/ pc \in {"countLinks", "deleteProviders"} /\ loc.todo # {} /\ ~(loc.todo \subseteq links.ids)
    \/ pc = "countLinks" /\ loc.todo = {} /\ Cardinality(loc.linked) > 1
    \/ /\ pc = "countLinks" /\ loc.todo = {}
       /\ CanonicalProvider(loc.seen, loc.linked) \in loc.drift \ links.ids
    \/ /\ pc = "bindProvider" /\ settings.present
       /\ links.ids = {} \/ Cardinality(links.linked) > 1

-----------------------------------------------------------------------------
(* Users.  The server answers a lookup by email from its cache, which can  *)
(* outlive the row; its user list comes from the database.                 *)

ListUsers ==
    /\ pc = "listUsers"
    /\ Remember([loc EXCEPT !.listed = {row.id} \ {0}])
    /\ Goto("getUser")
    /\ UNCHANGED <<row, cached, marks, ghost>>

\* get_user_by_email.  Custom attributes are not part of the answer.
Answer == IF cached.id # 0 THEN cached ELSE row
Read(u) == [u EXCEPT !.synced = @ \ {"attributes"}]

\* Mutation: what the cache answers is believed.
NeverGhost(id) == FALSE

\* Nothing is a ghost unless the listing was complete.
IsCacheGhost(id) == ~settings.paged /\ id \notin loc.listed

GetUser ==
    /\ pc = "getUser"
    /\ cached' = Answer
    /\ Remember([loc EXCEPT !.user = Read(Answer)])
    /\ Goto(IF Answer.id # 0 /\ IsCacheGhost(Answer.id) THEN "evict" ELSE "route")
    /\ UNCHANGED <<row, marks, ghost>>

\* DELETE reaches the row and both cache keys, or answers that it resolves
\* no such id (then only the email key is left).
Evict ==
    /\ pc = "evict"
    /\ \/ /\ row' = IF row.id = loc.user.id THEN NoUser ELSE row
          /\ cached' = NoUser
          /\ Remember([loc EXCEPT !.user = NoUser])
       \/ /\ row.id # loc.user.id
          /\ Remember([loc EXCEPT !.user = NoUser, !.stale = TRUE])
          /\ UNCHANGED <<row, cached>>
    /\ ghost' = [ghost EXCEPT !.hid = row.id \notin {0, loc.user.id}]
    /\ Goto("route")
    /\ UNCHANGED marks

Found == loc.user.id # 0
Creates == settings.present /\ ~Found /\ settings.kind # "federated"

\* Accounts of federated users are left to their first sign-in.
Route ==
    /\ pc = "route"
    /\ Goto(CASE settings.present /\ Found -> "updateUser"
              [] Creates /\ settings.kind = "password" -> "markPending"
              [] Creates /\ settings.kind # "password" -> "createUser"
              [] ~settings.present /\ Found /\ ~settings.keep -> "deleteUser"
              [] ~Found /\ ~Creates /\ loc.stale -> "createThrowaway"
              [] OTHER -> "finish")
    /\ UNCHANGED <<row, cached, marks, loc, ghost>>

\* Mutation: the creation is not marked as pending.
MarkNothing ==
    /\ pc = "markPending"
    /\ Goto("createUser")
    /\ UNCHANGED <<row, cached, marks, loc, ghost>>

MarkPending ==
    /\ pc = "markPending"
    /\ marks' = [marks EXCEPT !.pending = TRUE]
    /\ Goto("createUser")
    /\ UNCHANGED <<row, cached, loc, ghost>>

NewId == Unused(Ids, {row.id, cached.id, loc.user.id} \cup loc.listed)

\* POST /users does not touch the cache; the answer names the new id.
CreateUser ==
    /\ pc = "createUser"
    /\ row.id = 0
    /\ row' = NewAccount(NewId, "tool", {"roles"})
    /\ Remember([loc EXCEPT !.user = row', !.created = TRUE])
    /\ ghost' = [ghost EXCEPT !.cut = FALSE]
    /\ Goto(IF loc.stale THEN "rekey" ELSE "readBack")
    /\ UNCHANGED <<cached, marks>>

\* update_user: a full replace that carries over what was read before.
Put(pw) ==
    \/ /\ row.id = loc.user.id
       /\ row' = [row EXCEPT !.synced = @ \cup {"roles"}, !.granted = loc.user.granted, !.pw = pw]
       /\ cached' = row'
    \/ row.id # loc.user.id /\ UNCHANGED <<row, cached>>

\* overwrite_stale_email_key: saving the new row rewrites the email key.
Rekey ==
    /\ pc = "rekey"
    /\ Put(row.pw)
    /\ Goto("readBack")
    /\ UNCHANGED <<marks, loc, ghost>>

ReadBack ==
    /\ pc = "readBack"
    /\ Answer.id # 0
    /\ cached' = Answer
    /\ Remember([loc EXCEPT !.user = Read(Answer)])
    /\ Goto("patch")
    /\ UNCHANGED <<row, marks, ghost>>

UpdateUser ==
    /\ pc = "updateUser"
    /\ IF "roles" \in loc.user.synced THEN UNCHANGED <<row, cached>> ELSE Put(row.pw)
    /\ Goto("patch")
    /\ UNCHANGED <<marks, loc, ghost>>

\* Profile fields, preferred_username and custom attributes, a request each.
PatchUser ==
    /\ pc = "patch"
    /\ \E a \in Aspects \ loc.user.synced :
          /\ IF row.id = loc.user.id
             THEN row' = [row EXCEPT !.synced = @ \cup {a}] /\ cached' = row'
             ELSE UNCHANGED <<row, cached>>
          /\ Remember([loc EXCEPT !.user.synced = @ \cup {a}])
    /\ Goto("patch")
    /\ UNCHANGED <<marks, ghost>>

Patched ==
    /\ pc = "patch"
    /\ Aspects \subseteq loc.user.synced
    /\ Goto(IF settings.kind = "password" THEN "password" ELSE "audit")
    /\ UNCHANGED <<row, cached, marks, loc, ghost>>

\* Mutation: a changed password file is applied to an existing user.
PasswordDueByMarker == marks.pending \/ marks.marker # marks.file

\* A new user, or one whose creation was interrupted.
PasswordDue == loc.created \/ marks.pending

SetPassword ==
    /\ pc = "password"
    /\ PasswordDue
    /\ Put("initial")
    /\ ghost' = [ghost EXCEPT !.missed = row.id # loc.user.id]
    /\ Goto("commitMarker")
    /\ UNCHANGED <<marks, loc>>

CommitMarker ==
    /\ pc = "commitMarker"
    /\ marks' = [marks EXCEPT !.marker = marks.file]
    /\ Goto("clearPending")
    /\ UNCHANGED <<row, cached, loc, ghost>>

ClearPending ==
    /\ pc = "clearPending"
    /\ marks' = [marks EXCEPT !.pending = FALSE]
    /\ Goto("audit")
    /\ UNCHANGED <<row, cached, loc, ghost>>

\* An existing user keeps the password; only the marker follows the file.
AdoptMarker ==
    /\ pc = "password"
    /\ ~PasswordDue
    /\ marks' = [marks EXCEPT !.marker = marks.file]
    /\ Goto("audit")
    /\ UNCHANGED <<row, cached, loc, ghost>>

\* A federated user has no local credential, and no link but the required one.
Acceptable(u) == u.id # 0 /\ u.pw = "none" /\ u.link # "unsound"

AuditProvider ==
    /\ pc = "audit"
    /\ settings.kind = "federated" => Acceptable(Answer)
    /\ Goto(IF loc.created /\ settings.kind = "email" THEN "mail" ELSE "finish")
    /\ UNCHANGED <<row, cached, marks, loc, ghost>>

RequestPasswordReset ==
    /\ pc = "mail"
    /\ row' = IF row.id = 0 THEN row ELSE [row EXCEPT !.mails = @ + 1]
    /\ cached' = IF cached.id = row.id THEN row' ELSE cached
    /\ Goto("finish")
    /\ UNCHANGED <<marks, loc, ghost>>

\* delete_user: resolves the row, or an id only the cache still knows.
DeleteUser ==
    /\ pc \in {"deleteUser", "deleteThrowaway"}
    /\ \/ row.id = loc.user.id /\ row' = NoUser
       \/ row.id # loc.user.id /\ UNCHANGED row
    /\ cached' = NoUser
    /\ Goto("finish")
    /\ UNCHANGED <<marks, loc, ghost>>

\* clear_stale_email_key: deleting any row of this email clears its key.
CreateThrowaway ==
    /\ pc = "createThrowaway"
    /\ row.id = 0
    /\ row' = NewAccount(NewId, "throwaway", {"roles"})
    /\ Remember([loc EXCEPT !.user = row'])
    /\ ghost' = [ghost EXCEPT !.cut = FALSE]
    /\ Goto("deleteThrowaway")
    /\ UNCHANGED <<cached, marks>>

\* A row of that email exists; the id read before is gone; the audit failed.
UserRejected ==
    \/ pc \in {"createUser", "createThrowaway"} /\ row.id # 0
    \/ /\ \/ pc \in {"rekey", "deleteUser", "deleteThrowaway"}
          \/ pc = "updateUser" /\ "roles" \notin loc.user.synced
          \/ pc = "patch" /\ ~(Aspects \subseteq loc.user.synced)
          \/ pc = "password" /\ PasswordDue
       /\ row.id # loc.user.id
    \/ pc = "readBack" /\ Answer.id = 0
    \/ pc = "audit" /\ settings.kind = "federated" /\ ~Acceptable(Answer)

-----------------------------------------------------------------------------
(* Clients and the file that holds a confidential client's secret.         *)

GetClient ==
    /\ pc = "getClient"
    /\ Remember([loc EXCEPT !.client = client.state])
    /\ Goto(CASE settings.present /\ client.state = "none" -> "createClient"
              [] settings.present /\ client.state = "drifted" -> "updateClient"
              [] settings.present /\ client.state = "ok" -> "checkSecret"
              [] ~settings.present /\ client.state # "none" /\ ~settings.keep -> "deleteClient"
              [] OTHER -> "finish")
    /\ UNCHANGED <<client, ghost>>

NewSecret == Unused(Secrets, {client.secret, client.file, loc.secret})

\* POST sets part of the configuration only; the update follows.
CreateClient ==
    /\ pc = "createClient"
    /\ client.state = "none"
    /\ client' = [client EXCEPT !.state = "drifted", !.secret = NewSecret]
    /\ ghost' = [ghost EXCEPT !.recreated = client.file # 0]
    /\ Goto("updateClient")
    /\ UNCHANGED loc

UpdateClient ==
    /\ pc = "updateClient"
    /\ client.state # "none"
    /\ client' = [client EXCEPT !.state = "ok"]
    /\ Goto("checkSecret")
    /\ UNCHANGED <<loc, ghost>>

DeleteClient ==
    /\ pc = "deleteClient"
    /\ client.state # "none"
    /\ client' = [client EXCEPT !.state = "none", !.secret = 0]
    /\ Goto("finish")
    /\ UNCHANGED <<loc, ghost>>

\* Mutation: the secret is rotated in every run.
AlwaysRotateSecret ==
    /\ pc = "checkSecret"
    /\ Goto(IF settings.kind = "confidential" THEN "rotateSecret" ELSE "finish")
    /\ UNCHANGED <<client, loc, ghost>>

CheckSecretFile ==
    /\ pc = "checkSecret"
    /\ Goto(IF settings.kind = "confidential" /\ client.file = 0 THEN "rotateSecret" ELSE "finish")
    /\ UNCHANGED <<client, loc, ghost>>

RotateSecret ==
    /\ pc = "rotateSecret"
    /\ client.state # "none"
    /\ client' = [client EXCEPT !.secret = NewSecret]
    /\ Remember([loc EXCEPT !.secret = NewSecret])
    /\ Goto("writeSecret")
    /\ UNCHANGED ghost

\* Through a temporary file and a rename.
WriteSecretFile ==
    /\ pc = "writeSecret"
    /\ client' = [client EXCEPT !.file = loc.secret]
    /\ ghost' = [ghost EXCEPT !.recreated = FALSE]
    /\ Goto("finish")
    /\ UNCHANGED loc

ClientRejected ==
    \/ pc = "createClient" /\ client.state # "none"
    \/ pc \in {"updateClient", "deleteClient", "rotateSecret"} /\ client.state = "none"

-----------------------------------------------------------------------------
NameStep ==
    /\ ListNames \/ ApplyName
    /\ UNCHANGED <<row, cached, links, client, marks, ghost>>

ProviderStep ==
    /\ \/ ListProviders \/ CreateProvider \/ CountLinks \/ SelectProvider
       \/ DeleteProvider \/ ProvidersDeleted \/ BindProvider
    /\ UNCHANGED <<named, row, cached, client, marks, ghost>>

UserStep ==
    /\ \/ ListUsers \/ GetUser \/ Evict \/ Route \/ MarkPending \/ CreateUser \/ Rekey
       \/ ReadBack \/ UpdateUser \/ PatchUser \/ Patched \/ SetPassword \/ CommitMarker
       \/ ClearPending \/ AdoptMarker \/ AuditProvider \/ RequestPasswordReset
       \/ DeleteUser \/ CreateThrowaway
    /\ UNCHANGED <<named, links, client>>

ClientStep ==
    /\ \/ GetClient \/ CreateClient \/ UpdateClient \/ DeleteClient
       \/ CheckSecretFile \/ RotateSecret \/ WriteSecretFile
    /\ UNCHANGED <<named, row, cached, links, marks>>

Done ==
    /\ pc = "finish"
    /\ Finish("ok")
    /\ UNCHANGED <<world, marks, ghost>>

Reconcile ==
    /\ HasKey
    /\ NameStep \/ ProviderStep \/ UserStep \/ ClientStep \/ Done
    /\ UNCHANGED <<settings, key, faults, changes>>

Outside == {"idle", "mintKey", "rotateKey", "deleteKey"}

\* The server answers a request with an error, or the key has expired.
Rejected ==
    /\ pc \notin Outside
    /\ ~HasKey \/ NameRejected \/ ProviderRejected \/ UserRejected \/ ClientRejected
    /\ Finish("err")
    /\ ghost' = [ghost EXCEPT !.cut = TRUE]
    /\ UNCHANGED <<settings, key, marks, world, faults, changes>>

Advance == MintKey \/ RotateKey \/ DeleteKey \/ Reconcile \/ Rejected

-----------------------------------------------------------------------------
(* Failures.                                                                *)

Fault == faults > 0 /\ faults' = faults - 1

\* A call fails, its answer is lost after it took effect (then the step
\* before this one was the last), or a file cannot be written.
FailInside ==
    /\ Fault
    /\ pc \notin Outside
    /\ Finish("err")
    /\ ghost' = [ghost EXCEPT !.cut = TRUE]
    /\ UNCHANGED <<settings, key, marks, world, changes>>

\* Minting, rotating or deleting the key fails: the run just returns.
FailOutside ==
    /\ Fault
    /\ pc \in Outside \ {"idle"}
    /\ result' = "err"
    /\ pc' = "idle"
    /\ key' \in {key} \cup {k \in {"none"} : pc = "deleteKey"}
    /\ ghost' = [ghost EXCEPT !.cut = TRUE, !.left = pc # "mintKey" \/ @]
    /\ UNCHANGED <<settings, loc, marks, world, changes>>

\* A marker is written in place: a kill can leave a torn one, digest 0.
Kill ==
    /\ Fault
    /\ pc # "idle"
    /\ pc' = "idle"
    /\ result' = "err"
    /\ loc' = Blank
    /\ marks' \in {marks} \cup {[marks EXCEPT !.marker = 0] : m \in {pc} \cap {"commitMarker"}}
    /\ ghost' = [ghost EXCEPT !.cut = TRUE, !.left = @ \/ key = "live"]
    /\ UNCHANGED <<settings, key, world, changes>>

ExpireKey ==
    /\ Fault
    /\ key = "live"
    /\ key' = "expired"
    /\ UNCHANGED <<settings, pc, result, loc, marks, world, changes, ghost>>

-----------------------------------------------------------------------------
(* Everybody else.                                                          *)

\* The names, by hand.
ChangeName ==
    /\ settings.focus = "name"
    /\ named' \in {"none", "ok"} \cup {k \in {"drifted"} : settings.kind = "attribute"}
    /\ named' # named
    /\ UNCHANGED <<row, cached, links, client, marks>>

Cached(r) == IF cached.id = r.id THEN r ELSE cached

\* What a federated user's sign-in, or a provider's deletion, makes of the link.
Linkings == IF settings.kind = "federated" THEN Links ELSE {"none"}

\* A password set through Rauthy's own mail, a role granted, a part edited,
\* the link made, broken or mended.
EditUser ==
    /\ settings.focus = "user"
    /\ row.id # 0
    /\ \/ row' \in {[row EXCEPT !.pw = "own"], [row EXCEPT !.granted = TRUE],
                     [row EXCEPT !.synced = {}]}
       \/ \E l \in Linkings : row' = [row EXCEPT !.link = l]
    /\ row' # row
    /\ cached' = Cached(row')
    /\ UNCHANGED <<named, links, client, marks>>

\* The first sign-in of a federated user, or an account made by hand.
UserAppears ==
    /\ settings.focus = "user"
    /\ row.id = 0
    /\ \E l \in Linkings : row' = [NewAccount(NewId, "other", {}) EXCEPT !.link = l]
    /\ cached' \in {cached, IF cached.id = 0 THEN row' ELSE cached}
    /\ UNCHANGED <<named, links, client, marks>>

\* An administrator deletes the user, or Rauthy's magic-link cleanup removes
\* one without a password from the database only.
UserDisappears ==
    /\ settings.focus = "user"
    /\ row.id # 0
    /\ row' = NoUser
    /\ cached' \in {NoUser} \cup {c \in {cached} : row.pw = "none"}
    /\ UNCHANGED <<named, links, client, marks>>

ChangeProvider ==
    /\ settings.focus = "provider"
    /\ \E p \in Providers :
          \/ p \notin links.ids /\ links' = [links EXCEPT !.ids = @ \cup {p}, !.drift = @ \cup {p}]
          \/ /\ p \in links.ids
             /\ links' = [links EXCEPT !.ids = @ \ {p}, !.linked = @ \ {p}, !.drift = @ \ {p}]
          \/ p \in links.ids \ links.drift /\ links' = [links EXCEPT !.drift = @ \cup {p}]
    /\ UNCHANGED <<named, row, cached, client, marks>>

\* A user signs in through provider p for the first time.
LinkUser(p) ==
    /\ settings.focus = "provider"
    /\ p \in links.ids \ links.linked
    /\ links' = [links EXCEPT !.linked = @ \cup {p}]
    /\ UNCHANGED <<named, row, cached, client, marks>>

\* A client edited or deleted by hand; its secret file lost, as in /run.
ChangeClient ==
    /\ settings.focus = "client"
    /\ \/ client.state = "ok" /\ client' = [client EXCEPT !.state = "drifted"]
       \/ client.state # "none" /\ client' = [client EXCEPT !.state = "none", !.secret = 0]
       \/ client.file # 0 /\ client' = [client EXCEPT !.file = 0]
    /\ UNCHANGED <<named, row, cached, links, marks>>

NewPasswordFile ==
    /\ settings.kind = "password"
    /\ pc = "idle"
    /\ marks' = [marks EXCEPT !.file = 3 - @]
    /\ UNCHANGED world

Change ==
    /\ changes > 0
    /\ changes' = changes - 1
    /\ \/ /\ ChangeName \/ EditUser \/ UserAppears \/ UserDisappears \/ ChangeProvider
             \/ ChangeClient \/ NewPasswordFile
          /\ ghost' = [ghost EXCEPT !.quiet = FALSE]
       \/ \E p \in Providers :
             LinkUser(p) /\ ghost' = [ghost EXCEPT !.quiet = FALSE, !.late = @ \cup {p}]
    /\ UNCHANGED <<settings, pc, result, loc, key, faults>>

\* The declaration changes; the unit restarts with it.
Redeclare ==
    /\ changes > 0
    /\ changes' = changes - 1
    /\ pc = "idle"
    /\ settings' = [settings EXCEPT !.present = ~@]
    /\ ghost' = [ghost EXCEPT !.quiet = FALSE]
    /\ UNCHANGED <<pc, result, loc, key, marks, world, faults>>

\* A cache entry times out.
CacheExpires ==
    /\ cached.id # 0
    /\ cached' = NoUser
    /\ UNCHANGED <<settings, pc, result, loc, key, named, row, links, client, marks, faults, changes, ghost>>

Next ==
    \/ Start
    \/ Advance
    \/ FailInside
    \/ FailOutside
    \/ Kill
    \/ ExpireKey
    \/ Change
    \/ Redeclare
    \/ CacheExpires

Spec == Init /\ [][Next]_vars

\* The unit is started at boot and again after a failure.
Restart == Start /\ result # "ok"

\* Whatever fails is retried, and a run does not stand still.
FairSpec == Spec /\ WF_vars(Restart) /\ WF_vars(Advance)

-----------------------------------------------------------------------------
(* Properties.                                                              *)

Steps == Outside \cup Local \cup
    {"listNames", "applyName", "listProviders", "createProvider", "countLinks",
     "deleteProviders", "bindProvider", "listUsers", "getUser", "evict", "createUser",
     "rekey", "readBack", "updateUser", "patch", "password", "audit", "deleteUser",
     "createThrowaway", "deleteThrowaway", "getClient", "createClient", "updateClient",
     "deleteClient", "rotateSecret"}

Accounts == Account \cup {NoUser}
Items == {"none", "drifted", "ok"}

\* What the run remembers (the locals of reconcile and its callees) and what
\* the server and the state directory hold are of these types.
TypeOK ==
    /\ settings \in Settings \cup {[s EXCEPT !.present = ~@] : s \in Settings}
    /\ pc \in Steps
    /\ result \in {"none", "ok", "err"}
    /\ key \in {"none", "live", "expired"}
    /\ {named, loc.name, client.state, loc.client} \subseteq Items
    /\ {row, cached, loc.user} \subseteq Accounts
    /\ loc.listed \subseteq Ids
    /\ {loc.stale, loc.created} \subseteq BOOLEAN
    /\ UNION {loc.seen, loc.drift, loc.todo, loc.linked, links.ids} \subseteq Providers
    /\ links.linked \cup links.drift \subseteq links.ids
    /\ {client.secret, client.file, loc.secret} \subseteq Secrets \cup {0}
    /\ marks \in [file : {1, 2}, marker : 0..2, pending : BOOLEAN]
    /\ faults \in 0..MaxFaults /\ changes \in 0..MaxChanges
    /\ ghost \in [quiet : BOOLEAN, cut : BOOLEAN, left : BOOLEAN,
                  late : SUBSET Providers, recreated : BOOLEAN, missed : BOOLEAN, hid : BOOLEAN]

NameDeclared ==
    IF settings.present THEN named = "ok" ELSE settings.keep \/ named = "none"

\* One provider is left, declared values and all; with --no-auto-remove the
\* duplicates stay.
ProviderDeclared ==
    IF settings.present
    THEN \E p \in links.ids \ links.drift :
            (links.ids = {p} \/ settings.keep) /\ links.linked \subseteq {p}
    ELSE settings.keep \/ links.ids = {}

\* An account a cut run left half-made may stay without its mail, its password
\* or its end.
UserDeclared ==
    IF ~settings.present THEN settings.keep \/ row.id = 0
    ELSE IF settings.kind = "federated"
    THEN row.id = 0 \/ (Acceptable(row) /\ (row.by # "other" => ghost.cut))
    ELSE /\ row.id # 0 /\ row.synced = Parts
         /\ settings.kind = "password" =>
               /\ ~marks.pending /\ marks.marker = marks.file
               /\ row.by = "tool" => row.pw # "none" \/ ghost.missed
         /\ settings.kind = "email" /\ row.by = "tool" =>
               row.mails = 1 \/ (row.mails = 0 /\ ghost.cut)

ClientDeclared ==
    IF settings.present
    THEN client.state = "ok" /\ (settings.kind = "confidential" => client.file # 0)
    ELSE settings.keep \/ client.state = "none"

\* The cache answers with a row the database no longer has, or hides one.
Ghost == cached.id # 0 /\ cached.id # row.id

\* When a run reports success and nobody else changed the server meanwhile,
\* the server holds what was declared, and no cached ghost of the user is
\* left that a later sign-in could be bound to.  Two cases are apart: a paged
\* user list, where the run cannot tell a ghost; and a ghost that hid the
\* user's row, which the run evicts without looking the user up again.
SuccessMeansDeclared ==
    pc = "idle" /\ result = "ok" /\ ghost.quiet /\ ~ghost.hid =>
        CASE settings.focus = "name" -> NameDeclared
          [] settings.focus = "provider" -> ProviderDeclared
          [] settings.focus = "user" -> settings.paged \/ (~Ghost /\ UserDeclared)
          [] settings.focus = "client" -> ClientDeclared

\* A live transient key survives the run that minted it only if that run was
\* killed, could not fetch its secret, or could not delete it
\* (run_with_transient_api_key deletes it on every other way out).
KeyLeftOnlyForCause == pc = "idle" /\ key = "live" => ghost.left

\* What a step of the program itself does.
Ours == changes' = changes

\* As long as nobody changes the server during a run, it never takes away the
\* account of a declared user (its own throwaway row apart), a role granted by
\* hand, or, unless the creation of the account is pending, a password of the
\* user's own.
AccountsKept ==
    [][ghost.quiet /\ Ours /\ settings.present /\ row.id # 0 /\ row.by # "throwaway" =>
          /\ row'.id = row.id
          /\ row.granted => row'.granted
          /\ row.pw = "own" => row'.pw = "own" \/ marks.pending]_vars

\* An account the program created for a user with an initial password, and
\* that has no password yet, is always marked pending, whatever was cut short
\* (set_user_initial_password); unless the password was sent to a deleted id
\* that the cache still answered with.
PasswordNotForgotten ==
    settings.kind = "password" /\ row.by = "tool" /\ row.pw = "none" =>
        marks.pending \/ ghost.missed

\* A duplicate provider that users are linked to is deleted only if the first
\* of them linked during this very run.
LinkedProviderKept ==
    [][Ours /\ settings.present => links.linked \ links'.linked \subseteq ghost.late]_vars

\* No step of a run takes away what a user holds: an account, a password of
\* their own, a role granted by hand, or the provider they sign in with.
NothingTakenAway == AccountsKept /\ LinkedProviderKept

\* The secret file, once there, holds the client's present secret, whatever
\* run wrote it and however it ended; unless the client was deleted and made
\* again under an existing file, which is never replaced.
SecretFileIsCurrent ==
    client.file # 0 /\ client.state # "none" => client.file = client.secret \/ ghost.recreated

\* Nothing the program does gets past these: users linked to two duplicates; a
\* federated user with a local password, or with a link the audit refuses, as
\* to a duplicate that was deleted under it; and a cached ghost that hides a
\* row or cannot be told from a user because the list is paged.
Obstructed ==
    \/ Cardinality(links.linked) > 1
    \/ settings.kind = "federated" /\ row.id # 0 /\ ~Acceptable(row)
    \/ Ghost /\ (row.id # 0 \/ settings.paged)

\* Whatever runs were cut short, a later one succeeds, unless it is obstructed.
RunsSucceed == []<>((pc = "idle" /\ result = "ok") \/ Obstructed)

\* Evicting a cached ghost touches no row: main.rs says of its DELETE that
\* "the SQL delete itself is a no-op".
EvictionDeletesNoRow == [][pc = "evict" /\ Ours => row' = row]_vars
=============================================================================

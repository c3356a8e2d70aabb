----------------------------- MODULE KeyProofs -----------------------------
(***************************************************************************)
(* Proofs about KeyProvision, for any declarations, titles, keys,          *)
(* repositories and invitations.  What a run holds in memory was read      *)
(* before others went on changing the account; the inductive invariant     *)
(* says what of it stays true whatever they do (ids are not given twice, a *)
(* key never changes its title or body), and what only while they are      *)
(* quiet.                                                                  *)
(***************************************************************************)
EXTENDS KeyProvision, TLAPS

-----------------------------------------------------------------------------
(* The inductive invariant.                                                *)

Operation == [op : {"create", "delete"}, shelf : Shelves, title : Titles, key : Keys, id : Nat]
Key == [id : Nat, title : Titles, key : Keys]

Causes == {"none", "load", "login", "plan", "call", "repos", "kill"}

Memory == [todo : SUBSET Shelves, ops : SUBSET Operation, repos : SUBSET Repos,
           at : SUBSET Repos, failed : SUBSET Repos, trusted : SUBSET Invitations]
History == [quiet : BOOLEAN, why : Causes, wrote : BOOLEAN, since : SUBSET (Shelves \X Nat),
            moved : SUBSET Repos, failed : SUBSET Repos, twice : SUBSET Keys]

\* TypeOK, and what it leaves out of the records and the ids.
TypedRun ==
    /\ settings \in Settings
    /\ pc \in {"idle", "load", "login", "list", "apply", "repos", "check", "invites", "invite",
              "accept"}
    /\ status \in {"none", "ok", "failed", "permanent"}
    /\ token \in {"right", "wrong", "none"}
    /\ faults \in 0 .. MaxFaults /\ changes \in 0 .. MaxChanges
    /\ loc \in Memory
    /\ ghost \in History
TypedShelves ==
    /\ lastId \in Nat
    /\ shelves \in [Shelves -> SUBSET Key]
    /\ \A s \in Shelves : \A k \in shelves[s] : k.id \in 1 .. lastId
TypedStandings ==
    /\ repos \in [Repos -> Standings]
    /\ pending \subseteq Invitations /\ accepted \subseteq Invitations
Typed == TypedRun /\ TypedShelves /\ TypedStandings

\* A run that has not finished planning has changed nothing, and only a run
\* that is over has an outcome.
Staged ==
    /\ pc \in {"load", "login", "list"} => ~ghost.wrote
    /\ ghost.why = "plan" => ~ghost.wrote
    /\ pc # "idle" => ghost.why = "none" /\ status = "none"
    /\ pc = "apply" => loc.todo = {}

\* An id names one key of a shelf.
IdsName == \A s \in Shelves : \A k, l \in shelves[s] : k.id = l.id => k = l

\* A key the declaration has removed: by its id on GitHub's OpenPGP shelf, by
\* its title elsewhere.
DeclaredGone(s, k) ==
    \E t \in Declared(s) \ Present(s) :
        IF IsGpg(s) THEN k.key = WantedKey(s, t) ELSE k.title = t

\* What a plan may hold: declared keys to create, and keys it listed to delete.
Sound(o) ==
    /\ o.op = "create" => o.title \in Present(o.shelf) /\ o.key = WantedKey(o.shelf, o.title)
    /\ o.op = "delete" =>
          /\ settings.allow
          /\ o.id <= lastId
          /\ <<o.shelf, o.id>> \notin ghost.since
          /\ DeclaredGone(o.shelf, o)
          /\ \A k \in shelves[o.shelf] : k.id = o.id => k.title = o.title /\ k.key = o.key
PlanSound == \A o \in loc.ops : Sound(o)

\* The key of a declared title is there.
Held(s, t) == \E k \in shelves[s] : k.key = WantedKey(s, t) /\ (IsGpg(s) \/ k.title = t)

\* An OpenPGP key that the run found more than once.
Extra(s, k) == IsGpg(s) /\ k.key \in ghost.twice

KeysAsDeclared(s) ==
    /\ \A t \in Present(s) : Held(s, t)
    /\ settings.allow => \A k \in shelves[s] : DeclaredGone(s, k) => Extra(s, k)

\* A shelf that is as declared once the operations planned for it are done.
Covered(s) ==
    /\ IsGpg(s) => ~Repeated(s, Declared(s))
    /\ \A t \in Present(s) :
          \/ Held(s, t)
          \/ \E o \in loc.ops : o.op = "create" /\ o.shelf = s /\ o.title = t
    /\ settings.allow =>
          \A k \in shelves[s] : DeclaredGone(s, k) =>
              Extra(s, k) \/ \E o \in loc.ops : o.op = "delete" /\ o.shelf = s /\ o.id = k.id

\* While nobody interferes, the plan brings about what is declared.
PlanComplete ==
    ghost.quiet =>
        /\ pc \in {"login", "list", "apply"} => \A s \in Shelves \ loc.todo : Covered(s)
        /\ pc \in {"repos", "check", "invites", "invite", "accept"} \/ status = "ok" =>
              \A s \in Shelves : KeysAsDeclared(s)

\* The repositories a run still has to deal with, or could not.
Open == loc.repos \cup loc.at \cup loc.failed
Rounds ==
    /\ Open # {} => settings.collab
    /\ pc \notin {"invites", "invite"} => loc.at = {}
    /\ \A r, u \in loc.at : r = u
    /\ pc = "accept" => loc.repos = {}
    /\ \A r \in loc.at :
         \/ repos[r] \in {"none", "archived"}
         \/ r \in ghost.moved
         \/ pc = "invites" /\ repos[r] = "invited"

\* While nobody interferes, every other repository has a collaborator, and
\* every trusted invitation is accepted or about to be.
RoundsComplete ==
    ghost.quiet =>
        /\ pc \in {"check", "invites", "invite", "accept"} /\ settings.collab =>
              \A r \in Repos \ Open : repos[r] # "none"
        /\ pc = "accept" => pending \cap settings.accept \subseteq loc.trusted
        /\ status = "ok" =>
              /\ settings.collab => \A r \in Repos : repos[r] # "none"
              /\ pending \cap settings.accept = {}
        /\ ghost.why = "repos" =>
              /\ \A r \in Repos \ ghost.failed : repos[r] # "none"
              /\ pending \cap settings.accept = {}

KeyInv ==
    /\ Typed /\ Staged /\ IdsName /\ PlanSound /\ PlanComplete
    /\ Rounds /\ RoundsComplete

-----------------------------------------------------------------------------
(* The types.                                                              *)

\* A plan for a shelf is a set of operations on it.
LEMMA PlanType ==
  ASSUME Typed, NEW s \in Shelves PROVE Plan(s) \subseteq Operation
<1>1. /\ settings.want \in [Shelves -> [Titles -> Wanted]]
      /\ \A t \in Titles : WantedKey(s, t) \in Keys
  BY SettingsAssumption DEF Typed, TypedRun, Setting, Wanted, WantedKey
<1>2. \A titles \in SUBSET Titles : Create(s, titles) \subseteq Operation
  BY <1>1 DEF Create, Operation
<1>3. \A keys \in SUBSET Key : Delete(s, keys) \subseteq Operation
  BY DEF Delete, Operation, Key
<1>4. /\ \A t \in Titles : Titled(s, t) \in SUBSET Key
      /\ \A key : Holding(s, key) \in SUBSET Key
      /\ Declared(s) \in SUBSET Titles /\ Present(s) \in SUBSET Titles
  BY DEF Typed, TypedShelves, Titled, Holding, Declared, Present
<1>5. Gone(s) \in SUBSET Key
  BY <1>4 DEF Gone
<1>6. UNION {First(Holding(s, WantedKey(s, t))) : t \in Declared(s) \ Present(s)} \in SUBSET Key
  BY <1>4 DEF First
<1>7. /\ {t \in Present(s) : Titled(s, t) = {}} \in SUBSET Titles
      /\ {t \in Present(s) : Holding(s, WantedKey(s, t)) = {}} \in SUBSET Titles
  BY <1>4
<1> QED
  BY <1>2, <1>3, <1>5, <1>6, <1>7 DEF Plan, PlanByTitle, PlanGpg

\* The next shelf is one that is left.
LEMMA NextShelf ==
  ASSUME Typed, loc.todo # {}
  PROVE  (CHOOSE s \in loc.todo : \A u \in loc.todo : s <= u) \in loc.todo
<1>1. \E s \in loc.todo : \A u \in loc.todo : s <= u
  <2>1. loc.todo \subseteq {1, 2}
    BY DEF Typed, TypedRun, Memory, Shelves
  <2>2. CASE 1 \in loc.todo
    BY <2>1, <2>2
  <2>3. CASE 1 \notin loc.todo
    BY <2>1, <2>3
  <2> QED
    BY <2>2, <2>3
<1> QED
  BY <1>1

\* What is remembered of a listing.
LEMMA ListedType ==
  ASSUME Typed, NEW s \in Shelves
  PROVE  /\ Listed(s) \in History
         /\ Listed(s).since = {k \in ghost.since : k[1] # s}
         /\ Listed(s).twice = IF IsGpg(s) THEN Twice(s) ELSE ghost.twice
         /\ Listed(s).quiet = ghost.quiet /\ Listed(s).why = ghost.why
         /\ Listed(s).wrote = ghost.wrote /\ Listed(s).moved = ghost.moved
         /\ Listed(s).failed = ghost.failed
<1>1. ghost \in History /\ Twice(s) \in SUBSET Keys
  BY DEF Typed, TypedRun, TypedShelves, Twice, Key
<1>2. {k \in ghost.since : k[1] # s} \in SUBSET (Shelves \X Nat)
  BY <1>1 DEF History
<1> QED
  BY <1>1, <1>2 DEF Listed, History

\* It is refused with the run, or planned.
LEMMA ListOne ==
  ASSUME Typed, List, loc.todo # {}
  PROVE  \E s \in loc.todo :
            /\ s \in Shelves
            /\ IF Doubtful(s) THEN Finish("failed") /\ Because("plan")
               ELSE /\ loc' = [loc EXCEPT !.todo = @ \ {s}, !.ops = @ \cup Plan(s)]
                    /\ Goto("list")
                    /\ ghost' = Listed(s)
            /\ UNCHANGED <<bounds, token, service>>
<1> DEFINE s == CHOOSE s \in loc.todo : \A u \in loc.todo : s <= u
<1>1. s \in loc.todo /\ s \in Shelves
  BY NextShelf DEF Typed, TypedRun, Memory
<1>2. /\ IF Doubtful(s) THEN Finish("failed") /\ Because("plan")
         ELSE /\ loc' = [loc EXCEPT !.todo = @ \ {s}, !.ops = @ \cup Plan(s)]
              /\ Goto("list")
              /\ ghost' = Listed(s)
      /\ UNCHANGED <<bounds, token, service>>
  BY DEF List
<1> HIDE DEF s
<1> QED
  BY <1>1, <1>2

\* A key with a new id is put on a shelf; a key is taken off one.
Adds(s, k) ==
    /\ k \in Key /\ k.id = lastId + 1
    /\ shelves' = [shelves EXCEPT ![s] = @ \cup {k}]
    /\ lastId' = lastId + 1
Removes(s, k) ==
    /\ k \in shelves[s]
    /\ shelves' = [shelves EXCEPT ![s] = @ \ {k}]
    /\ lastId' = lastId

\* An operation adds the key it names, or removes the one with its id.
LEMMA KeyCalls ==
  ASSUME Typed, PlanSound, NEW o \in loc.ops
  PROVE  /\ o \in Operation
         /\ CreateKey(o) =>
              /\ o.op = "create"
              /\ Adds(o.shelf, [id |-> lastId + 1, title |-> o.title, key |-> o.key])
         /\ DeleteKey(o) =>
              \E k \in shelves[o.shelf] :
                  /\ o.op = "delete" /\ k.id = o.id
                  /\ k.title = o.title /\ k.key = o.key
                  /\ Removes(o.shelf, k)
<1>1. o \in Operation
  BY DEF Typed, TypedRun, Memory
<1>2. CreateKey(o) =>
        o.op = "create" /\ Adds(o.shelf, [id |-> lastId + 1, title |-> o.title, key |-> o.key])
  BY <1>1 DEF Typed, TypedShelves, CreateKey, Adds, Operation, Key
<1>3. DeleteKey(o) => \E k \in shelves[o.shelf] :
                          /\ o.op = "delete" /\ k.id = o.id
                          /\ k.title = o.title /\ k.key = o.key
                          /\ Removes(o.shelf, k)
  BY <1>1 DEF DeleteKey, Removes, PlanSound, Sound
<1> QED
  BY <1>1, <1>2, <1>3

\* Either way the shelves keep their type.
LEMMA ShelvesType ==
  ASSUME Typed, NEW s \in Shelves, NEW k, Adds(s, k) \/ Removes(s, k)
  PROVE  TypedShelves'
BY DEF Typed, TypedShelves, Adds, Removes, Key

\* The calls of a sound plan keep the shelves well typed.
LEMMA KeyCallType ==
  ASSUME Typed, PlanSound, NEW o \in loc.ops, CreateKey(o) \/ DeleteKey(o)
  PROVE  TypedShelves'
<1>1. o.shelf \in Shelves
  BY KeyCalls DEF Operation
<1>2. CASE CreateKey(o)
  BY <1>1, <1>2, KeyCalls, ShelvesType
<1>3. CASE DeleteKey(o)
  BY <1>1, <1>3, KeyCalls, ShelvesType
<1> QED
  BY <1>2, <1>3

\* The end of a run, whatever the reason.
LEMMA BlankType ==
  ASSUME NEW r, Finish(r)
  PROVE  loc' \in Memory /\ loc' = Blank /\ pc' = "idle" /\ status' = r
BY DEF Finish, Blank, Memory

\* A repository that failed is still one of the repositories.
LEMMA FailedType ==
  ASSUME Typed, NEW r \in Repos, RepositoryFailed(r)
  PROVE  /\ loc' = [loc EXCEPT !.repos = @ \ {r}, !.at = {}, !.failed = @ \cup {r}]
         /\ loc' \in Memory
         /\ pc' = "check" /\ status' = status
BY DEF Typed, TypedRun, Memory, RepositoryFailed, Goto

\* Every step keeps the types.
LEMMA TypedStep == Typed /\ PlanSound /\ [Next]_vars => Typed'
<1> SUFFICES ASSUME Typed, PlanSound, [Next]_vars PROVE Typed'
  OBVIOUS
<1>0. TypedRun /\ TypedShelves /\ TypedStandings
  BY DEF Typed
<1>a. UNCHANGED <<shelves, lastId>> => TypedShelves'
  BY <1>0 DEF TypedShelves
<1>b. UNCHANGED <<repos, pending, accepted>> => TypedStandings'
  BY <1>0 DEF TypedStandings
<1>c. UNCHANGED service => TypedShelves' /\ TypedStandings'
  BY <1>a, <1>b DEF service
<1>d. /\ faults > 0 => faults - 1 \in 0 .. MaxFaults
      /\ ChangeBound => changes' \in 0 .. MaxChanges
  BY <1>0, BoundsAssumption DEF TypedRun, ChangeBound
<1> USE DEF Causes, History, Goto, Because, bounds
<1>1. CASE Start
  BY <1>0, <1>c, <1>1 DEF Typed, TypedRun, Start
<1>2. CASE Load
  BY <1>0, <1>c, <1>2, BlankType DEF Typed, TypedRun, Load, Memory
<1>3. CASE Login
  BY <1>0, <1>c, <1>3, BlankType DEF Typed, TypedRun, Login
<1>4. CASE List
  <2>1. CASE loc.todo = {}
    BY <1>0, <1>c, <1>4, <2>1 DEF Typed, TypedRun, List
  <2>2. CASE loc.todo # {}
    <3>1. PICK s \in loc.todo :
             /\ s \in Shelves
             /\ IF Doubtful(s) THEN Finish("failed") /\ Because("plan")
                ELSE /\ loc' = [loc EXCEPT !.todo = @ \ {s}, !.ops = @ \cup Plan(s)]
                     /\ Goto("list")
                     /\ ghost' = Listed(s)
             /\ UNCHANGED <<bounds, token, service>>
      BY <1>4, <2>2, ListOne
    <3>2. CASE Doubtful(s)
      BY <1>0, <1>c, <3>1, <3>2, BlankType DEF Typed, TypedRun
    <3>3. CASE ~Doubtful(s)
      <4>1. Plan(s) \subseteq Operation
        BY <3>1, PlanType
      <4>2. /\ loc' = [loc EXCEPT !.todo = @ \ {s}, !.ops = @ \cup Plan(s)]
            /\ pc' = "list" /\ status' = status
            /\ ghost' = Listed(s)
            /\ UNCHANGED <<bounds, token, service>>
        BY <3>1, <3>3
      <4>3. ghost' \in History
        BY <3>1, <4>2, ListedType
      <4>4. loc' \in Memory
        BY <1>0, <4>1, <4>2 DEF TypedRun, Memory
      <4> QED
        BY <1>0, <1>c, <4>2, <4>3, <4>4 DEF Typed, TypedRun
    <3> QED
      BY <3>2, <3>3
  <2> QED
    BY <2>1, <2>2
<1>5. CASE Apply
  <2>1. TypedShelves'
    BY <1>5, KeyCallType DEF Apply
  <2>2. TypedRun'
    <3>1. loc' \in Memory
      BY <1>0, <1>5 DEF TypedRun, Apply, Memory
    <3>2. ghost' \in History
      BY <1>0, <1>5 DEF TypedRun, Apply, Wrote
    <3> QED
      BY <1>0, <1>5, <3>1, <3>2 DEF TypedRun, Apply
  <2> QED
    BY <1>5, <1>b, <2>1, <2>2 DEF Typed, Apply
<1>6. CASE KeyRefused
  BY <1>0, <1>c, <1>6, BlankType DEF Typed, TypedRun, KeyRefused
<1>7. CASE KeysDone
  BY <1>0, <1>c, <1>7, BlankType DEF Typed, TypedRun, KeysDone
<1>8. CASE SelectRepositories
  <2>1. Selected \in SUBSET Repos
    BY DEF Selected
  <2> QED
    BY <1>0, <1>c, <1>8, <2>1 DEF Typed, TypedRun, SelectRepositories, Memory
<1>9. CASE CheckAccess
  <2>1. PICK r \in loc.repos :
           IF HasAccess(r)
           THEN loc' = [loc EXCEPT !.repos = @ \ {r}] /\ Goto("check") /\ UNCHANGED ghost
           ELSE /\ loc' = [loc EXCEPT !.repos = @ \ {r}, !.at = {r}]
                /\ Goto("invites")
                /\ ghost' = [ghost EXCEPT !.moved = @ \ {r}]
    BY <1>9 DEF CheckAccess
  <2>2. r \in Repos
    BY <1>0 DEF TypedRun, Memory
  <2>3. TypedRun'
    <3>1. loc' \in Memory
      <4>1. loc \in Memory /\ loc.repos \ {r} \in SUBSET Repos /\ {r} \in SUBSET Repos
        BY <1>0, <2>2 DEF TypedRun, Memory
      <4>2. \/ loc' = [loc EXCEPT !.repos = loc.repos \ {r}]
            \/ loc' = [loc EXCEPT !.repos = loc.repos \ {r}, !.at = {r}]
        BY <2>1
      <4> QED
        BY <4>1, <4>2 DEF Memory
    <3>2. ghost' \in History
      BY <1>0, <2>1 DEF TypedRun
    <3> QED
      BY <1>0, <1>9, <2>1, <3>1, <3>2 DEF TypedRun, CheckAccess
  <2> QED
    BY <1>9, <1>c, <2>3 DEF Typed, CheckAccess
<1>10. CASE Invite
  <2>1. PICK r \in loc.at :
           IF repos[r] = "archived" THEN RepositoryFailed(r) /\ UNCHANGED repos
           ELSE /\ repos' = [repos EXCEPT ![r] = IF @ = "none" THEN "invited"
                                                 ELSE IF @ = "own" THEN "member" ELSE @]
                /\ loc' = [loc EXCEPT !.at = {}]
                /\ Goto("check")
    BY <1>10 DEF Invite
  <2>2. r \in Repos
    BY <1>0 DEF TypedRun, Memory
  <2>3. TypedStandings'
    BY <1>0, <1>10, <2>1, <2>2 DEF TypedStandings, Standings, Invite
  <2>4. TypedRun'
    BY ZenonT(60), <1>0, <1>10, <2>1, <2>2, FailedType DEF TypedRun, Memory, Invite
  <2> QED
    BY <1>10, <1>a, <2>3, <2>4 DEF Typed, Invite
<1>11. CASE ListInvitations
  BY <1>0, <1>c, <1>11 DEF Typed, TypedRun, TypedStandings, Memory, ListInvitations
<1>12. CASE AcceptOne
  <2>1. TypedStandings'
    BY <1>0, <1>12 DEF TypedStandings, TypedRun, Memory, AcceptOne
  <2>2. TypedRun'
    BY <1>0, <1>12, BlankType DEF TypedRun, Memory, AcceptOne
  <2> QED
    BY <1>12, <1>a, <2>1, <2>2 DEF Typed, AcceptOne
<1>13. CASE AllDone
  <2>1. loc.failed \in SUBSET Repos
    BY <1>0 DEF TypedRun, Memory
  <2> QED
    BY ZenonT(60), <1>0, <1>c, <1>13, <2>1, BlankType DEF Typed, TypedRun, AllDone
<1>14. CASE Fail
  <2>1. faults' \in 0 .. MaxFaults /\ UNCHANGED <<settings, token, changes>>
    BY <1>0, <1>14, <1>d DEF Fail, TypedRun
  <2>2. CASE pc = "apply"
    <3>1. TypedShelves'
      BY <1>14, <1>a, <2>2, KeyCallType DEF Fail, MaybeDone
    <3>2. TypedRun' /\ TypedStandings'
      BY ZenonT(60), <1>0, <1>14, <1>b, <2>1, <2>2, BlankType DEF Fail, MaybeDone, FailRun, TypedRun
    <3> QED
      BY <3>1, <3>2 DEF Typed
  <2>3. CASE pc # "apply" /\ pc \in {"check", "invites", "invite"} /\ loc.repos \cup loc.at # {}
    <3>1. PICK r \in IF pc = "check" THEN loc.repos ELSE loc.at :
              /\ RepositoryFailed(r)
              /\ repos' \in IF pc = "invite" /\ repos[r] = "none"
                            THEN {repos, [repos EXCEPT ![r] = "invited"]} ELSE {repos}
      BY <1>14, <2>3 DEF Fail, MaybeDone
    <3>2. r \in Repos
      BY <1>0, <3>1 DEF TypedRun, Memory
    <3>3. UNCHANGED <<shelves, lastId, pending, accepted, ghost>>
      BY <1>14, <2>3 DEF Fail, MaybeDone
    <3>4. TypedStandings'
      BY <1>0, <3>1, <3>2, <3>3 DEF TypedStandings, Standings
    <3>5. TypedRun'
      BY <1>0, <2>1, <3>1, <3>2, <3>3, FailedType DEF TypedRun
    <3> QED
      BY <1>a, <3>3, <3>4, <3>5 DEF Typed
  <2>4. CASE pc # "apply" /\ ~(pc \in {"check", "invites", "invite"} /\ loc.repos \cup loc.at # {})
    <3>1. /\ UNCHANGED <<shelves, lastId, repos>>
          /\ \/ UNCHANGED <<pending, accepted>>
             \/ \E i \in loc.trusted \cap pending :
                    pending' = pending \ {i} /\ accepted' = accepted \cup {i}
          /\ FailRun("call")
      BY <1>14, <2>4 DEF Fail, MaybeDone
    <3>2. TypedRun'
      BY <1>0, <2>1, <3>1, BlankType DEF TypedRun, FailRun
    <3>3. TypedStandings'
      BY <1>0, <3>1 DEF TypedStandings
    <3> QED
      BY <1>a, <3>1, <3>2, <3>3 DEF Typed
  <2> QED
    BY <2>2, <2>3, <2>4
<1>15. CASE Kill
  BY <1>0, <1>c, <1>d, <1>15, BlankType DEF Typed, TypedRun, Kill, FailRun
<1>16. CASE ChangeToken
  BY <1>0, <1>c, <1>d, <1>16 DEF Typed, TypedRun, ChangeToken
<1>17. CASE ChangeKeys
  <2>1. PICK s \in Shelves :
          \/ \E t \in Titles, key \in Keys :
               /\ lastId' = lastId + 1
               /\ shelves' = [shelves EXCEPT ![s] =
                                 @ \cup {[id |-> lastId + 1, title |-> t, key |-> key]}]
               /\ ghost' = [ghost EXCEPT !.quiet = FALSE, !.since = @ \cup {<<s, lastId + 1>>}]
          \/ \E k \in shelves[s] :
               /\ shelves' = [shelves EXCEPT ![s] = @ \ {k}]
               /\ ghost' = [ghost EXCEPT !.quiet = FALSE]
               /\ UNCHANGED lastId
    BY <1>17 DEF ChangeKeys
  <2>2. TypedShelves' /\ ghost' \in History
    <3>1. CASE \E t \in Titles, key \in Keys :
                 /\ lastId' = lastId + 1
                 /\ shelves' = [shelves EXCEPT ![s] =
                                   @ \cup {[id |-> lastId + 1, title |-> t, key |-> key]}]
                 /\ ghost' = [ghost EXCEPT !.quiet = FALSE, !.since = @ \cup {<<s, lastId + 1>>}]
      <4>1. PICK t \in Titles, key \in Keys :
                 /\ Adds(s, [id |-> lastId + 1, title |-> t, key |-> key])
                 /\ ghost' = [ghost EXCEPT !.quiet = FALSE, !.since = @ \cup {<<s, lastId + 1>>}]
        <5>1. lastId + 1 \in Nat
          BY <1>0 DEF TypedShelves
        <5> QED
          BY <3>1, <5>1 DEF Adds, Key
      <4>2. <<s, lastId + 1>> \in Shelves \X Nat
        BY <1>0 DEF TypedShelves
      <4> QED
        BY <1>0, <4>1, <4>2, ShelvesType DEF TypedRun
    <3>2. CASE \E k \in shelves[s] : /\ shelves' = [shelves EXCEPT ![s] = @ \ {k}]
                                     /\ ghost' = [ghost EXCEPT !.quiet = FALSE]
                                     /\ UNCHANGED lastId
      BY <1>0, <3>2, ShelvesType DEF TypedRun, Removes
    <3> QED
      BY <2>1, <3>1, <3>2
  <2>3. TypedRun'
    BY <1>0, <1>d, <1>17, <2>2 DEF TypedRun, ChangeKeys
  <2> QED
    BY <1>b, <1>17, <2>2, <2>3 DEF Typed, ChangeKeys
<1>18. CASE ChangeStandings
  <2>1. ghost' \in History
    <3>1. ghost \in History
      BY <1>0 DEF TypedRun
    <3>2. \/ \E r \in Repos : ghost' = [ghost EXCEPT !.quiet = FALSE, !.moved = @ \cup {r}]
          \/ ghost' = [ghost EXCEPT !.quiet = FALSE]
      BY <1>18 DEF ChangeStandings
    <3>3. \A r \in Repos : ghost.moved \cup {r} \in SUBSET Repos
      BY <3>1
    <3> QED
      BY ZenonT(60), <3>1, <3>2, <3>3
  <2>2. TypedRun'
    BY <1>0, <1>d, <1>18, <2>1 DEF TypedRun, ChangeStandings
  <2>3. TypedStandings'
    BY ZenonT(60), <1>0, <1>18 DEF TypedStandings, ChangeStandings, Standings
  <2> QED
    BY <1>a, <1>18, <2>2, <2>3 DEF Typed, ChangeStandings
<1>19. CASE CheckInvites
  BY <1>0, <1>c, <1>19 DEF Typed, TypedRun, Memory, CheckInvites
<1>20. CASE UNCHANGED vars
  BY <1>0, <1>c, <1>20 DEF Typed, TypedRun, vars
<1> QED
  BY <1>1, <1>2, <1>3, <1>4, <1>5, <1>6, <1>7, <1>8, <1>9, <1>10, <1>11, <1>12, <1>13,
     <1>14, <1>15, <1>16, <1>17, <1>18, <1>19, <1>20 DEF Next, RunStep

-----------------------------------------------------------------------------
(* What a plan holds.                                                      *)

\* A declared key is created, and a listed key that the declaration has
\* removed is deleted, nothing else.
LEMMA PlanIsSound ==
  ASSUME Typed, NEW s \in Shelves, NEW o \in Plan(s)
  PROVE  /\ o.shelf = s
         /\ o.op = "create" => o.title \in Present(s) /\ o.key = WantedKey(s, o.title)
         /\ o.op = "delete" =>
              /\ settings.allow
              /\ \E k \in shelves[s] : /\ o.id = k.id /\ o.title = k.title /\ o.key = k.key
                                       /\ DeclaredGone(s, k)
<1> DEFINE Removed == Declared(s) \ Present(s)
           Doomed == IF IsGpg(s) THEN UNION {First(Holding(s, WantedKey(s, t))) : t \in Removed}
                     ELSE Gone(s)
<1>1. \A k \in Doomed : k \in shelves[s] /\ DeclaredGone(s, k)
  BY DEF First, Holding, Gone, Titled, DeclaredGone
<1>2. \/ \E t \in Present(s) : o \in Create(s, {t})
      \/ settings.allow /\ o \in Delete(s, Doomed)
  BY DEF Plan, PlanGpg, PlanByTitle, Create
<1> HIDE DEF Doomed
<1>3. CASE \E t \in Present(s) : o \in Create(s, {t})
  BY <1>3 DEF Create
<1>4. CASE settings.allow /\ o \in Delete(s, Doomed)
  BY <1>1, <1>4 DEF Delete
<1> QED
  BY <1>2, <1>3, <1>4

\* A plan that is not refused provides for every declared title, and for every
\* key the declaration has removed.
LEMMA PlanCovers ==
  ASSUME Typed, NEW s \in Shelves, ~Doubtful(s)
  PROVE  /\ IsGpg(s) => ~Repeated(s, Declared(s))
         /\ \A t \in Present(s) :
               Held(s, t) \/ \E o \in Plan(s) : o.op = "create" /\ o.shelf = s /\ o.title = t
         /\ settings.allow =>
               \A k \in shelves[s] : DeclaredGone(s, k) =>
                  \/ IsGpg(s) /\ k.key \in Twice(s)
                  \/ \E o \in Plan(s) : o.op = "delete" /\ o.shelf = s /\ o.id = k.id
<1>1. IsGpg(s) => ~Repeated(s, Declared(s))
  BY DEF Doubtful, IsGpg
<1>2. \A t \in Present(s) :
         Held(s, t) \/ \E o \in Plan(s) : o.op = "create" /\ o.shelf = s /\ o.title = t
  <2> SUFFICES ASSUME NEW t \in Present(s), ~Held(s, t)
               PROVE  \E o \in Plan(s) : o.op = "create" /\ o.shelf = s /\ o.title = t
    OBVIOUS
  <2> DEFINE o == [op |-> "create", shelf |-> s, title |-> t, key |-> WantedKey(s, t), id |-> 0]
  <2>1. CASE IsGpg(s)
    <3>1. Holding(s, WantedKey(s, t)) = {}
      BY <2>1 DEF Held, Holding
    <3>2. o \in Plan(s)
      BY <2>1, <3>1 DEF Plan, PlanGpg, Create
    <3> QED
      BY <3>2
  <2>2. CASE ~IsGpg(s)
    <3>1. Titled(s, t) = {}
      <4>1. CASE settings.service = "forgejo"
        BY <2>2, <4>1 DEF Doubtful, DoubtfulForgejo, Held, Titled
      <4>2. CASE settings.service # "forgejo"
        BY <2>2, <4>2 DEF Doubtful, DoubtfulSsh, Held, Titled
      <4> QED
        BY <4>1, <4>2
    <3>2. o \in Plan(s)
      BY <2>2, <3>1 DEF Plan, PlanByTitle, Create
    <3> QED
      BY <3>2
  <2> QED
    BY <2>1, <2>2
<1>3. ASSUME settings.allow, NEW k \in shelves[s], DeclaredGone(s, k),
             ~(IsGpg(s) /\ k.key \in Twice(s))
      PROVE  \E o \in Plan(s) : o.op = "delete" /\ o.shelf = s /\ o.id = k.id
  <2> DEFINE o == [op |-> "delete", shelf |-> s, title |-> k.title, key |-> k.key, id |-> k.id]
  <2>1. PICK t \in Declared(s) \ Present(s) : IF IsGpg(s) THEN k.key = WantedKey(s, t)
                                                          ELSE k.title = t
    BY <1>3 DEF DeclaredGone
  <2>2. o \in Plan(s)
    <3>1. CASE IsGpg(s)
      <4>1. k \in First(Holding(s, WantedKey(s, t)))
        <5>1. \A l \in Holding(s, WantedKey(s, t)) : l = k
          BY <1>3, <2>1, <3>1 DEF Holding, Twice
        <5>2. k \in Holding(s, WantedKey(s, t)) /\ k.id \in Nat
          BY <2>1, <3>1 DEF Holding, Typed, TypedShelves, Key
        <5> QED
          BY <5>1, <5>2 DEF First
      <4> QED
        BY <1>3, <3>1, <4>1 DEF Plan, PlanGpg, Delete
    <3>2. CASE ~IsGpg(s)
      <4>1. k \in Gone(s)
        BY <1>3, <2>1, <3>2 DEF Gone, Titled
      <4> QED
        BY <1>3, <3>2, <4>1 DEF Plan, PlanByTitle, Delete
    <3> QED
      BY <3>1, <3>2
  <2> QED
    BY <2>2
<1> QED
  BY <1>1, <1>2, <1>3

-----------------------------------------------------------------------------
(* Ids and plans stay sound whatever others do.                            *)

\* The declaration is read as before.
LEMMA SameDeclaration ==
  ASSUME settings' = settings, NEW s
  PROVE  /\ Declared(s)' = Declared(s) /\ Present(s)' = Present(s) /\ IsGpg(s)' = IsGpg(s)
         /\ \A t : WantedKey(s, t)' = WantedKey(s, t)
         /\ \A k : DeclaredGone(s, k)' = DeclaredGone(s, k)
BY DEF Declared, Present, IsGpg, WantedKey, DeclaredGone

\* A key that comes has a new id, and one that goes takes its id along.
LEMMA ShelvesMove ==
  ASSUME Typed, IdsName, PlanSound, NEW s \in Shelves, NEW k, Adds(s, k) \/ Removes(s, k),
         settings' = settings, loc'.ops \subseteq loc.ops,
         ghost'.since \subseteq ghost.since \cup {<<s, lastId + 1>>}
  PROVE  IdsName' /\ PlanSound'
<1>1. /\ lastId \in Nat
      /\ \A u \in Shelves : \A l \in shelves[u] : l.id \in Nat /\ l.id <= lastId
      /\ \A u \in Shelves : \A l \in shelves'[u] :
            l \in shelves[u] \/ (l = k /\ l.id = lastId + 1 /\ u = s)
      /\ lastId' \in {lastId, lastId + 1}
  BY DEF Typed, TypedShelves, Adds, Removes
<1>2. IdsName'
  BY <1>1 DEF IdsName
<1>3. ASSUME NEW o \in loc'.ops PROVE Sound(o)'
  <2>1. Sound(o) /\ o \in Operation
    BY <1>3 DEF PlanSound, Typed, TypedRun, Memory
  <2>2. o.shelf \in Shelves /\ o.id \in Nat
    BY <2>1 DEF Operation
  <2>3. o.op = "create" => o.title \in Present(o.shelf)' /\ o.key = WantedKey(o.shelf, o.title)'
    BY <2>1, SameDeclaration DEF Sound
  <2>4. ASSUME o.op = "delete"
        PROVE  /\ settings'.allow /\ o.id <= lastId' /\ <<o.shelf, o.id>> \notin ghost'.since
               /\ DeclaredGone(o.shelf, o)'
               /\ \A l \in shelves'[o.shelf] : l.id = o.id => l.title = o.title /\ l.key = o.key
    <3>1. o.id # lastId + 1 /\ o.id <= lastId'
      BY <1>1, <2>1, <2>2, <2>4 DEF Sound
    <3>2. DeclaredGone(o.shelf, o)'
      BY <2>1, <2>4, SameDeclaration DEF Sound
    <3> QED
      BY <1>1, <2>1, <2>2, <2>4, <3>1, <3>2 DEF Sound
  <2> QED
    BY <2>3, <2>4 DEF Sound
<1> QED
  BY <1>2, <1>3 DEF PlanSound

\* Nothing comes or goes.
LEMMA ShelvesStay ==
  ASSUME IdsName, PlanSound, UNCHANGED <<settings, shelves, lastId>>,
         loc'.ops \subseteq loc.ops, ghost'.since \subseteq ghost.since
  PROVE  IdsName' /\ PlanSound'
BY SameDeclaration DEF IdsName, PlanSound, Sound

\* Every step keeps the ids unique and the plan sound.
LEMMA SoundStep == Typed /\ IdsName /\ PlanSound /\ [Next]_vars => IdsName' /\ PlanSound'
<1> SUFFICES ASSUME Typed, IdsName, PlanSound, [Next]_vars PROVE IdsName' /\ PlanSound'
  OBVIOUS
<1>0. loc \in Memory /\ ghost \in History
  BY DEF Typed, TypedRun
<1>e. ASSUME pc' = "idle", loc' = Blank, UNCHANGED shelves PROVE IdsName' /\ PlanSound'
  BY <1>e DEF IdsName, PlanSound, Blank
<1> USE DEF Goto, Because, bounds, service
<1>1. CASE Start \/ KeysDone \/ ListInvitations \/ SelectRepositories
  BY <1>0, <1>e, <1>1, ShelvesStay DEF Start, KeysDone, ListInvitations, SelectRepositories, Finish,
     Memory, History
<1>2. CASE Load
  BY <1>0, <1>e, <1>2, ShelvesStay DEF Load, Finish, Memory, History
<1>3. CASE Login
  BY <1>0, <1>e, <1>3, ShelvesStay DEF Login, Finish
<1>4. CASE List
  <2>1. CASE loc.todo = {}
    BY <1>4, <2>1, ShelvesStay DEF List
  <2>2. CASE loc.todo # {}
    <3>1. PICK s \in loc.todo :
             /\ s \in Shelves
             /\ IF Doubtful(s) THEN Finish("failed") /\ Because("plan")
                ELSE /\ loc' = [loc EXCEPT !.todo = @ \ {s}, !.ops = @ \cup Plan(s)]
                     /\ Goto("list")
                     /\ ghost' = Listed(s)
             /\ UNCHANGED <<bounds, token, service>>
      BY <1>4, <2>2, ListOne
    <3>2. CASE Doubtful(s)
      BY <1>e, <3>1, <3>2 DEF Finish
    <3>3. CASE ~Doubtful(s)
      <4>1. /\ loc' = [loc EXCEPT !.todo = @ \ {s}, !.ops = @ \cup Plan(s)]
            /\ ghost' = Listed(s)
            /\ UNCHANGED <<settings, shelves, lastId>>
        BY <3>1, <3>3
      <4>2. /\ loc'.ops = loc.ops \cup Plan(s)
            /\ ghost'.since = {k \in ghost.since : k[1] # s}
        BY <1>0, <3>1, <4>1, ListedType DEF Memory
      <4>3. IdsName'
        BY <4>1 DEF IdsName
      <4>4. ASSUME NEW o \in loc.ops PROVE Sound(o)'
        BY <4>1, <4>2, <4>4, SameDeclaration DEF PlanSound, Sound
      <4>5. ASSUME NEW o \in Plan(s) PROVE Sound(o)'
        <5>1. o.shelf = s /\ <<o.shelf, o.id>> \notin ghost'.since
          BY <3>1, <4>2, PlanIsSound
        <5>2. o.op = "create" => o.title \in Present(s)' /\ o.key = WantedKey(s, o.title)'
          BY <3>1, <4>1, PlanIsSound, SameDeclaration
        <5>3. ASSUME o.op = "delete"
              PROVE  /\ settings'.allow /\ o.id <= lastId'
                     /\ DeclaredGone(s, o)'
                     /\ \A k \in shelves'[s] : k.id = o.id => k.title = o.title /\ k.key = o.key
          <6>1. PICK k \in shelves[s] : /\ o.id = k.id /\ o.title = k.title /\ o.key = k.key
                                        /\ DeclaredGone(s, k)
            BY <3>1, <5>3, PlanIsSound
          <6>2. settings'.allow /\ o.id <= lastId'
            BY <3>1, <4>1, <5>3, <6>1, PlanIsSound DEF Typed, TypedShelves
          <6>3. DeclaredGone(s, o)'
            BY <4>1, <6>1 DEF DeclaredGone, Declared, Present, IsGpg, WantedKey
          <6>4. \A l \in shelves'[s] : l.id = o.id => l.title = o.title /\ l.key = o.key
            BY <3>1, <4>1, <6>1 DEF IdsName
          <6> QED
            BY <6>2, <6>3, <6>4
        <5> QED
          BY <5>1, <5>2, <5>3 DEF Sound
      <4> QED
        BY <4>2, <4>3, <4>4, <4>5 DEF PlanSound
    <3> QED
      BY <3>2, <3>3
  <2> QED
    BY <2>1, <2>2
<1>5. ASSUME NEW o \in loc.ops, CreateKey(o) \/ DeleteKey(o), loc'.ops \subseteq loc.ops,
             settings' = settings, ghost'.since = ghost.since
      PROVE  IdsName' /\ PlanSound'
  <2>1. o.shelf \in Shelves
    BY KeyCalls DEF Operation
  <2>2. CASE CreateKey(o)
    BY <1>5, <2>1, <2>2, KeyCalls, ShelvesMove
  <2>3. CASE DeleteKey(o)
    BY <1>5, <2>1, <2>3, KeyCalls, ShelvesMove
  <2> QED
    BY <1>5, <2>2, <2>3
<1>6. CASE Apply
  BY <1>0, <1>5, <1>6 DEF Apply, Wrote, Memory, History
<1>7. CASE KeyRefused
  BY <1>7, <1>e DEF KeyRefused, Finish
<1>8. CASE CheckAccess \/ CheckInvites
  BY <1>0, <1>8, ShelvesStay DEF CheckAccess, CheckInvites, Memory, History
<1>9. CASE Invite
  BY <1>0, <1>9, ShelvesStay DEF Invite, RepositoryFailed, Memory
<1>10. CASE AcceptOne
  BY <1>0, <1>e, <1>10, ShelvesStay DEF AcceptOne, Finish, Memory
<1>11. CASE AllDone
  BY <1>11, <1>e DEF AllDone, Finish
<1>12. CASE Fail
  <2>1. settings' = settings
    BY <1>12 DEF Fail
  <2>2. CASE pc = "apply"
    <3>1. CASE UNCHANGED <<shelves, lastId>> /\ FailRun("call")
      BY <1>e, <3>1 DEF FailRun, Finish
    <3>2. CASE /\ \E o \in loc.ops : CreateKey(o) \/ DeleteKey(o)
               /\ Finish("failed")
               /\ ghost' = [ghost EXCEPT !.why = "call", !.wrote = TRUE]
      BY <1>0, <1>5, <2>1, <3>2 DEF Finish, Blank, History
    <3> QED
      BY <1>12, <2>2, <3>1, <3>2 DEF Fail, MaybeDone
  <2>3. CASE pc # "apply"
    <3>1. UNCHANGED <<shelves, lastId>>
      BY <1>12, <2>3 DEF Fail, MaybeDone
    <3>2. \/ FailRun("call")
          \/ UNCHANGED ghost /\ loc'.ops = loc.ops
      BY <1>0, <1>12, <2>3 DEF Fail, MaybeDone, RepositoryFailed, Memory
    <3> QED
      BY <1>e, <2>1, <3>1, <3>2, ShelvesStay DEF FailRun, Finish
  <2> QED
    BY <2>2, <2>3
<1>13. CASE Kill
  BY <1>13, <1>e DEF Kill, FailRun, Finish
<1>14. CASE ChangeToken \/ ChangeStandings
  BY <1>0, <1>14, ShelvesStay DEF ChangeToken, ChangeStandings, History
<1>15. CASE ChangeKeys
  <2>1. PICK s \in Shelves :
          \/ \E t \in Titles, key \in Keys :
               /\ lastId' = lastId + 1
               /\ shelves' = [shelves EXCEPT ![s] =
                                 @ \cup {[id |-> lastId + 1, title |-> t, key |-> key]}]
               /\ ghost' = [ghost EXCEPT !.quiet = FALSE, !.since = @ \cup {<<s, lastId + 1>>}]
          \/ \E k \in shelves[s] :
               /\ shelves' = [shelves EXCEPT ![s] = @ \ {k}]
               /\ ghost' = [ghost EXCEPT !.quiet = FALSE]
               /\ UNCHANGED lastId
    BY <1>15 DEF ChangeKeys
  <2>2. /\ \E k : Adds(s, k) \/ Removes(s, k)
        /\ ghost'.since \subseteq ghost.since \cup {<<s, lastId + 1>>}
    <3>1. CASE \E t \in Titles, key \in Keys :
                 /\ lastId' = lastId + 1
                 /\ shelves' = [shelves EXCEPT ![s] =
                                   @ \cup {[id |-> lastId + 1, title |-> t, key |-> key]}]
                 /\ ghost' = [ghost EXCEPT !.quiet = FALSE, !.since = @ \cup {<<s, lastId + 1>>}]
      <4>1. PICK t \in Titles, key \in Keys :
                 /\ lastId' = lastId + 1
                 /\ shelves' = [shelves EXCEPT ![s] =
                                   @ \cup {[id |-> lastId + 1, title |-> t, key |-> key]}]
                 /\ ghost' = [ghost EXCEPT !.quiet = FALSE, !.since = @ \cup {<<s, lastId + 1>>}]
        BY <3>1
      <4>2. lastId + 1 \in Nat
        BY DEF Typed, TypedShelves
      <4>3. Adds(s, [id |-> lastId + 1, title |-> t, key |-> key])
        BY <4>1, <4>2 DEF Adds, Key
      <4> QED
        BY <1>0, <4>1, <4>3 DEF History
    <3>2. CASE \E k \in shelves[s] : /\ shelves' = [shelves EXCEPT ![s] = @ \ {k}]
                                     /\ ghost' = [ghost EXCEPT !.quiet = FALSE]
                                     /\ UNCHANGED lastId
      BY <1>0, <3>2 DEF Removes, History
    <3> QED
      BY <2>1, <3>1, <3>2
  <2> QED
    BY <1>15, <2>2, ShelvesMove DEF ChangeKeys
<1>16. CASE UNCHANGED vars
  BY <1>16, ShelvesStay DEF vars
<1> QED
  BY <1>1, <1>2, <1>3, <1>4, <1>6, <1>7, <1>8, <1>9, <1>10, <1>11, <1>12, <1>13, <1>14, <1>15,
     <1>16 DEF Next, RunStep

-----------------------------------------------------------------------------
(* The stages of a run, and the rounds of the repositories.                *)

\* Nothing is changed before the plan is whole, and an outcome is the outcome
\* of a run that is over.
LEMMA StagedStep == Typed /\ Staged /\ [Next]_vars => Staged'
<1> SUFFICES ASSUME Typed, Staged, [Next]_vars PROVE Staged'
  OBVIOUS
<1>0. loc \in Memory /\ ghost \in History
  BY DEF Typed, TypedRun
<1> USE DEF Goto, Because, Finish, Blank, FailRun, bounds, service, Staged
<1>1. CASE Start
  BY <1>0, <1>1 DEF Start, History
<1>2. CASE Load
  BY <1>0, <1>2 DEF Load, History
<1>3. CASE Login
  BY <1>0, <1>3 DEF Login, History
<1>4. CASE List
  <2>1. CASE loc.todo = {}
    BY <1>4, <2>1 DEF List
  <2>2. CASE loc.todo # {}
    <3>1. /\ pc = "list"
          /\ \/ pc' = "idle" /\ status' = "failed" /\ ghost' = [ghost EXCEPT !.why = "plan"]
             \/ \E s \in loc.todo : /\ pc' = "list" /\ status' = status
                                    /\ ghost' = Listed(s)
      BY <1>4, <2>2, ListOne DEF List
    <3>2. loc.todo \subseteq Shelves
      BY <1>0 DEF Memory
    <3>3. \/ pc' = "idle" /\ ghost'.why = "plan" /\ ghost'.wrote = ghost.wrote
          \/ /\ pc' = "list" /\ status' = status
             /\ ghost'.why = ghost.why /\ ghost'.wrote = ghost.wrote
      BY <1>0, <3>1, <3>2, ListedType DEF History
    <3> QED
      BY <3>1, <3>3
  <2> QED
    BY <2>1, <2>2
<1>5. CASE Apply
  BY <1>0, <1>5 DEF Apply, Wrote, Memory, History
<1>6. CASE KeyRefused
  BY <1>0, <1>6 DEF KeyRefused, History
<1>7. CASE KeysDone \/ SelectRepositories \/ ListInvitations
  BY <1>0, <1>7 DEF KeysDone, SelectRepositories, ListInvitations
<1>8. CASE CheckAccess \/ CheckInvites
  BY <1>0, <1>8 DEF CheckAccess, CheckInvites, History
<1>9. CASE Invite
  BY <1>9 DEF Invite, RepositoryFailed
<1>10. CASE AcceptOne
  BY <1>0, <1>10 DEF AcceptOne, History
<1>11. CASE AllDone
  BY <1>0, <1>11 DEF AllDone, History
<1>12. CASE Fail
  <2>1. \/ /\ pc' = "idle" /\ ghost'.why = "call"
        \/ /\ pc \in {"check", "invites", "invite"}
           /\ pc' = "check" /\ status' = status /\ ghost' = ghost
    <3>1. CASE pc = "apply"
      BY <1>0, <1>12, <3>1 DEF Fail, MaybeDone, History
    <3>2. CASE pc # "apply"
      BY <1>0, <1>12, <3>2 DEF Fail, MaybeDone, RepositoryFailed, History
    <3> QED
      BY <3>1, <3>2
  <2> QED
    BY <2>1
<1>13. CASE Kill
  BY <1>0, <1>13 DEF Kill, History
<1>14. CASE ChangeToken \/ ChangeKeys \/ ChangeStandings
  <2>1. /\ UNCHANGED <<pc, loc, status>>
        /\ ghost'.wrote = ghost.wrote /\ ghost'.why = ghost.why
    BY <1>0, <1>14 DEF ChangeToken, ChangeKeys, ChangeStandings, History
  <2> QED
    BY <2>1
<1>15. CASE UNCHANGED vars
  BY <1>15 DEF vars
<1> QED
  BY <1>1, <1>2, <1>3, <1>4, <1>5, <1>6, <1>7, <1>8, <1>9, <1>10, <1>11, <1>12, <1>13, <1>14,
     <1>15 DEF Next, RunStep

\* The repositories are gone through one by one, and nothing changes under the
\* one that was looked at without others having moved it.
LEMMA RoundsStep == Typed /\ Rounds /\ [Next]_vars => Rounds'
<1> SUFFICES ASSUME Typed, Rounds, [Next]_vars PROVE Rounds'
  OBVIOUS
<1>0. loc \in Memory /\ ghost \in History
  BY DEF Typed, TypedRun
<1>e. loc' = Blank => Rounds'
  BY DEF Rounds, Open, Blank
<1>f. UNCHANGED <<settings, repos>> /\ loc'.repos = loc.repos /\ loc'.at = loc.at
      /\ loc'.failed = loc.failed /\ ghost'.moved = ghost.moved
      /\ pc' \notin {"invites", "invite"} /\ pc \notin {"invites", "invite"}
      /\ (pc' # "accept" \/ loc.repos = {})
      => Rounds'
  BY DEF Rounds, Open
<1> USE DEF Goto, Because, Finish, FailRun, bounds, service
<1>1. CASE Start
  BY <1>0, <1>1, <1>f DEF Start, History
<1>2. CASE Load
  BY <1>0, <1>2, <1>e, <1>f DEF Load, Memory
<1>3. CASE Login
  BY <1>3, <1>e, <1>f DEF Login
<1>4. CASE List
  <2>1. CASE loc.todo = {}
    BY <1>4, <1>f, <2>1 DEF List
  <2>2. CASE loc.todo # {}
    <3>1. /\ pc = "list" /\ UNCHANGED <<settings, repos>>
          /\ \/ loc' = Blank
             \/ \E s \in loc.todo : /\ pc' = "list"
                                    /\ loc' = [loc EXCEPT !.todo = @ \ {s}, !.ops = @ \cup Plan(s)]
                                    /\ ghost' = Listed(s)
      BY <1>4, <2>2, ListOne DEF List
    <3>2. ghost'.moved = ghost.moved \/ loc' = Blank
      <4>1. ASSUME NEW s \in loc.todo, ghost' = Listed(s) PROVE ghost'.moved = ghost.moved
        <5>1. s \in Shelves
          BY <1>0 DEF Memory
        <5>2. Listed(s).moved = ghost.moved
          BY <5>1, ListedType
        <5> QED
          BY <4>1, <5>2
      <4> QED
        BY <3>1, <4>1
    <3>3. \/ loc' = Blank
          \/ loc'.repos = loc.repos /\ loc'.at = loc.at /\ loc'.failed = loc.failed
      BY <1>0, <3>1 DEF Memory
    <3> QED
      BY <3>1, <3>2, <3>3, <1>e, <1>f
  <2> QED
    BY <2>1, <2>2
<1>5. CASE Apply
  BY <1>0, <1>5, <1>f DEF Apply, Wrote, Memory, History
<1>6. CASE KeyRefused \/ Kill
  BY <1>6, <1>e DEF KeyRefused, Kill
<1>7. CASE KeysDone
  BY <1>7, <1>e, <1>f DEF KeysDone
<1>8. CASE SelectRepositories
  <2>1. /\ loc'.repos = Selected /\ loc'.at = loc.at /\ loc'.failed = loc.failed
    BY <1>0, <1>8 DEF SelectRepositories, Memory
  <2> QED
    BY <1>8, <2>1 DEF SelectRepositories, Selected, Rounds, Open
<1>9. CASE CheckAccess
  <2>1. PICK r \in loc.repos :
           IF HasAccess(r)
           THEN loc' = [loc EXCEPT !.repos = @ \ {r}] /\ Goto("check") /\ UNCHANGED ghost
           ELSE /\ loc' = [loc EXCEPT !.repos = @ \ {r}, !.at = {r}]
                /\ Goto("invites")
                /\ ghost' = [ghost EXCEPT !.moved = @ \ {r}]
    BY <1>9 DEF CheckAccess
  <2>2. UNCHANGED <<settings, repos>> /\ pc = "check"
    BY <1>9 DEF CheckAccess
  <2>3. CASE HasAccess(r)
    <3>1. /\ loc'.repos = loc.repos \ {r} /\ loc'.at = loc.at /\ loc'.failed = loc.failed
          /\ pc' = "check" /\ ghost' = ghost
      BY <1>0, <2>1, <2>3 DEF Memory
    <3> QED
      BY <2>2, <3>1 DEF Rounds, Open
  <2>4. CASE ~HasAccess(r)
    <3>1. /\ loc'.repos = loc.repos \ {r} /\ loc'.at = {r} /\ loc'.failed = loc.failed
          /\ pc' = "invites"
      BY <1>0, <2>1, <2>4 DEF Memory
    <3>2. repos[r] \in {"none", "archived", "invited"}
      BY <1>0, <2>4 DEF HasAccess, Typed, TypedStandings, Standings, Memory
    <3> QED
      BY <2>2, <3>1, <3>2 DEF Rounds, Open
  <2> QED
    BY <2>3, <2>4
<1>10. CASE Invite
  <2>1. /\ loc'.at = {} /\ pc' = "check" /\ settings' = settings
        /\ (loc'.repos \cup loc'.at \cup loc'.failed # {} => Open # {})
    BY <1>0, <1>10 DEF Invite, RepositoryFailed, Memory, Open
  <2> QED
    BY <2>1 DEF Rounds, Open
<1>11. CASE ListInvitations
  BY <1>0, <1>11, <1>f DEF ListInvitations, Memory
<1>12. CASE AcceptOne
  BY <1>0, <1>12, <1>e, <1>f DEF AcceptOne, Memory, Rounds
<1>13. CASE AllDone
  BY <1>13, <1>e DEF AllDone
<1>14. CASE Fail
  <2>1. CASE loc' = Blank
    BY <1>e, <2>1
  <2>2. CASE loc' # Blank
    <3>1. /\ loc.repos \cup loc.at # {} /\ settings' = settings
          /\ \E r \in IF pc = "check" THEN loc.repos ELSE loc.at : RepositoryFailed(r)
      BY <1>14, <2>2 DEF Fail, MaybeDone
    <3>2. loc'.at = {} /\ pc' = "check" /\ Open # {}
      BY <1>0, <3>1 DEF RepositoryFailed, Memory, Open
    <3> QED
      BY <3>1, <3>2 DEF Rounds, Open
  <2> QED
    BY <2>1, <2>2
<1>15. CASE ChangeToken \/ ChangeKeys
  <2>1. UNCHANGED <<settings, pc, loc, repos>> /\ ghost'.moved = ghost.moved
    BY <1>0, <1>15 DEF ChangeToken, ChangeKeys, History
  <2> QED
    BY <2>1 DEF Rounds, Open
<1>16. CASE ChangeStandings
  <2>1. /\ UNCHANGED <<settings, pc, loc>>
        /\ ghost.moved \subseteq ghost'.moved
        /\ \A r \in Repos : repos'[r] # repos[r] => r \in ghost'.moved
    BY ZenonT(60), <1>0, <1>16 DEF ChangeStandings, History, Typed, TypedStandings
  <2>2. loc.at \subseteq Repos
    BY <1>0 DEF Memory
  <2> QED
    BY <2>1, <2>2 DEF Rounds, Open
<1>17. CASE CheckInvites
  <2>1. PICK r \in loc.at :
           IF repos[r] = "invited" THEN loc' = [loc EXCEPT !.at = {}] /\ Goto("check")
                                   ELSE Goto("invite") /\ UNCHANGED loc
    BY <1>17 DEF CheckInvites
  <2>2. UNCHANGED <<settings, repos, ghost>> /\ pc = "invites"
    BY <1>17 DEF CheckInvites
  <2>3. CASE repos[r] = "invited"
    <3>1. /\ loc'.repos = loc.repos /\ loc'.at = {} /\ loc'.failed = loc.failed
          /\ pc' = "check"
      BY <1>0, <2>1, <2>3 DEF Memory
    <3> QED
      BY <2>2, <3>1 DEF Rounds, Open
  <2>4. CASE repos[r] # "invited"
    <3>1. pc' = "invite" /\ loc' = loc
      BY <2>1, <2>4
    <3> QED
      BY <2>1, <2>2, <2>4, <3>1 DEF Rounds, Open
  <2> QED
    BY <2>3, <2>4
<1>18. CASE UNCHANGED vars
  BY <1>18 DEF vars, Rounds, Open
<1> QED
  BY <1>1, <1>2, <1>3, <1>4, <1>5, <1>6, <1>7, <1>8, <1>9, <1>10, <1>11, <1>12, <1>13, <1>14,
     <1>15, <1>16, <1>17, <1>18 DEF Next, RunStep

-----------------------------------------------------------------------------
(* While nobody interferes.                                                *)

\* A shelf that an operation was planned for stays covered when the operation
\* is carried out and crossed out.
LEMMA CoveredCall ==
  ASSUME Typed, IdsName, PlanSound, NEW o \in loc.ops, CreateKey(o) \/ DeleteKey(o),
         loc'.ops = loc.ops \ {o}, settings' = settings, ghost'.twice = ghost.twice,
         NEW s \in Shelves, Covered(s)
  PROVE  Covered(s)'
<1>1. /\ Declared(s)' = Declared(s) /\ Present(s)' = Present(s) /\ IsGpg(s)' = IsGpg(s)
      /\ \A t : WantedKey(s, t)' = WantedKey(s, t)
      /\ \A k : DeclaredGone(s, k)' = DeclaredGone(s, k)
      /\ \A k : Extra(s, k)' = Extra(s, k)
  BY SameDeclaration DEF Extra
<1>2. (IsGpg(s) => ~Repeated(s, Declared(s)))'
  BY <1>1 DEF Covered, Repeated
<1>3. Present(s) \subseteq Declared(s)
  BY DEF Present, Declared
<1>4. \A k, t : t \in Present(s) /\ k.key = WantedKey(s, t) /\ (IsGpg(s) \/ k.title = t)
                    => ~DeclaredGone(s, k)
  BY <1>3 DEF Covered, DeclaredGone, Repeated
<1>5. o \in Operation /\ Sound(o) /\ o.shelf \in Shelves
  BY KeyCalls DEF PlanSound, Operation
<1>6. CASE CreateKey(o)
  <2> DEFINE k == [id |-> lastId + 1, title |-> o.title, key |-> o.key]
  <2>1. o.op = "create" /\ shelves' = [shelves EXCEPT ![o.shelf] = @ \cup {k}]
    BY <1>6, KeyCalls DEF Adds
  <2>2. shelves[s] \subseteq shelves'[s] /\ shelves'[s] \subseteq shelves[s] \cup {k}
        /\ (o.shelf # s => shelves'[s] = shelves[s]) /\ (o.shelf = s => k \in shelves'[s])
    BY <2>1, <1>5 DEF Typed, TypedShelves
  <2>3. \A t \in Present(s) : Held(s, t)' \/ \E p \in loc'.ops : /\ p.op = "create" /\ p.shelf = s
                                                                /\ p.title = t
    <3> SUFFICES ASSUME NEW t \in Present(s), ~(\E p \in loc'.ops : /\ p.op = "create"
                                                                   /\ p.shelf = s /\ p.title = t)
                 PROVE  Held(s, t)'
      OBVIOUS
    <3>1. CASE Held(s, t)
      BY <1>1, <2>2, <3>1 DEF Held
    <3>2. CASE o.shelf = s /\ o.title = t
      <4>1. k.key = WantedKey(s, t) /\ k.title = t
        BY <1>5, <2>1, <3>2 DEF Sound
      <4> QED
        BY <1>1, <2>2, <3>2, <4>1 DEF Held
    <3> QED
      BY <3>1, <3>2 DEF Covered
  <2>4. ASSUME settings.allow, NEW l \in shelves'[s], DeclaredGone(s, l), ~Extra(s, l)
        PROVE  \E p \in loc'.ops : p.op = "delete" /\ p.shelf = s /\ p.id = l.id
    <3>1. l # k \/ o.shelf # s
      <4> SUFFICES ASSUME o.shelf = s PROVE ~DeclaredGone(s, k)
        BY <2>4
      <4>1. o.title \in Present(s) /\ k.key = WantedKey(s, o.title) /\ k.title = o.title
        BY <1>5, <2>1 DEF Sound
      <4> QED
        BY <1>4, <4>1
    <3>2. l \in shelves[s]
      BY <2>2, <3>1
    <3>3. PICK p \in loc.ops : p.op = "delete" /\ p.shelf = s /\ p.id = l.id
      BY <2>4, <3>2 DEF Covered
    <3> QED
      BY <2>1, <3>3
  <2> QED
    BY <1>1, <1>2, <2>3, <2>4 DEF Covered
<1>7. CASE DeleteKey(o)
  <2>1. PICK k \in shelves[o.shelf] : /\ o.op = "delete" /\ k.id = o.id
                                      /\ k.title = o.title /\ k.key = o.key
                                      /\ shelves' = [shelves EXCEPT ![o.shelf] = @ \ {k}]
    BY <1>7, KeyCalls DEF Removes
  <2>2. /\ shelves'[s] \subseteq shelves[s]
        /\ \A l \in shelves[s] : l \in shelves'[s] \/ (o.shelf = s /\ l = k)
        /\ o.shelf = s => k \notin shelves'[s]
    BY <2>1, <1>5 DEF Typed, TypedShelves
  <2>3. o.shelf = s => DeclaredGone(s, k)
    BY <1>5, <2>1 DEF Sound, DeclaredGone
  <2>4. ASSUME NEW t \in Present(s)
        PROVE  Held(s, t)' \/ \E p \in loc'.ops : p.op = "create" /\ p.shelf = s /\ p.title = t
    <3>1. CASE Held(s, t)
      <4>1. PICK l \in shelves[s] : l.key = WantedKey(s, t) /\ (IsGpg(s) \/ l.title = t)
        BY <3>1 DEF Held
      <4>2. l \in shelves'[s]
        BY <1>4, <2>2, <2>3, <4>1
      <4> QED
        BY <1>1, <4>1, <4>2 DEF Held
    <3>2. CASE \E p \in loc.ops : p.op = "create" /\ p.shelf = s /\ p.title = t
      BY <2>1, <3>2
    <3> QED
      BY <3>1, <3>2 DEF Covered
  <2>5. ASSUME settings.allow, NEW l \in shelves'[s], DeclaredGone(s, l), ~Extra(s, l)
        PROVE  \E p \in loc'.ops : p.op = "delete" /\ p.shelf = s /\ p.id = l.id
    <3>1. l \in shelves[s]
      BY <2>2
    <3>2. PICK p \in loc.ops : p.op = "delete" /\ p.shelf = s /\ p.id = l.id
      BY <2>5, <3>1 DEF Covered
    <3>3. p # o
      BY <2>1, <2>2, <3>1, <3>2 DEF IdsName
    <3> QED
      BY <3>2, <3>3
  <2> QED
    BY <1>1, <1>2, <2>4, <2>5 DEF Covered
<1> QED
  BY <1>6, <1>7

\* Nothing comes or goes, and nothing is crossed out.
LEMMA CoveredStays ==
  ASSUME NEW s \in Shelves, UNCHANGED <<settings, shelves>>, loc.ops \subseteq loc'.ops,
         IsGpg(s) => ghost'.twice = ghost.twice
  PROVE  Covered(s) => Covered(s)'
BY SameDeclaration DEF Covered, Held, Repeated, Extra

\* A covered shelf that no operation is left for is as declared.
LEMMA CoveredDone ==
  ASSUME NEW s \in Shelves, Covered(s), loc.ops = {} PROVE KeysAsDeclared(s)
BY DEF Covered, KeysAsDeclared

\* What is as declared stays so while neither it nor the declaration changes.
LEMMA DeclaredStays ==
  ASSUME NEW s \in Shelves, UNCHANGED <<settings, shelves>>, ghost'.twice = ghost.twice
  PROVE  KeysAsDeclared(s) => KeysAsDeclared(s)'
BY SameDeclaration DEF KeysAsDeclared, Held, Extra

\* While nobody interferes the plan stays one that brings about what is
\* declared.
LEMMA CompleteStep ==
  Typed /\ Staged /\ IdsName /\ PlanSound /\ PlanComplete /\ [Next]_vars => PlanComplete'
<1> SUFFICES ASSUME Typed, Staged, IdsName, PlanSound, PlanComplete, [Next]_vars
             PROVE  PlanComplete'
  OBVIOUS
<1>0. loc \in Memory /\ ghost \in History
  BY DEF Typed, TypedRun
<1>a. ASSUME UNCHANGED <<settings, shelves>>, loc.ops \subseteq loc'.ops,
             ghost'.twice = ghost.twice
      PROVE  \A s \in Shelves : Covered(s) => Covered(s)'
  BY <1>a, CoveredStays
<1>b. ASSUME UNCHANGED <<settings, shelves>>, ghost'.twice = ghost.twice
      PROVE  \A s \in Shelves : KeysAsDeclared(s) => KeysAsDeclared(s)'
  BY <1>b, DeclaredStays
<1>e. pc' = "idle" /\ status' # "ok" => PlanComplete'
  BY DEF PlanComplete
<1>f. ASSUME UNCHANGED <<settings, shelves>>, ghost'.quiet = ghost.quiet,
             ghost'.twice = ghost.twice, pc \in {"repos", "check", "invites", "invite", "accept"},
             pc' \notin {"login", "list", "apply"}
      PROVE  PlanComplete'
  BY <1>b, <1>f DEF PlanComplete
<1>g. ghost'.quiet = FALSE => PlanComplete'
  BY DEF PlanComplete
<1> USE DEF Goto, Because, Finish, FailRun, bounds, service
<1>1. CASE Start
  BY <1>1 DEF Start, PlanComplete
<1>2. CASE Load
  <2>1. CASE token = "none"
    BY <1>2, <1>e, <2>1 DEF Load
  <2>2. CASE token # "none"
    <3>1. /\ pc' \in {"login", "list"} /\ status' = status /\ settings' = settings
          /\ loc' = [loc EXCEPT !.todo = {s \in Shelves : Declared(s) # {}}]
      BY <1>2, <2>2 DEF Load
    <3>2. loc'.todo = {s \in Shelves : Declared(s) # {}}
      BY <1>0, <3>1 DEF Memory
    <3>3. ASSUME NEW s \in Shelves \ loc'.todo PROVE Covered(s)'
      <4>1. Declared(s)' = {} /\ Present(s)' = {}
        BY <3>1, <3>2, <3>3 DEF Declared, Present
      <4> QED
        BY <4>1 DEF Covered, Repeated, DeclaredGone
    <3>4. status' = "none"
      BY <1>2, <3>1 DEF Load, Staged
    <3> QED
      BY <3>1, <3>3, <3>4 DEF PlanComplete
  <2> QED
    BY <2>1, <2>2
<1>3. CASE Login
  <2>1. CASE token = "wrong"
    BY <1>3, <1>e, <2>1 DEF Login
  <2>2. CASE token # "wrong"
    BY <1>3, <1>a, <2>2 DEF Login, PlanComplete, Staged
  <2> QED
    BY <2>1, <2>2
<1>4. CASE List
  <2>1. CASE loc.todo = {}
    BY <1>4, <1>a, <2>1 DEF List, PlanComplete, Staged
  <2>2. CASE loc.todo # {}
    <3>1. PICK s \in loc.todo :
             /\ s \in Shelves
             /\ IF Doubtful(s) THEN Finish("failed") /\ Because("plan")
                ELSE /\ loc' = [loc EXCEPT !.todo = @ \ {s}, !.ops = @ \cup Plan(s)]
                     /\ Goto("list")
                     /\ ghost' = Listed(s)
             /\ UNCHANGED <<bounds, token, service>>
      BY <1>4, <2>2, ListOne
    <3>2. CASE Doubtful(s)
      BY <1>e, <3>1, <3>2
    <3>3. CASE ~Doubtful(s)
      <4>1. /\ loc'.todo = loc.todo \ {s} /\ loc'.ops = loc.ops \cup Plan(s)
            /\ ghost'.quiet = ghost.quiet /\ pc = "list" /\ pc' = "list" /\ status' = "none"
            /\ ghost'.twice = IF IsGpg(s) THEN Twice(s) ELSE ghost.twice
            /\ UNCHANGED <<settings, shelves>>
        BY <1>0, <1>4, <3>1, <3>3, ListedType DEF Memory, List, Staged
      <4>2. Covered(s)'
        <5>1. /\ Declared(s)' = Declared(s) /\ Present(s)' = Present(s)
              /\ IsGpg(s)' = IsGpg(s)
              /\ \A t : WantedKey(s, t)' = WantedKey(s, t)
              /\ \A k : DeclaredGone(s, k)' = DeclaredGone(s, k)
          BY <4>1, SameDeclaration
        <5>2. /\ IsGpg(s) => ~Repeated(s, Declared(s))
              /\ \A t \in Present(s) :
                    Held(s, t) \/ \E o \in Plan(s) : o.op = "create" /\ o.shelf = s /\ o.title = t
              /\ settings.allow =>
                    \A k \in shelves[s] : DeclaredGone(s, k) =>
                       \/ IsGpg(s) /\ k.key \in Twice(s)
                       \/ \E o \in Plan(s) : o.op = "delete" /\ o.shelf = s /\ o.id = k.id
          BY <3>1, <3>3, PlanCovers
        <5> QED
          BY <4>1, <5>1, <5>2 DEF Covered, Held, Repeated, Extra
      <4>3. ASSUME NEW u \in Shelves, u # s, Covered(u) PROVE Covered(u)'
        <5>1. IsGpg(u) => ghost'.twice = ghost.twice
          BY <3>1, <4>1, <4>3 DEF IsGpg
        <5> QED
          BY <4>1, <4>3, <5>1, CoveredStays
      <4> QED
        BY <4>1, <4>2, <4>3 DEF PlanComplete
    <3> QED
      BY <3>2, <3>3
  <2> QED
    BY <2>1, <2>2
<1>5. CASE Apply
  <2>1. PICK o \in loc.ops : /\ CreateKey(o) \/ DeleteKey(o)
                             /\ loc' = [loc EXCEPT !.ops = @ \ {o}]
    BY <1>5 DEF Apply
  <2>2. /\ loc'.ops = loc.ops \ {o} /\ loc'.todo = loc.todo /\ settings' = settings
        /\ pc = "apply" /\ pc' = "apply" /\ status' = "none" /\ ghost'.quiet = ghost.quiet
        /\ ghost'.twice = ghost.twice
    BY <1>0, <1>5, <2>1 DEF Apply, Wrote, Memory, History, Staged
  <2>3. \A s \in Shelves : Covered(s) => Covered(s)'
    BY <2>1, <2>2, CoveredCall
  <2> QED
    BY <2>2, <2>3 DEF PlanComplete
<1>6. CASE KeyRefused \/ Kill
  BY <1>6, <1>e DEF KeyRefused, Kill
<1>7. CASE KeysDone
  <2>1. ghost.quiet => \A s \in Shelves : KeysAsDeclared(s)
    BY <1>0, <1>7, CoveredDone DEF KeysDone, PlanComplete, Staged, Memory
  <2>2. UNCHANGED <<settings, shelves, ghost>> /\ pc' \notin {"login", "list", "apply"}
    BY <1>7 DEF KeysDone
  <2> QED
    BY <1>b, <2>1, <2>2 DEF PlanComplete
<1>8. CASE SelectRepositories \/ ListInvitations
  BY <1>8, <1>f DEF SelectRepositories, ListInvitations
<1>9. CASE CheckAccess \/ CheckInvites
  <2>1. /\ ghost'.quiet = ghost.quiet /\ ghost'.twice = ghost.twice
        /\ pc \in {"check", "invites"} /\ pc' \in {"check", "invites", "invite"}
    BY <1>0, <1>9 DEF CheckAccess, CheckInvites, History
  <2> QED
    BY <1>9, <1>f, <2>1 DEF CheckAccess, CheckInvites
<1>10. CASE Invite
  BY <1>10, <1>f DEF Invite, RepositoryFailed
<1>11. CASE AcceptOne
  BY <1>11, <1>e, <1>f DEF AcceptOne
<1>12. CASE AllDone
  <2>1. ghost'.quiet = ghost.quiet /\ ghost'.twice = ghost.twice
    BY <1>0, <1>12 DEF AllDone, History
  <2> QED
    BY <1>12, <1>f, <2>1 DEF AllDone
<1>13. CASE Fail
  <2>1. CASE pc = "apply"
    BY <1>13, <1>e, <2>1 DEF Fail, MaybeDone
  <2>2. CASE pc # "apply"
    <3>1. \/ pc' = "idle" /\ status' = "failed"
          \/ /\ pc \in {"check", "invites", "invite"} /\ pc' = "check"
             /\ UNCHANGED <<settings, shelves, ghost>>
      BY <1>13, <2>2 DEF Fail, MaybeDone, RepositoryFailed
    <3> QED
      BY <1>e, <1>f, <3>1
  <2> QED
    BY <2>1, <2>2
<1>14. CASE ChangeToken \/ ChangeKeys \/ ChangeStandings
  BY <1>0, <1>14, <1>g DEF ChangeToken, ChangeKeys, ChangeStandings, History
<1>15. CASE UNCHANGED vars
  BY <1>15, <1>a, <1>b DEF vars, PlanComplete
<1> QED
  BY <1>1, <1>2, <1>3, <1>4, <1>5, <1>6, <1>7, <1>8, <1>9, <1>10, <1>11, <1>12, <1>13, <1>14,
     <1>15 DEF Next, RunStep

\* A repository that failed moves from those to deal with to those that could
\* not be dealt with.
LEMMA FailedRound ==
  ASSUME Typed, Rounds, NEW r \in IF pc = "check" THEN loc.repos ELSE loc.at,
         RepositoryFailed(r)
  PROVE  Open' = Open
<1>1. /\ loc'.repos = loc.repos \ {r} /\ loc'.at = {} /\ loc'.failed = loc.failed \cup {r}
  BY DEF RepositoryFailed, Typed, TypedRun, Memory
<1>2. loc.at \subseteq {r} /\ r \in loc.repos \cup loc.at
  BY DEF Rounds
<1> QED
  BY <1>1, <1>2 DEF Open

\* While nobody interferes no repository and no invitation is overlooked.
LEMMA RoundsCompleteStep ==
  Typed /\ Staged /\ Rounds /\ RoundsComplete /\ [Next]_vars => RoundsComplete'
<1> SUFFICES ASSUME Typed, Staged, Rounds, RoundsComplete, [Next]_vars
             PROVE  RoundsComplete'
  OBVIOUS
<1>0. loc \in Memory /\ ghost \in History
  BY DEF Typed, TypedRun
<1>e. ASSUME pc' = "idle", status' # "ok", ghost'.why # "repos" PROVE RoundsComplete'
  BY <1>e DEF RoundsComplete
<1>f. ASSUME pc' \in {"load", "login", "list", "apply", "repos"}, status' = "none",
             ghost'.why = "none"
      PROVE  RoundsComplete'
  BY <1>f DEF RoundsComplete
<1>g. ghost'.quiet = FALSE => RoundsComplete'
  BY DEF RoundsComplete
<1> USE DEF Goto, Because, Finish, FailRun, bounds, service
<1>1. CASE Start
  BY <1>0, <1>1, <1>f DEF Start, History
<1>2. CASE Load
  BY <1>0, <1>2, <1>e, <1>f DEF Load, Staged, History
<1>3. CASE Login
  BY <1>0, <1>3, <1>e, <1>f DEF Login, Staged, History
<1>4. CASE List
  <2>1. CASE loc.todo = {}
    BY <1>4, <1>f, <2>1 DEF List, Staged
  <2>2. CASE loc.todo # {}
    <3>1. /\ pc = "list"
          /\ \/ pc' = "idle" /\ status' = "failed" /\ ghost' = [ghost EXCEPT !.why = "plan"]
             \/ \E s \in loc.todo : /\ pc' = "list" /\ status' = status
                                    /\ ghost' = Listed(s)
      BY <1>4, <2>2, ListOne DEF List
    <3>2. \/ pc' = "idle" /\ status' = "failed" /\ ghost'.why = "plan"
          \/ pc' = "list" /\ status' = "none" /\ ghost'.why = "none"
      BY <1>0, <3>1, ListedType DEF Memory, History, Staged
    <3> QED
      BY <1>e, <1>f, <3>2
  <2> QED
    BY <2>1, <2>2
<1>5. CASE Apply
  BY <1>0, <1>5, <1>f DEF Apply, Wrote, Staged, History
<1>6. CASE KeyRefused \/ Kill
  BY <1>0, <1>6, <1>e DEF KeyRefused, Kill, History
<1>7. CASE KeysDone
  <2>1. CASE settings.service = "github"
    BY <1>7, <1>f, <2>1 DEF KeysDone, Staged
  <2>2. CASE settings.service # "github"
    <3>1. ~settings.collab /\ settings.accept = {}
      BY <2>2, SettingsAssumption DEF Setting, Typed, TypedRun
    <3> QED
      BY <1>7, <2>2, <3>1 DEF KeysDone, RoundsComplete, Staged
  <2> QED
    BY <2>1, <2>2
<1>8. CASE SelectRepositories
  <2>1. /\ loc'.repos = Selected
        /\ pc' = "check" /\ status' = "none" /\ ghost'.why = "none"
        /\ UNCHANGED <<settings, repos>>
    BY <1>0, <1>8 DEF SelectRepositories, Memory, Staged
  <2>2. settings.collab => \A r \in Repos \ loc'.repos : repos[r] # "none"
    BY <2>1 DEF Selected
  <2> QED
    BY <2>1, <2>2 DEF RoundsComplete, Open
<1>9. CASE CheckAccess
  <2>1. PICK r \in loc.repos :
           IF HasAccess(r)
           THEN loc' = [loc EXCEPT !.repos = @ \ {r}] /\ Goto("check") /\ UNCHANGED ghost
           ELSE /\ loc' = [loc EXCEPT !.repos = @ \ {r}, !.at = {r}]
                /\ Goto("invites")
                /\ ghost' = [ghost EXCEPT !.moved = @ \ {r}]
    BY <1>9 DEF CheckAccess
  <2>2. /\ loc'.repos = loc.repos \ {r} /\ loc'.failed = loc.failed
        /\ r \in loc'.at \/ repos[r] # "none"
        /\ ghost'.quiet = ghost.quiet /\ ghost'.why = "none"
        /\ pc' \in {"check", "invites"} /\ status' = "none"
    <3>1. CASE HasAccess(r)
      <4>1. repos[r] # "none"
        BY <3>1 DEF HasAccess
      <4> QED
        BY <1>0, <1>9, <2>1, <3>1, <4>1 DEF Memory, Staged, CheckAccess
    <3>2. CASE ~HasAccess(r)
      <4>1. /\ pc = "check" /\ pc' = "invites" /\ status' = status
            /\ loc' = [loc EXCEPT !.repos = @ \ {r}, !.at = {r}]
            /\ ghost' = [ghost EXCEPT !.moved = @ \ {r}]
        BY <1>9, <2>1, <3>2 DEF CheckAccess
      <4> QED
        BY <1>0, <4>1 DEF Memory, History, Staged
    <3> QED
      BY <3>1, <3>2
  <2>3. loc.at = {} /\ UNCHANGED <<settings, repos>> /\ pc = "check"
    BY <1>9 DEF CheckAccess, Rounds
  <2> QED
    BY <2>2, <2>3 DEF RoundsComplete, Open
<1>10. CASE Invite
  <2>1. PICK r \in loc.at :
           IF repos[r] = "archived" THEN RepositoryFailed(r) /\ UNCHANGED repos
           ELSE /\ repos' = [repos EXCEPT ![r] = IF @ = "none" THEN "invited"
                                                 ELSE IF @ = "own" THEN "member" ELSE @]
                /\ loc' = [loc EXCEPT !.at = {}]
                /\ Goto("check")
    BY <1>10 DEF Invite
  <2>2. /\ pc = "invite" /\ pc' = "check" /\ status' = "none"
        /\ ghost' = ghost /\ ghost.why = "none"
        /\ settings' = settings
    BY <1>10, <2>1 DEF Invite, Staged, RepositoryFailed
  <2>3. repos \in [Repos -> Standings] /\ r \in Repos
    BY <1>0 DEF Typed, TypedStandings, Memory
  <2>4. \A x \in Repos \ Open' : x \in Repos \ Open \/ repos'[x] # "none"
    <3>1. CASE repos[r] = "archived"
      BY <2>1, <2>2, <3>1, FailedRound
    <3>2. CASE repos[r] # "archived"
      <4>1. loc'.repos = loc.repos /\ loc'.at = {} /\ loc'.failed = loc.failed
        BY <1>0, <2>1, <3>2 DEF Memory
      <4>2. repos'[r] # "none" /\ loc.at = {r}
        BY <2>1, <2>3, <3>2 DEF Rounds
      <4> QED
        BY <4>1, <4>2 DEF Open
    <3> QED
      BY <3>1, <3>2
  <2>5. \A x \in Repos : repos[x] # "none" => repos'[x] # "none"
    BY <2>1, <2>3
  <2> QED
    BY <2>2, <2>4, <2>5 DEF RoundsComplete
<1>11. CASE ListInvitations
  <2>1. loc'.trusted = pending \cap settings.accept /\ Open' = Open
    BY <1>0, <1>11 DEF ListInvitations, Memory, Open
  <2> QED
    BY <1>11, <2>1 DEF ListInvitations, RoundsComplete, Staged
<1>12. CASE AcceptOne
  <2>1. PICK i \in loc.trusted :
           IF i \in pending
           THEN /\ pending' = pending \ {i}
                /\ accepted' = accepted \cup {i}
                /\ loc' = [loc EXCEPT !.trusted = @ \ {i}]
                /\ Goto("accept")
                /\ UNCHANGED ghost
           ELSE Finish("failed") /\ Because("call") /\ UNCHANGED <<pending, accepted>>
    BY <1>12 DEF AcceptOne
  <2>2. CASE i \in pending
    <3>1. /\ loc'.trusted = loc.trusted \ {i} /\ Open' = Open
          /\ pending' = pending \ {i} /\ pc' = "accept" /\ pc = "accept" /\ status' = "none"
          /\ ghost' = ghost /\ ghost.why = "none" /\ UNCHANGED <<settings, repos>>
      BY <1>0, <1>12, <2>1, <2>2 DEF Memory, Open, Staged, AcceptOne
    <3> QED
      BY <3>1 DEF RoundsComplete
  <2>3. CASE i \notin pending
    BY <1>0, <1>e, <2>1, <2>3 DEF History
  <2> QED
    BY <2>2, <2>3
<1>13. CASE AllDone
  <2>1. Open = loc.failed /\ pc = "accept" /\ loc.trusted = {} /\ ghost.why = "none"
        /\ UNCHANGED <<settings, repos, pending>>
    BY <1>13 DEF AllDone, Rounds, Open, Staged
  <2>2. CASE loc.failed = {}
    BY <1>13, <2>1, <2>2 DEF AllDone, RoundsComplete
  <2>3. CASE loc.failed # {}
    <3>1. settings.collab
      BY <2>1, <2>3 DEF Rounds
    <3>2. /\ ghost'.failed = loc.failed /\ ghost'.quiet = ghost.quiet
          /\ status' = "failed" /\ pc' = "idle"
      BY <1>0, <1>13, <2>3 DEF AllDone, History
    <3> QED
      BY <2>1, <3>1, <3>2 DEF RoundsComplete
  <2> QED
    BY <2>2, <2>3
<1>14. CASE Fail
  <2>1. CASE pc = "apply"
    BY <1>0, <1>14, <1>e, <2>1 DEF Fail, MaybeDone, History
  <2>2. CASE pc # "apply" /\ pc \in {"check", "invites", "invite"} /\ loc.repos \cup loc.at # {}
    <3>1. PICK r \in IF pc = "check" THEN loc.repos ELSE loc.at :
              /\ RepositoryFailed(r)
              /\ repos' \in IF pc = "invite" /\ repos[r] = "none"
                            THEN {repos, [repos EXCEPT ![r] = "invited"]} ELSE {repos}
      BY <1>14, <2>2 DEF Fail, MaybeDone
    <3>2. /\ UNCHANGED <<settings, pending, ghost>> /\ ghost.why = "none"
          /\ pc' = "check" /\ status' = "none"
      BY <1>14, <2>2, <3>1 DEF Fail, MaybeDone, RepositoryFailed, Staged
    <3>3. Open' = Open
      BY <3>1, FailedRound
    <3>4. repos \in [Repos -> Standings]
      BY DEF Typed, TypedStandings
    <3>5. \A x \in Repos : repos[x] # "none" => repos'[x] # "none"
      BY <3>1, <3>4
    <3> QED
      BY <2>2, <3>2, <3>3, <3>5 DEF RoundsComplete
  <2>3. CASE pc # "apply" /\ ~(pc \in {"check", "invites", "invite"} /\ loc.repos \cup loc.at # {})
    BY <1>0, <1>14, <1>e, <2>3 DEF Fail, MaybeDone, History
  <2> QED
    BY <2>1, <2>2, <2>3
<1>15. CASE ChangeToken \/ ChangeKeys \/ ChangeStandings
  BY <1>0, <1>15, <1>g DEF ChangeToken, ChangeKeys, ChangeStandings, History
<1>16. CASE CheckInvites
  <2>1. PICK r \in loc.at :
           IF repos[r] = "invited" THEN loc' = [loc EXCEPT !.at = {}] /\ Goto("check")
                                   ELSE Goto("invite") /\ UNCHANGED loc
    BY <1>16 DEF CheckInvites
  <2>2. /\ UNCHANGED <<settings, repos, pending, ghost>> /\ ghost.why = "none"
        /\ pc = "invites" /\ pc' \in {"check", "invite"} /\ status' = "none"
    BY <1>16, <2>1 DEF CheckInvites, Staged
  <2>3. Open' = Open \/ (repos[r] # "none" /\ Open \subseteq Open' \cup {r})
    <3>1. CASE repos[r] = "invited"
      <4>1. loc'.repos = loc.repos /\ loc'.at = {} /\ loc'.failed = loc.failed
        BY <1>0, <2>1, <3>1 DEF Memory
      <4> QED
        BY <2>1, <3>1, <4>1 DEF Open, Rounds
    <3>2. CASE repos[r] # "invited"
      BY <2>1, <3>2 DEF Open
    <3> QED
      BY <3>1, <3>2
  <2> QED
    BY <2>2, <2>3 DEF RoundsComplete
<1>17. CASE UNCHANGED vars
  BY <1>17 DEF vars, RoundsComplete, Open
<1> QED
  BY <1>1, <1>2, <1>3, <1>4, <1>5, <1>6, <1>7, <1>8, <1>9, <1>10, <1>11, <1>12, <1>13, <1>14,
     <1>15, <1>16, <1>17 DEF Next, RunStep

-----------------------------------------------------------------------------
(* What follows.                                                           *)

\* Every behaviour of the two provisioners stays within the invariant.
LEMMA Provisioning == Spec => []KeyInv
<1>1. Init => KeyInv
  <2> SUFFICES ASSUME Init PROVE KeyInv
    OBVIOUS
  <2>1. Typed
    <3>1. repos \in [Repos -> Standings] /\ pending \subseteq Invitations
      BY DEF Init, Standings
    <3>2. TypedShelves
      BY DEF Init, TypedShelves
    <3>3. TypedRun
      BY BoundsAssumption DEF Init, TypedRun, Blank, Memory, History, Causes
    <3> QED
      BY <3>1, <3>2, <3>3 DEF Init, Typed, TypedStandings
  <2>2. Staged /\ PlanComplete /\ RoundsComplete
    BY DEF Init, Staged, PlanComplete, RoundsComplete
  <2>3. IdsName /\ PlanSound /\ Rounds
    BY DEF Init, Blank, IdsName, PlanSound, Rounds, Open
  <2> QED
    BY <2>1, <2>2, <2>3 DEF KeyInv
<1>2. KeyInv /\ [Next]_vars => KeyInv'
  BY TypedStep, StagedStep, SoundStep, CompleteStep, RoundsStep, RoundsCompleteStep DEF KeyInv
<1> QED
  BY <1>1, <1>2, PTL DEF Spec

\* The provisioners are well typed.
THEOREM KeyTyping == Spec => []TypeOK
<1>1. KeyInv => TypeOK
  BY DEF KeyInv, Typed, TypedRun, TypedShelves, TypedStandings, TypeOK, Memory, Key
<1> QED
  BY <1>1, Provisioning, PTL

\* A run that refuses its plan has changed no key of anybody.
THEOREM RefusingIsHarmless == Spec => []RefusedPlanChangesNothing
<1>1. KeyInv => RefusedPlanChangesNothing
  BY DEF KeyInv, Staged, RefusedPlanChangesNothing
<1> QED
  BY <1>1, Provisioning, PTL

\* A run that succeeded while nobody interfered leaves the keys, collaborators
\* and invitations as declared, but for an OpenPGP key that is to go and that it
\* found twice.
THEOREM SuccessIsDeclared == Spec => []SuccessMeansDeclared
<1>1. KeyInv => SuccessMeansDeclared
  <2> SUFFICES ASSUME KeyInv, status = "ok", ghost.quiet
               PROVE  /\ \A s \in Shelves :
                           /\ \A t \in Present(s) :
                                \E k \in shelves[s] : /\ k.key = WantedKey(s, t)
                                                      /\ IsGpg(s) \/ k.title = t
                           /\ settings.allow =>
                                \A t \in Declared(s) \ Present(s) :
                                   IF IsGpg(s)
                                   THEN \/ WantedKey(s, t) \in ghost.twice
                                        \/ Holding(s, WantedKey(s, t)) = {}
                                   ELSE Titled(s, t) = {}
                      /\ settings.collab => \A r \in Repos : repos[r] # "none"
                      /\ pending \cap settings.accept = {}
    BY DEF SuccessMeansDeclared
  <2>1. \A s \in Shelves : KeysAsDeclared(s)
    BY DEF KeyInv, PlanComplete
  <2>2. /\ settings.collab => \A r \in Repos : repos[r] # "none"
        /\ pending \cap settings.accept = {}
    BY DEF KeyInv, RoundsComplete
  <2> QED
    BY <2>1, <2>2 DEF KeysAsDeclared, Held, DeclaredGone, Holding, Titled, Extra
<1> QED
  BY <1>1, Provisioning, PTL

\* A repository whose calls fail holds back no other, and no invitation.
THEOREM RepositoriesStayApart == Spec => []RepositoriesIndependent
<1>1. KeyInv => RepositoriesIndependent
  BY DEF KeyInv, RoundsComplete, RepositoriesIndependent
<1> QED
  BY <1>1, Provisioning, PTL

\* An operation deletes a key it listed and the declaration removes, or creates
\* one that is declared.
LEMMA CallsAsDeclared ==
  ASSUME Typed, PlanSound, NEW o \in loc.ops, CreateKey(o) \/ DeleteKey(o), NEW s \in Shelves
  PROVE  /\ \A k \in shelves[s] \ shelves'[s] :
              settings.allow /\ <<s, k.id>> \notin ghost.since /\ DeclaredGone(s, k)
         /\ \A k \in shelves'[s] \ shelves[s] :
              \E t \in Present(s) : k.title = t /\ k.key = WantedKey(s, t)
<1>1. o.shelf \in Shelves /\ Sound(o) /\ shelves \in [Shelves -> SUBSET Key]
  BY KeyCalls DEF Operation, PlanSound, Typed, TypedShelves
<1>2. CASE CreateKey(o)
  <2> DEFINE k == [id |-> lastId + 1, title |-> o.title, key |-> o.key]
  <2>1. o.op = "create" /\ shelves' = [shelves EXCEPT ![o.shelf] = @ \cup {k}]
    BY <1>2, KeyCalls DEF Adds
  <2>2. k.title = o.title /\ k.key = o.key
    OBVIOUS
  <2>3. o.title \in Present(o.shelf) /\ o.key = WantedKey(o.shelf, o.title)
    BY <1>1, <2>1 DEF Sound
  <2> HIDE DEF k
  <2> QED
    BY <1>1, <2>1, <2>2, <2>3
<1>3. CASE DeleteKey(o)
  <2>1. PICK k \in shelves[o.shelf] : /\ o.op = "delete" /\ k.id = o.id
                                      /\ k.title = o.title /\ k.key = o.key
                                      /\ shelves' = [shelves EXCEPT ![o.shelf] = @ \ {k}]
    BY <1>3, KeyCalls DEF Removes
  <2>2. settings.allow /\ <<o.shelf, k.id>> \notin ghost.since /\ DeclaredGone(o.shelf, k)
    BY <1>1, <2>1 DEF Sound, DeclaredGone
  <2> QED
    BY <1>1, <2>1, <2>2
<1> QED
  BY <1>2, <1>3

\* However stale what a run has read, it takes away no key and changes no
\* standing but those it looked at and the declaration names.
THEOREM ChangesAreDeclared == Spec => OnlyDeclaredChanges
<1> DEFINE Deleting ==
             pc # "idle" /\ changes' = changes =>
               \A s \in Shelves :
                 /\ \A k \in shelves[s] \ shelves'[s] :
                      /\ settings.allow
                      /\ <<s, k.id>> \notin ghost.since
                      /\ \E t \in Declared(s) \ Present(s) :
                           IF IsGpg(s) THEN k.key = WantedKey(s, t) ELSE k.title = t
                 /\ \A k \in shelves'[s] \ shelves[s] :
                      \E t \in Present(s) : k.title = t /\ k.key = WantedKey(s, t)
           Moving ==
             pc # "idle" /\ changes' = changes =>
               \A r \in Repos : repos'[r] # repos[r] => repos[r] = "none" \/ r \in ghost.moved
<1>1. KeyInv /\ [Next]_vars => [Deleting]_vars
  <2> SUFFICES ASSUME KeyInv, [Next]_vars, changes' = changes PROVE Deleting
    OBVIOUS
  <2>1. ASSUME NEW o \in loc.ops, CreateKey(o) \/ DeleteKey(o) PROVE Deleting
    BY <2>1, CallsAsDeclared DEF KeyInv, DeclaredGone
  <2>2. CASE UNCHANGED shelves
    BY <2>2
  <2>3. CASE Apply
    BY <2>1, <2>3 DEF Apply
  <2>4. CASE Fail
    BY <2>1, <2>2, <2>4 DEF Fail, MaybeDone
  <2>5. CASE ChangeKeys
    <3>1. changes \in Nat
      BY BoundsAssumption DEF KeyInv, Typed, TypedRun
    <3>2. changes' = changes - 1
      BY <2>5 DEF ChangeKeys, ChangeBound
    <3> QED
      BY <3>1, <3>2
  <2>6. Apply \/ Fail \/ ChangeKeys \/ UNCHANGED shelves
    <3> USE DEF service, bounds
    <3>1. CASE List
      BY <3>1 DEF List
    <3> QED
      BY <3>1 DEF Next, RunStep, Start, Load, Login, KeyRefused, KeysDone, SelectRepositories,
         CheckAccess, CheckInvites, Invite, ListInvitations, AcceptOne, AllDone, Kill,
         ChangeToken, ChangeStandings, vars
  <2> QED
    BY <2>2, <2>3, <2>4, <2>5, <2>6
<1>2. KeyInv /\ [Next]_vars => [Moving]_vars
  <2> SUFFICES ASSUME KeyInv, [Next]_vars, changes' = changes PROVE Moving
    OBVIOUS
  <2>0. repos \in [Repos -> Standings]
    BY DEF KeyInv, Typed, TypedStandings
  <2>1. CASE UNCHANGED repos
    BY <2>1
  <2>2. CASE Invite
    BY <2>0, <2>2 DEF Invite, KeyInv, Rounds
  <2>3. CASE Fail
    BY <2>0, <2>3 DEF Fail, MaybeDone
  <2>4. CASE ChangeStandings
    <3>1. changes \in Nat
      BY BoundsAssumption DEF KeyInv, Typed, TypedRun
    <3>2. changes' = changes - 1
      BY <2>4 DEF ChangeStandings, ChangeBound
    <3> QED
      BY <3>1, <3>2
  <2>5. Invite \/ Fail \/ ChangeStandings \/ UNCHANGED repos
    <3> USE DEF service, bounds
    <3>1. CASE List
      BY <3>1 DEF List
    <3> QED
      BY <3>1 DEF Next, RunStep, Start, Load, Login, Apply, KeyRefused, KeysDone,
         SelectRepositories, CheckAccess, CheckInvites, ListInvitations, AcceptOne, AllDone, Kill,
         ChangeToken, ChangeKeys, vars
  <2> QED
    BY <2>1, <2>2, <2>3, <2>4, <2>5
<1> QED
  BY <1>1, <1>2, Provisioning, PTL DEF Spec, OnlyDeclaredChanges, DeletesOnlyListed, StandingsKept
=============================================================================

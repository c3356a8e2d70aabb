---------------------------- MODULE KeyProvision ----------------------------
(***************************************************************************)
(* forgejo-provision and github-provision: the public keys of accounts     *)
(* (and on GitHub the collaborators of its repositories and the            *)
(* invitations it accepts).  Both list every key first, plan all changes   *)
(* from the listings, refuse the whole plan when anything about it is      *)
(* doubtful, and only then change keys, one request at a time.  Others use *)
(* the accounts meanwhile.                                                 *)
(*                                                                          *)
(* Forgejo's unit is a oneshot without a restart.  GitHub's is started by  *)
(* a daily timer and by a change of the token, and is restarted five       *)
(* minutes after a failure unless the exit status was 2.                   *)
(***************************************************************************)
EXTENDS Naturals, FiniteSets

CONSTANTS
    Settings,    \* the declarations to consider
    Titles,      \* titles a key can have
    Keys,        \* key bodies; for OpenPGP, the long key id goes with it
    Repos,       \* repositories the GitHub account owns
    Invitations, \* invitations addressed to the GitHub account
    MaxFaults,   \* kills, failed or lost calls in a behaviour
    MaxChanges   \* changes by others in a behaviour

\* A shelf holds the keys of one kind of one account: on Forgejo the SSH keys
\* of the users 1 and 2, on GitHub the OpenPGP (1) and the SSH (2) keys.
Shelves == {1, 2}
Wanted == [state : {"no", "present", "absent"}, key : Keys]
Setting == [service : {"forgejo", "github"}, want : [Shelves -> [Titles -> Wanted]],
            allow : BOOLEAN, collab : BOOLEAN, named : BOOLEAN, accept : SUBSET Invitations]

\* Collaborators and invitations are declared on GitHub only.  named: for a
\* list of repositories, here all of them, and not for those that are owned.
ASSUME SettingsAssumption ==
    /\ Settings \subseteq Setting
    /\ \A s \in Settings : s.service = "forgejo" => ~s.collab /\ s.accept = {}
ASSUME BoundsAssumption == MaxFaults \in Nat /\ MaxChanges \in Nat

VARIABLES
    settings,  \* the declaration in force; accept: the invitations it trusts
    pc,        \* the step the run makes next
    loc,       \* what the run holds in memory
    status,    \* of the last run: "ok", "failed" (1), "permanent" (2), "none" so far
    token,     \* the token file: "right", "wrong" (another account's), "none"
    shelves,   \* the keys at the service
    lastId,    \* the last key id the service gave
    repos,     \* the collaborator's standing in each repository
    pending, accepted, \* invitations
    faults, changes,   \* what is left of the bounds
    ghost      \* history the properties refer to

bounds == <<settings, faults, changes>>
service == <<shelves, lastId, repos, pending, accepted>>
vars == <<settings, pc, loc, status, token, service, faults, changes, ghost>>

\* "own" is a standing and permission that somebody else gave; "archived", that
\* the repository takes no invitation.
Standings == {"archived", "none", "invited", "member", "own"}

Blank == [todo |-> {}, ops |-> {}, repos |-> {}, at |-> {}, failed |-> {}, trusted |-> {}]

Init ==
    /\ settings \in Settings
    /\ pc = "idle"
    /\ loc = Blank
    /\ status = "none"
    /\ token \in (IF settings.service = "github" THEN {"right", "wrong", "none"} ELSE {"right"})
    /\ shelves = [s \in Shelves |-> {}]
    /\ lastId = 0
    /\ repos \in [Repos -> IF settings.collab THEN {"archived", "none"} ELSE {"none"}]
    /\ pending \in (IF settings.accept # {} THEN SUBSET Invitations ELSE {{}})
    /\ accepted = {}
    /\ faults = MaxFaults
    /\ changes = MaxChanges
    /\ ghost = [quiet |-> TRUE, why |-> "none", wrote |-> FALSE, since |-> {}, moved |-> {},
              failed |-> {}, twice |-> {}]

Declared(s) == {t \in Titles : settings.want[s][t].state # "no"}
Present(s) == {t \in Titles : settings.want[s][t].state = "present"}
Titled(s, t) == {k \in shelves[s] : k.title = t}
Holding(s, key) == {k \in shelves[s] : k.key = key}
WantedKey(s, t) == settings.want[s][t].key

Goto(p) == pc' = p /\ UNCHANGED status
Finish(r) == pc' = "idle" /\ status' = r /\ loc' = Blank
Because(why) == ghost' = [ghost EXCEPT !.why = why]

Start ==
    /\ pc = "idle"
    /\ pc' = "load"
    /\ status' = "none"
    /\ ghost' = [ghost EXCEPT !.quiet = TRUE, !.why = "none", !.wrote = FALSE]
    /\ UNCHANGED <<settings, loc, token, service, faults, changes>>

\* The token file and the declaration are read; what they lack no retry mends.
Load ==
    /\ pc = "load"
    /\ IF token = "none"
       THEN Finish("permanent") /\ Because("load")
       ELSE /\ loc' = [loc EXCEPT !.todo = {s \in Shelves : Declared(s) # {}}]
            /\ Goto(IF settings.service = "github" THEN "login" ELSE "list")
            /\ UNCHANGED ghost
    /\ UNCHANGED <<bounds, token, service>>

\* The token must be the declared account's; another's is an ordinary failure.
Login ==
    /\ pc = "login"
    /\ IF token = "wrong" THEN Finish("failed") /\ Because("login")
       ELSE Goto("list") /\ UNCHANGED <<loc, ghost>>
    /\ UNCHANGED <<bounds, token, service>>

-----------------------------------------------------------------------------
(* Planning: a set of operations for one shelf, or "refused".              *)

Create(s, titles) ==
    {[op |-> "create", shelf |-> s, title |-> t, key |-> WantedKey(s, t), id |-> 0] : t \in titles}
Delete(s, keys) ==
    {[op |-> "delete", shelf |-> s, title |-> k.title, key |-> k.key, id |-> k.id] : k \in keys}

Gone(s) == UNION {Titled(s, t) : t \in Declared(s) \ Present(s)}

\* One body under two declared titles.
Repeated(s, titles) == \E t, u \in titles : t # u /\ WantedKey(s, t) = WantedKey(s, u)

\* Mutation: a drifted key is as good as the declared one.
DriftTolerated(s) ==
    \/ Repeated(s, Present(s))
    \/ \E t \in Declared(s) : Cardinality(Titled(s, t)) > 1
    \/ \E t \in Present(s) : Holding(s, WantedKey(s, t)) \ Titled(s, t) # {}

\* Forgejo: a title held twice, a body that drifted (a rotation is never
\* implicit), or the body under another title refuses the plan.
DoubtfulForgejo(s) ==
    \/ Repeated(s, Present(s))
    \/ \E t \in Declared(s) : Cardinality(Titled(s, t)) > 1
    \/ \E t \in Present(s) :
         \/ \E k \in Titled(s, t) : k.key # WantedKey(s, t)
         \/ Holding(s, WantedKey(s, t)) \ Titled(s, t) # {}

\* GitHub: the same, but a title that holds its key is left alone whatever
\* else holds it.
DoubtfulSsh(s) ==
    \/ Repeated(s, Present(s))
    \/ \E t \in Declared(s) : Cardinality(Titled(s, t)) > 1
    \/ \E t \in Present(s) :
         IF Titled(s, t) = {} THEN Holding(s, WantedKey(s, t)) # {}
                              ELSE \E k \in Titled(s, t) : k.key # WantedKey(s, t)

\* Both services plan SSH keys by title.
PlanByTitle(s) ==
    Create(s, {t \in Present(s) : Titled(s, t) = {}}) \cup
    (IF settings.allow THEN Delete(s, Gone(s)) ELSE {})

\* find returns the first, and the service lists in the order of the ids.
First(keys) == {k \in keys : \A l \in keys : k.id <= l.id}

\* GitHub's OpenPGP keys go by their long key id, whatever their name.
PlanGpg(s) ==
    Create(s, {t \in Present(s) : Holding(s, WantedKey(s, t)) = {}}) \cup
    (IF settings.allow
     THEN Delete(s, UNION {First(Holding(s, WantedKey(s, t))) : t \in Declared(s) \ Present(s)})
     ELSE {})

IsGpg(s) == settings.service = "github" /\ s = 1
Doubtful(s) ==
    IF settings.service = "forgejo" THEN DoubtfulForgejo(s)
    ELSE IF IsGpg(s) THEN Repeated(s, Declared(s)) ELSE DoubtfulSsh(s)
Plan(s) == IF IsGpg(s) THEN PlanGpg(s) ELSE PlanByTitle(s)

\* Mutation: each shelf is changed as soon as it is planned.
ListEach ==
    /\ pc = "list"
    /\ \/ /\ loc.todo = {}
          /\ Goto("apply")
          /\ UNCHANGED <<loc, ghost, service>>
       \/ /\ loc.todo # {}
          /\ LET s == CHOOSE s \in loc.todo : \A u \in loc.todo : s <= u
             IN IF Doubtful(s) THEN Finish("failed") /\ Because("plan") /\ UNCHANGED service
                ELSE \/ /\ Plan(s) = {}
                        /\ loc' = [loc EXCEPT !.todo = @ \ {s}]
                        /\ Goto("list")
                        /\ UNCHANGED <<ghost, service>>
                     \/ \E o \in {o \in Plan(s) : o.op = "create"} :
                          /\ shelves' = [shelves EXCEPT ![s] = @ \cup
                               {[id |-> lastId + 1, title |-> o.title, key |-> o.key]}]
                          /\ lastId' = lastId + 1
                          /\ ghost' = [ghost EXCEPT !.wrote = TRUE]
                          /\ UNCHANGED <<pc, status, loc, repos, pending, accepted>>
    /\ UNCHANGED <<bounds, token>>

\* What a listing shows more than once.
Twice(s) == {k.key : k \in {k \in shelves[s] : \E l \in shelves[s] : l # k /\ l.key = k.key}}

Listed(s) == [ghost EXCEPT !.since = {k \in @ : k[1] # s},
                           !.twice = IF IsGpg(s) THEN Twice(s) ELSE @]

\* One shelf is listed and planned; nothing is changed before the last one is.
List ==
    /\ pc = "list"
    /\ IF loc.todo = {} THEN Goto("apply") /\ UNCHANGED <<loc, ghost>>
       ELSE LET s == CHOOSE s \in loc.todo : \A u \in loc.todo : s <= u
            IN IF Doubtful(s) THEN Finish("failed") /\ Because("plan")
               ELSE /\ loc' = [loc EXCEPT !.todo = @ \ {s}, !.ops = @ \cup Plan(s)]
                    /\ Goto("list")
                    /\ ghost' = Listed(s)
    /\ UNCHANGED <<bounds, token, service>>

-----------------------------------------------------------------------------
(* The keys.                                                               *)

Wrote == ghost' = [ghost EXCEPT !.wrote = TRUE]

CreateKey(o) ==
    /\ o.op = "create"
    /\ lastId' = lastId + 1
    /\ shelves' = [shelves EXCEPT ![o.shelf] =
                      @ \cup {[id |-> lastId + 1, title |-> o.title, key |-> o.key]}]

\* Mutation: the key is deleted by its title.
DeleteTitle(o) ==
    /\ o.op = "delete"
    /\ Titled(o.shelf, o.title) # {}
    /\ shelves' = [shelves EXCEPT ![o.shelf] = @ \ Titled(o.shelf, o.title)]
    /\ UNCHANGED lastId

DeleteKey(o) ==
    /\ o.op = "delete"
    /\ \E k \in shelves[o.shelf] :
         k.id = o.id /\ shelves' = [shelves EXCEPT ![o.shelf] = @ \ {k}]
    /\ UNCHANGED lastId

Apply ==
    /\ pc = "apply"
    /\ \E o \in loc.ops :
         /\ CreateKey(o) \/ DeleteKey(o)
         /\ loc' = [loc EXCEPT !.ops = @ \ {o}]
    /\ Wrote
    /\ UNCHANGED <<bounds, pc, status, token, repos, pending, accepted>>

\* The service has the key under another title by now, or the key to delete is gone.
KeyRefused ==
    /\ pc = "apply"
    /\ \E o \in loc.ops :
         IF o.op = "create" THEN Holding(o.shelf, o.key) # {}
                            ELSE \A k \in shelves[o.shelf] : k.id # o.id
    /\ Finish("failed")
    /\ Because("call")
    /\ UNCHANGED <<bounds, token, service>>

KeysDone ==
    /\ pc = "apply"
    /\ loc.ops = {}
    /\ IF settings.service = "github" THEN Goto("repos") /\ UNCHANGED loc ELSE Finish("ok")
    /\ UNCHANGED <<bounds, token, service, ghost>>

-----------------------------------------------------------------------------
(* GitHub: collaborators and invitations.                                  *)

\* Archived repositories are left out, unless they are named.
Selected == {r \in Repos : settings.collab /\ (settings.named \/ repos[r] # "archived")}

SelectRepositories ==
    /\ pc = "repos"
    /\ loc' = [loc EXCEPT !.repos = Selected]
    /\ Goto("check")
    /\ UNCHANGED <<bounds, token, service, ghost>>

HasAccess(r) == repos[r] \in {"member", "own"}

\* One repository after the other is looked at, and then invited to.
CheckAccess ==
    /\ pc = "check"
    /\ loc.repos # {}
    /\ \E r \in loc.repos :
         IF HasAccess(r)
         THEN loc' = [loc EXCEPT !.repos = @ \ {r}] /\ Goto("check") /\ UNCHANGED ghost
         ELSE /\ loc' = [loc EXCEPT !.repos = @ \ {r}, !.at = {r}]
              /\ Goto("invites")
              /\ ghost' = [ghost EXCEPT !.moved = @ \ {r}]
    /\ UNCHANGED <<bounds, token, service>>

\* No access: the repository's pending invitations are a second request.
CheckInvites ==
    /\ pc = "invites"
    /\ \E r \in loc.at :
         IF repos[r] = "invited" THEN loc' = [loc EXCEPT !.at = {}] /\ Goto("check")
                                 ELSE Goto("invite") /\ UNCHANGED loc
    /\ UNCHANGED <<bounds, token, service, ghost>>

\* Mutation: the first repository that fails ends the round.
StopAtFailure(r) ==
    /\ loc' = [loc EXCEPT !.repos = {}, !.at = {}, !.failed = @ \cup {r}]
    /\ Goto("check")

\* A repository that fails is remembered and the others go on.
RepositoryFailed(r) ==
    /\ loc' = [loc EXCEPT !.repos = @ \ {r}, !.at = {}, !.failed = @ \cup {r}]
    /\ Goto("check")

Invite ==
    /\ pc = "invite"
    /\ \E r \in loc.at :
         IF repos[r] = "archived" THEN RepositoryFailed(r) /\ UNCHANGED repos
         ELSE /\ repos' = [repos EXCEPT ![r] = IF @ = "none" THEN "invited"
                                               ELSE IF @ = "own" THEN "member" ELSE @]
              /\ loc' = [loc EXCEPT !.at = {}]
              /\ Goto("check")
    /\ UNCHANGED <<bounds, token, shelves, lastId, pending, accepted, ghost>>

\* The invitations whose inviter and repository owner are both trusted.
ListInvitations ==
    /\ pc = "check"
    /\ loc.repos = {}
    /\ loc' = [loc EXCEPT !.trusted = pending \cap settings.accept]
    /\ Goto("accept")
    /\ UNCHANGED <<bounds, token, service, ghost>>

AcceptOne ==
    /\ pc = "accept"
    /\ \E i \in loc.trusted :
         IF i \in pending
         THEN /\ pending' = pending \ {i}
              /\ accepted' = accepted \cup {i}
              /\ loc' = [loc EXCEPT !.trusted = @ \ {i}]
              /\ Goto("accept")
              /\ UNCHANGED ghost
         ELSE Finish("failed") /\ Because("call") /\ UNCHANGED <<pending, accepted>>
    /\ UNCHANGED <<bounds, token, shelves, lastId, repos>>

\* The failures of single repositories are reported at the very end.
AllDone ==
    /\ pc = "accept"
    /\ loc.trusted = {}
    /\ IF loc.failed = {} THEN Finish("ok") /\ UNCHANGED ghost
       ELSE Finish("failed") /\ ghost' = [ghost EXCEPT !.why = "repos", !.failed = loc.failed]
    /\ UNCHANGED <<bounds, token, service>>

-----------------------------------------------------------------------------
(* What fails, and what others do.                                         *)

\* Mutation: every failure exits with status 2.
FailForGood(why) == Finish("permanent") /\ Because(why)

\* An error of a call ends the run with status 1.
FailRun(why) == Finish("failed") /\ Because(why)

\* What a lost request may have done.
MaybeDone ==
    IF pc = "apply"
    THEN /\ UNCHANGED <<repos, pending, accepted>>
         /\ \/ UNCHANGED <<shelves, lastId>> /\ FailRun("call")
            \/ /\ \E o \in loc.ops : CreateKey(o) \/ DeleteKey(o)
               /\ Finish("failed")
               /\ ghost' = [ghost EXCEPT !.why = "call", !.wrote = TRUE]
    ELSE IF pc \in {"check", "invites", "invite"} /\ loc.repos \cup loc.at # {}
    THEN /\ UNCHANGED <<shelves, lastId, pending, accepted, ghost>>
         /\ \E r \in IF pc = "check" THEN loc.repos ELSE loc.at :
              /\ RepositoryFailed(r)
              /\ repos' \in IF pc = "invite" /\ repos[r] = "none"
                            THEN {repos, [repos EXCEPT ![r] = "invited"]} ELSE {repos}
    ELSE /\ UNCHANGED <<shelves, lastId, repos>>
         /\ \/ UNCHANGED <<pending, accepted>>
            \/ /\ pc = "accept"
               /\ \E i \in loc.trusted \cap pending :
                    pending' = pending \ {i} /\ accepted' = accepted \cup {i}
         /\ FailRun("call")

\* The next step makes a call.
Calling ==
    /\ pc \notin {"idle", "load"}
    /\ pc = "list" => loc.todo # {}
    /\ pc = "apply" => loc.ops # {}
    /\ pc = "repos" => settings.collab /\ ~settings.named
    /\ pc = "check" => loc.repos # {} \/ settings.accept # {}
    /\ pc = "accept" => loc.trusted # {}

\* A call fails or its answer is lost; none is tried again.
Fail ==
    /\ Calling
    /\ faults > 0
    /\ faults' = faults - 1
    /\ MaybeDone
    /\ UNCHANGED <<settings, token, changes>>

\* The run is killed; the unit has failed.
Kill ==
    /\ pc # "idle"
    /\ faults > 0
    /\ faults' = faults - 1
    /\ FailRun("kill")
    /\ UNCHANGED <<settings, token, service, changes>>

ChangeBound == changes > 0 /\ changes' = changes - 1

ChangeToken ==
    /\ ChangeBound
    /\ settings.service = "github"
    /\ token' \in {"right", "wrong", "none"} \ {token}
    /\ ghost' = [ghost EXCEPT !.quiet = FALSE]
    /\ UNCHANGED <<settings, pc, loc, status, service, faults>>

\* Somebody adds a key, or removes one.
ChangeKeys ==
    /\ ChangeBound
    /\ \E s \in {s \in Shelves : Declared(s) # {}} :
         \/ \E t \in Titles, key \in Keys :
              /\ lastId' = lastId + 1
              /\ shelves' = [shelves EXCEPT ![s] =
                                @ \cup {[id |-> lastId + 1, title |-> t, key |-> key]}]
              /\ ghost' = [ghost EXCEPT !.quiet = FALSE, !.since = @ \cup {<<s, lastId + 1>>}]
         \/ \E k \in shelves[s] :
              /\ shelves' = [shelves EXCEPT ![s] = @ \ {k}]
              /\ ghost' = [ghost EXCEPT !.quiet = FALSE]
              /\ UNCHANGED lastId
    /\ UNCHANGED <<settings, pc, loc, status, token, repos, pending, accepted, faults>>

\* An invitation is accepted or withdrawn, a collaborator is added or leaves,
\* a repository is archived; somebody invites the account or withdraws that.
ChangeStandings ==
    /\ ChangeBound
    /\ \/ /\ settings.collab
          /\ \E r \in Repos, to \in {"archived", "none", "member", "own"} :
               /\ repos[r] # to
               /\ to = "member" => repos[r] = "invited"
               /\ repos' = [repos EXCEPT ![r] = to]
               /\ ghost' = [ghost EXCEPT !.quiet = FALSE, !.moved = @ \cup {r}]
          /\ UNCHANGED pending
       \/ /\ settings.accept # {}
          /\ \E i \in Invitations \ accepted :
               pending' = IF i \in pending THEN pending \ {i} ELSE pending \cup {i}
          /\ ghost' = [ghost EXCEPT !.quiet = FALSE]
          /\ UNCHANGED repos
    /\ UNCHANGED <<settings, pc, loc, status, token, shelves, lastId, accepted, faults>>

RunStep ==
    \/ Load \/ Login \/ List \/ Apply \/ KeyRefused \/ KeysDone
    \/ SelectRepositories \/ CheckAccess \/ CheckInvites \/ Invite
    \/ ListInvitations \/ AcceptOne \/ AllDone

\* Restart = "on-failure", RestartPreventExitStatus = 2.
Retry == settings.service = "github" /\ status = "failed" /\ Start

Next ==
    \/ Start
    \/ RunStep
    \/ Fail \/ Kill
    \/ ChangeToken \/ ChangeKeys \/ ChangeStandings

Spec == Init /\ [][Next]_vars

\* A run goes on, and systemd restarts GitHub's unit after a failure.
FairSpec == Spec /\ WF_vars(RunStep) /\ WF_vars(Retry)

-----------------------------------------------------------------------------
TypeOK ==
    /\ settings \in Settings
    /\ pc \in {"idle", "load", "login", "list", "apply", "repos", "check", "invites", "invite",
              "accept"}
    /\ loc.todo \subseteq Shelves /\ loc.repos \cup loc.at \cup loc.failed \subseteq Repos
    /\ loc.trusted \subseteq Invitations
    /\ status \in {"none", "ok", "failed", "permanent"}
    /\ token \in {"right", "wrong", "none"}
    /\ \A s \in Shelves : shelves[s] \subseteq [id : 1 .. lastId, title : Titles, key : Keys]
    /\ repos \in [Repos -> Standings]
    /\ pending \subseteq Invitations /\ accepted \subseteq Invitations
    /\ faults \in 0 .. MaxFaults /\ changes \in 0 .. MaxChanges

\* A run that refuses its plan has changed nothing: no key of one user is
\* touched when the keys of another are in doubt.
RefusedPlanChangesNothing == ghost.why = "plan" => ~ghost.wrote

\* A run deletes a key only where the declaration and the option both say so,
\* and only a key it listed: never one that somebody registered since, under
\* whatever title.  It never replaces a key.
DeletesOnlyListed ==
    [][pc # "idle" /\ changes' = changes =>
        \A s \in Shelves :
            /\ \A k \in shelves[s] \ shelves'[s] :
                 /\ settings.allow
                 /\ <<s, k.id>> \notin ghost.since
                 /\ \E t \in Declared(s) \ Present(s) :
                      IF IsGpg(s) THEN k.key = WantedKey(s, t) ELSE k.title = t
            /\ \A k \in shelves'[s] \ shelves[s] :
                 \E t \in Present(s) : k.title = t /\ k.key = WantedKey(s, t)]_vars

\* A run that succeeded while nobody interfered leaves the keys, collaborators
\* and invitations as declared; but of an OpenPGP key that is to go and that it
\* found twice, it deletes only the first (plan_gpg).
SuccessMeansDeclared ==
    status = "ok" /\ ghost.quiet =>
        /\ \A s \in Shelves :
             /\ \A t \in Present(s) :
                  \E k \in shelves[s] : k.key = WantedKey(s, t) /\ (IsGpg(s) \/ k.title = t)
             /\ settings.allow =>
                  \A t \in Declared(s) \ Present(s) :
                     IF IsGpg(s)
                     THEN WantedKey(s, t) \in ghost.twice \/ Holding(s, WantedKey(s, t)) = {}
                     ELSE Titled(s, t) = {}
        /\ settings.collab => \A r \in Repos : repos[r] # "none"
        /\ pending \cap settings.accept = {}

\* A repository whose calls fail holds back no other, and no invitation: when
\* the run ends they have all been dealt with.
RepositoriesIndependent ==
    ghost.why = "repos" /\ status = "failed" /\ ghost.quiet =>
        /\ \A r \in Repos \ ghost.failed : repos[r] # "none"
        /\ pending \cap settings.accept = {}

\* A run changes the standing of a collaborator, or the permission somebody
\* gave, only where that came about after it had looked.
StandingsKept ==
    [][pc # "idle" /\ changes' = changes =>
        \A r \in Repos : repos'[r] # repos[r] => repos[r] = "none" \/ r \in ghost.moved]_vars

\* However stale what a run has read, it takes away no key and changes no
\* standing but those it looked at and the declaration names.
OnlyDeclaredChanges == DeletesOnlyListed /\ StandingsKept

\* A named repository that is archived takes no invitation.
Closed == settings.collab /\ settings.named /\ \E r \in Repos : repos[r] = "archived"

\* A failed GitHub run that could succeed is retried until one does.
Acceptable ==
    /\ settings.service = "github"
    /\ token = "right"
    /\ ~Closed
    /\ \A s \in Shelves : ~Doubtful(s)
Settles == status = "failed" /\ Acceptable ~> status = "ok" \/ ~Acceptable

\* The guide: a token of another account "exits with status 2, which the unit
\* treats as permanent instead of retrying".
MismatchIsPermanent == ghost.why = "login" => status = "permanent"
=============================================================================

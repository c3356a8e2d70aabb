-------------------------- MODULE VikunjaProvision --------------------------
(***************************************************************************)
(* vikunja-provision: one run makes the declared projects, labels and      *)
(* teams exist, brings the teams' members to the declared ones, and        *)
(* reconciles the webhook of a project.  The server has no names of its    *)
(* own: two things can have one title, and everything is found by listing. *)
(* Users and other clients change the server meanwhile.                    *)
(*                                                                          *)
(* The unit is a oneshot without a restart, one run at a time.  The list   *)
(* of teams comes a page at a time, and only its first page is read.       *)
(***************************************************************************)
EXTENDS Naturals, Sequences, FiniteSets, SequencesExt

CONSTANTS
    Settings,   \* the declarations and options to consider
    People,     \* who can be a member of a team
    Names,      \* the declared teams' names, in the order of the state file
    PageSize,   \* teams on the first page of the list
    MaxTeams,   \* teams at the server, before the last run's
    MaxFaults,  \* kills, failed or lost calls in a behaviour
    MaxChanges  \* changes by others in a behaviour

\* things: are a project and a label declared?  teams: what is declared of
\* each team; hook: of the webhook.  keep: --no-auto-remove; delete:
\* --allow-team-delete.
TeamSpec == [state : {"no", "present", "absent"}, members : SUBSET People, desc : {"x", "y"}]
Setting == [things : BOOLEAN, teams : [Names -> TeamSpec], hook : {"no", "present", "absent"},
            keep : BOOLEAN, delete : BOOLEAN]

ASSUME SettingsAssumption == Settings \subseteq Setting
ASSUME NamesAssumption == Names \in SUBSET Nat /\ 0 \notin Names /\ "bot" \notin People
ASSUME BoundsAssumption ==
    PageSize \in Nat /\ MaxTeams \in Nat /\ MaxFaults \in Nat /\ MaxChanges \in Nat

VARIABLES
    settings,  \* the declaration in force
    pc,        \* the request the run makes next
    loc,       \* what the run holds in memory
    result,    \* of the last run: "ok", "err", or "none" so far
    projects, labels, \* how many have the declared title
    teams,     \* the teams in the order of the list; the name 0 is none of Names
    lastId,    \* the last id the server gave to a team or a webhook
    users,     \* the people with an account: those who have signed in once
    hooks,     \* the webhooks with the declared URL; good: the declared events
    faults, changes, \* what is left of the bounds
    ghost      \* history the properties refer to

bounds == <<settings, faults, changes>>
server == <<projects, labels, teams, lastId, users, hooks>>
vars == <<bounds, pc, loc, result, server, ghost>>

NoTeam == [id |-> 0, name |-> 0, desc |-> "x", members |-> {}]
Blank == [seen |-> 0, names |-> {}, list |-> <<>>, team |-> NoTeam, add |-> {}, remove |-> {},
          hooks |-> <<>>]

DeclaredNames == {n \in Names : settings.teams[n].state # "no"}
PresentNames == {n \in Names : settings.teams[n].state = "present"}

\* What no declaration concerns stays empty.
Init ==
    /\ settings \in Settings
    /\ pc = "idle"
    /\ loc = Blank
    /\ result = "none"
    /\ projects \in (IF settings.things THEN 0 .. 1 ELSE {0}) /\ labels = projects
    /\ \E n \in IF DeclaredNames = {} THEN {0} ELSE 0 .. PageSize :
         /\ lastId = n
         /\ teams = [i \in 1 .. n |-> [id |-> i, name |-> 0, desc |-> "x", members |-> {"bot"}]]
    /\ users \in {{}, People}
    /\ hooks \in IF settings.hook = "no" THEN {<<>>} ELSE {<<>>, <<[id |-> 0, good |-> FALSE]>>}
    /\ faults = MaxFaults
    /\ changes = MaxChanges
    /\ ghost = [quiet |-> TRUE, fits |-> TRUE, twice |-> FALSE, alone |-> TRUE]

Goto(p) == pc' = p /\ UNCHANGED result
Finish(r) == pc' = "idle" /\ result' = r /\ loc' = Blank
Least(S) == CHOOSE n \in S : \A m \in S : n <= m

\* Where a name is on a list; the first place is the one that is found.
Places(name, list) == {i \in DOMAIN list : list[i].name = name}
Listed(name, list) == Places(name, list) # {}
Found(name, list) == list[Least(Places(name, list))]
Doubled(name, list) == \E i, j \in Places(name, list) : i # j

\* MaxTeams bounds the runs as well: with a full first page each makes a team.
Start ==
    /\ pc = "idle"
    /\ Len(teams) <= MaxTeams
    /\ pc' = "ready"
    /\ result' = "none"
    /\ ghost' = [ghost EXCEPT !.quiet = TRUE, !.fits = Len(teams) <= PageSize]
    /\ UNCHANGED <<bounds, loc, server>>

\* The server answers, and takes the token for a list of teams.
WaitReady ==
    /\ pc = "ready"
    /\ Goto("projects")
    /\ UNCHANGED <<bounds, loc, server, ghost>>

-----------------------------------------------------------------------------
(* Projects and labels: listed to the last page, created when missing.     *)

ListProjects ==
    /\ pc = "projects"
    /\ loc' = [loc EXCEPT !.seen = projects]
    /\ Goto("project")
    /\ UNCHANGED <<bounds, server, ghost>>

ReconcileProject ==
    /\ pc = "project"
    /\ IF ~settings.things \/ loc.seen = 1 THEN UNCHANGED <<projects, loc>> /\ Goto("labels")
       ELSE IF loc.seen = 0 THEN projects' = projects + 1 /\ UNCHANGED loc /\ Goto("labels")
       ELSE UNCHANGED projects /\ Finish("err")
    /\ UNCHANGED <<bounds, labels, teams, lastId, users, hooks, ghost>>

ListLabels ==
    /\ pc = "labels"
    /\ loc' = [loc EXCEPT !.seen = labels]
    /\ Goto("label")
    /\ UNCHANGED <<bounds, server, ghost>>

ReconcileLabel ==
    /\ pc = "label"
    /\ IF ~settings.things \/ loc.seen = 1 THEN UNCHANGED <<labels, loc>> /\ Goto("teams")
       ELSE IF loc.seen = 0 THEN labels' = labels + 1 /\ UNCHANGED loc /\ Goto("teams")
       ELSE UNCHANGED labels /\ Finish("err")
    /\ UNCHANGED <<bounds, projects, teams, lastId, users, hooks, ghost>>

-----------------------------------------------------------------------------
(* Teams.                                                                  *)

FirstPage == SubSeq(teams, 1, IF Len(teams) < PageSize THEN Len(teams) ELSE PageSize)

ListTeams ==
    /\ pc = "teams"
    /\ loc' = [loc EXCEPT !.list = FirstPage, !.names = DeclaredNames]
    /\ Goto("team")
    /\ UNCHANGED <<bounds, server, ghost>>

Created(name) ==
    Append(teams, [id |-> lastId + 1, name |-> name, desc |-> settings.teams[name].desc,
                   members |-> {"bot"}])

\* Mutation: a creation whose answer is late is sent once more.
CreateTwice(name) ==
    /\ teams' = Append(Created(name), [Created(name)[Len(teams) + 1] EXCEPT !.id = @ + 1])
    /\ lastId' = lastId + 2

CreateTeam(name) ==
    /\ teams' = Created(name)
    /\ lastId' = lastId + 1

Has(id) == \E i \in 1 .. Len(teams) : teams[i].id = id
At(id) == CHOOSE i \in 1 .. Len(teams) : teams[i].id = id

\* The next declared team: create it, update its description, or delete it;
\* the first of its name on the page is the one.
ReconcileTeam ==
    /\ pc = "team"
    /\ loc.names # {}
    /\ LET name == Least(loc.names)
           spec == settings.teams[name]
           listed == Listed(name, loc.list)
           found == Found(name, loc.list)
           on == loc' = [loc EXCEPT !.names = @ \ {name}]
       IN IF spec.state = "present" /\ ~listed
          THEN /\ CreateTeam(name)
               /\ on
               /\ Goto("relist")
          ELSE IF spec.state = "present" /\ found.desc # spec.desc
          THEN /\ Has(found.id)
               /\ teams' = [teams EXCEPT ![At(found.id)].desc = spec.desc]
               /\ UNCHANGED lastId
               /\ on
               /\ Goto("team")
          ELSE IF spec.state = "absent" /\ listed /\ settings.delete /\ ~settings.keep
          THEN /\ Has(found.id)
               /\ teams' = RemoveAt(teams, At(found.id))
               /\ UNCHANGED lastId
               /\ on
               /\ Goto("team")
          ELSE UNCHANGED <<teams, lastId>> /\ on /\ Goto("team")
    /\ UNCHANGED <<bounds, projects, labels, users, hooks, ghost>>

\* Mutation: the list is not read anew.
RelistNothing ==
    /\ pc = "relist" \/ (pc = "team" /\ loc.names = {})
    /\ loc' = [loc EXCEPT !.names = IF pc = "relist" THEN @ ELSE PresentNames]
    /\ Goto(IF pc = "relist" THEN "team" ELSE "members")
    /\ UNCHANGED <<bounds, server, ghost>>

\* After a creation the list is read anew, and once more after the last team.
RelistTeams ==
    /\ pc = "relist" \/ (pc = "team" /\ loc.names = {})
    /\ loc' = [loc EXCEPT !.list = FirstPage,
                          !.names = IF pc = "relist" THEN @ ELSE PresentNames]
    /\ Goto(IF pc = "relist" THEN "team" ELSE "members")
    /\ UNCHANGED <<bounds, server, ghost>>

\* Mutation: the bot counts as a member like any other.
DiffWithBot(desired, observed) == [add |-> desired \ observed, remove |-> observed \ desired]

\* The bot is neither added nor removed.
MembershipDiff(desired, observed) ==
    [add |-> (desired \ {"bot"}) \ observed, remove |-> (observed \ {"bot"}) \ desired]

\* The next present team's members are read; a team not on the page is passed over.
GetTeam ==
    /\ pc = "members"
    /\ loc.names # {}
    /\ LET name == Least(loc.names)
           found == Found(name, loc.list)
       IN IF ~Listed(name, loc.list)
          THEN loc' = [loc EXCEPT !.names = @ \ {name}] /\ Goto("members")
          ELSE /\ Has(found.id)
               /\ LET diff == MembershipDiff(settings.teams[name].members,
                                             teams[At(found.id)].members)
                  IN loc' = [loc EXCEPT !.names = @ \ {name}, !.team = found,
                                        !.add = diff.add,
                                        !.remove = IF settings.keep THEN {} ELSE diff.remove]
               /\ Goto("add")
    /\ UNCHANGED <<bounds, server, ghost>>

\* One member is added.  Who is a member already (6005) is passed over, and so
\* is who has no account yet (1005).
AddMember ==
    /\ pc = "add"
    /\ \/ /\ loc.add = {}
          /\ Goto("remove")
          /\ UNCHANGED <<loc, teams>>
       \/ \E who \in loc.add :
            /\ Has(loc.team.id)
            /\ teams' = IF who \in users
                        THEN [teams EXCEPT ![At(loc.team.id)].members = @ \cup {who}] ELSE teams
            /\ loc' = [loc EXCEPT !.add = @ \ {who}]
            /\ Goto("add")
    /\ UNCHANGED <<bounds, projects, labels, lastId, users, hooks, ghost>>

RemoveMember ==
    /\ pc = "remove"
    /\ \/ /\ loc.remove = {}
          /\ Goto("members")
          /\ UNCHANGED <<loc, teams>>
       \/ \E who \in loc.remove :
            /\ Has(loc.team.id)
            /\ who \in teams[At(loc.team.id)].members
            /\ teams' = [teams EXCEPT ![At(loc.team.id)].members = @ \ {who}]
            /\ loc' = [loc EXCEPT !.remove = @ \ {who}]
            /\ Goto("remove")
    /\ UNCHANGED <<bounds, projects, labels, lastId, users, hooks, ghost>>

\* The team or the member has gone since it was listed.
TeamRefused ==
    /\ \/ /\ pc = "team"
          /\ loc.names # {}
          /\ LET name == Least(loc.names)
                 spec == settings.teams[name]
                 found == Found(name, loc.list)
             IN /\ Listed(name, loc.list)
                /\ ~Has(found.id)
                /\ \/ spec.state = "present" /\ found.desc # spec.desc
                   \/ spec.state = "absent" /\ settings.delete /\ ~settings.keep
       \/ /\ pc = "members"
          /\ loc.names # {}
          /\ Listed(Least(loc.names), loc.list)
          /\ ~Has(Found(Least(loc.names), loc.list).id)
       \/ pc = "add" /\ loc.add # {} /\ ~Has(loc.team.id)
       \/ /\ pc = "remove"
          /\ loc.remove # {}
          /\ IF Has(loc.team.id) THEN loc.remove \ teams[At(loc.team.id)].members # {} ELSE TRUE
    /\ Finish("err")
    /\ UNCHANGED <<bounds, server, ghost>>

-----------------------------------------------------------------------------
(* The webhook, found by its URL in a list that is read once.              *)

HookAt(id) == {i \in 1 .. Len(hooks) : hooks[i].id = id}

ListWebhooks ==
    /\ pc = "members"
    /\ loc.names = {}
    /\ loc' = [loc EXCEPT !.hooks = hooks]
    /\ Goto(IF settings.hook = "no" THEN "done" ELSE "hook")
    /\ UNCHANGED <<bounds, server, ghost>>

CreateWebhook ==
    /\ settings.hook = "present" /\ loc.hooks = <<>>
    /\ hooks' = Append(hooks, [id |-> lastId + 1, good |-> TRUE])
    /\ lastId' = lastId + 1

UpdateWebhook ==
    /\ settings.hook = "present" /\ loc.hooks # <<>> /\ ~loc.hooks[1].good
    /\ \E i \in HookAt(loc.hooks[1].id) : hooks' = [hooks EXCEPT ![i].good = TRUE]
    /\ UNCHANGED lastId

\* No option holds this deletion back.
DeleteWebhook ==
    /\ settings.hook = "absent" /\ loc.hooks # <<>>
    /\ \E i \in HookAt(loc.hooks[1].id) : hooks' = RemoveAt(hooks, i)
    /\ UNCHANGED lastId

WebhookAsDeclared ==
    /\ IF settings.hook = "present" THEN loc.hooks # <<>> /\ loc.hooks[1].good ELSE loc.hooks = <<>>
    /\ UNCHANGED <<hooks, lastId>>

ReconcileWebhook ==
    /\ pc = "hook"
    /\ CreateWebhook \/ UpdateWebhook \/ DeleteWebhook \/ WebhookAsDeclared
    /\ Goto("done")
    /\ UNCHANGED <<bounds, loc, projects, labels, teams, users, ghost>>

\* The webhook has gone since it was listed.
WebhookRefused ==
    /\ pc = "hook"
    /\ loc.hooks # <<>>
    /\ settings.hook = "present" => ~loc.hooks[1].good
    /\ HookAt(loc.hooks[1].id) = {}
    /\ Finish("err")
    /\ UNCHANGED <<bounds, server, ghost>>

Done ==
    /\ pc = "done"
    /\ Finish("ok")
    /\ UNCHANGED <<bounds, server, ghost>>

-----------------------------------------------------------------------------
(* What fails, and what others do.                                         *)

\* A call fails, its answer is lost (the step before this one was the call's
\* effect), or the run is killed: nothing is tried again.
Stop ==
    /\ pc # "idle"
    /\ faults > 0
    /\ faults' = faults - 1
    /\ Finish("err")
    /\ UNCHANGED <<settings, changes, server, ghost>>

ChangeBound == changes > 0 /\ changes' = changes - 1
Changed == ghost' = [ghost EXCEPT !.quiet = FALSE, !.alone = FALSE,
                                  !.twice = @ \/ Len(hooks') > 1
                                              \/ \E n \in Names : Doubled(n, teams')]

Theirs == ChangeBound /\ Changed /\ UNCHANGED <<settings, pc, loc, result, faults>>

\* Somebody makes a project and a label, or deletes them.
ChangeThings ==
    /\ settings.things
    /\ \/ projects' = projects + 1 /\ labels' = labels + 1
       \/ projects > 0 /\ labels > 0 /\ projects' = projects - 1 /\ labels' = labels - 1
    /\ UNCHANGED <<teams, lastId, users, hooks>>
    /\ Theirs

\* Somebody makes a team, of whatever name, changes one or deletes it; a
\* member joins or leaves, the bot too.
ChangeTeams ==
    /\ DeclaredNames # {}
    /\ \/ /\ Len(teams) < MaxTeams
          /\ lastId' = lastId + 1
          /\ \E name \in Names \cup {0} :
               teams' = Append(teams, [id |-> lastId + 1, name |-> name, desc |-> "y",
                                       members |-> {"bot"}])
       \/ /\ UNCHANGED lastId
          /\ \E i \in 1 .. Len(teams) :
               \/ teams' = RemoveAt(teams, i)
               \/ \E who \in users \cup {"bot"} :
                    teams' = [teams EXCEPT ![i].members =
                                 IF who \in @ THEN @ \ {who} ELSE @ \cup {who}]
    /\ UNCHANGED <<projects, labels, users, hooks>>
    /\ Theirs

\* The first sign-in makes the account.
SignIn ==
    /\ PresentNames # {}
    /\ \E who \in People \ users : users' = users \cup {who}
    /\ UNCHANGED <<projects, labels, teams, lastId, hooks>>
    /\ Theirs

ChangeHooks ==
    /\ settings.hook # "no"
    /\ \/ hooks' = Append(hooks, [id |-> lastId + 1, good |-> FALSE]) /\ lastId' = lastId + 1
       \/ hooks # <<>> /\ hooks' = Tail(hooks) /\ UNCHANGED lastId
    /\ UNCHANGED <<projects, labels, teams, users>>
    /\ Theirs

\* No more runs.
Rest == pc = "idle" /\ UNCHANGED vars

Next ==
    \/ Start \/ Rest \/ WaitReady
    \/ ListProjects \/ ReconcileProject \/ ListLabels \/ ReconcileLabel
    \/ ListTeams \/ ReconcileTeam \/ RelistTeams
    \/ GetTeam \/ AddMember \/ RemoveMember \/ TeamRefused
    \/ ListWebhooks \/ ReconcileWebhook \/ WebhookRefused \/ Done
    \/ Stop
    \/ ChangeThings \/ ChangeTeams \/ SignIn \/ ChangeHooks

Spec == Init /\ [][Next]_vars

-----------------------------------------------------------------------------
Team == [id : Nat, name : Names \cup {0}, desc : {"x", "y"}, members : SUBSET (People \cup {"bot"})]
Hook == [id : Nat, good : BOOLEAN]
Memory == [seen : Nat, names : SUBSET Names, list : Seq(Team), team : Team,
           add : SUBSET People, remove : SUBSET People, hooks : Seq(Hook)]

TypeOK ==
    /\ settings \in Settings
    /\ pc \in {"idle", "ready", "projects", "project", "labels", "label", "teams", "team", "relist",
               "members", "add", "remove", "hook", "done"}
    /\ loc \in Memory
    /\ result \in {"none", "ok", "err"}
    /\ projects \in Nat /\ labels \in Nat
    /\ teams \in Seq(Team)
    /\ lastId \in Nat
    /\ users \subseteq People
    /\ hooks \in Seq(Hook)
    /\ faults \in 0 .. MaxFaults /\ changes \in 0 .. MaxChanges
    /\ ghost \in [quiet : BOOLEAN, fits : BOOLEAN, twice : BOOLEAN, alone : BOOLEAN]

\* A run that succeeded while nobody interfered leaves what is declared,
\* provided that the teams fit on the first page when it starts and when it ends:
\* a declared member without an account is the one thing missing.
SuccessMeansDeclared ==
    result = "ok" /\ ghost.quiet =>
        /\ settings.things => projects = 1 /\ labels = 1
        /\ ghost.fits /\ Len(teams) <= PageSize =>
             \A name \in DeclaredNames :
                LET spec == settings.teams[name]
                    found == Found(name, teams)
                IN IF spec.state = "present"
                   THEN /\ Listed(name, teams)
                        /\ found.desc = spec.desc
                        /\ spec.members \cap users \subseteq found.members
                        /\ ~settings.keep => found.members \subseteq spec.members \cup {"bot"}
                   ELSE settings.delete /\ ~settings.keep =>
                            ~Listed(name, teams) \/ ghost.twice
        /\ settings.hook = "present" => hooks # <<>> /\ hooks[1].good
        /\ settings.hook = "absent" => hooks = <<>> \/ ghost.twice

\* Runs on their own never make a second project, label or team of a declared
\* title, however often they are killed or their answers are lost, while the
\* teams fit on the first page.
NothingMadeTwice ==
    ghost.alone =>
        /\ projects <= 1 /\ labels <= 1 /\ Len(hooks) <= 1
        /\ Len(teams) <= PageSize => \A name \in Names : ~Doubled(name, teams)

\* A run takes nobody out of a team but extra members, and only when removals
\* are on; never the bot, never a declared member, never from a team that is
\* not declared.  It deletes a team only if the declaration and the option say so.
MembersKept ==
    [][pc # "idle" /\ changes' = changes =>
        \A i \in 1 .. Len(teams) :
            LET t == teams[i]
                after == {j \in 1 .. Len(teams') : teams'[j].id = t.id}
            IN IF after = {}
               THEN /\ t.name \in DeclaredNames \ PresentNames
                    /\ settings.delete /\ ~settings.keep
               ELSE \A j \in after :
                      t.members \ teams'[j].members # {} =>
                          /\ t.name \in PresentNames /\ ~settings.keep
                          /\ (t.members \ teams'[j].members)
                                \cap (settings.teams[t.name].members \cup {"bot"}) = {}]_vars

\* "It is idempotent: create missing teams" (the README), with no proviso.
TeamCreatedOnce == ghost.alone => \A name \in Names : ~Doubled(name, teams)
=============================================================================

---------------------------- MODULE VikunjaProofs ----------------------------
(***************************************************************************)
(* Proofs about VikunjaProvision, for any declarations, people, page and   *)
(* number of teams.  The invariant says what the run's memory has to do    *)
(* with the server: unconditionally, that an id means one team; while a    *)
(* run has the server to itself, that what it listed is what is there.     *)
(***************************************************************************)
EXTENDS VikunjaProvision, SequenceTheorems, WellFoundedInduction, TLAPS

-----------------------------------------------------------------------------
(* The inductive invariant.                                                *)

\* Ids are given once, to teams and webhooks alike.
Ids ==
    /\ \A i, j \in DOMAIN teams : teams[i].id = teams[j].id => i = j
    /\ \A i, j \in DOMAIN hooks : hooks[i].id = hooks[j].id => i = j
    /\ \A i \in DOMAIN teams : teams[i].id <= lastId
    /\ \A i \in DOMAIN hooks : hooks[i].id <= lastId
    /\ \A i \in DOMAIN loc.list : loc.list[i].id <= lastId
    /\ loc.team.id <= lastId

\* Nobody renames a team: whatever else has changed since a team was listed, a
\* team with its id still has its name.
SameTeam ==
    \A i \in DOMAIN teams :
        /\ \A j \in DOMAIN loc.list :
               loc.list[j].id = teams[i].id => loc.list[j].name = teams[i].name
        /\ pc \in {"add", "remove"} /\ loc.team.id = teams[i].id => loc.team.name = teams[i].name

\* What is left to do is declared: who is added, who is removed, and where.
Plan ==
    /\ pc \in {"team", "relist"} => loc.names \subseteq DeclaredNames
    /\ pc \in {"members", "add", "remove"} => loc.names \subseteq PresentNames
    /\ pc \in {"add", "remove"} =>
        /\ loc.team.name \in PresentNames \ loc.names
        /\ loc.add \subseteq settings.teams[loc.team.name].members
        /\ loc.remove \cap (settings.teams[loc.team.name].members \cup {"bot"}) = {}
        /\ settings.keep => loc.remove = {}
    /\ pc = "remove" => loc.add = {}
    /\ pc \in {"hook", "done", "idle"} => loc.names = {}
    /\ result = "ok" => pc = "idle"

\* What runs do not make is doubled by others only.
Doubles ==
    ~ghost.twice =>
        /\ \A n \in Names \ PresentNames : ~Doubled(n, teams)
        /\ settings.hook # "present" => Len(hooks) <= 1

\* Without interference in any run.
Alone ==
    ghost.alone =>
        /\ ghost.quiet
        /\ projects <= 1 /\ labels <= 1 /\ Len(hooks) <= 1
        /\ \A i \in DOMAIN teams : teams[i].name \in PresentNames \cup {0}
        /\ Len(teams) <= PageSize =>
            /\ \A n \in Names : ~Doubled(n, teams)
            /\ pc = "team" => \A i \in DOMAIN teams : Listed(teams[i].name, loc.list)

TeamsToCome == {"ready", "projects", "project", "labels", "label", "teams"}
Succeeded == pc = "idle" /\ result = "ok"
TeamsDone == pc \in {"members", "add", "remove", "hook", "done"} \/ Succeeded
LabelDone == pc \in {"teams", "team", "relist"} \/ TeamsDone
ProjectDone == pc \in {"labels", "label"} \/ LabelDone

\* Without interference in this run: projects, labels and webhooks.
Things ==
    ghost.quiet =>
        /\ pc = "project" => loc.seen = projects
        /\ pc = "label" => loc.seen = labels
        /\ settings.things /\ ProjectDone => projects = 1
        /\ settings.things /\ LabelDone => labels = 1
        /\ pc = "hook" => loc.hooks = hooks
        /\ pc = "done" \/ Succeeded =>
            /\ settings.hook = "present" => hooks # <<>> /\ hooks[1].good
            /\ settings.hook = "absent" => hooks = <<>> \/ ghost.twice

\* A declared team was created, has its description, or was deleted.
Settled(n) ==
    IF settings.teams[n].state = "present"
    THEN Listed(n, teams) /\ Found(n, teams).desc = settings.teams[n].desc
    ELSE settings.delete /\ ~settings.keep => ~Listed(n, teams) \/ ghost.twice

\* What was listed of a name is what is there.
Known(n) ==
    /\ Listed(n, loc.list) <=> Listed(n, teams)
    /\ Listed(n, teams) => /\ Found(n, loc.list).id = Found(n, teams).id
                           /\ Found(n, loc.list).desc = Found(n, teams).desc

\* The same for teams that fitted on the first page: what others cannot be seen
\* on it were made by this run.
TeamsKnown ==
    ghost.quiet /\ ghost.fits =>
        /\ pc \in TeamsToCome => Len(teams) <= PageSize
        /\ pc \in {"team", "relist"} =>
            /\ \A i \in DOMAIN teams : i > PageSize => teams[i].name \notin loc.names
            /\ \A n \in DeclaredNames \ loc.names : Settled(n)
        /\ pc = "team" => \A n \in loc.names : Known(n)
        /\ TeamsDone => \A n \in DeclaredNames : Settled(n)

\* Who is still to be added to a team, and removed from it.
ToAdd(n) == IF pc = "add" /\ loc.team.name = n THEN loc.add ELSE {}
ToRemove(n) == IF pc \in {"add", "remove"} /\ loc.team.name = n THEN loc.remove ELSE {}

\* A declared team's members are the declared ones.
Manned(n) ==
    LET members == Found(n, teams).members
        spec == settings.teams[n]
    IN /\ spec.members \cap users \subseteq members \cup ToAdd(n)
       /\ ~settings.keep => members \subseteq spec.members \cup {"bot"} \cup ToRemove(n)

\* The same for the members, when the teams fit on the page that was read last.
MembersKnown ==
    ghost.quiet /\ ghost.fits /\ Len(teams) <= PageSize /\ TeamsDone =>
        /\ pc \in {"members", "add", "remove"} =>
            /\ Len(loc.list) = Len(teams)
            /\ \A i \in DOMAIN teams :
                loc.list[i].id = teams[i].id /\ loc.list[i].name = teams[i].name
        /\ pc \in {"add", "remove"} => loc.team.id = Found(loc.team.name, teams).id
        /\ \A n \in PresentNames : n \notin loc.names => Manned(n)

VikunjaInv ==
    /\ TypeOK /\ Ids /\ SameTeam /\ Plan
    /\ Doubles /\ Alone /\ Things /\ TeamsKnown /\ MembersKnown

-----------------------------------------------------------------------------
(* Sequences, places and names.                                            *)

\* A set of numbers that is not empty has a least one.
LEMMA LeastIsLeast ==
  ASSUME NEW S \in SUBSET Nat, S # {}
  PROVE  Least(S) \in S /\ \A m \in S : Least(S) <= m
<1>1. PICK x \in S : \A y \in S : ~(<<y, x>> \in OpToRel(<, Nat))
  BY WFMin, NatLessThanWellFounded
<1>2. \A y \in S : ~(y < x)
  BY <1>1, Zenon DEF OpToRel
<1>3. \A y \in S : x <= y
  BY <1>2
<1> QED
  BY <1>3 DEF Least

\* Of a listed name, the first place is found.
LEMMA FoundIsFirst ==
  ASSUME NEW S, NEW s \in Seq(S), NEW n, Listed(n, s)
  PROVE  \E k \in 1 .. Len(s) :
             /\ Found(n, s) = s[k] /\ s[k].name = n
             /\ \A i \in 1 .. Len(s) : s[i].name = n => k <= i
<1>1. DOMAIN s = 1 .. Len(s) /\ Len(s) \in Nat
  BY LenProperties
<1>2. Places(n, s) \in SUBSET Nat /\ Places(n, s) # {}
  BY <1>1 DEF Places, Listed
<1>3. Least(Places(n, s)) \in Places(n, s) /\ \A m \in Places(n, s) : Least(Places(n, s)) <= m
  BY <1>2, LeastIsLeast
<1> QED
  BY <1>1, <1>3 DEF Places, Found

\* The first place of a name is where it is found.
LEMMA FirstIsFound ==
  ASSUME NEW S, NEW s \in Seq(S), NEW n, NEW k \in 1 .. Len(s), s[k].name = n,
         \A i \in 1 .. Len(s) : s[i].name = n => k <= i
  PROVE  Listed(n, s) /\ Found(n, s) = s[k]
<1>1. DOMAIN s = 1 .. Len(s) /\ Len(s) \in Nat
  BY LenProperties
<1>2. k \in Places(n, s) /\ Places(n, s) \in SUBSET Nat
  BY <1>1 DEF Places
<1>3. Least(Places(n, s)) \in Places(n, s) /\ \A m \in Places(n, s) : Least(Places(n, s)) <= m
  BY <1>2, LeastIsLeast
<1>4. k <= Least(Places(n, s)) /\ Least(Places(n, s)) <= k
  BY <1>1, <1>2, <1>3 DEF Places
<1>5. Least(Places(n, s)) = k
  BY <1>2, <1>3, <1>4
<1> QED
  BY <1>2, <1>5 DEF Listed, Found

\* What being listed, and being doubled, is.
LEMMA ListedIs ==
  ASSUME NEW S, NEW s \in Seq(S), NEW n
  PROVE  /\ Listed(n, s) <=> \E i \in 1 .. Len(s) : s[i].name = n
         /\ Doubled(n, s) <=> \E i, j \in 1 .. Len(s) : s[i].name = n /\ s[j].name = n /\ i # j
BY LenProperties DEF Listed, Doubled, Places

\* A list of one name after the other: a new entry is found if none was.
LEMMA AppendedIsLast ==
  ASSUME NEW S, NEW s \in Seq(S), NEW e \in S, NEW n
  PROVE  /\ Listed(n, s) => Listed(n, Append(s, e)) /\ Found(n, Append(s, e)) = Found(n, s)
         /\ ~Listed(n, s) => (Listed(n, Append(s, e)) <=> e.name = n)
         /\ ~Listed(n, s) /\ e.name = n => Found(n, Append(s, e)) = e
         /\ Doubled(n, Append(s, e)) => Doubled(n, s) \/ (Listed(n, s) /\ e.name = n)
<1> DEFINE t == Append(s, e)
<1>1. /\ t \in Seq(S) /\ Len(t) = Len(s) + 1 /\ t[Len(s) + 1] = e /\ Len(s) \in Nat
      /\ \A i \in 1 .. Len(s) : t[i] = s[i]
  BY AppendProperties, LenProperties
<1> HIDE DEF t
<1>2. \A i \in 1 .. Len(t) : i \in 1 .. Len(s) \/ i = Len(s) + 1
  BY <1>1
<1>3. CASE Listed(n, s)
  <2>1. PICK k \in 1 .. Len(s) :
            /\ Found(n, s) = s[k] /\ s[k].name = n
            /\ \A i \in 1 .. Len(s) : s[i].name = n => k <= i
    BY <1>3, FoundIsFirst
  <2>2. k \in 1 .. Len(t) /\ t[k] = s[k] /\ \A i \in 1 .. Len(t) : t[i].name = n => k <= i
    BY <1>1, <1>2, <2>1
  <2>3. Listed(n, t) /\ Found(n, t) = t[k]
    BY <1>1, <2>1, <2>2, FirstIsFound
  <2>4. Found(n, t) = Found(n, s)
    BY <2>1, <2>2, <2>3
  <2>5. Doubled(n, t) => Doubled(n, s) \/ e.name = n
    <3>1. /\ Doubled(n, t) <=> \E i, j \in 1 .. Len(t) : t[i].name = n /\ t[j].name = n /\ i # j
          /\ Doubled(n, s) <=> \E i, j \in 1 .. Len(s) : s[i].name = n /\ s[j].name = n /\ i # j
      BY <1>1, ListedIs, SMTT(30)
    <3> QED
      BY <1>1, <1>2, <3>1
  <2> QED
    BY <1>3, <2>3, <2>4, <2>5 DEF t
<1>4. CASE ~Listed(n, s)
  <2>1. \A i \in 1 .. Len(s) : s[i].name # n
    BY <1>4, ListedIs
  <2>2. Listed(n, t) <=> e.name = n
    <3>1. Listed(n, t) <=> \E i \in 1 .. Len(t) : t[i].name = n
      BY <1>1, ListedIs
    <3> QED
      BY <1>1, <1>2, <2>1, <3>1
  <2>3. e.name = n => Found(n, t) = e
    BY <1>1, <1>2, <2>1, FirstIsFound
  <2>4. ~Doubled(n, t)
    <3>1. Doubled(n, t) <=> \E i, j \in 1 .. Len(t) : t[i].name = n /\ t[j].name = n /\ i # j
      BY <1>1, ListedIs
    <3> QED
      BY <1>1, <1>2, <2>1, <3>1
  <2> QED
    BY <1>4, <2>2, <2>3, <2>4 DEF t
<1> QED
  BY <1>3, <1>4

\* What is left when an entry is taken out.
LEMMA RemovedIsGone ==
  ASSUME NEW S, NEW s \in Seq(S), NEW k \in 1 .. Len(s)
  PROVE  /\ RemoveAt(s, k) \in Seq(S) /\ Len(RemoveAt(s, k)) = Len(s) - 1
         /\ \A i \in 1 .. Len(s) - 1 :
                RemoveAt(s, k)[i] = IF i < k THEN s[i] ELSE s[i + 1]
<1> DEFINE a == SubSeq(s, 1, k - 1)
           b == SubSeq(s, k + 1, Len(s))
<1>1. Len(s) \in Nat /\ s \in [1 .. Len(s) -> S]
  BY LenProperties
<1>2. /\ a \in Seq(S) /\ Len(a) = k - 1
      /\ \A i \in 1 .. k - 1 : a[i] = s[i]
  BY <1>1, SubSeqProperties
<1>3. /\ b \in Seq(S) /\ Len(b) = Len(s) - k
      /\ \A i \in 1 .. Len(s) - k : b[i] = s[k + i]
  <2>1. k + 1 \in Int /\ Len(s) \in Int /\ \A i \in k + 1 .. Len(s) : s[i] \in S
    BY <1>1
  <2>2. /\ b \in Seq(S) /\ Len(b) = IF k + 1 <= Len(s) THEN Len(s) - (k + 1) + 1 ELSE 0
        /\ \A i \in 1 .. Len(s) - (k + 1) + 1 : b[i] = s[k + 1 + i - 1]
    BY <2>1, SubSeqProperties
  <2> HIDE DEF b
  <2>3. k \in Int /\ k <= Len(s) /\ Len(s) - (k + 1) + 1 = Len(s) - k
    BY <1>1
  <2>4. ASSUME NEW i \in 1 .. Len(s) - k PROVE b[i] = s[k + i]
    <3>1. k + 1 + i - 1 = k + i
      BY <1>1
    <3>2. b[i] = s[k + 1 + i - 1]
      BY <2>2, <2>3
    <3> QED
      BY <3>1, <3>2
  <2>5. Len(b) = Len(s) - k
    BY <2>2, <2>3
  <2> QED
    BY <2>2, <2>4, <2>5
<1>4. RemoveAt(s, k) = a \o b
  BY DEF RemoveAt
<1> HIDE DEF a, b
<1>5. /\ a \o b \in Seq(S) /\ Len(a \o b) = Len(s) - 1
      /\ \A i \in 1 .. Len(s) - 1 :
             (a \o b)[i] = IF i <= k - 1 THEN a[i] ELSE b[i - (k - 1)]
  <2>1. /\ a \o b \in Seq(S) /\ Len(a \o b) = Len(a) + Len(b)
        /\ \A i \in 1 .. Len(a) + Len(b) :
               (a \o b)[i] = IF i <= Len(a) THEN a[i] ELSE b[i - Len(a)]
    BY <1>2, <1>3, ConcatProperties
  <2>2. Len(a) + Len(b) = Len(s) - 1
    BY <1>1, <1>2, <1>3
  <2> QED
    BY <1>2, <2>1, <2>2
<1> QED
  BY <1>1, <1>2, <1>3, <1>4, <1>5

\* Who is left when another team goes is found as before, and nobody is doubled
\* by it.
LEMMA RemovedOther ==
  ASSUME NEW S, NEW s \in Seq(S), NEW k \in 1 .. Len(s), NEW n
  PROVE  /\ n # s[k].name => (Listed(n, RemoveAt(s, k)) <=> Listed(n, s))
         /\ n # s[k].name /\ Listed(n, s) => Found(n, RemoveAt(s, k)) = Found(n, s)
         /\ n = s[k].name /\ Listed(n, RemoveAt(s, k)) => Doubled(n, s)
         /\ Doubled(n, RemoveAt(s, k)) => Doubled(n, s)
<1> DEFINE t == RemoveAt(s, k)
           Was(i) == IF i < k THEN i ELSE i + 1
           Is(i) == IF i < k THEN i ELSE i - 1
<1>1. /\ t \in Seq(S) /\ Len(t) = Len(s) - 1 /\ Len(s) \in Nat
      /\ \A i \in 1 .. Len(s) - 1 : t[i] = IF i < k THEN s[i] ELSE s[i + 1]
  BY RemovedIsGone, LenProperties
<1> HIDE DEF t
<1>2. \A i \in 1 .. Len(t) : Was(i) \in 1 .. Len(s) \ {k} /\ t[i] = s[Was(i)]
  BY <1>1
<1>3. \A i \in 1 .. Len(s) \ {k} : Is(i) \in 1 .. Len(t) /\ t[Is(i)] = s[i]
  <2> SUFFICES ASSUME NEW i \in 1 .. Len(s) \ {k} PROVE Is(i) \in 1 .. Len(t) /\ t[Is(i)] = s[i]
    OBVIOUS
  <2>1. CASE i < k
    BY <1>1, <2>1
  <2>2. CASE i > k
    BY <1>1, <2>2
  <2> QED
    BY <1>1, <2>1, <2>2
<1>4. \A i, j \in 1 .. Len(t) : i # j => Was(i) # Was(j)
  BY <1>1
<1>5. \A i \in 1 .. Len(s) \ {k}, j \in 1 .. Len(t) : i <= Was(j) => Is(i) <= j
  BY <1>1
<1> HIDE DEF Was, Is
<1>6. /\ Listed(n, t) <=> \E i \in 1 .. Len(t) : t[i].name = n
      /\ Doubled(n, t) <=> \E i, j \in 1 .. Len(t) : t[i].name = n /\ t[j].name = n /\ i # j
  BY <1>1, ListedIs, SMTT(30)
<1>7. /\ Listed(n, s) <=> \E i \in 1 .. Len(s) : s[i].name = n
      /\ Doubled(n, s) <=> \E i, j \in 1 .. Len(s) : s[i].name = n /\ s[j].name = n /\ i # j
  BY ListedIs
<1>8. n # s[k].name => (Listed(n, t) <=> Listed(n, s))
  BY <1>2, <1>3, <1>6, <1>7
<1>9. ASSUME n # s[k].name, Listed(n, s) PROVE Found(n, t) = Found(n, s)
  <2>1. PICK f \in 1 .. Len(s) :
            /\ Found(n, s) = s[f] /\ s[f].name = n
            /\ \A i \in 1 .. Len(s) : s[i].name = n => f <= i
    BY <1>9, FoundIsFirst
  <2>2. f \in 1 .. Len(s) \ {k}
    BY <1>9, <2>1
  <2>3. Is(f) \in 1 .. Len(t) /\ t[Is(f)] = s[f]
    BY <1>3, <2>2
  <2>4. \A i \in 1 .. Len(t) : t[i].name = n => Is(f) <= i
    BY <1>2, <1>5, <2>1, <2>2
  <2>5. Found(n, t) = t[Is(f)]
    BY <1>1, <2>1, <2>3, <2>4, FirstIsFound
  <2> QED
    BY <2>1, <2>3, <2>5
<1>10. n = s[k].name /\ Listed(n, t) => Doubled(n, s)
  BY <1>2, <1>6, <1>7
<1>11. Doubled(n, t) => Doubled(n, s)
  BY <1>2, <1>4, <1>6, <1>7, SMTT(30)
<1> QED
  BY <1>8, <1>9, <1>10, <1>11 DEF t

\* Lists with the same names in the same places.
LEMMA SameNames ==
  ASSUME NEW S, NEW s \in Seq(S), NEW t \in Seq(S), Len(s) = Len(t),
         \A i \in 1 .. Len(s) : s[i].name = t[i].name, NEW n
  PROVE  /\ Listed(n, s) <=> Listed(n, t)
         /\ Doubled(n, s) <=> Doubled(n, t)
         /\ Listed(n, s) => \E k \in 1 .. Len(s) :
                /\ Found(n, s) = s[k] /\ Found(n, t) = t[k] /\ s[k].name = n
                /\ \A i \in 1 .. Len(s) : s[i].name = n => k <= i
<1>1. DOMAIN s = 1 .. Len(s) /\ DOMAIN t = 1 .. Len(s)
  BY LenProperties
<1>2. Places(n, s) = Places(n, t)
  BY <1>1 DEF Places
<1>3. /\ Listed(n, s) <=> Listed(n, t)
      /\ Doubled(n, s) <=> Doubled(n, t)
  BY <1>2 DEF Listed, Doubled
<1>4. ASSUME Listed(n, s)
      PROVE  \E k \in 1 .. Len(s) :
                /\ Found(n, s) = s[k] /\ Found(n, t) = t[k] /\ s[k].name = n
                /\ \A i \in 1 .. Len(s) : s[i].name = n => k <= i
  <2>1. PICK k \in 1 .. Len(s) :
            /\ Found(n, s) = s[k] /\ s[k].name = n
            /\ \A i \in 1 .. Len(s) : s[i].name = n => k <= i
    BY <1>4, FoundIsFirst
  <2>2. k \in 1 .. Len(t) /\ t[k].name = n /\ \A i \in 1 .. Len(t) : t[i].name = n => k <= i
    BY <2>1
  <2>3. Found(n, t) = t[k]
    BY <2>2, FirstIsFound
  <2> QED
    BY <2>1, <2>3
<1> QED
  BY <1>3, <1>4

\* The first page shows what of a name is not beyond it.
LEMMA PageShows ==
  ASSUME NEW S, NEW s \in Seq(S), NEW t \in Seq(S), Len(t) <= Len(s),
         \A i \in 1 .. Len(t) : t[i] = s[i],
         NEW n, \A i \in 1 .. Len(s) : i > Len(t) => s[i].name # n
  PROVE  /\ Listed(n, t) <=> Listed(n, s)
         /\ Listed(n, s) => Found(n, t) = Found(n, s)
<1>1. Len(s) \in Nat /\ Len(t) \in Nat
  BY LenProperties
<1>2. \A i \in 1 .. Len(t) : i \in 1 .. Len(s)
  BY <1>1
<1>3. \A i \in 1 .. Len(s) : s[i].name = n => i \in 1 .. Len(t)
  BY <1>1
<1>4. /\ Listed(n, t) <=> \E i \in 1 .. Len(t) : t[i].name = n
      /\ Listed(n, s) <=> \E i \in 1 .. Len(s) : s[i].name = n
  BY ListedIs
<1>5. Listed(n, t) <=> Listed(n, s)
  BY <1>2, <1>3, <1>4
<1>6. ASSUME Listed(n, s) PROVE Found(n, t) = Found(n, s)
  <2>1. PICK k \in 1 .. Len(s) :
            /\ Found(n, s) = s[k] /\ s[k].name = n
            /\ \A i \in 1 .. Len(s) : s[i].name = n => k <= i
    BY <1>6, FoundIsFirst
  <2>2. k \in 1 .. Len(t) /\ t[k] = s[k] /\ \A i \in 1 .. Len(t) : t[i].name = n => k <= i
    BY <1>2, <1>3, <2>1
  <2>3. Found(n, t) = t[k]
    BY <2>1, <2>2, FirstIsFound
  <2> QED
    BY <2>1, <2>2, <2>3
<1> QED
  BY <1>5, <1>6

\* The first page of the teams.
LEMMA FirstPageIs ==
  ASSUME NEW S, teams \in Seq(S)
  PROVE  /\ FirstPage \in Seq(S) /\ Len(FirstPage) <= Len(teams) /\ Len(FirstPage) <= PageSize
         /\ Len(FirstPage) = Len(teams) \/ Len(FirstPage) = PageSize
         /\ \A i \in 1 .. Len(FirstPage) : FirstPage[i] = teams[i]
<1>1. Len(teams) \in Nat /\ teams \in [1 .. Len(teams) -> S] /\ PageSize \in Nat
  BY LenProperties, BoundsAssumption
<1> DEFINE m == IF Len(teams) < PageSize THEN Len(teams) ELSE PageSize
<1>2. FirstPage = SubSeq(teams, 1, m)
  BY DEF FirstPage
<1>3. /\ m \in Nat /\ m <= Len(teams) /\ m <= PageSize
      /\ m = Len(teams) \/ m = PageSize
  BY <1>1
<1> HIDE DEF m
<1>4. 1 \in Int /\ m \in Int /\ \A i \in 1 .. m : teams[i] \in S
  <2>1. \A l \in Nat : m <= l => \A i \in 1 .. m : i \in 1 .. l
    BY <1>3
  <2>2. \A i \in 1 .. m : i \in 1 .. Len(teams)
    BY <1>1, <1>3, <2>1
  <2>3. \A i \in 1 .. Len(teams) : teams[i] \in S
    BY ElementOfSeq
  <2> QED
    BY <1>3, <2>2, <2>3
<1>5. /\ SubSeq(teams, 1, m) \in Seq(S)
      /\ Len(SubSeq(teams, 1, m)) = IF 1 <= m THEN m - 1 + 1 ELSE 0
      /\ \A i \in 1 .. m - 1 + 1 : SubSeq(teams, 1, m)[i] = teams[1 + i - 1]
  BY <1>4, SubSeqProperties
<1>6. (IF 1 <= m THEN m - 1 + 1 ELSE 0) = m /\ m - 1 + 1 = m
  BY <1>3
<1>7. ASSUME NEW i \in 1 .. m PROVE SubSeq(teams, 1, m)[i] = teams[i]
  <2>1. 1 + i - 1 = i
    BY <1>3
  <2> QED
    BY <1>5, <1>6, <2>1
<1> QED
  BY <1>2, <1>3, <1>5, <1>6, <1>7

\* A team that is there is where its id says.
LEMMA AtIs ==
  ASSUME TypeOK, Ids, NEW id, Has(id)
  PROVE  /\ At(id) \in 1 .. Len(teams) /\ teams[At(id)].id = id
         /\ \A k \in 1 .. Len(teams) : teams[k].id = id => At(id) = k
<1>1. DOMAIN teams = 1 .. Len(teams)
  BY LenProperties DEF TypeOK
<1>2. At(id) \in 1 .. Len(teams) /\ teams[At(id)].id = id
  BY DEF At, Has
<1> QED
  BY <1>1, <1>2 DEF Ids

\* One team is changed, in its description or its members.
Touched(k) ==
    /\ k \in 1 .. Len(teams)
    /\ teams' \in Seq(Team) /\ Len(teams') = Len(teams)
    /\ \A i \in 1 .. Len(teams) :
        /\ teams'[i].id = teams[i].id /\ teams'[i].name = teams[i].name
        /\ i # k => teams'[i] = teams[i]

\* A description is changed in place.
LEMMA Described ==
  ASSUME TypeOK, NEW k \in 1 .. Len(teams), NEW d \in {"x", "y"},
         teams' = [teams EXCEPT ![k].desc = d]
  PROVE  Touched(k) /\ teams'[k].desc = d /\ teams'[k].members = teams[k].members
<1>1. teams \in Seq(Team) /\ teams[k] \in Team
  BY ElementOfSeq DEF TypeOK
<1> DEFINE e == [teams[k] EXCEPT !.desc = d]
<1>2. /\ e \in Team /\ e.desc = d /\ e.members = teams[k].members
      /\ e.id = teams[k].id /\ e.name = teams[k].name
  BY <1>1 DEF Team
<1>3. teams' = [teams EXCEPT ![k] = e]
  OBVIOUS
<1> HIDE DEF e
<1>4. /\ teams' \in Seq(Team) /\ Len(teams') = Len(teams)
      /\ \A j \in 1 .. Len(teams) : teams'[j] = IF j = k THEN e ELSE teams[j]
  BY <1>1, <1>2, <1>3, ExceptSeq, SMTT(30)
<1> QED
  BY <1>2, <1>4 DEF Touched

\* Members are changed in place.
LEMMA Remanned ==
  ASSUME TypeOK, NEW k \in 1 .. Len(teams), NEW m \in SUBSET (People \cup {"bot"}),
         teams' = [teams EXCEPT ![k].members = m]
  PROVE  Touched(k) /\ teams'[k].desc = teams[k].desc /\ teams'[k].members = m
<1>1. teams \in Seq(Team) /\ teams[k] \in Team
  BY ElementOfSeq DEF TypeOK
<1> DEFINE e == [teams[k] EXCEPT !.members = m]
<1>2. /\ e \in Team /\ e.desc = teams[k].desc /\ e.members = m
      /\ e.id = teams[k].id /\ e.name = teams[k].name
  BY <1>1 DEF Team
<1>3. teams' = [teams EXCEPT ![k] = e]
  OBVIOUS
<1> HIDE DEF e
<1>4. /\ teams' \in Seq(Team) /\ Len(teams') = Len(teams)
      /\ \A j \in 1 .. Len(teams) : teams'[j] = IF j = k THEN e ELSE teams[j]
  BY <1>1, <1>2, <1>3, ExceptSeq, SMTT(30)
<1> QED
  BY <1>2, <1>4 DEF Touched

\* A team is made at the end of the list.
LEMMA Made ==
  ASSUME TypeOK, NEW e \in Team, teams' = Append(teams, e)
  PROVE  /\ teams' \in Seq(Team) /\ Len(teams') = Len(teams) + 1 /\ teams'[Len(teams) + 1] = e
         /\ \A i \in 1 .. Len(teams) : teams'[i] = teams[i]
BY AppendProperties DEF TypeOK

-----------------------------------------------------------------------------
(* Types.                                                                  *)

\* The parts of what the run remembers.
LEMMA MemoryParts ==
  ASSUME loc \in Memory
  PROVE  /\ loc.seen \in Nat /\ loc.names \subseteq Names /\ loc.list \in Seq(Team)
         /\ loc.team \in Team /\ loc.add \subseteq People /\ loc.remove \subseteq People
         /\ loc.hooks \in Seq(Hook)
         /\ loc = [seen |-> loc.seen, names |-> loc.names, list |-> loc.list,
                   team |-> loc.team, add |-> loc.add, remove |-> loc.remove,
                   hooks |-> loc.hooks]
BY DEF Memory

\* A run remembers nothing of the one before.
LEMMA BlankIsMemory ==
  /\ Blank \in Memory /\ NoTeam \in Team /\ Blank.names = {} /\ Blank.list = <<>>
  /\ Blank.team.id = 0
<1>1. <<>> \in Seq(Team) /\ <<>> \in Seq(Hook)
  BY EmptySeq
<1> HIDE DEF Team, Hook
<1>2. NoTeam \in Team
  BY DEF NoTeam, Team
<1> QED
  BY <1>1, <1>2 DEF Blank, Memory, NoTeam

\* What a declaration is.
LEMMA Declarations ==
  ASSUME TypeOK
  PROVE  /\ settings \in Setting
         /\ \A n \in Names : settings.teams[n] \in TeamSpec
         /\ DeclaredNames \subseteq Names /\ PresentNames \subseteq DeclaredNames
         /\ settings.things \in BOOLEAN /\ settings.keep \in BOOLEAN /\ settings.delete \in BOOLEAN
         /\ settings.hook \in {"no", "present", "absent"}
<1>1. settings \in Setting
  BY SettingsAssumption DEF TypeOK
<1> QED
  BY <1>1 DEF Setting, DeclaredNames, PresentNames

\* The places of the lists, and what is there.
LEMMA Domains ==
  ASSUME TypeOK
  PROVE  /\ DOMAIN teams = 1 .. Len(teams) /\ Len(teams) \in Nat
         /\ DOMAIN hooks = 1 .. Len(hooks) /\ Len(hooks) \in Nat
         /\ DOMAIN loc.list = 1 .. Len(loc.list) /\ Len(loc.list) \in Nat
         /\ \A i \in 1 .. Len(teams) : teams[i] \in Team
         /\ \A i \in 1 .. Len(hooks) : hooks[i] \in Hook
         /\ \A i \in 1 .. Len(loc.list) : loc.list[i] \in Team
BY MemoryParts, LenProperties, ElementOfSeq DEF TypeOK

-----------------------------------------------------------------------------
(* Where runs begin and end.                                               *)

\* What the server had before any run.
LEMMA InitialTeams ==
  ASSUME Init
  PROVE  /\ teams \in Seq(Team) /\ lastId \in Nat
         /\ \A i \in 1 .. Len(teams) : teams[i].id = i /\ teams[i].id <= lastId /\ teams[i].name = 0
         /\ Len(teams) <= PageSize
<1>1. PICK n \in 0 .. PageSize :
          /\ lastId = n
          /\ teams = [i \in 1 .. n |-> [id |-> i, name |-> 0, desc |-> "x", members |-> {"bot"}]]
  BY BoundsAssumption DEF Init
<1>2. n \in Nat /\ n <= PageSize
  BY BoundsAssumption
<1>3. \A i \in 1 .. n : [id |-> i, name |-> 0, desc |-> "x", members |-> {"bot"}] \in Team
  BY DEF Team
<1>4. teams \in Seq(Team) /\ Len(teams) = n
  BY <1>1, <1>2, <1>3
<1> QED
  BY <1>1, <1>2, <1>4

\* The invariant holds at first.
LEMMA InitVikunja == Init => VikunjaInv
<1> SUFFICES ASSUME Init PROVE VikunjaInv
  OBVIOUS
<1>1. /\ settings \in Settings /\ pc = "idle" /\ loc = Blank /\ result = "none"
      /\ projects \in {0, 1} /\ labels \in {0, 1} /\ users \subseteq People
      /\ hooks \in {<<>>, <<[id |-> 0, good |-> FALSE]>>}
      /\ faults = MaxFaults /\ changes = MaxChanges
      /\ ghost = [quiet |-> TRUE, fits |-> TRUE, twice |-> FALSE, alone |-> TRUE]
  BY DEF Init
<1>2. hooks \in Seq(Hook) /\ Len(hooks) <= 1
  <2>1. [id |-> 0, good |-> FALSE] \in Hook
    BY DEF Hook
  <2>2. CASE hooks = <<>>
    BY <2>2
  <2>3. CASE hooks = <<[id |-> 0, good |-> FALSE]>>
    BY <2>1, <2>3
  <2> QED
    BY <1>1, <2>2, <2>3
<1>3. TypeOK
  BY <1>1, <1>2, InitialTeams, BlankIsMemory, BoundsAssumption DEF TypeOK
<1>4. /\ DOMAIN teams = 1 .. Len(teams) /\ DOMAIN hooks = 1 .. Len(hooks) /\ Len(hooks) \in Nat
      /\ DOMAIN loc.list = {} /\ loc.names = {} /\ loc.team.id = 0
  BY <1>1, <1>3, Domains, BlankIsMemory
<1>5. Ids
  <2>1. \A i, j \in DOMAIN hooks : i = j /\ hooks[i].id = 0
    BY <1>1
  <2> QED
    BY <1>4, <2>1, InitialTeams DEF Ids
<1>6. SameTeam /\ Plan
  BY <1>1, <1>4 DEF SameTeam, Plan
<1>7. \A n \in Names : ~Doubled(n, teams) /\ ~Listed(n, teams)
  BY InitialTeams, ListedIs, NamesAssumption
<1>8. Doubles
  BY <1>2, <1>7 DEF Doubles
<1>9. Alone
  BY <1>1, <1>2, <1>4, <1>7, InitialTeams DEF Alone
<1>10. Things /\ TeamsKnown /\ MembersKnown
  BY <1>1 DEF Things, TeamsKnown, MembersKnown, TeamsToCome, TeamsDone, LabelDone, ProjectDone,
              Succeeded
<1> QED
  BY <1>3, <1>5, <1>6, <1>8, <1>9, <1>10 DEF VikunjaInv

\* A run ends, well or not, and nothing else happens.
LEMMA EndsRun ==
  ASSUME VikunjaInv, UNCHANGED <<settings, server, ghost>>, pc' = "idle", loc' = Blank,
         result' \in {"ok", "err"}, result' = "ok" => pc = "done",
         faults' \in 0 .. MaxFaults, changes' \in 0 .. MaxChanges
  PROVE  VikunjaInv'
<1>1. TypeOK /\ Ids /\ Plan /\ Doubles /\ Alone /\ Things /\ TeamsKnown /\ MembersKnown
  BY DEF VikunjaInv
<1>2. UNCHANGED <<projects, labels, teams, lastId, users, hooks>>
  BY DEF server
<1>3. TypeOK'
  BY <1>1, <1>2, BlankIsMemory DEF TypeOK
<1>4. /\ loc'.list = <<>> /\ DOMAIN loc'.list = {} /\ loc'.names = {} /\ loc'.team.id = 0
      /\ lastId \in Nat
  BY <1>1, BlankIsMemory DEF TypeOK
<1>5. Ids' /\ SameTeam' /\ Plan'
  BY <1>1, <1>2, <1>4 DEF Ids, SameTeam, Plan
<1>6. Doubles'
  BY <1>1, <1>2 DEF Doubles, PresentNames
<1>7. Alone'
  BY <1>1, <1>2 DEF Alone, PresentNames
<1>8. Things'
  BY <1>1, <1>2 DEF Things, ProjectDone, LabelDone, TeamsDone, Succeeded
<1>9. TeamsKnown'
  BY <1>1, <1>2 DEF TeamsKnown, TeamsToCome, TeamsDone, Succeeded, Settled, DeclaredNames
<1>10. MembersKnown'
  <2> SUFFICES ASSUME result' = "ok", ghost.quiet, ghost.fits, Len(teams) <= PageSize,
                      NEW n \in PresentNames
               PROVE  Manned(n)'
    BY <1>2 DEF MembersKnown, PresentNames, TeamsDone, Succeeded
  <2>1. pc = "done" /\ loc.names = {}
    BY <1>1 DEF Plan
  <2>2. Manned(n)
    BY <1>1, <2>1 DEF MembersKnown, TeamsDone
  <2> QED
    BY <1>2, <2>1, <2>2 DEF Manned, ToAdd, ToRemove
<1> QED
  BY <1>3, <1>5, <1>6, <1>7, <1>8, <1>9, <1>10 DEF VikunjaInv

\* A run begins.
LEMMA StartStep == VikunjaInv /\ Start => VikunjaInv'
<1> SUFFICES ASSUME VikunjaInv, Start PROVE VikunjaInv'
  OBVIOUS
<1>1. TypeOK /\ Ids /\ SameTeam /\ Plan /\ Doubles /\ Alone /\ Things /\ TeamsKnown /\ MembersKnown
  BY DEF VikunjaInv
<1>2. /\ UNCHANGED <<settings, faults, changes, loc, projects, labels, teams, lastId, users, hooks>>
      /\ pc = "idle" /\ pc' = "ready" /\ result' = "none"
  BY DEF Start, bounds, server
<1>3. /\ ghost'.quiet = TRUE /\ (ghost'.fits => Len(teams) <= PageSize)
      /\ ghost'.twice = ghost.twice /\ ghost'.alone = ghost.alone
      /\ ghost' \in [quiet : BOOLEAN, fits : BOOLEAN, twice : BOOLEAN, alone : BOOLEAN]
  <2>1. ASSUME NEW b \in BOOLEAN, ghost' = [ghost EXCEPT !.quiet = TRUE, !.fits = b]
        PROVE  /\ ghost'.quiet = TRUE /\ ghost'.fits = b
               /\ ghost'.twice = ghost.twice /\ ghost'.alone = ghost.alone
               /\ ghost' \in [quiet : BOOLEAN, fits : BOOLEAN, twice : BOOLEAN, alone : BOOLEAN]
    BY <1>1, <2>1 DEF TypeOK
  <2>2. CASE Len(teams) <= PageSize
    <3>1. ghost' = [ghost EXCEPT !.quiet = TRUE, !.fits = TRUE]
      BY <2>2 DEF Start
    <3> QED
      BY <2>1, <2>2, <3>1
  <2>3. CASE ~(Len(teams) <= PageSize)
    <3>1. ghost' = [ghost EXCEPT !.quiet = TRUE, !.fits = FALSE]
      <4>1. (Len(teams) <= PageSize) = FALSE
        BY <1>1, <2>3, Domains, BoundsAssumption
      <4> QED
        BY <4>1 DEF Start
    <3> QED
      BY <2>1, <2>3, <3>1
  <2> QED
    BY <2>2, <2>3
<1>4. TypeOK'
  BY <1>1, <1>2, <1>3 DEF TypeOK
<1>5. Ids' /\ SameTeam' /\ Plan'
  BY <1>1, <1>2 DEF Ids, SameTeam, Plan
<1>6. Doubles' /\ Alone'
  BY <1>1, <1>2, <1>3 DEF Doubles, Alone, PresentNames
<1>7. Things' /\ TeamsKnown' /\ MembersKnown'
  BY <1>2, <1>3 DEF Things, TeamsKnown, MembersKnown, ProjectDone, LabelDone, TeamsDone,
                    TeamsToCome, Succeeded
<1> QED
  BY <1>4, <1>5, <1>6, <1>7 DEF VikunjaInv

\* The ends of a run.
LEMMA EndSteps ==
  VikunjaInv /\ (Done \/ TeamRefused \/ WebhookRefused \/ Stop) => VikunjaInv'
<1> SUFFICES ASSUME VikunjaInv, Done \/ TeamRefused \/ WebhookRefused \/ Stop PROVE VikunjaInv'
  OBVIOUS
<1>1. TypeOK
  BY DEF VikunjaInv
<1>2. CASE Done
  BY <1>1, <1>2, EndsRun DEF Done, Finish, bounds, TypeOK
<1>3. CASE TeamRefused
  BY <1>1, <1>3, EndsRun DEF TeamRefused, Finish, bounds, TypeOK
<1>4. CASE WebhookRefused
  BY <1>1, <1>4, EndsRun DEF WebhookRefused, Finish, bounds, TypeOK
<1>5. CASE Stop
  <2>1. faults' \in 0 .. MaxFaults
    BY <1>1, <1>5, BoundsAssumption DEF Stop, TypeOK
  <2> QED
    BY <1>1, <1>5, <2>1, EndsRun DEF Stop, Finish, TypeOK
<1> QED
  BY <1>2, <1>3, <1>4, <1>5

-----------------------------------------------------------------------------
(* What a run reads.                                                       *)

\* A step that reads changes only what the run remembers, and where it is.
Reads ==
    /\ UNCHANGED <<settings, faults, changes, result>>
    /\ UNCHANGED <<projects, labels, teams, lastId, users, hooks, ghost>>

\* Waiting for the server, and reading projects and labels.
LEMMA ThingsRead == VikunjaInv /\ (WaitReady \/ ListProjects \/ ListLabels) => VikunjaInv'
<1> SUFFICES ASSUME VikunjaInv, WaitReady \/ ListProjects \/ ListLabels PROVE VikunjaInv'
  OBVIOUS
<1>1. TypeOK /\ Ids /\ SameTeam /\ Plan /\ Doubles /\ Alone /\ Things /\ TeamsKnown
  BY DEF VikunjaInv
<1>2. Reads
  BY DEF WaitReady, ListProjects, ListLabels, Goto, bounds, server, Reads
<1>3. /\ loc' \in Memory /\ loc'.list = loc.list /\ loc'.team = loc.team
      /\ \/ pc = "ready" /\ pc' = "projects"
         \/ pc = "projects" /\ pc' = "project" /\ loc'.seen = projects
         \/ pc = "labels" /\ pc' = "label" /\ loc'.seen = labels
  BY <1>1 DEF WaitReady, ListProjects, ListLabels, Goto, Memory, TypeOK
<1>4. TypeOK'
  BY <1>1, <1>2, <1>3 DEF TypeOK, Reads
<1>5. Ids' /\ SameTeam' /\ Plan'
  BY <1>1, <1>2, <1>3 DEF Ids, SameTeam, Plan, Reads
<1>6. Doubles' /\ Alone'
  BY <1>1, <1>2, <1>3 DEF Doubles, Alone, PresentNames, Reads
<1>7. Things' /\ TeamsKnown' /\ MembersKnown'
  BY <1>1, <1>2, <1>3 DEF Things, TeamsKnown, MembersKnown, ProjectDone, LabelDone, TeamsDone,
                    TeamsToCome, Succeeded, Reads
<1> QED
  BY <1>4, <1>5, <1>6, <1>7 DEF VikunjaInv

\* The project and the label are made, found, or ambiguous.
LEMMA ThingsMade == VikunjaInv /\ (ReconcileProject \/ ReconcileLabel) => VikunjaInv'
<1> SUFFICES ASSUME VikunjaInv, ReconcileProject \/ ReconcileLabel PROVE VikunjaInv'
  OBVIOUS
<1>1. TypeOK /\ Ids /\ SameTeam /\ Plan /\ Doubles /\ Alone /\ Things /\ TeamsKnown
  BY DEF VikunjaInv
<1>2. CASE Finish("err") /\ UNCHANGED <<bounds, server, ghost>>
  BY <1>1, <1>2, EndsRun DEF Finish, bounds, TypeOK
<1>3. CASE /\ pc = "project" /\ pc' = "labels" /\ UNCHANGED <<labels, loc, result>>
           /\ projects' = IF ~settings.things \/ loc.seen = 1 THEN projects ELSE projects + 1
           /\ ~settings.things \/ loc.seen \in {0, 1}
           /\ UNCHANGED <<bounds, teams, lastId, users, hooks, ghost>>
  <2>1. TypeOK'
    BY <1>1, <1>3 DEF TypeOK, bounds
  <2>2. Ids' /\ SameTeam' /\ Plan'
    BY <1>1, <1>3 DEF Ids, SameTeam, Plan, bounds
  <2>3. Doubles'
    BY <1>1, <1>3 DEF Doubles, PresentNames, bounds
  <2>4. Alone'
    <3>1. ghost.alone => projects' <= 1
      BY <1>1, <1>3 DEF Alone, Things, TypeOK
    <3> QED
      BY <1>1, <1>3, <3>1 DEF Alone, PresentNames, bounds
  <2>5. Things' /\ TeamsKnown' /\ MembersKnown'
    BY <1>1, <1>3 DEF Things, TeamsKnown, MembersKnown, ProjectDone, LabelDone, TeamsDone,
                    TeamsToCome, Succeeded, bounds, TypeOK
  <2> QED
    BY <2>1, <2>2, <2>3, <2>4, <2>5 DEF VikunjaInv
<1>4. CASE /\ pc = "label" /\ pc' = "teams" /\ UNCHANGED <<projects, loc, result>>
           /\ labels' = IF ~settings.things \/ loc.seen = 1 THEN labels ELSE labels + 1
           /\ ~settings.things \/ loc.seen \in {0, 1}
           /\ UNCHANGED <<bounds, teams, lastId, users, hooks, ghost>>
  <2>1. TypeOK'
    BY <1>1, <1>4 DEF TypeOK, bounds
  <2>2. Ids' /\ SameTeam' /\ Plan'
    BY <1>1, <1>4 DEF Ids, SameTeam, Plan, bounds
  <2>3. Doubles'
    BY <1>1, <1>4 DEF Doubles, PresentNames, bounds
  <2>4. Alone'
    <3>1. ghost.alone => labels' <= 1
      BY <1>1, <1>4 DEF Alone, Things, TypeOK
    <3> QED
      BY <1>1, <1>4, <3>1 DEF Alone, PresentNames, bounds
  <2>5. Things' /\ TeamsKnown' /\ MembersKnown'
    BY <1>1, <1>4 DEF Things, TeamsKnown, MembersKnown, ProjectDone, LabelDone, TeamsDone,
                    TeamsToCome, Succeeded, bounds, TypeOK
  <2> QED
    BY <2>1, <2>2, <2>3, <2>4, <2>5 DEF VikunjaInv
<1> QED
  BY <1>2, <1>3, <1>4 DEF ReconcileProject, ReconcileLabel, Goto, server

\* What the first page shows is there; it shows every team if they fit on it,
\* and of those that do not only what is beyond it is missing.
LEMMA PageKnown ==
  ASSUME TypeOK, Ids
  PROVE  /\ FirstPage \in Seq(Team)
         /\ \A j \in 1 .. Len(FirstPage) : FirstPage[j].id <= lastId
         /\ \A i \in 1 .. Len(teams), j \in 1 .. Len(FirstPage) :
                FirstPage[j].id = teams[i].id => FirstPage[j].name = teams[i].name
         /\ Len(teams) <= PageSize => FirstPage = teams
         /\ \A n : (\A i \in 1 .. Len(teams) : i > PageSize => teams[i].name # n) =>
                /\ Listed(n, FirstPage) <=> Listed(n, teams)
                /\ Listed(n, teams) => Found(n, FirstPage) = Found(n, teams)
<1> DEFINE p == FirstPage
<1>1. /\ p \in Seq(Team) /\ Len(p) <= Len(teams) /\ Len(p) <= PageSize
      /\ Len(p) = Len(teams) \/ Len(p) = PageSize
      /\ \A i \in 1 .. Len(p) : p[i] = teams[i]
  BY FirstPageIs DEF TypeOK
<1> HIDE DEF p
<1>2. /\ teams \in Seq(Team) /\ DOMAIN teams = 1 .. Len(teams)
      /\ Len(teams) \in Nat /\ Len(p) \in Nat /\ PageSize \in Nat
  BY <1>1, Domains, LenProperties, BoundsAssumption DEF TypeOK
<1>3. \A i \in 1 .. Len(p) : i \in 1 .. Len(teams)
  BY <1>1, <1>2
<1>4. \A j \in 1 .. Len(p) : p[j].id <= lastId
  BY <1>1, <1>2, <1>3 DEF Ids
<1>5. \A i \in 1 .. Len(teams), j \in 1 .. Len(p) :
          p[j].id = teams[i].id => p[j].name = teams[i].name
  BY <1>1, <1>2, <1>3 DEF Ids
<1>6. Len(teams) <= PageSize => p = teams
  <2>1. ASSUME Len(teams) <= PageSize PROVE Len(p) = Len(teams)
    BY <1>1, <1>2, <2>1
  <2> QED
    BY <1>1, <1>2, <2>1, SeqEqual
<1>7. ASSUME NEW n, \A i \in 1 .. Len(teams) : i > PageSize => teams[i].name # n
      PROVE  /\ Listed(n, p) <=> Listed(n, teams)
             /\ Listed(n, teams) => Found(n, p) = Found(n, teams)
  <2>1. \A i \in 1 .. Len(teams) : i > Len(p) => teams[i].name # n
    BY <1>1, <1>2, <1>7
  <2> QED
    BY <1>1, <1>2, <2>1, PageShows
<1> QED
  BY <1>1, <1>4, <1>5, <1>6, <1>7 DEF p

\* The teams are listed, for the first time or anew.
LEMMA TeamsListed == VikunjaInv /\ (ListTeams \/ RelistTeams) => VikunjaInv'
<1> SUFFICES ASSUME VikunjaInv, ListTeams \/ RelistTeams PROVE VikunjaInv'
  OBVIOUS
<1>1. TypeOK /\ Ids /\ SameTeam /\ Plan /\ Doubles /\ Alone /\ Things /\ TeamsKnown
  BY DEF VikunjaInv
<1> DEFINE p == FirstPage
<1>2. /\ p \in Seq(Team) /\ DOMAIN p = 1 .. Len(p)
      /\ \A j \in 1 .. Len(p) : p[j].id <= lastId
      /\ \A i \in 1 .. Len(teams), j \in 1 .. Len(p) :
             p[j].id = teams[i].id => p[j].name = teams[i].name
      /\ Len(teams) <= PageSize => p = teams
      /\ \A n : (\A i \in 1 .. Len(teams) : i > PageSize => teams[i].name # n) =>
             /\ Listed(n, p) <=> Listed(n, teams)
             /\ Listed(n, teams) => Found(n, p) = Found(n, teams)
  BY <1>1, PageKnown, LenProperties
<1>3. /\ Reads
      /\ \/ pc = "teams" /\ pc' = "team" /\ loc' = [loc EXCEPT !.list = p, !.names = DeclaredNames]
         \/ pc = "relist" /\ pc' = "team" /\ loc' = [loc EXCEPT !.list = p, !.names = loc.names]
         \/ pc = "team" /\ loc.names = {} /\ pc' = "members"
            /\ loc' = [loc EXCEPT !.list = p, !.names = PresentNames]
  BY DEF ListTeams, RelistTeams, Goto, bounds, server, Reads
<1> HIDE DEF p
<1>4. /\ loc' \in Memory /\ loc'.list = p /\ loc'.team = loc.team
      /\ \/ pc = "teams" /\ pc' = "team" /\ loc'.names = DeclaredNames
         \/ pc = "relist" /\ pc' = "team" /\ loc'.names = loc.names
         \/ pc = "team" /\ loc.names = {} /\ pc' = "members" /\ loc'.names = PresentNames
  <2>1. ASSUME NEW q \in SUBSET Names, loc' = [loc EXCEPT !.list = p, !.names = q]
        PROVE  loc' \in Memory /\ loc'.list = p /\ loc'.team = loc.team /\ loc'.names = q
    BY <1>1, <1>2, <2>1 DEF Memory, TypeOK
  <2>2. /\ DeclaredNames \in SUBSET Names /\ PresentNames \in SUBSET Names
        /\ loc.names \in SUBSET Names
    BY <1>1, Declarations, MemoryParts DEF TypeOK
  <2> QED
    BY <1>3, <2>1, <2>2
<1>5. TypeOK'
  BY <1>1, <1>3, <1>4 DEF TypeOK, Reads
<1>6. /\ DOMAIN teams = 1 .. Len(teams) /\ Len(teams) \in Nat /\ PageSize \in Nat
      /\ \A i \in 1 .. Len(teams) : teams[i] \in Team
  BY <1>1, Domains, BoundsAssumption
<1>7. Ids' /\ SameTeam' /\ Plan'
  BY <1>1, <1>2, <1>3, <1>4, <1>6, Declarations DEF Ids, SameTeam, Plan, Reads, PresentNames,
     DeclaredNames
<1>8. Doubles'
  BY <1>1, <1>3 DEF Doubles, PresentNames, Reads
<1>9. Alone'
  <2>1. \A i \in 1 .. Len(teams) : Listed(teams[i].name, teams)
    BY <1>1, ListedIs DEF TypeOK
  <2> QED
    BY <1>1, <1>2, <1>3, <1>4, <1>6, <2>1 DEF Alone, PresentNames, Reads
<1>10. Things'
  BY <1>1, <1>3, <1>4 DEF Things, ProjectDone, LabelDone, TeamsDone, Succeeded, Reads
<1>11. TeamsKnown'
  <2> SUFFICES ASSUME ghost.quiet, ghost.fits
               PROVE  /\ pc' \in {"team", "relist"} =>
                          /\ \A i \in DOMAIN teams : i > PageSize => teams[i].name \notin loc'.names
                          /\ \A n \in DeclaredNames \ loc'.names : Settled(n)'
                      /\ pc' = "team" => \A n \in loc'.names : Known(n)'
                      /\ pc' = "members" => \A n \in DeclaredNames : Settled(n)'
    BY <1>3, <1>4 DEF TeamsKnown, TeamsToCome, TeamsDone, Succeeded, DeclaredNames, Reads
  <2>1. \A n : Settled(n) <=> Settled(n)'
    BY <1>3 DEF Settled, Reads
  <2>2. \A n : /\ Listed(n, p) <=> Listed(n, teams)
               /\ Listed(n, teams) => Found(n, p) = Found(n, teams)
               => Known(n)'
    BY <1>3, <1>4 DEF Known, Reads
  <2>3. CASE pc = "teams"
    <3>1. Len(teams) <= PageSize /\ p = teams
      BY <1>1, <1>2, <2>3 DEF TeamsKnown, TeamsToCome
    <3> QED
      BY <1>4, <1>6, <2>2, <2>3, <3>1
  <2>4. CASE pc = "relist"
    <3>1. /\ \A i \in 1 .. Len(teams) : i > PageSize => teams[i].name \notin loc.names
          /\ \A n \in DeclaredNames \ loc.names : Settled(n)
      BY <1>1, <1>6, <2>4 DEF TeamsKnown
    <3>2. \A n \in loc.names : Known(n)'
      BY <1>2, <2>2, <3>1
    <3> QED
      BY <1>4, <1>6, <2>1, <2>4, <3>1, <3>2
  <2>5. CASE pc = "team"
    <3>1. \A n \in DeclaredNames : Settled(n)
      BY <1>1, <1>4, <2>5 DEF TeamsKnown
    <3> QED
      BY <1>4, <2>1, <2>5, <3>1
  <2> QED
    BY <1>4, <2>3, <2>4, <2>5
<1>12. MembersKnown'
  BY <1>2, <1>3, <1>4, <1>6 DEF MembersKnown, TeamsDone, Succeeded, PresentNames, Reads
<1> QED
  BY <1>5, <1>7, <1>8, <1>9, <1>10, <1>11, <1>12 DEF VikunjaInv

-----------------------------------------------------------------------------
(* The teams.                                                              *)

\* What changing one team in place leaves as it is.
LEMMA TouchedKeeps ==
  ASSUME TypeOK, NEW k, Touched(k), NEW n
  PROVE  /\ Listed(n, teams') <=> Listed(n, teams)
         /\ Doubled(n, teams') <=> Doubled(n, teams)
         /\ Listed(n, teams) => \E f \in 1 .. Len(teams) :
                /\ Found(n, teams) = teams[f] /\ Found(n, teams') = teams'[f]
                /\ teams[f].name = n
BY SameNames, SMTT(30) DEF TypeOK, Touched

\* What the step of reconcile_teams for one name leaves, whatever it does there.
LEMMA TeamFrame ==
  ASSUME VikunjaInv, NEW name \in loc.names, pc = "team", pc' \in {"team", "relist"},
         loc' = [loc EXCEPT !.names = @ \ {name}], teams' \in Seq(Team), lastId' \in Nat,
         UNCHANGED <<result, bounds, projects, labels, users, hooks, ghost>>
  PROVE  /\ TypeOK' /\ Plan' /\ Things' /\ MembersKnown'
         /\ loc'.names = loc.names \ {name} /\ loc'.list = loc.list /\ loc'.team = loc.team
         /\ name \in DeclaredNames /\ name \in Names
<1>1. TypeOK /\ Plan /\ Things
  BY DEF VikunjaInv
<1>2. UNCHANGED <<settings, faults, changes>>
  BY DEF bounds
<1>3. /\ loc' \in Memory
      /\ loc'.names = loc.names \ {name} /\ loc'.list = loc.list /\ loc'.team = loc.team
  BY <1>1 DEF Memory, TypeOK
<1>4. TypeOK'
  BY <1>1, <1>2, <1>3 DEF TypeOK
<1>5. loc.names \subseteq DeclaredNames
  BY <1>1 DEF Plan
<1>6. Plan'
  BY <1>1, <1>2, <1>3, <1>5 DEF Plan, DeclaredNames
<1>7. Things'
  BY <1>1, <1>2 DEF Things, ProjectDone, LabelDone, TeamsDone, Succeeded
<1>8. MembersKnown'
  BY <1>1 DEF MembersKnown, TeamsDone, Succeeded, Plan
<1> QED
  BY <1>1, <1>3, <1>4, <1>5, <1>6, <1>7, <1>8, Declarations

\* What the invariant asks of the teams after the step for one name.
LEMMA TeamFrameInv ==
  ASSUME VikunjaInv, NEW name \in loc.names, pc = "team", pc' \in {"team", "relist"},
         loc' = [loc EXCEPT !.names = @ \ {name}], teams' \in Seq(Team), lastId' \in Nat,
         UNCHANGED <<result, bounds, projects, labels, users, hooks, ghost>>,
         Ids', SameTeam', Doubles', Alone',
         ghost.quiet /\ ghost.fits =>
             /\ \A i \in 1 .. Len(teams') : i > PageSize => teams'[i].name \notin loc.names \ {name}
             /\ Settled(name)'
             /\ \A n \in DeclaredNames \ loc.names : Settled(n)'
             /\ pc' = "team" => \A n \in loc.names \ {name} : Known(n)'
  PROVE  VikunjaInv'
<1>1. /\ TypeOK' /\ Plan' /\ Things' /\ MembersKnown'
      /\ loc'.names = loc.names \ {name} /\ name \in DeclaredNames /\ DeclaredNames' = DeclaredNames
  BY TeamFrame DEF DeclaredNames, bounds
<1>2. DOMAIN teams' = 1 .. Len(teams')
  BY LenProperties
<1>3. result' = "ok" => pc' = "idle"
  BY <1>1 DEF Plan
<1>4. TeamsKnown'
  BY <1>1, <1>2, <1>3 DEF TeamsKnown, TeamsToCome, TeamsDone, Succeeded
<1> QED
  BY <1>1, <1>4 DEF VikunjaInv

\* The team is as declared, or not to be touched.
LEMMA TeamLeft ==
  ASSUME VikunjaInv, NEW name \in loc.names, pc = "team", pc' = "team",
         loc' = [loc EXCEPT !.names = @ \ {name}], UNCHANGED <<teams, lastId>>,
         UNCHANGED <<result, bounds, projects, labels, users, hooks, ghost>>,
         settings.teams[name].state = "present" =>
             Listed(name, loc.list) /\ Found(name, loc.list).desc = settings.teams[name].desc,
         settings.teams[name].state = "absent" /\ settings.delete /\ ~settings.keep =>
             ~Listed(name, loc.list)
  PROVE  VikunjaInv'
<1>1. TypeOK /\ Ids /\ SameTeam /\ Plan /\ Doubles /\ Alone /\ TeamsKnown
  BY DEF VikunjaInv
<1>2. teams' \in Seq(Team) /\ lastId' \in Nat /\ settings' = settings
  BY <1>1 DEF TypeOK, bounds
<1>3. /\ loc'.names = loc.names \ {name} /\ loc'.list = loc.list /\ loc'.team = loc.team
      /\ name \in DeclaredNames /\ name \in Names
  BY <1>2, TeamFrame
<1>4. Ids' /\ SameTeam' /\ Doubles'
  BY <1>1, <1>2, <1>3 DEF Ids, SameTeam, Doubles, PresentNames
<1>5. Alone'
  BY <1>1, <1>2, <1>3 DEF Alone, PresentNames
<1>6. ASSUME ghost.quiet, ghost.fits
      PROVE  /\ \A i \in 1 .. Len(teams') :
                    i > PageSize => teams'[i].name \notin loc.names \ {name}
             /\ Settled(name)'
             /\ \A n \in DeclaredNames \ loc.names : Settled(n)'
             /\ \A n \in loc.names \ {name} : Known(n)'
  <2>1. /\ \A i \in DOMAIN teams : i > PageSize => teams[i].name \notin loc.names
        /\ \A n \in DeclaredNames \ loc.names : Settled(n)
        /\ \A n \in loc.names : Known(n)
    BY <1>1, <1>6 DEF TeamsKnown
  <2>2. \A n : (Settled(n) <=> Settled(n)') /\ (Known(n) <=> Known(n)')
    BY <1>2, <1>3 DEF Settled, Known
  <2>3. settings.teams[name].state \in {"present", "absent"}
    BY <1>1, <1>3, Declarations DEF DeclaredNames, TeamSpec
  <2>4. Settled(name)
    BY <2>1, <2>3 DEF Settled, Known
  <2>5. DOMAIN teams = 1 .. Len(teams)
    BY <1>1, Domains
  <2> QED
    BY <2>1, <2>2, <2>4, <2>5
<1> QED
  BY <1>2, <1>4, <1>5, <1>6, TeamFrameInv

\* The team was not listed, and is made.
LEMMA TeamMade ==
  ASSUME VikunjaInv, NEW name \in loc.names, pc = "team", pc' = "relist",
         loc' = [loc EXCEPT !.names = @ \ {name}], CreateTeam(name),
         UNCHANGED <<result, bounds, projects, labels, users, hooks, ghost>>,
         settings.teams[name].state = "present", ~Listed(name, loc.list)
  PROVE  VikunjaInv'
<1>1. TypeOK /\ Ids /\ SameTeam /\ Plan /\ Doubles /\ Alone /\ TeamsKnown
  BY DEF VikunjaInv
<1> DEFINE e == [id |-> lastId + 1, name |-> name, desc |-> settings.teams[name].desc,
                 members |-> {"bot"}]
<1>2. name \in PresentNames /\ name \in Names
  BY <1>1, Declarations DEF Plan, PresentNames
<1>3. /\ e \in Team /\ e.id = lastId + 1 /\ e.name = name /\ e.desc = settings.teams[name].desc
      /\ lastId \in Nat
  <2>1. settings.teams[name].desc \in {"x", "y"}
    BY <1>1, <1>2, Declarations DEF TeamSpec
  <2> QED
    BY <1>1, <1>2, <2>1 DEF Team, TypeOK
<1>4. teams' = Append(teams, e) /\ lastId' = lastId + 1 /\ settings' = settings
  BY DEF CreateTeam, Created, bounds
<1> HIDE DEF e
<1>5. /\ teams' \in Seq(Team) /\ Len(teams') = Len(teams) + 1 /\ teams'[Len(teams) + 1] = e
      /\ \A i \in 1 .. Len(teams) : teams'[i] = teams[i]
      /\ lastId' \in Nat
  BY <1>1, <1>3, <1>4, Made
<1>6. /\ loc'.names = loc.names \ {name} /\ loc'.list = loc.list /\ loc'.team = loc.team
      /\ loc.names \subseteq DeclaredNames
  BY <1>1, <1>5, TeamFrame DEF Plan
<1>7. /\ DOMAIN teams = 1 .. Len(teams) /\ Len(teams) \in Nat /\ DOMAIN teams' = 1 .. Len(teams')
      /\ \A i \in 1 .. Len(teams') : i \in 1 .. Len(teams) \/ i = Len(teams) + 1
      /\ \A i \in 1 .. Len(teams) : teams[i].id \in Nat /\ teams[i].id <= lastId
      /\ \A i \in 1 .. Len(hooks) : hooks[i].id \in Nat /\ hooks[i].id <= lastId
      /\ \A i \in 1 .. Len(loc.list) : loc.list[i].id \in Nat /\ loc.list[i].id <= lastId
      /\ loc.team.id \in Nat /\ loc.team.id <= lastId
      /\ DOMAIN hooks = 1 .. Len(hooks) /\ DOMAIN loc.list = 1 .. Len(loc.list)
  <2>1. /\ DOMAIN teams = 1 .. Len(teams) /\ Len(teams) \in Nat
        /\ DOMAIN hooks = 1 .. Len(hooks) /\ DOMAIN loc.list = 1 .. Len(loc.list)
        /\ \A i \in 1 .. Len(teams) : teams[i] \in Team
        /\ \A i \in 1 .. Len(hooks) : hooks[i] \in Hook
        /\ \A i \in 1 .. Len(loc.list) : loc.list[i] \in Team
        /\ loc.team \in Team
    BY <1>1, Domains, MemoryParts DEF TypeOK
  <2>2. \A t \in Team : t.id \in Nat
    BY DEF Team
  <2>3. \A h \in Hook : h.id \in Nat
    BY DEF Hook
  <2>4. DOMAIN teams' = 1 .. Len(teams')
    BY <1>5, LenProperties
  <2>5. \A i \in 1 .. Len(teams') : i \in 1 .. Len(teams) \/ i = Len(teams) + 1
    BY <1>5, <2>1
  <2> QED
    BY <1>1, <2>1, <2>2, <2>3, <2>4, <2>5 DEF Ids
<1>8. \A n : /\ Listed(n, teams) => Listed(n, teams') /\ Found(n, teams') = Found(n, teams)
             /\ ~Listed(n, teams) => (Listed(n, teams') <=> name = n)
             /\ ~Listed(n, teams) /\ name = n => Found(n, teams') = e
             /\ Doubled(n, teams') => Doubled(n, teams) \/ (Listed(n, teams) /\ name = n)
  BY <1>1, <1>3, <1>4, AppendedIsLast DEF TypeOK
<1>9. Ids'
  <2>1. \A i \in 1 .. Len(teams') : teams'[i].id <= lastId + 1
    BY <1>3, <1>5, <1>7
  <2>2. \A i, j \in 1 .. Len(teams') : teams'[i].id = teams'[j].id => i = j
    BY <1>1, <1>3, <1>5, <1>7, SMTT(30) DEF Ids
  <2>3. \A i \in Nat : i <= lastId => i <= lastId + 1
    BY <1>3
  <2>4. /\ \A i \in DOMAIN hooks' : hooks'[i].id <= lastId'
        /\ \A i \in DOMAIN loc'.list : loc'.list[i].id <= lastId'
        /\ loc'.team.id <= lastId'
    BY <1>4, <1>6, <1>7, <2>3
  <2> QED
    BY <1>1, <1>4, <1>7, <2>1, <2>2, <2>4 DEF Ids
<1>10. SameTeam'
  <2>1. \A j \in 1 .. Len(loc.list) : loc.list[j].id # e.id
    BY <1>3, <1>7
  <2>2. \A i \in 1 .. Len(teams'), j \in 1 .. Len(loc.list) :
            loc.list[j].id = teams'[i].id => loc.list[j].name = teams'[i].name
    <3> SUFFICES ASSUME NEW i \in 1 .. Len(teams'), NEW j \in 1 .. Len(loc.list),
                        loc.list[j].id = teams'[i].id
                 PROVE  loc.list[j].name = teams'[i].name
      OBVIOUS
    <3>1. i \in 1 .. Len(teams) /\ teams'[i] = teams[i]
      BY <1>5, <1>7, <2>1
    <3> QED
      BY <1>1, <1>7, <3>1 DEF SameTeam
  <2> QED
    BY <1>6, <1>7, <2>2 DEF SameTeam
<1>11. Doubles'
  BY <1>1, <1>2, <1>4, <1>8 DEF Doubles, PresentNames
<1>12. Alone'
  <2> SUFFICES ASSUME ghost.alone
               PROVE  /\ \A i \in 1 .. Len(teams') : teams'[i].name \in PresentNames \cup {0}
                      /\ Len(teams') <= PageSize => \A n \in Names : ~Doubled(n, teams')
    BY <1>1, <1>4, <1>7 DEF Alone, PresentNames
  <2>1. \A i \in 1 .. Len(teams') : teams'[i].name \in PresentNames \cup {0}
    BY <1>1, <1>2, <1>3, <1>5, <1>7 DEF Alone
  <2>2. ASSUME Len(teams') <= PageSize PROVE \A n \in Names : ~Doubled(n, teams')
    <3>1. Len(teams) <= PageSize
      BY <1>5, <1>7, <2>2, BoundsAssumption
    <3>2. /\ \A n \in Names : ~Doubled(n, teams)
          /\ \A i \in 1 .. Len(teams) : Listed(teams[i].name, loc.list)
      BY <1>1, <1>7, <3>1 DEF Alone
    <3>3. ~Listed(name, teams)
      BY <1>1, <3>2, ListedIs DEF TypeOK
    <3> QED
      BY <1>8, <3>2, <3>3
  <2> QED
    BY <2>1, <2>2
<1>13. ASSUME ghost.quiet, ghost.fits
       PROVE  /\ \A i \in 1 .. Len(teams') :
                     i > PageSize => teams'[i].name \notin loc.names \ {name}
              /\ Settled(name)'
              /\ \A n \in DeclaredNames \ loc.names : Settled(n)'
  <2>1. /\ \A i \in 1 .. Len(teams) : i > PageSize => teams[i].name \notin loc.names
        /\ \A n \in DeclaredNames \ loc.names : Settled(n)
        /\ Known(name)
    BY <1>1, <1>7, <1>13 DEF TeamsKnown
  <2>2. ~Listed(name, teams)
    BY <2>1 DEF Known
  <2>3. Settled(name)'
    BY <1>3, <1>4, <1>8, <2>2 DEF Settled
  <2>4. \A n : n # name /\ Settled(n) => Settled(n)'
    BY <1>4, <1>8 DEF Settled
  <2> QED
    BY <1>3, <1>5, <1>7, <2>1, <2>3, <2>4
<1> QED
  BY <1>5, <1>9, <1>10, <1>11, <1>12, <1>13, TeamFrameInv

\* A listed team that is there still has its name, and is the one that is found.
LEMMA FoundIsThere ==
  ASSUME TypeOK, Ids, SameTeam, NEW name, Listed(name, loc.list), Has(Found(name, loc.list).id)
  PROVE  LET k == At(Found(name, loc.list).id)
         IN /\ k \in 1 .. Len(teams) /\ teams[k].id = Found(name, loc.list).id
            /\ teams[k].name = name
            /\ Listed(name, teams) /\ Found(name, teams).id = Found(name, loc.list).id =>
                   Found(name, teams) = teams[k]
<1> DEFINE id == Found(name, loc.list).id
<1>1. /\ At(id) \in 1 .. Len(teams) /\ teams[At(id)].id = id
      /\ \A k \in 1 .. Len(teams) : teams[k].id = id => At(id) = k
  BY AtIs
<1>2. PICK j \in 1 .. Len(loc.list) : Found(name, loc.list) = loc.list[j] /\ loc.list[j].name = name
  BY MemoryParts, FoundIsFirst, SMTT(30) DEF TypeOK
<1>3. DOMAIN teams = 1 .. Len(teams) /\ DOMAIN loc.list = 1 .. Len(loc.list)
  BY Domains
<1>4. loc.list[j].id = teams[At(id)].id
  BY <1>1, <1>2
<1>5. teams[At(id)].name = name
  BY <1>1, <1>2, <1>3, <1>4 DEF SameTeam
<1>6. ASSUME Listed(name, teams), Found(name, teams).id = id
      PROVE  Found(name, teams) = teams[At(id)]
  <2>1. PICK f \in 1 .. Len(teams) : Found(name, teams) = teams[f]
    BY <1>6, FoundIsFirst DEF TypeOK
  <2> QED
    BY <1>1, <1>6, <2>1
<1> QED
  BY <1>1, <1>5, <1>6

\* What holds of the teams by name and id holds after one was changed in place.
LEMMA TouchedInv ==
  ASSUME TypeOK, Ids, Doubles, Alone, NEW k, Touched(k), settings' = settings, lastId' = lastId,
         UNCHANGED <<hooks, ghost, projects, labels>>, loc'.list = loc.list,
         loc'.team.id <= lastId, pc' = "team" => pc = "team"
  PROVE  /\ Ids' /\ Doubles' /\ Alone'
         /\ DOMAIN teams = 1 .. Len(teams) /\ DOMAIN teams' = 1 .. Len(teams)
<1>1. DOMAIN teams = 1 .. Len(teams) /\ DOMAIN teams' = 1 .. Len(teams) /\ Len(teams') = Len(teams)
  BY Domains, LenProperties DEF Touched
<1>2. \A i \in 1 .. Len(teams) : teams'[i].id = teams[i].id /\ teams'[i].name = teams[i].name
  BY DEF Touched
<1>3. \A n : Doubled(n, teams') <=> Doubled(n, teams)
  BY TouchedKeeps
<1>4. Ids'
  BY <1>1, <1>2 DEF Ids
<1>5. Doubles'
  BY <1>3 DEF Doubles, PresentNames
<1>6. Alone'
  BY <1>1, <1>2, <1>3 DEF Alone, PresentNames
<1> QED
  BY <1>1, <1>4, <1>5, <1>6

\* The team's description has drifted, and is changed.
LEMMA TeamDescribed ==
  ASSUME VikunjaInv, NEW name \in loc.names, pc = "team", pc' = "team",
         loc' = [loc EXCEPT !.names = @ \ {name}], lastId' = lastId,
         UNCHANGED <<result, bounds, projects, labels, users, hooks, ghost>>,
         settings.teams[name].state = "present", Listed(name, loc.list),
         Has(Found(name, loc.list).id),
         teams' = [teams EXCEPT ![At(Found(name, loc.list).id)].desc = settings.teams[name].desc]
  PROVE  VikunjaInv'
<1>1. TypeOK /\ Ids /\ SameTeam /\ Plan /\ Doubles /\ Alone /\ TeamsKnown
  BY DEF VikunjaInv
<1>2. name \in Names /\ settings' = settings /\ lastId' \in Nat
  BY <1>1, Declarations DEF Plan, bounds, TypeOK
<1>3. settings.teams[name].desc \in {"x", "y"}
  BY <1>1, <1>2, Declarations DEF TeamSpec
<1> DEFINE k == At(Found(name, loc.list).id)
<1>4. /\ k \in 1 .. Len(teams) /\ teams[k].id = Found(name, loc.list).id
      /\ teams[k].name = name
      /\ Listed(name, teams) /\ Found(name, teams).id = Found(name, loc.list).id =>
             Found(name, teams) = teams[k]
  BY <1>1, FoundIsThere
<1>5. teams' = [teams EXCEPT ![k].desc = settings.teams[name].desc]
  OBVIOUS
<1> HIDE DEF k
<1>6. Touched(k) /\ teams'[k].desc = settings.teams[name].desc
  BY <1>1, <1>3, <1>4, <1>5, Described
<1>7. teams' \in Seq(Team) /\ Len(teams') = Len(teams)
  BY <1>6 DEF Touched
<1>8. /\ loc'.names = loc.names \ {name} /\ loc'.list = loc.list /\ loc'.team = loc.team
      /\ loc.team.id <= lastId
  BY <1>1, <1>2, <1>7, TeamFrame DEF Ids
<1>9. /\ Ids' /\ Doubles' /\ Alone'
      /\ DOMAIN teams = 1 .. Len(teams) /\ DOMAIN teams' = 1 .. Len(teams)
  BY <1>1, <1>2, <1>6, <1>8, TouchedInv
<1>10. SameTeam'
  BY <1>1, <1>6, <1>8, <1>9 DEF SameTeam, Touched
<1>11. ASSUME ghost.quiet, ghost.fits
       PROVE  /\ \A i \in 1 .. Len(teams') :
                     i > PageSize => teams'[i].name \notin loc.names \ {name}
              /\ Settled(name)'
              /\ \A n \in DeclaredNames \ loc.names : Settled(n)'
              /\ \A n \in loc.names \ {name} : Known(n)'
  <2>1. /\ \A i \in 1 .. Len(teams) : i > PageSize => teams[i].name \notin loc.names
        /\ \A n \in DeclaredNames \ loc.names : Settled(n)
        /\ \A n \in loc.names : Known(n)
    BY <1>1, <1>9, <1>11 DEF TeamsKnown
  <2>2. \A n : /\ Listed(n, teams') <=> Listed(n, teams)
               /\ Listed(n, teams) => \E f \in 1 .. Len(teams) :
                      /\ Found(n, teams) = teams[f] /\ Found(n, teams') = teams'[f]
                      /\ teams[f].name = n
    BY <1>1, <1>6, TouchedKeeps
  <2>3. \A n : n # name /\ Listed(n, teams) => Found(n, teams') = Found(n, teams)
    <3> SUFFICES ASSUME NEW n, n # name, Listed(n, teams) PROVE Found(n, teams') = Found(n, teams)
      OBVIOUS
    <3>1. PICK f \in 1 .. Len(teams) : /\ Found(n, teams) = teams[f] /\ Found(n, teams') = teams'[f]
                                       /\ teams[f].name = n
      BY <2>2
    <3>2. teams'[f] = teams[f]
      BY <1>4, <1>6, <3>1 DEF Touched
    <3> QED
      BY <3>1, <3>2
  <2>4. \A n : n # name /\ Settled(n) => Settled(n)'
    BY <1>2, <2>2, <2>3 DEF Settled
  <2>5. \A n : n # name /\ Known(n) => Known(n)'
    BY <1>8, <2>2, <2>3 DEF Known
  <2>6. Listed(name, teams) /\ Found(name, teams) = teams[k]
    BY <1>4, <2>1 DEF Known
  <2>7. PICK f \in 1 .. Len(teams) :
            Found(name, teams) = teams[f] /\ Found(name, teams') = teams'[f]
    BY <2>2, <2>6
  <2>8. f = k
    <3>1. teams[f].id = teams[k].id
      BY <2>6, <2>7
    <3>2. \A i, j \in 1 .. Len(teams) : teams[i].id = teams[j].id => i = j
      BY <1>1, <1>9 DEF Ids
    <3> QED
      BY <1>4, <2>7, <3>1, <3>2
  <2>9. Settled(name)'
    BY <1>2, <1>6, <2>2, <2>6, <2>7, <2>8 DEF Settled
  <2>10. \A i \in 1 .. Len(teams') : i > PageSize => teams'[i].name \notin loc.names \ {name}
    BY <1>6, <1>7, <2>1 DEF Touched
  <2> QED
    BY <2>1, <2>4, <2>5, <2>9, <2>10
<1> QED
  BY <1>2, <1>7, <1>9, <1>10, <1>11, TeamFrameInv

\* The team is not to be, and is deleted.
LEMMA TeamDeleted ==
  ASSUME VikunjaInv, NEW name \in loc.names, pc = "team", pc' = "team",
         loc' = [loc EXCEPT !.names = @ \ {name}], lastId' = lastId,
         UNCHANGED <<result, bounds, projects, labels, users, hooks, ghost>>,
         settings.teams[name].state = "absent", Listed(name, loc.list),
         Has(Found(name, loc.list).id),
         teams' = RemoveAt(teams, At(Found(name, loc.list).id))
  PROVE  VikunjaInv'
<1>1. TypeOK /\ Ids /\ SameTeam /\ Plan /\ Doubles /\ Alone /\ TeamsKnown
  BY DEF VikunjaInv
<1>2. name \in Names \ PresentNames /\ settings' = settings /\ lastId' \in Nat
  BY <1>1, Declarations DEF Plan, bounds, TypeOK, PresentNames
<1> DEFINE k == At(Found(name, loc.list).id)
<1>3. /\ k \in 1 .. Len(teams) /\ teams[k].name = name
  BY <1>1, FoundIsThere
<1>4. teams' = RemoveAt(teams, k)
  OBVIOUS
<1> HIDE DEF k
<1>5. /\ teams' \in Seq(Team) /\ Len(teams') = Len(teams) - 1
      /\ \A i \in 1 .. Len(teams) - 1 : teams'[i] = IF i < k THEN teams[i] ELSE teams[i + 1]
  BY <1>1, <1>3, <1>4, RemovedIsGone DEF TypeOK
<1>6. /\ DOMAIN teams = 1 .. Len(teams) /\ Len(teams) \in Nat /\ DOMAIN teams' = 1 .. Len(teams')
  BY <1>1, <1>5, Domains, LenProperties
<1>7. /\ loc'.names = loc.names \ {name} /\ loc'.list = loc.list /\ loc'.team = loc.team
  BY <1>2, <1>5, TeamFrame
<1>8. \A n : /\ n # name => (Listed(n, teams') <=> Listed(n, teams))
             /\ n # name /\ Listed(n, teams) => Found(n, teams') = Found(n, teams)
             /\ n = name /\ Listed(n, teams') => Doubled(n, teams)
             /\ Doubled(n, teams') => Doubled(n, teams)
  BY <1>1, <1>3, <1>4, RemovedOther, SMTT(30) DEF TypeOK
<1> DEFINE Was(i) == IF i < k THEN i ELSE i + 1
<1>9. \A i \in 1 .. Len(teams') : /\ Was(i) \in 1 .. Len(teams) /\ teams'[i] = teams[Was(i)]
                                  /\ i > PageSize => Was(i) > PageSize
  BY <1>3, <1>5, <1>6, BoundsAssumption
<1>10. \A i, j \in 1 .. Len(teams') : Was(i) = Was(j) => i = j
  BY <1>3, <1>5, <1>6
<1> HIDE DEF Was
<1>11. Ids'
  <2>1. \A i, j \in 1 .. Len(teams') : teams'[i].id = teams'[j].id => i = j
    BY <1>1, <1>6, <1>9, <1>10 DEF Ids
  <2>2. \A i \in 1 .. Len(teams') : teams'[i].id <= lastId
    BY <1>1, <1>6, <1>9 DEF Ids
  <2> QED
    BY <1>1, <1>6, <1>7, <2>1, <2>2 DEF Ids
<1>12. SameTeam'
  BY <1>1, <1>6, <1>7, <1>9 DEF SameTeam
<1>13. Doubles'
  BY <1>1, <1>2, <1>8 DEF Doubles, PresentNames
<1>14. Alone'
  <2>1. ~ghost.alone
    BY <1>1, <1>2, <1>3, <1>6, NamesAssumption DEF Alone
  <2> QED
    BY <2>1 DEF Alone
<1>15. ASSUME ghost.quiet, ghost.fits
       PROVE  /\ \A i \in 1 .. Len(teams') :
                     i > PageSize => teams'[i].name \notin loc.names \ {name}
              /\ Settled(name)'
              /\ \A n \in DeclaredNames \ loc.names : Settled(n)'
              /\ \A n \in loc.names \ {name} : Known(n)'
  <2>1. /\ \A i \in 1 .. Len(teams) : i > PageSize => teams[i].name \notin loc.names
        /\ \A n \in DeclaredNames \ loc.names : Settled(n)
        /\ \A n \in loc.names : Known(n)
    BY <1>1, <1>6, <1>15 DEF TeamsKnown
  <2>2. \A n : n # name /\ Settled(n) => Settled(n)'
    BY <1>2, <1>8 DEF Settled
  <2>3. \A n : n # name /\ Known(n) => Known(n)'
    BY <1>7, <1>8 DEF Known
  <2>4. Settled(name)'
    <3>1. ~ghost.twice => ~Listed(name, teams')
      BY <1>1, <1>2, <1>8 DEF Doubles
    <3> QED
      BY <1>2, <3>1 DEF Settled
  <2>5. \A i \in 1 .. Len(teams') : i > PageSize => teams'[i].name \notin loc.names \ {name}
    BY <1>9, <2>1
  <2> QED
    BY <2>1, <2>2, <2>3, <2>4, <2>5
<1> QED
  BY <1>2, <1>5, <1>11, <1>12, <1>13, <1>14, <1>15, TeamFrameInv

\* reconcile_teams does what is to be done for the next name.
LEMMA TeamReconciled == VikunjaInv /\ ReconcileTeam => VikunjaInv'
<1> SUFFICES ASSUME VikunjaInv, ReconcileTeam PROVE VikunjaInv'
  OBVIOUS
<1> DEFINE name == Least(loc.names)
           spec == settings.teams[name]
           found == Found(name, loc.list)
<1>1. /\ pc = "team" /\ loc' = [loc EXCEPT !.names = @ \ {name}]
      /\ UNCHANGED <<result, bounds, projects, labels, users, hooks, ghost>>
      /\ pc' = "relist" \/ pc' = "team"
  BY DEF ReconcileTeam, Goto
<1>2. name \in loc.names
  <2>1. loc.names \in SUBSET Nat /\ loc.names # {}
    BY MemoryParts, NamesAssumption DEF ReconcileTeam, VikunjaInv, TypeOK
  <2> QED
    BY <2>1, LeastIsLeast
<1>3. CASE spec.state = "present" /\ ~Listed(name, loc.list)
  <2>1. CreateTeam(name) /\ pc' = "relist"
    BY <1>3 DEF ReconcileTeam, Goto
  <2> HIDE DEF name
  <2> QED
    BY <1>1, <1>2, <1>3, <2>1, TeamMade
<1>4. CASE spec.state = "present" /\ Listed(name, loc.list) /\ found.desc # spec.desc
  <2>1. /\ Has(found.id) /\ teams' = [teams EXCEPT ![At(found.id)].desc = spec.desc]
        /\ lastId' = lastId /\ pc' = "team"
    BY <1>4 DEF ReconcileTeam, Goto
  <2> HIDE DEF name
  <2> QED
    BY <1>1, <1>2, <1>4, <2>1, TeamDescribed
<1>5. CASE spec.state = "absent" /\ Listed(name, loc.list) /\ settings.delete /\ ~settings.keep
  <2>1. /\ Has(found.id) /\ teams' = RemoveAt(teams, At(found.id))
        /\ lastId' = lastId /\ pc' = "team"
    BY <1>5 DEF ReconcileTeam, Goto
  <2> HIDE DEF name
  <2> QED
    BY <1>1, <1>2, <1>5, <2>1, TeamDeleted
<1>6. CASE /\ ~(spec.state = "present" /\ ~Listed(name, loc.list))
           /\ ~(spec.state = "present" /\ Listed(name, loc.list) /\ found.desc # spec.desc)
           /\ ~(/\ spec.state = "absent" /\ Listed(name, loc.list)
                /\ settings.delete /\ ~settings.keep)
  <2>1. UNCHANGED <<teams, lastId>> /\ pc' = "team"
    BY <1>6 DEF ReconcileTeam, Goto
  <2> HIDE DEF name
  <2> QED
    BY <1>1, <1>2, <1>6, <2>1, TeamLeft
<1> QED
  BY <1>3, <1>4, <1>5, <1>6

-----------------------------------------------------------------------------
(* The members.                                                            *)

\* What the steps that change a team's members leave.
LEMMA MembersFrame ==
  ASSUME VikunjaInv, pc \in {"members", "add", "remove"}, pc' \in {"members", "add", "remove"},
         loc' \in Memory, teams' \in Seq(Team),
         UNCHANGED <<result, bounds, projects, labels, lastId, users, hooks, ghost>>,
         Ids', SameTeam', Plan', Doubles', Alone', MembersKnown',
         \A n \in DeclaredNames : Settled(n) => Settled(n)'
  PROVE  VikunjaInv'
<1>1. TypeOK /\ Plan /\ Things /\ TeamsKnown
  BY DEF VikunjaInv
<1>2. UNCHANGED <<settings, faults, changes>> /\ DeclaredNames' = DeclaredNames
  BY DEF bounds, DeclaredNames
<1>3. TypeOK'
  BY <1>1, <1>2 DEF TypeOK
<1>4. Things'
  BY <1>1, <1>2 DEF Things, ProjectDone, LabelDone, TeamsDone, Succeeded
<1>5. TeamsKnown'
  BY <1>1, <1>2 DEF TeamsKnown, TeamsToCome, TeamsDone, Succeeded
<1> QED
  BY <1>3, <1>4, <1>5 DEF VikunjaInv

\* The page that was read last shows the declared teams that are to be there.
LEMMA TeamOnPage ==
  ASSUME VikunjaInv, ghost.quiet, ghost.fits, Len(teams) <= PageSize,
         pc \in {"members", "add", "remove"}, NEW n \in PresentNames
  PROVE  /\ Listed(n, teams) /\ Listed(n, loc.list)
         /\ Found(n, loc.list).id = Found(n, teams).id
<1>1. TypeOK /\ TeamsKnown /\ MembersKnown
  BY DEF VikunjaInv
<1>2. n \in DeclaredNames /\ settings.teams[n].state = "present"
  BY DEF PresentNames, DeclaredNames
<1>3. Listed(n, teams)
  BY <1>1, <1>2 DEF TeamsKnown, TeamsDone, Settled
<1>4. /\ DOMAIN teams = 1 .. Len(teams) /\ teams \in Seq(Team) /\ loc.list \in Seq(Team)
      /\ Len(teams) = Len(loc.list)
      /\ \A i \in 1 .. Len(teams) : loc.list[i].id = teams[i].id /\ loc.list[i].name = teams[i].name
  BY <1>1, Domains, MemoryParts DEF MembersKnown, TeamsDone, TypeOK
<1>5. /\ Listed(n, loc.list)
      /\ \E k \in 1 .. Len(teams) : Found(n, teams) = teams[k] /\ Found(n, loc.list) = loc.list[k]
  BY <1>3, <1>4, SameNames
<1> QED
  BY <1>3, <1>4, <1>5

\* The team whose members are read is the one that is changed.
LEMMA TeamAtHand ==
  ASSUME VikunjaInv, ghost.quiet, ghost.fits, Len(teams) <= PageSize,
         pc \in {"add", "remove"}, NEW k \in 1 .. Len(teams), teams[k].id = loc.team.id
  PROVE  /\ Listed(loc.team.name, teams) /\ Found(loc.team.name, teams) = teams[k]
<1>1. TypeOK /\ Ids /\ Plan /\ MembersKnown
  BY DEF VikunjaInv
<1>2. loc.team.name \in PresentNames
  BY <1>1 DEF Plan
<1>3. Listed(loc.team.name, teams)
  BY <1>2, TeamOnPage
<1>4. PICK f \in 1 .. Len(teams) : Found(loc.team.name, teams) = teams[f]
  BY <1>1, <1>3, FoundIsFirst DEF TypeOK
<1>5. teams[f].id = teams[k].id
  BY <1>1, <1>4 DEF MembersKnown, TeamsDone
<1>6. DOMAIN teams = 1 .. Len(teams)
  BY <1>1, Domains
<1>7. f = k
  BY <1>1, <1>5, <1>6 DEF Ids
<1> QED
  BY <1>3, <1>4, <1>7

\* The members of a team that is there are read, and compared.
LEMMA TeamRead ==
  ASSUME VikunjaInv, pc = "members", pc' = "add", NEW name \in loc.names,
         Listed(name, loc.list), Has(Found(name, loc.list).id), Reads,
         NEW diff,
         diff = MembershipDiff(settings.teams[name].members,
                               teams[At(Found(name, loc.list).id)].members),
         loc' = [loc EXCEPT !.names = @ \ {name}, !.team = Found(name, loc.list),
                            !.add = diff.add,
                            !.remove = IF settings.keep THEN {} ELSE diff.remove]
  PROVE  VikunjaInv'
<1>1. /\ TypeOK /\ Ids /\ SameTeam /\ Plan /\ Doubles /\ Alone /\ Things /\ TeamsKnown
      /\ MembersKnown
  BY DEF VikunjaInv
<1>2. /\ name \in PresentNames /\ name \in Names /\ loc.names \subseteq PresentNames
      /\ UNCHANGED <<settings, teams, lastId, users, ghost>>
  BY <1>1, Declarations DEF Plan, Reads
<1> DEFINE found == Found(name, loc.list)
           k == At(found.id)
           want == settings.teams[name].members
           have == teams[k].members
<1>3. /\ k \in 1 .. Len(teams) /\ teams[k].id = found.id /\ teams[k].name = name
      /\ Listed(name, teams) /\ Found(name, teams).id = found.id => Found(name, teams) = teams[k]
  BY <1>1, FoundIsThere
<1>4. PICK j \in 1 .. Len(loc.list) : found = loc.list[j] /\ loc.list[j].name = name
  BY <1>1, MemoryParts, FoundIsFirst, SMTT(30) DEF TypeOK
<1>5. want \subseteq People /\ have \subseteq People \cup {"bot"} /\ found \in Team
  <2>1. settings.teams[name] \in TeamSpec
    BY <1>1, <1>2, Declarations
  <2>2. teams[k] \in Team /\ found \in Team
    BY <1>1, <1>3, <1>4, Domains
  <2> QED
    BY <2>1, <2>2 DEF TeamSpec, Team
<1>6. diff.add = (want \ {"bot"}) \ have /\ diff.remove = (have \ {"bot"}) \ want
  BY DEF MembershipDiff
<1> DEFINE remove == IF settings.keep THEN {} ELSE diff.remove
<1>7. /\ loc' = [loc EXCEPT !.names = @ \ {name}, !.team = found, !.add = diff.add,
                            !.remove = remove]
      /\ diff.add \subseteq People /\ remove \subseteq People
      /\ diff.add \subseteq want /\ remove \cap (want \cup {"bot"}) = {}
      /\ settings.keep => remove = {}
      /\ want \subseteq have \cup diff.add
      /\ ~settings.keep => have \subseteq want \cup {"bot"} \cup remove
  BY <1>5, <1>6, NamesAssumption
<1>8. DOMAIN teams = 1 .. Len(teams) /\ DOMAIN loc.list = 1 .. Len(loc.list)
  BY <1>1, Domains
<1> HIDE DEF found, k, want, have, remove
<1>9. /\ loc' \in Memory /\ loc'.list = loc.list /\ loc'.names = loc.names \ {name}
      /\ loc'.team = found /\ loc'.add = diff.add /\ loc'.remove = remove
  <2>1. loc \in Memory
    BY <1>1 DEF TypeOK
  <2>2. loc' = [seen |-> loc.seen, names |-> loc.names \ {name}, list |-> loc.list,
                team |-> found, add |-> diff.add, remove |-> remove, hooks |-> loc.hooks]
    BY <1>7, <2>1, MemoryParts
  <2>3. /\ loc.seen \in Nat /\ loc.names \ {name} \subseteq Names /\ loc.list \in Seq(Team)
        /\ loc.hooks \in Seq(Hook)
    BY <2>1, MemoryParts
  <2> QED
    BY <1>5, <1>7, <2>2, <2>3, ZenonT(40) DEF Memory
<1>10. found.name = name /\ found.id <= lastId
  BY <1>1, <1>4, <1>8 DEF Ids
<1>11. Ids'
  BY <1>1, <1>2, <1>9, <1>10 DEF Ids, Reads
<1>12. SameTeam'
  BY <1>1, <1>2, <1>4, <1>8, <1>9, SMTT(30) DEF SameTeam
<1>13. Plan'
  <2>1. /\ pc' = "add" /\ result' = result /\ settings' = settings /\ PresentNames' = PresentNames
        /\ loc'.names = loc.names \ {name} /\ loc'.team.name = name
    BY <1>2, <1>9, <1>10 DEF PresentNames, Reads
  <2>2. /\ loc'.add \subseteq settings.teams[name].members
        /\ loc'.remove \cap (settings.teams[name].members \cup {"bot"}) = {}
        /\ settings.keep => loc'.remove = {}
    BY <1>7, <1>9 DEF want
  <2>3. result' # "ok"
    BY <1>1, <2>1 DEF Plan
  <2> QED
    BY <1>2, <2>1, <2>2, <2>3 DEF Plan
<1>14. Doubles' /\ Alone'
  BY <1>1, <1>2, <1>9 DEF Doubles, Alone, PresentNames, Reads
<1>15. MembersKnown'
  <2> SUFFICES ASSUME ghost.quiet, ghost.fits, Len(teams) <= PageSize
               PROVE  /\ found.id = Found(name, teams).id
                      /\ \A n \in PresentNames : n \notin loc.names \ {name} => Manned(n)'
    BY <1>1, <1>2, <1>9, <1>10, SMTT(30) DEF MembersKnown, TeamsDone, PresentNames
  <2>1. found.id = Found(name, teams).id /\ Found(name, teams) = teams[k]
    BY <1>2, <1>3, TeamOnPage DEF found
  <2>2. Manned(name)'
    BY <1>2, <1>7, <1>9, <1>10, <2>1 DEF Manned, ToAdd, ToRemove, want, have
  <2>3. ASSUME NEW n \in PresentNames, n \notin loc.names, n # name PROVE Manned(n)'
    <3>1. Manned(n)
      BY <1>1, <2>3 DEF MembersKnown, TeamsDone
    <3> QED
      BY <1>2, <1>9, <1>10, <2>3, <3>1 DEF Manned, ToAdd, ToRemove
  <2> QED
    BY <2>1, <2>2, <2>3
<1>16. \A n \in DeclaredNames : Settled(n) => Settled(n)'
  BY <1>2 DEF Settled
<1> QED
  BY <1>1, <1>2, <1>9, <1>11, <1>12, <1>13, <1>14, <1>15, <1>16, MembersFrame DEF Reads, bounds,
     TypeOK

\* The next present team's members are read, or it is passed over.
LEMMA TeamGot == VikunjaInv /\ GetTeam => VikunjaInv'
<1> SUFFICES ASSUME VikunjaInv, GetTeam PROVE VikunjaInv'
  OBVIOUS
<1>1. TypeOK /\ Ids /\ SameTeam /\ Plan /\ Doubles /\ Alone /\ MembersKnown
  BY DEF VikunjaInv
<1> DEFINE name == Least(loc.names)
<1>2. pc = "members" /\ Reads
  BY DEF GetTeam, Goto, bounds, server, Reads
<1>3. name \in loc.names
  <2>1. loc.names \in SUBSET Nat /\ loc.names # {}
    BY MemoryParts, NamesAssumption DEF GetTeam, VikunjaInv, TypeOK
  <2> QED
    BY <2>1, LeastIsLeast
<1>4. CASE ~Listed(name, loc.list)
  <2>1. pc' = "members" /\ loc' = [loc EXCEPT !.names = @ \ {name}]
    BY <1>4 DEF GetTeam, Goto
  <2> HIDE DEF name
  <2>2. /\ loc' \in Memory /\ loc'.list = loc.list /\ loc'.names = loc.names \ {name}
        /\ loc'.team = loc.team
    BY <1>1, <2>1 DEF Memory, TypeOK
  <2>3. /\ UNCHANGED <<settings, teams, lastId, users, ghost>>
        /\ name \in PresentNames
    BY <1>1, <1>2, <1>3 DEF Plan, Reads
  <2>4. Ids' /\ SameTeam' /\ Plan'
    BY <1>1, <1>2, <2>1, <2>2 DEF Ids, SameTeam, Plan, PresentNames, Reads
  <2>5. Doubles' /\ Alone'
    BY <1>1, <1>2, <2>1, <2>2 DEF Doubles, Alone, PresentNames, Reads
  <2>6. ~(ghost.quiet /\ ghost.fits /\ Len(teams) <= PageSize)
    BY <1>2, <1>4, <2>3, TeamOnPage
  <2>7. MembersKnown'
    BY <2>3, <2>6 DEF MembersKnown
  <2>8. \A n \in DeclaredNames : Settled(n) => Settled(n)'
    BY <2>3 DEF Settled
  <2> QED
    BY <1>1, <1>2, <2>1, <2>2, <2>4, <2>5, <2>7, <2>8, MembersFrame DEF Reads, bounds, TypeOK
<1>5. CASE Listed(name, loc.list)
  <2> DEFINE diff == MembershipDiff(settings.teams[name].members,
                                    teams[At(Found(name, loc.list).id)].members)
  <2>1. /\ Has(Found(name, loc.list).id) /\ pc' = "add"
        /\ loc' = [loc EXCEPT !.names = @ \ {name}, !.team = Found(name, loc.list),
                              !.add = diff.add,
                              !.remove = IF settings.keep THEN {} ELSE diff.remove]
    BY <1>5 DEF GetTeam, Goto
  <2> HIDE DEF name
  <2> QED
    BY <1>2, <1>3, <1>5, <2>1, TeamRead
<1> QED
  BY <1>4, <1>5

\* One team's members are changed, and what is left to change with them.
LEMMA MemberChanged ==
  ASSUME VikunjaInv, pc \in {"add", "remove"}, pc' = pc, NEW k, Touched(k),
         teams[k].id = loc.team.id, teams'[k].desc = teams[k].desc,
         NEW add \in SUBSET loc.add, NEW remove \in SUBSET loc.remove,
         loc' = [loc EXCEPT !.add = add, !.remove = remove],
         UNCHANGED <<result, bounds, projects, labels, lastId, users, hooks, ghost>>,
         \A m \in settings.teams[loc.team.name].members \cap users :
             m \in teams[k].members \/ (pc = "add" /\ m \in loc.add)
                 => m \in teams'[k].members \/ (pc = "add" /\ m \in add),
         \A m \in teams'[k].members :
             \/ m \in settings.teams[loc.team.name].members
             \/ m \in teams[k].members \ loc.remove
             \/ m \in remove
  PROVE  VikunjaInv'
<1>1. TypeOK /\ Ids /\ SameTeam /\ Plan /\ Doubles /\ Alone /\ MembersKnown
  BY DEF VikunjaInv
<1>2. settings' = settings /\ UNCHANGED <<users, ghost, hooks, lastId, projects, labels, result>>
  BY DEF bounds
<1>3. /\ loc' \in Memory /\ loc'.list = loc.list /\ loc'.names = loc.names
      /\ loc'.team = loc.team /\ loc'.add = add /\ loc'.remove = remove
  <2>1. loc \in Memory
    BY <1>1 DEF TypeOK
  <2>2. loc' = [seen |-> loc.seen, names |-> loc.names, list |-> loc.list,
                team |-> loc.team, add |-> add, remove |-> remove, hooks |-> loc.hooks]
    BY <2>1, MemoryParts
  <2>3. /\ loc.seen \in Nat /\ loc.names \subseteq Names /\ loc.list \in Seq(Team)
        /\ loc.team \in Team /\ loc.hooks \in Seq(Hook)
        /\ add \subseteq People /\ remove \subseteq People
    BY <2>1, MemoryParts
  <2> QED
    BY <2>2, <2>3 DEF Memory
<1>4. k \in 1 .. Len(teams) /\ teams' \in Seq(Team) /\ Len(teams') = Len(teams)
  BY DEF Touched
<1>5. /\ Ids' /\ Doubles' /\ Alone'
      /\ DOMAIN teams = 1 .. Len(teams) /\ DOMAIN teams' = 1 .. Len(teams)
  <2>1. loc'.team.id <= lastId
    BY <1>1, <1>3 DEF Ids
  <2> QED
    BY <1>1, <1>2, <1>3, <2>1, TouchedInv
<1>6. SameTeam'
  BY <1>1, <1>3, <1>5 DEF SameTeam, Touched
<1>7. Plan'
  <2>1. PresentNames' = PresentNames
    BY <1>2 DEF PresentNames
  <2> QED
    BY <1>1, <1>2, <1>3, <2>1 DEF Plan
<1>8. teams[k].name = loc.team.name
  BY <1>1, <1>4, <1>5 DEF SameTeam
<1>9. \A n : /\ Listed(n, teams') <=> Listed(n, teams)
             /\ Listed(n, teams) => \E f \in 1 .. Len(teams) :
                    /\ Found(n, teams) = teams[f] /\ Found(n, teams') = teams'[f]
                    /\ teams[f].name = n
  BY <1>1, TouchedKeeps
<1>10. \A n \in DeclaredNames : Settled(n) => Settled(n)'
  <2>1. \A i \in 1 .. Len(teams) : teams'[i].desc = teams[i].desc
    BY DEF Touched
  <2>2. \A n : Listed(n, teams) => Found(n, teams').desc = Found(n, teams).desc
    BY <1>9, <2>1
  <2> QED
    BY <1>2, <1>9, <2>2 DEF Settled
<1>11. MembersKnown'
  <2> SUFFICES ASSUME ghost.quiet, ghost.fits, Len(teams) <= PageSize
               PROVE  /\ loc.team.id = Found(loc.team.name, teams').id
                      /\ \A i \in 1 .. Len(teams) :
                            /\ loc.list[i].id = teams'[i].id /\ loc.list[i].name = teams'[i].name
                      /\ \A n \in PresentNames : n \notin loc.names => Manned(n)'
    BY <1>1, <1>2, <1>3, <1>4, <1>5 DEF MembersKnown, TeamsDone, PresentNames
  <2>1. /\ Listed(loc.team.name, teams) /\ Found(loc.team.name, teams) = teams[k]
    BY <1>4, TeamAtHand
  <2>2. Found(loc.team.name, teams') = teams'[k]
    <3>1. PICK f \in 1 .. Len(teams) :
              Found(loc.team.name, teams) = teams[f] /\ Found(loc.team.name, teams') = teams'[f]
      BY <1>9, <2>1
    <3>2. teams[f].id = teams[k].id
      BY <2>1, <3>1
    <3>3. f = k
      BY <1>1, <1>4, <1>5, <3>1, <3>2 DEF Ids
    <3> QED
      BY <3>1, <3>3
  <2>3. loc.team.id = Found(loc.team.name, teams').id
    BY <1>4, <2>2 DEF Touched
  <2>4. \A i \in 1 .. Len(teams) :
            loc.list[i].id = teams'[i].id /\ loc.list[i].name = teams'[i].name
    BY <1>1, <1>5 DEF MembersKnown, TeamsDone, Touched
  <2>5. ASSUME NEW n \in PresentNames, n \notin loc.names, n # loc.team.name PROVE Manned(n)'
    <3>1. Manned(n) /\ Listed(n, teams)
      BY <1>1, <2>5, TeamOnPage DEF MembersKnown, TeamsDone
    <3>2. PICK f \in 1 .. Len(teams) : /\ Found(n, teams) = teams[f] /\ Found(n, teams') = teams'[f]
                                       /\ teams[f].name = n
      BY <1>9, <3>1
    <3>3. Found(n, teams') = Found(n, teams)
      BY <1>8, <2>5, <3>2 DEF Touched
    <3> QED
      BY <1>2, <1>3, <2>5, <3>1, <3>3 DEF Manned, ToAdd, ToRemove
  <2>6. Manned(loc.team.name)'
    <3> DEFINE want == settings.teams[loc.team.name].members
    <3>1. Manned(loc.team.name)
      BY <1>1 DEF MembersKnown, TeamsDone, Plan
    <3>2. /\ want \cap users \subseteq teams[k].members \cup (IF pc = "add" THEN loc.add ELSE {})
          /\ ~settings.keep => teams[k].members \subseteq want \cup {"bot"} \cup loc.remove
      BY <2>1, <3>1 DEF Manned, ToAdd, ToRemove
    <3>3. want \cap users \subseteq teams'[k].members \cup (IF pc = "add" THEN add ELSE {})
      BY <3>2
    <3>4. ~settings.keep => teams'[k].members \subseteq want \cup {"bot"} \cup remove
      BY <3>2
    <3> QED
      BY <1>2, <1>3, <2>2, <3>3, <3>4 DEF Manned, ToAdd, ToRemove
  <2> QED
    BY <2>3, <2>4, <2>5, <2>6
<1> QED
  BY <1>1, <1>2, <1>3, <1>4, <1>5, <1>6, <1>7, <1>10, <1>11, MembersFrame

\* There is no more to add, or to remove.
LEMMA MembersEnough ==
  ASSUME VikunjaInv, UNCHANGED <<loc, teams>>,
         UNCHANGED <<result, bounds, projects, labels, lastId, users, hooks, ghost>>,
         \/ pc = "add" /\ loc.add = {} /\ pc' = "remove"
         \/ pc = "remove" /\ loc.remove = {} /\ pc' = "members"
  PROVE  VikunjaInv'
<1>1. TypeOK /\ Ids /\ SameTeam /\ Plan /\ Doubles /\ Alone /\ MembersKnown
  BY DEF VikunjaInv
<1>2. settings' = settings
  BY DEF bounds
<1>3. loc' \in Memory /\ teams' \in Seq(Team)
  BY <1>1 DEF TypeOK
<1>4. Ids' /\ SameTeam'
  BY <1>1 DEF Ids, SameTeam
<1>5. Plan'
  BY <1>1, <1>2 DEF Plan, PresentNames
<1>6. Doubles' /\ Alone'
  BY <1>1, <1>2 DEF Doubles, Alone, PresentNames
<1>7. \A n : Settled(n) => Settled(n)'
  BY <1>2 DEF Settled
<1>8. \A n : Manned(n) => Manned(n)'
  BY <1>1, <1>2 DEF Manned, ToAdd, ToRemove, Plan
<1>9. MembersKnown'
  BY <1>1, <1>2, <1>8 DEF MembersKnown, TeamsDone, PresentNames
<1> QED
  BY <1>1, <1>3, <1>4, <1>5, <1>6, <1>7, <1>9, MembersFrame

\* A member is added, or has no account.
LEMMA MemberAdded == VikunjaInv /\ AddMember => VikunjaInv'
<1> SUFFICES ASSUME VikunjaInv, AddMember PROVE VikunjaInv'
  OBVIOUS
<1>1. TypeOK /\ Ids /\ Plan
  BY DEF VikunjaInv
<1>2. /\ pc = "add"
      /\ UNCHANGED <<result, bounds, projects, labels, lastId, users, hooks, ghost>>
  BY DEF AddMember, Goto
<1>3. CASE loc.add = {} /\ pc' = "remove" /\ UNCHANGED <<loc, teams>>
  BY <1>2, <1>3, MembersEnough
<1>4. ASSUME NEW who \in loc.add, Has(loc.team.id),
             teams' = IF who \in users
                      THEN [teams EXCEPT ![At(loc.team.id)].members = @ \cup {who}] ELSE teams,
             loc' = [loc EXCEPT !.add = @ \ {who}], pc' = "add"
      PROVE  VikunjaInv'
  <2> DEFINE k == At(loc.team.id)
             m == IF who \in users THEN teams[k].members \cup {who} ELSE teams[k].members
  <2>1. k \in 1 .. Len(teams) /\ teams[k].id = loc.team.id
    BY <1>1, <1>4, AtIs
  <2>2. /\ teams[k] \in Team /\ loc \in Memory /\ loc.add \subseteq People
        /\ teams \in Seq(Team)
    BY <1>1, <2>1, Domains, MemoryParts DEF TypeOK
  <2>3. /\ teams' = IF who \in users
                    THEN [teams EXCEPT ![k].members = teams[k].members \cup {who}] ELSE teams
    BY <1>4
  <2>4. m \in SUBSET (People \cup {"bot"})
    BY <1>4, <2>2 DEF Team
  <2> HIDE DEF k
  <2>5. Touched(k) /\ teams'[k].desc = teams[k].desc /\ teams'[k].members = m
    <3>1. CASE who \in users
      <4>1. teams' = [teams EXCEPT ![k].members = m]
        BY <2>3, <3>1
      <4> HIDE DEF m
      <4> QED
        BY <1>1, <2>1, <2>4, <4>1, Remanned
    <3>2. CASE who \notin users
      BY <2>1, <2>2, <2>3, <3>2 DEF Touched
    <3> QED
      BY <3>1, <3>2
  <2>6. loc' = [loc EXCEPT !.add = loc.add \ {who}, !.remove = loc.remove]
    BY <1>4, <2>2 DEF Memory
  <2>7. who \in settings.teams[loc.team.name].members
    BY <1>1, <1>2, <1>4 DEF Plan
  <2>8. \A u \in settings.teams[loc.team.name].members \cap users :
            u \in teams[k].members \/ u \in loc.add =>
                u \in teams'[k].members \/ u \in loc.add \ {who}
    BY <2>5
  <2>9. \A u \in teams'[k].members :
            \/ u \in settings.teams[loc.team.name].members
            \/ u \in teams[k].members \ loc.remove
            \/ u \in loc.remove
    BY <2>5, <2>7
  <2> QED
    BY <1>2, <1>4, <2>1, <2>5, <2>6, <2>8, <2>9, MemberChanged, ZenonT(40)
<1> QED
  BY <1>3, <1>4 DEF AddMember, Goto

\* An extra member is removed.
LEMMA MemberRemoved == VikunjaInv /\ RemoveMember => VikunjaInv'
<1> SUFFICES ASSUME VikunjaInv, RemoveMember PROVE VikunjaInv'
  OBVIOUS
<1>1. TypeOK /\ Ids /\ Plan
  BY DEF VikunjaInv
<1>2. /\ pc = "remove"
      /\ UNCHANGED <<result, bounds, projects, labels, lastId, users, hooks, ghost>>
  BY DEF RemoveMember, Goto
<1>3. CASE loc.remove = {} /\ pc' = "members" /\ UNCHANGED <<loc, teams>>
  BY <1>2, <1>3, MembersEnough
<1>4. ASSUME NEW who \in loc.remove, Has(loc.team.id),
             teams' = [teams EXCEPT ![At(loc.team.id)].members = @ \ {who}],
             loc' = [loc EXCEPT !.remove = @ \ {who}], pc' = "remove"
      PROVE  VikunjaInv'
  <2> DEFINE k == At(loc.team.id)
             m == teams[k].members \ {who}
  <2>1. k \in 1 .. Len(teams) /\ teams[k].id = loc.team.id
    BY <1>1, <1>4, AtIs
  <2>2. teams[k] \in Team /\ loc \in Memory
    BY <1>1, <2>1, Domains DEF TypeOK
  <2>3. teams' = [teams EXCEPT ![k].members = m]
    BY <1>4
  <2>4. m \in SUBSET (People \cup {"bot"})
    BY <2>2 DEF Team
  <2> HIDE DEF k
  <2>5. Touched(k) /\ teams'[k].desc = teams[k].desc /\ teams'[k].members = m
    BY <1>1, <2>1, <2>3, <2>4, Remanned
  <2>6. loc' = [loc EXCEPT !.add = loc.add, !.remove = loc.remove \ {who}]
    BY <1>4, <2>2 DEF Memory
  <2>7. who \notin settings.teams[loc.team.name].members
    BY <1>1, <1>2, <1>4 DEF Plan
  <2>8. \A u \in settings.teams[loc.team.name].members \cap users :
            u \in teams[k].members \/ (pc = "add" /\ u \in loc.add)
                => u \in teams'[k].members \/ (pc = "add" /\ u \in loc.add)
    BY <2>5, <2>7
  <2>9. \A u \in teams'[k].members :
            \/ u \in settings.teams[loc.team.name].members
            \/ u \in teams[k].members \ loc.remove
            \/ u \in loc.remove \ {who}
    BY <2>5
  <2>10. /\ pc \in {"add", "remove"} /\ pc' = pc
         /\ loc.add \in SUBSET loc.add /\ loc.remove \ {who} \in SUBSET loc.remove
    BY <1>2, <1>4
  <2> HIDE DEF m
  <2> QED
    BY <1>2, <2>1, <2>5, <2>6, <2>8, <2>9, <2>10, MemberChanged
<1> QED
  BY <1>3, <1>4 DEF RemoveMember, Goto

-----------------------------------------------------------------------------
(* The webhook.                                                            *)

\* What the steps for the webhook leave.
LEMMA HookFrame ==
  ASSUME VikunjaInv, pc \in {"members", "hook"}, pc' \in {"hook", "done"}, loc.names = {},
         loc' \in Memory, loc'.names = {}, loc'.list = loc.list, loc'.team = loc.team,
         UNCHANGED <<result, bounds, projects, labels, teams, users, ghost>>,
         hooks' \in Seq(Hook), lastId' \in Nat, lastId <= lastId',
         \A i, j \in 1 .. Len(hooks') : hooks'[i].id = hooks'[j].id => i = j,
         \A i \in 1 .. Len(hooks') : hooks'[i].id <= lastId',
         (~ghost.twice /\ settings.hook # "present") \/ ghost.alone => Len(hooks') <= 1,
         ghost.quiet => /\ pc' = "hook" => loc'.hooks = hooks'
                        /\ pc' = "done" =>
                            /\ settings.hook = "present" => hooks' # <<>> /\ hooks'[1].good
                            /\ settings.hook = "absent" => hooks' = <<>> \/ ghost.twice
  PROVE  VikunjaInv'
<1>1. /\ TypeOK /\ Ids /\ SameTeam /\ Plan /\ Doubles /\ Alone /\ Things /\ TeamsKnown
      /\ MembersKnown
  BY DEF VikunjaInv
<1>2. UNCHANGED <<settings, faults, changes>> /\ result # "ok"
  BY <1>1 DEF bounds, Plan
<1>3. TypeOK'
  BY <1>1, <1>2 DEF TypeOK
<1>4. /\ DOMAIN hooks' = 1 .. Len(hooks') /\ DOMAIN teams = 1 .. Len(teams)
      /\ DOMAIN loc.list = 1 .. Len(loc.list)
  BY <1>1, Domains, LenProperties
<1>5. Ids'
  <2>1. /\ \A i \in 1 .. Len(teams) : teams[i].id \in Nat
        /\ \A i \in 1 .. Len(loc.list) : loc.list[i].id \in Nat
        /\ loc.team.id \in Nat /\ lastId \in Nat
    BY <1>1, Domains, MemoryParts DEF Team, TypeOK
  <2>2. \A i \in Nat : i <= lastId => i <= lastId'
    BY <2>1
  <2> QED
    BY <1>1, <1>4, <2>1, <2>2 DEF Ids
<1>6. SameTeam' /\ Plan'
  BY <1>1, <1>2 DEF SameTeam, Plan
<1>7. Doubles'
  BY <1>1, <1>2 DEF Doubles, PresentNames
<1>8. Alone'
  BY <1>1, <1>2 DEF Alone, PresentNames
<1>9. Things'
  BY <1>1, <1>2 DEF Things, ProjectDone, LabelDone, TeamsDone, Succeeded
<1>10. TeamsKnown'
  BY <1>1, <1>2 DEF TeamsKnown, TeamsToCome, TeamsDone, Succeeded, Settled, DeclaredNames
<1>11. MembersKnown'
  <2>1. \A n : Manned(n) => Manned(n)'
    BY <1>2 DEF Manned, ToAdd, ToRemove
  <2> QED
    BY <1>1, <1>2, <2>1 DEF MembersKnown, TeamsDone, PresentNames
<1> QED
  BY <1>3, <1>5, <1>6, <1>7, <1>8, <1>9, <1>10, <1>11 DEF VikunjaInv

\* The webhooks are listed.
LEMMA HooksListed == VikunjaInv /\ ListWebhooks => VikunjaInv'
<1> SUFFICES ASSUME VikunjaInv, ListWebhooks PROVE VikunjaInv'
  OBVIOUS
<1>1. TypeOK /\ Ids /\ Doubles /\ Alone
  BY DEF VikunjaInv
<1>2. /\ UNCHANGED <<result, bounds, projects, labels, teams, lastId, users, hooks, ghost>>
      /\ pc = "members" /\ loc.names = {} /\ pc' \in {"hook", "done"}
      /\ pc' = "done" => settings.hook = "no"
      /\ loc' = [loc EXCEPT !.hooks = hooks]
  BY DEF ListWebhooks, Goto, server
<1>3. /\ loc' \in Memory /\ loc'.names = {} /\ loc'.list = loc.list /\ loc'.team = loc.team
      /\ loc'.hooks = hooks
  BY <1>1, <1>2 DEF Memory, TypeOK
<1>4. /\ hooks' \in Seq(Hook) /\ lastId' \in Nat /\ lastId <= lastId'
      /\ \A i, j \in 1 .. Len(hooks') : hooks'[i].id = hooks'[j].id => i = j
      /\ \A i \in 1 .. Len(hooks') : hooks'[i].id <= lastId'
      /\ (~ghost.twice /\ settings.hook # "present") \/ ghost.alone => Len(hooks') <= 1
  BY <1>1, <1>2, Domains DEF Ids, Doubles, Alone, TypeOK
<1> QED
  BY <1>2, <1>3, <1>4, HookFrame

\* The webhook is made, updated, deleted, or left.
LEMMA HookReconciled == VikunjaInv /\ ReconcileWebhook => VikunjaInv'
<1> SUFFICES ASSUME VikunjaInv, ReconcileWebhook PROVE VikunjaInv'
  OBVIOUS
<1>1. TypeOK /\ Ids /\ Plan /\ Doubles /\ Alone /\ Things
  BY DEF VikunjaInv
<1>2. /\ UNCHANGED <<result, bounds, loc, projects, labels, teams, users, ghost>>
      /\ pc = "hook" /\ pc' = "done"
  BY DEF ReconcileWebhook, Goto
<1>3. /\ loc' \in Memory /\ loc'.list = loc.list /\ loc'.team = loc.team
      /\ loc.names = {} /\ loc'.names = {}
  BY <1>1, <1>2 DEF Plan, TypeOK
<1>4. /\ hooks \in Seq(Hook) /\ lastId \in Nat
      /\ DOMAIN hooks = 1 .. Len(hooks) /\ Len(hooks) \in Nat
      /\ \A i \in 1 .. Len(hooks) : hooks[i] \in Hook /\ hooks[i].id <= lastId
      /\ \A i, j \in 1 .. Len(hooks) : hooks[i].id = hooks[j].id => i = j
      /\ (~ghost.twice /\ settings.hook # "present") \/ ghost.alone => Len(hooks) <= 1
      /\ ghost.quiet => loc.hooks = hooks
      /\ ghost.alone => ghost.quiet
      /\ \A h \in Hook : h.id \in Nat
  BY <1>1, <1>2, Domains DEF Ids, Doubles, Alone, Things, Hook, TypeOK
<1>5. CASE CreateWebhook
  <2> DEFINE h == [id |-> lastId + 1, good |-> TRUE]
  <2>1. /\ settings.hook = "present" /\ loc.hooks = <<>>
        /\ hooks' = Append(hooks, h) /\ lastId' = lastId + 1
    BY <1>5 DEF CreateWebhook
  <2>2. h \in Hook /\ h.id = lastId + 1 /\ h.good = TRUE
    BY <1>4 DEF Hook
  <2> HIDE DEF h
  <2>3. /\ hooks' \in Seq(Hook) /\ Len(hooks') = Len(hooks) + 1 /\ hooks'[Len(hooks) + 1] = h
        /\ \A i \in 1 .. Len(hooks) : hooks'[i] = hooks[i]
    BY <1>4, <2>1, <2>2, AppendProperties
  <2>4. \A i \in 1 .. Len(hooks') : i \in 1 .. Len(hooks) \/ i = Len(hooks) + 1
    BY <1>4, <2>3
  <2>5. /\ \A i \in 1 .. Len(hooks') : hooks'[i].id <= lastId'
        /\ \A i, j \in 1 .. Len(hooks') : hooks'[i].id = hooks'[j].id => i = j
    <3>1. \A i \in 1 .. Len(hooks) :
              /\ hooks'[i].id = hooks[i].id /\ hooks[i].id \in Nat
              /\ hooks'[i].id <= lastId /\ hooks'[i].id # lastId + 1
      <4>1. \A n \in Nat : n <= lastId => n # lastId + 1
        BY <1>4
      <4>2. \A i \in 1 .. Len(hooks) : hooks[i].id \in Nat /\ hooks[i].id <= lastId
        BY <1>4
      <4> HIDE <1>4
      <4> QED
        BY <2>3, <4>1, <4>2
    <3>2. hooks'[Len(hooks) + 1].id = lastId + 1
      BY <2>2, <2>3
    <3> QED
      BY <1>4, <2>1, <2>4, <3>1, <3>2
  <2>6. ghost.quiet => Len(hooks') = 1 /\ hooks'[1].good /\ hooks' # <<>>
    BY <1>4, <2>1, <2>2, <2>3
  <2>7. lastId' \in Nat /\ lastId <= lastId'
    BY <1>4, <2>1
  <2> QED
    BY <1>2, <1>3, <1>4, <2>1, <2>3, <2>5, <2>6, <2>7, HookFrame
<1>6. CASE UpdateWebhook
  <2>1. PICK k \in HookAt(loc.hooks[1].id) : hooks' = [hooks EXCEPT ![k].good = TRUE]
    BY <1>6 DEF UpdateWebhook
  <2>2. /\ settings.hook = "present" /\ loc.hooks # <<>> /\ lastId' = lastId
        /\ k \in 1 .. Len(hooks) /\ hooks[k].id = loc.hooks[1].id
    BY <1>6, <2>1 DEF UpdateWebhook, HookAt
  <2> DEFINE h == [hooks[k] EXCEPT !.good = TRUE]
  <2>3. h \in Hook /\ h.id = hooks[k].id /\ h.good = TRUE
    BY <1>4, <2>2 DEF Hook
  <2>4. hooks' = [hooks EXCEPT ![k] = h]
    BY <2>1
  <2> HIDE DEF h
  <2>5. /\ hooks' \in Seq(Hook) /\ Len(hooks') = Len(hooks)
        /\ \A j \in 1 .. Len(hooks) : hooks'[j] = IF j = k THEN h ELSE hooks[j]
    BY <1>4, <2>2, <2>3, <2>4, ExceptSeq
  <2>6. \A i \in 1 .. Len(hooks) : hooks'[i].id = hooks[i].id
    BY <2>3, <2>5
  <2>7. ghost.quiet => hooks' # <<>> /\ hooks'[1].good
    <3> SUFFICES ASSUME ghost.quiet PROVE hooks' # <<>> /\ hooks'[1].good
      OBVIOUS
    <3>1. 1 \in 1 .. Len(hooks)
      BY <1>4, <2>2
    <3>2. k = 1
      BY <1>4, <2>2, <3>1
    <3> QED
      BY <2>2, <2>3, <2>5, <3>2
  <2>8. lastId' \in Nat /\ lastId <= lastId'
    BY <1>4, <2>2
  <2>9. /\ \A i \in 1 .. Len(hooks') : hooks'[i].id <= lastId'
        /\ \A i, j \in 1 .. Len(hooks') : hooks'[i].id = hooks'[j].id => i = j
        /\ (~ghost.twice /\ settings.hook # "present") \/ ghost.alone => Len(hooks') <= 1
    BY <1>4, <2>2, <2>5, <2>6
  <2> QED
    BY <1>2, <1>3, <2>2, <2>5, <2>7, <2>8, <2>9, HookFrame
<1>7. CASE DeleteWebhook
  <2>1. PICK k \in HookAt(loc.hooks[1].id) : hooks' = RemoveAt(hooks, k)
    BY <1>7 DEF DeleteWebhook
  <2>2. settings.hook = "absent" /\ lastId' = lastId /\ k \in 1 .. Len(hooks)
    BY <1>7, <2>1 DEF DeleteWebhook, HookAt
  <2>3. /\ hooks' \in Seq(Hook) /\ Len(hooks') = Len(hooks) - 1
        /\ \A i \in 1 .. Len(hooks) - 1 : hooks'[i] = IF i < k THEN hooks[i] ELSE hooks[i + 1]
    <3>1. hooks \in Seq(Hook) /\ k \in 1 .. Len(hooks)
      BY <1>4, <2>2
    <3>2. /\ RemoveAt(hooks, k) \in Seq(Hook) /\ Len(RemoveAt(hooks, k)) = Len(hooks) - 1
          /\ \A i \in 1 .. Len(hooks) - 1 :
                 RemoveAt(hooks, k)[i] = IF i < k THEN hooks[i] ELSE hooks[i + 1]
      BY <3>1, RemovedIsGone
    <3> QED
      BY <2>1, <3>2
  <2> DEFINE Was(i) == IF i < k THEN i ELSE i + 1
  <2>4. /\ \A i \in 1 .. Len(hooks') : Was(i) \in 1 .. Len(hooks) /\ hooks'[i] = hooks[Was(i)]
        /\ \A i, j \in 1 .. Len(hooks') : Was(i) = Was(j) => i = j
    BY <1>4, <2>2, <2>3
  <2> HIDE DEF Was
  <2>5. /\ \A i \in 1 .. Len(hooks') : hooks'[i].id <= lastId'
        /\ \A i, j \in 1 .. Len(hooks') : hooks'[i].id = hooks'[j].id => i = j
    BY <1>4, <2>2, <2>4, SMTT(30)
  <2>6. (~ghost.twice /\ settings.hook # "present") \/ ghost.alone => Len(hooks') <= 1
    BY <1>4, <2>3
  <2>7. ~ghost.twice => hooks' = <<>>
    <3>1. ~ghost.twice => Len(hooks') = 0
      BY <1>4, <2>2, <2>3
    <3> QED
      BY <2>3, <3>1, EmptySeq
  <2>8. lastId' \in Nat /\ lastId <= lastId'
    BY <1>4, <2>2
  <2> QED
    BY <1>2, <1>3, <2>2, <2>3, <2>5, <2>6, <2>7, <2>8, HookFrame
<1>8. CASE WebhookAsDeclared
  <2>1. /\ hooks' = hooks /\ lastId' = lastId
        /\ settings.hook = "present" => loc.hooks # <<>> /\ loc.hooks[1].good
        /\ settings.hook = "absent" => loc.hooks = <<>>
    BY <1>8 DEF WebhookAsDeclared
  <2>2. lastId' \in Nat /\ lastId <= lastId'
    BY <1>4, <2>1
  <2> QED
    BY <1>2, <1>3, <1>4, <2>1, <2>2, HookFrame
<1> QED
  BY <1>5, <1>6, <1>7, <1>8 DEF ReconcileWebhook

-----------------------------------------------------------------------------
(* What others do.                                                         *)

\* Interference is remembered, and so is what it doubles.
LEMMA Remembered ==
  ASSUME TypeOK, Changed
  PROVE  /\ ghost' \in [quiet : BOOLEAN, fits : BOOLEAN, twice : BOOLEAN, alone : BOOLEAN]
         /\ ~ghost'.quiet /\ ~ghost'.alone
         /\ ~ghost'.twice => /\ ~(Len(hooks') > 1)
                             /\ \A n \in Names : ~Doubled(n, teams')
<1> DEFINE more == Len(hooks') > 1 \/ \E n \in Names : Doubled(n, teams')
<1>1. ghost \in [quiet : BOOLEAN, fits : BOOLEAN, twice : BOOLEAN, alone : BOOLEAN]
  BY DEF TypeOK
<1>2. ghost' = [ghost EXCEPT !.quiet = FALSE, !.alone = FALSE, !.twice = ghost.twice \/ more]
  BY Zenon DEF Changed
<1>3. ~more => /\ ~(Len(hooks') > 1)
               /\ \A n \in Names : ~Doubled(n, teams')
  BY Zenon
<1> HIDE DEF more
<1>4. ASSUME NEW b \in BOOLEAN,
             ghost' = [ghost EXCEPT !.quiet = FALSE, !.alone = FALSE, !.twice = b]
      PROVE  /\ ghost' \in [quiet : BOOLEAN, fits : BOOLEAN, twice : BOOLEAN, alone : BOOLEAN]
             /\ ~ghost'.quiet /\ ~ghost'.alone /\ (~ghost'.twice => ~b)
  BY <1>1, <1>4
<1>5. (ghost.twice \/ more) \in BOOLEAN
  BY Zenon
<1>6. /\ ghost' \in [quiet : BOOLEAN, fits : BOOLEAN, twice : BOOLEAN, alone : BOOLEAN]
      /\ ~ghost'.quiet /\ ~ghost'.alone /\ (~ghost'.twice => ~(ghost.twice \/ more))
  BY <1>2, <1>4, <1>5, Zenon
<1> QED
  BY <1>3, <1>6, Zenon

\* Others' changes leave the run what it knows of names and ids.
LEMMA OthersFrame ==
  ASSUME VikunjaInv, Theirs, teams' \in Seq(Team), hooks' \in Seq(Hook), lastId' \in Nat,
         lastId <= lastId', users' \subseteq People, projects' \in Nat, labels' \in Nat,
         \A i, j \in 1 .. Len(teams') : teams'[i].id = teams'[j].id => i = j,
         \A i, j \in 1 .. Len(hooks') : hooks'[i].id = hooks'[j].id => i = j,
         \A i \in 1 .. Len(teams') : teams'[i].id <= lastId',
         \A i \in 1 .. Len(hooks') : hooks'[i].id <= lastId',
         \A i \in 1 .. Len(teams') :
             \/ \E j \in 1 .. Len(teams) :
                    teams'[i].id = teams[j].id /\ teams'[i].name = teams[j].name
             \/ teams'[i].id = lastId + 1
  PROVE  VikunjaInv'
<1>1. TypeOK /\ Ids /\ SameTeam /\ Plan
  BY DEF VikunjaInv
<1>2. UNCHANGED <<settings, pc, loc, result, faults>> /\ Changed
  BY DEF Theirs
<1>3. changes' \in 0 .. MaxChanges
  BY <1>1, BoundsAssumption DEF Theirs, ChangeBound, TypeOK
<1>4. /\ ghost' \in [quiet : BOOLEAN, fits : BOOLEAN, twice : BOOLEAN, alone : BOOLEAN]
      /\ ~ghost'.quiet /\ ~ghost'.alone
      /\ ~ghost'.twice => ~(Len(hooks') > 1) /\ \A n \in Names : ~Doubled(n, teams')
  BY <1>1, <1>2, Remembered
<1>5. TypeOK'
  BY <1>1, <1>2, <1>3, <1>4 DEF TypeOK
<1>6. /\ DOMAIN teams = 1 .. Len(teams) /\ DOMAIN loc.list = 1 .. Len(loc.list)
      /\ DOMAIN teams' = 1 .. Len(teams') /\ DOMAIN hooks' = 1 .. Len(hooks') /\ Len(hooks') \in Nat
  BY <1>1, Domains, LenProperties
<1>7. /\ \A j \in 1 .. Len(loc.list) : loc.list[j].id \in Nat /\ loc.list[j].id <= lastId
      /\ loc.team.id \in Nat /\ loc.team.id <= lastId /\ lastId \in Nat
  BY <1>1, <1>6, Domains, MemoryParts DEF Ids, Team, TypeOK
<1>8. \A n \in Nat : n <= lastId => n <= lastId' /\ n # lastId + 1
  BY <1>7
<1>9. Ids'
  BY <1>2, <1>6, <1>7, <1>8 DEF Ids
<1>10. SameTeam'
  <2> SUFFICES ASSUME NEW i \in 1 .. Len(teams')
               PROVE  /\ \A j \in 1 .. Len(loc.list) :
                             loc.list[j].id = teams'[i].id => loc.list[j].name = teams'[i].name
                      /\ pc \in {"add", "remove"} /\ loc.team.id = teams'[i].id =>
                             loc.team.name = teams'[i].name
    BY <1>2, <1>6 DEF SameTeam
  <2>1. CASE teams'[i].id = lastId + 1
    BY <1>7, <1>8, <2>1
  <2>2. ASSUME NEW k \in 1 .. Len(teams), teams'[i].id = teams[k].id, teams'[i].name = teams[k].name
        PROVE  /\ \A j \in 1 .. Len(loc.list) :
                      loc.list[j].id = teams'[i].id => loc.list[j].name = teams'[i].name
               /\ pc \in {"add", "remove"} /\ loc.team.id = teams'[i].id =>
                      loc.team.name = teams'[i].name
    <3>1. /\ \A j \in 1 .. Len(loc.list) :
                loc.list[j].id = teams[k].id => loc.list[j].name = teams[k].name
          /\ pc \in {"add", "remove"} /\ loc.team.id = teams[k].id =>
                loc.team.name = teams[k].name
      BY <1>1, <1>6 DEF SameTeam
    <3> QED
      BY <2>2, <3>1
  <2> QED
    BY <2>1, <2>2
<1>11. Plan'
  BY <1>1, <1>2 DEF Plan, DeclaredNames, PresentNames
<1>12. Doubles'
  <2>1. ~(Len(hooks') > 1) => Len(hooks') <= 1
    BY <1>6
  <2> QED
    BY <1>4, <2>1 DEF Doubles
<1>13. Alone' /\ Things' /\ TeamsKnown' /\ MembersKnown'
  BY <1>4 DEF Alone, Things, TeamsKnown, MembersKnown
<1> QED
  BY <1>5, <1>9, <1>10, <1>11, <1>12, <1>13 DEF VikunjaInv

\* Of the teams and the webhooks that are left as they are, what is known.
LEMMA AsTheyWere ==
  ASSUME VikunjaInv, NEW last, last = lastId \/ last = lastId + 1
  PROVE  /\ last \in Nat /\ lastId <= last
         /\ \A i, j \in 1 .. Len(teams) : teams[i].id = teams[j].id => i = j
         /\ \A i, j \in 1 .. Len(hooks) : hooks[i].id = hooks[j].id => i = j
         /\ \A i \in 1 .. Len(teams) :
                teams[i].id \in Nat /\ teams[i].id <= last /\ teams[i].id <= lastId
         /\ \A i \in 1 .. Len(hooks) :
                hooks[i].id \in Nat /\ hooks[i].id <= last /\ hooks[i].id <= lastId
<1>1. TypeOK /\ Ids
  BY DEF VikunjaInv
<1>2. /\ DOMAIN teams = 1 .. Len(teams) /\ DOMAIN hooks = 1 .. Len(hooks)
      /\ \A i \in 1 .. Len(teams) : teams[i].id \in Nat
      /\ \A i \in 1 .. Len(hooks) : hooks[i].id \in Nat
  BY <1>1, Domains DEF Team, Hook
<1>3. lastId \in Nat
  BY <1>1 DEF TypeOK
<1>4. last \in Nat /\ lastId <= last /\ \A n \in Nat : n <= lastId => n <= last
  BY <1>3
<1> QED
  BY <1>1, <1>2, <1>4 DEF Ids

\* Others change projects, labels and accounts.
LEMMA OthersThings == VikunjaInv /\ (ChangeThings \/ SignIn) => VikunjaInv'
<1> SUFFICES ASSUME VikunjaInv, ChangeThings \/ SignIn PROVE VikunjaInv'
  OBVIOUS
<1>1. TypeOK
  BY DEF VikunjaInv
<1>2. /\ Theirs /\ UNCHANGED <<teams, lastId, hooks>>
      /\ projects' \in Nat /\ labels' \in Nat /\ users' \subseteq People
  BY <1>1 DEF ChangeThings, SignIn, TypeOK
<1>3. teams' \in Seq(Team) /\ hooks' \in Seq(Hook)
  BY <1>1, <1>2 DEF TypeOK
<1>4. lastId' = lastId
  BY <1>2
<1>5. /\ lastId' \in Nat /\ lastId <= lastId'
      /\ \A i, j \in 1 .. Len(teams') : teams'[i].id = teams'[j].id => i = j
      /\ \A i, j \in 1 .. Len(hooks') : hooks'[i].id = hooks'[j].id => i = j
      /\ \A i \in 1 .. Len(teams') : teams'[i].id <= lastId'
      /\ \A i \in 1 .. Len(hooks') : hooks'[i].id <= lastId'
  BY <1>2, <1>4, AsTheyWere
<1> QED
  BY <1>2, <1>3, <1>5, OthersFrame

\* Others change the teams.
LEMMA OthersTeams == VikunjaInv /\ ChangeTeams => VikunjaInv'
<1> SUFFICES ASSUME VikunjaInv, ChangeTeams PROVE VikunjaInv'
  OBVIOUS
<1>1. TypeOK
  BY DEF VikunjaInv
<1>2. /\ Theirs /\ UNCHANGED <<projects, labels, users, hooks>>
      /\ lastId' = lastId \/ lastId' = lastId + 1
  BY DEF ChangeTeams
<1>3. /\ projects' \in Nat /\ labels' \in Nat /\ users' \subseteq People /\ hooks' \in Seq(Hook)
      /\ Len(teams) \in Nat /\ teams \in Seq(Team)
      /\ \A i \in 1 .. Len(teams) : teams[i] \in Team
  BY <1>1, <1>2, Domains DEF TypeOK
<1>4. /\ lastId' \in Nat /\ lastId <= lastId'
      /\ \A i, j \in 1 .. Len(teams) : teams[i].id = teams[j].id => i = j
      /\ \A i, j \in 1 .. Len(hooks') : hooks'[i].id = hooks'[j].id => i = j
      /\ \A i \in 1 .. Len(teams) :
             teams[i].id \in Nat /\ teams[i].id <= lastId' /\ teams[i].id <= lastId
      /\ \A i \in 1 .. Len(hooks') : hooks'[i].id <= lastId'
  BY <1>2, AsTheyWere
<1>5. ASSUME NEW n \in Names \cup {0}, lastId' = lastId + 1,
             teams' = Append(teams, [id |-> lastId + 1, name |-> n, desc |-> "y",
                                     members |-> {"bot"}])
      PROVE  VikunjaInv'
  <2> DEFINE e == [id |-> lastId + 1, name |-> n, desc |-> "y", members |-> {"bot"}]
  <2>1. e \in Team /\ e.id = lastId + 1 /\ lastId \in Nat
    BY <1>1 DEF Team, TypeOK
  <2>2. teams' = Append(teams, e)
    BY <1>5
  <2> HIDE DEF e
  <2>3. /\ teams' \in Seq(Team) /\ Len(teams') = Len(teams) + 1 /\ teams'[Len(teams) + 1] = e
        /\ \A i \in 1 .. Len(teams) : teams'[i] = teams[i]
    BY <1>1, <2>1, <2>2, Made
  <2>4. \A i \in 1 .. Len(teams') : i \in 1 .. Len(teams) \/ i = Len(teams) + 1
    BY <1>3, <2>3
  <2>5. \A i \in 1 .. Len(teams) : teams'[i].id <= lastId' /\ teams'[i].id # lastId + 1
    <3>1. \A m \in Nat : m <= lastId => m # lastId + 1
      BY <2>1
    <3> QED
      BY <1>4, <2>3, <3>1
  <2>6. \A i, j \in 1 .. Len(teams') : teams'[i].id = teams'[j].id => i = j
    BY <1>4, <2>1, <2>3, <2>4, <2>5
  <2>7. \A i \in 1 .. Len(teams') : teams'[i].id <= lastId'
    BY <1>5, <2>1, <2>3, <2>4, <2>5
  <2>8. \A i \in 1 .. Len(teams') :
            \/ \E j \in 1 .. Len(teams) :
                   teams'[i].id = teams[j].id /\ teams'[i].name = teams[j].name
            \/ teams'[i].id = lastId + 1
    BY <2>1, <2>3, <2>4
  <2> QED
    BY <1>2, <1>3, <1>4, <2>3, <2>6, <2>7, <2>8, OthersFrame
<1>6. ASSUME NEW k \in 1 .. Len(teams), teams' = RemoveAt(teams, k)
      PROVE  VikunjaInv'
  <2>1. /\ teams' \in Seq(Team) /\ Len(teams') = Len(teams) - 1
        /\ \A i \in 1 .. Len(teams) - 1 : teams'[i] = IF i < k THEN teams[i] ELSE teams[i + 1]
    BY <1>3, <1>6, RemovedIsGone
  <2> DEFINE Was(i) == IF i < k THEN i ELSE i + 1
  <2>2. /\ \A i \in 1 .. Len(teams') : Was(i) \in 1 .. Len(teams) /\ teams'[i] = teams[Was(i)]
        /\ \A i, j \in 1 .. Len(teams') : Was(i) = Was(j) => i = j
    BY <1>3, <2>1
  <2> HIDE DEF Was
  <2>3. /\ \A i, j \in 1 .. Len(teams') : teams'[i].id = teams'[j].id => i = j
        /\ \A i \in 1 .. Len(teams') : teams'[i].id <= lastId'
        /\ \A i \in 1 .. Len(teams') :
               \/ \E j \in 1 .. Len(teams) :
                      teams'[i].id = teams[j].id /\ teams'[i].name = teams[j].name
               \/ teams'[i].id = lastId + 1
    <3>1. \A i, j \in 1 .. Len(teams') : teams'[i].id = teams'[j].id => i = j
      BY <1>4, <2>2, SMTT(30)
    <3>2. \A i \in 1 .. Len(teams') : teams'[i].id <= lastId'
      BY <1>4, <2>2
    <3>3. \A i \in 1 .. Len(teams') : \E j \in 1 .. Len(teams) :
              teams'[i].id = teams[j].id /\ teams'[i].name = teams[j].name
      BY <2>2
    <3> QED
      BY <3>1, <3>2, <3>3
  <2> QED
    BY <1>2, <1>3, <1>4, <2>1, <2>3, OthersFrame
<1>7. ASSUME NEW k \in 1 .. Len(teams), NEW who \in users \cup {"bot"},
             teams' = [teams EXCEPT ![k].members = IF who \in @ THEN @ \ {who} ELSE @ \cup {who}]
      PROVE  VikunjaInv'
  <2> DEFINE m == IF who \in teams[k].members THEN teams[k].members \ {who}
                  ELSE teams[k].members \cup {who}
  <2>1. m \in SUBSET (People \cup {"bot"})
    <3>1. teams[k].members \subseteq People \cup {"bot"} /\ users \subseteq People
      BY <1>1, <1>3 DEF Team, TypeOK
    <3> QED
      BY <3>1
  <2>2. teams' = [teams EXCEPT ![k].members = m]
    BY <1>7
  <2> HIDE DEF m
  <2>3. Touched(k)
    BY <1>1, <2>1, <2>2, Remanned
  <2>4. /\ \A i, j \in 1 .. Len(teams') : teams'[i].id = teams'[j].id => i = j
        /\ \A i \in 1 .. Len(teams') : teams'[i].id <= lastId'
        /\ \A i \in 1 .. Len(teams') :
               \/ \E j \in 1 .. Len(teams) :
                      teams'[i].id = teams[j].id /\ teams'[i].name = teams[j].name
               \/ teams'[i].id = lastId + 1
    BY <1>4, <2>3 DEF Touched
  <2>5. teams' \in Seq(Team)
    BY <2>3 DEF Touched
  <2> QED
    BY <1>2, <1>3, <1>4, <2>4, <2>5, OthersFrame
<1> QED
  BY <1>5, <1>6, <1>7 DEF ChangeTeams

\* Others make a webhook, or delete the first.
LEMMA OthersHooks == VikunjaInv /\ ChangeHooks => VikunjaInv'
<1> SUFFICES ASSUME VikunjaInv, ChangeHooks PROVE VikunjaInv'
  OBVIOUS
<1>1. TypeOK
  BY DEF VikunjaInv
<1>2. /\ Theirs /\ UNCHANGED <<projects, labels, teams, users>>
      /\ lastId' = lastId \/ lastId' = lastId + 1
  BY DEF ChangeHooks
<1>3. /\ projects' \in Nat /\ labels' \in Nat /\ users' \subseteq People /\ teams' \in Seq(Team)
      /\ Len(hooks) \in Nat /\ hooks \in Seq(Hook) /\ lastId \in Nat
  BY <1>1, <1>2, Domains DEF TypeOK
<1>4. /\ lastId' \in Nat /\ lastId <= lastId'
      /\ \A i, j \in 1 .. Len(teams') : teams'[i].id = teams'[j].id => i = j
      /\ \A i, j \in 1 .. Len(hooks) : hooks[i].id = hooks[j].id => i = j
      /\ \A i \in 1 .. Len(teams') : teams'[i].id <= lastId'
      /\ \A i \in 1 .. Len(hooks) :
             hooks[i].id \in Nat /\ hooks[i].id <= lastId' /\ hooks[i].id <= lastId
      /\ \A i \in 1 .. Len(teams') : \E j \in 1 .. Len(teams) :
             teams'[i].id = teams[j].id /\ teams'[i].name = teams[j].name
  BY <1>2, AsTheyWere
<1>5. CASE hooks' = Append(hooks, [id |-> lastId + 1, good |-> FALSE]) /\ lastId' = lastId + 1
  <2> DEFINE h == [id |-> lastId + 1, good |-> FALSE]
  <2>1. h \in Hook /\ h.id = lastId + 1
    BY <1>3 DEF Hook
  <2>2. hooks' = Append(hooks, h)
    BY <1>5
  <2> HIDE DEF h
  <2>3. /\ hooks' \in Seq(Hook) /\ Len(hooks') = Len(hooks) + 1 /\ hooks'[Len(hooks) + 1] = h
        /\ \A i \in 1 .. Len(hooks) : hooks'[i] = hooks[i]
    BY <1>3, <2>1, <2>2, AppendProperties
  <2>4. \A i \in 1 .. Len(hooks') : i \in 1 .. Len(hooks) \/ i = Len(hooks) + 1
    BY <1>3, <2>3
  <2>5. \A i \in 1 .. Len(hooks) : hooks'[i].id <= lastId' /\ hooks'[i].id # lastId + 1
    <3>1. \A m \in Nat : m <= lastId => m # lastId + 1
      BY <1>3
    <3> QED
      BY <1>4, <2>3, <3>1
  <2>6. /\ \A i, j \in 1 .. Len(hooks') : hooks'[i].id = hooks'[j].id => i = j
        /\ \A i \in 1 .. Len(hooks') : hooks'[i].id <= lastId'
    BY <1>4, <1>5, <2>1, <2>3, <2>4, <2>5
  <2> QED
    BY <1>2, <1>3, <1>4, <2>3, <2>6, OthersFrame
<1>6. CASE hooks # <<>> /\ hooks' = Tail(hooks)
  <2>1. /\ hooks' \in Seq(Hook) /\ Len(hooks') = Len(hooks) - 1
        /\ \A i \in 1 .. Len(hooks') : hooks'[i] = hooks[i + 1]
    BY <1>3, <1>6, HeadTailProperties
  <2> DEFINE Was(i) == i + 1
  <2>2. /\ \A i \in 1 .. Len(hooks') : Was(i) \in 1 .. Len(hooks) /\ hooks'[i] = hooks[Was(i)]
        /\ \A i, j \in 1 .. Len(hooks') : Was(i) = Was(j) => i = j
    BY <1>3, <2>1
  <2> HIDE DEF Was
  <2>3. \A i, j \in 1 .. Len(hooks') : hooks'[i].id = hooks'[j].id => i = j
    <3> SUFFICES ASSUME NEW i \in 1 .. Len(hooks'), NEW j \in 1 .. Len(hooks'),
                        hooks'[i].id = hooks'[j].id
                 PROVE  i = j
      OBVIOUS
    <3>1. Was(i) = Was(j)
      <4>1. /\ Was(i) \in 1 .. Len(hooks) /\ Was(j) \in 1 .. Len(hooks)
            /\ hooks[Was(i)].id = hooks[Was(j)].id
        BY <2>2
      <4> QED
        BY <1>4, <4>1
    <3> QED
      BY <2>2, <3>1
  <2>4. \A i \in 1 .. Len(hooks') : hooks'[i].id <= lastId'
    BY <1>4, <2>2
  <2> QED
    BY <1>2, <1>3, <1>4, <2>1, <2>3, <2>4, OthersFrame
<1> QED
  BY <1>5, <1>6 DEF ChangeHooks

-----------------------------------------------------------------------------
(* The theorems.                                                           *)

\* Every step keeps the invariant.
LEMMA VikunjaStep == VikunjaInv /\ [Next]_vars => VikunjaInv'
<1> SUFFICES ASSUME VikunjaInv, [Next]_vars PROVE VikunjaInv'
  OBVIOUS
<1>1. CASE UNCHANGED vars
  <2>1. /\ UNCHANGED <<settings, faults, changes, pc, loc, result>>
        /\ UNCHANGED <<projects, labels, teams, lastId, users, hooks, ghost>>
    BY <1>1 DEF vars, bounds, server
  <2>2. TypeOK' /\ Ids' /\ SameTeam' /\ Plan'
    BY <2>1 DEF VikunjaInv, TypeOK, Ids, SameTeam, Plan, DeclaredNames, PresentNames
  <2>3. Doubles' /\ Alone' /\ Things'
    BY <2>1 DEF VikunjaInv, Doubles, Alone, Things, PresentNames, ProjectDone, LabelDone,
                TeamsDone, Succeeded
  <2>4. TeamsKnown'
    BY <2>1 DEF VikunjaInv, TeamsKnown, TeamsToCome, TeamsDone, Succeeded, Settled, Known,
                DeclaredNames
  <2>5. MembersKnown'
    BY <2>1 DEF VikunjaInv, MembersKnown, TeamsDone, Succeeded, Manned, ToAdd, ToRemove,
                PresentNames
  <2> QED
    BY <2>2, <2>3, <2>4, <2>5 DEF VikunjaInv
<1> QED
  BY <1>1, StartStep, EndSteps, ThingsRead, ThingsMade, TeamsListed, TeamReconciled, TeamGot,
     MemberAdded, MemberRemoved, HooksListed, HookReconciled, OthersThings, OthersTeams,
     OthersHooks DEF Next, Rest

\* The invariant holds throughout.
LEMMA VikunjaInvariant == Spec => []VikunjaInv
<1> QED
  BY InitVikunja, VikunjaStep, PTL DEF Spec

\* Types, for any declarations.
THEOREM VikunjaTyping == Spec => []TypeOK
<1>1. VikunjaInv => TypeOK
  BY DEF VikunjaInv
<1> QED
  BY <1>1, VikunjaInvariant, PTL

\* Runs on their own make nothing twice, in the order in which reconcile_teams
\* lists, creates and lists again, whatever is killed or lost between.
THEOREM NothingTwice == Spec => []NothingMadeTwice
<1>1. VikunjaInv => NothingMadeTwice
  BY DEF VikunjaInv, Alone, NothingMadeTwice
<1> QED
  BY <1>1, VikunjaInvariant, PTL

\* A run with the server to itself that succeeds leaves what is declared, if the
\* teams fit on the page that reconcile_teams reads.
THEOREM SuccessDeclares == Spec => []SuccessMeansDeclared
<1>1. ASSUME VikunjaInv PROVE SuccessMeansDeclared
  <2> SUFFICES ASSUME result = "ok", ghost.quiet
               PROVE  /\ settings.things => projects = 1 /\ labels = 1
                      /\ ghost.fits /\ Len(teams) <= PageSize =>
                           \A name \in DeclaredNames :
                              LET spec == settings.teams[name]
                                  found == Found(name, teams)
                              IN IF spec.state = "present"
                                 THEN /\ Listed(name, teams)
                                      /\ found.desc = spec.desc
                                      /\ spec.members \cap users \subseteq found.members
                                      /\ ~settings.keep =>
                                             found.members \subseteq spec.members \cup {"bot"}
                                 ELSE settings.delete /\ ~settings.keep =>
                                          ~Listed(name, teams) \/ ghost.twice
                      /\ settings.hook = "present" => hooks # <<>> /\ hooks[1].good
                      /\ settings.hook = "absent" => hooks = <<>> \/ ghost.twice
    BY DEF SuccessMeansDeclared
  <2>1. Plan /\ Things /\ TeamsKnown /\ MembersKnown
    BY <1>1 DEF VikunjaInv
  <2>2. pc = "idle" /\ loc.names = {} /\ TeamsDone /\ LabelDone /\ ProjectDone /\ Succeeded
    BY <2>1 DEF Plan, TeamsDone, LabelDone, ProjectDone, Succeeded
  <2>3. /\ settings.things => projects = 1 /\ labels = 1
        /\ settings.hook = "present" => hooks # <<>> /\ hooks[1].good
        /\ settings.hook = "absent" => hooks = <<>> \/ ghost.twice
    BY <2>1, <2>2 DEF Things
  <2>4. ASSUME ghost.fits, Len(teams) <= PageSize, NEW name \in DeclaredNames
        PROVE  IF settings.teams[name].state = "present"
               THEN /\ Listed(name, teams)
                    /\ Found(name, teams).desc = settings.teams[name].desc
                    /\ settings.teams[name].members \cap users \subseteq Found(name, teams).members
                    /\ ~settings.keep => Found(name, teams).members \subseteq
                                             settings.teams[name].members \cup {"bot"}
               ELSE settings.delete /\ ~settings.keep => ~Listed(name, teams) \/ ghost.twice
    <3>1. Settled(name)
      BY <2>1, <2>2, <2>4 DEF TeamsKnown
    <3>2. CASE settings.teams[name].state = "present"
      <4>1. name \in PresentNames
        BY <3>2 DEF PresentNames, DeclaredNames
      <4>2. Manned(name)
        BY <2>1, <2>2, <2>4, <4>1 DEF MembersKnown
      <4> QED
        BY <2>2, <3>1, <3>2, <4>2 DEF Settled, Manned, ToAdd, ToRemove
    <3>3. CASE settings.teams[name].state # "present"
      BY <3>1, <3>3 DEF Settled
    <3> QED
      BY <3>2, <3>3
  <2> QED
    BY <2>3, <2>4
<1> QED
  BY <1>1, VikunjaInvariant, PTL

-----------------------------------------------------------------------------
(* Who stays.                                                              *)

\* What MembersKept says of the team at place i.
Kept(i) ==
    LET t == teams[i]
        after == {j \in 1 .. Len(teams') : teams'[j].id = t.id}
    IN IF after = {}
       THEN /\ t.name \in DeclaredNames \ PresentNames
            /\ settings.delete /\ ~settings.keep
       ELSE \A j \in after :
              t.members \ teams'[j].members # {} =>
                  /\ t.name \in PresentNames /\ ~settings.keep
                  /\ (t.members \ teams'[j].members)
                        \cap (settings.teams[t.name].members \cup {"bot"}) = {}

\* A team that is still there, and where no member is missing.
LEMMA KeptThere ==
  ASSUME NEW i \in 1 .. Len(teams), NEW j \in 1 .. Len(teams'), teams'[j].id = teams[i].id,
         \A m \in 1 .. Len(teams') : teams'[m].id = teams[i].id => m = j,
         \/ teams'[j].members = teams[i].members
         \/ /\ teams[i].name \in PresentNames /\ ~settings.keep
            /\ (teams[i].members \ teams'[j].members)
                  \cap (settings.teams[teams[i].name].members \cup {"bot"}) = {}
  PROVE  Kept(i)
BY DEF Kept

\* Teams that are left as they are, or one of them changed otherwise.
LEMMA KeptInPlace ==
  ASSUME VikunjaInv, teams' = teams \/ \E k : Touched(k) /\ teams'[k].members = teams[k].members,
         NEW i \in 1 .. Len(teams)
  PROVE  Kept(i)
<1>1. DOMAIN teams = 1 .. Len(teams) /\ Ids
  BY Domains DEF VikunjaInv
<1>2. /\ Len(teams') = Len(teams)
      /\ \A j \in 1 .. Len(teams) :
             teams'[j].id = teams[j].id /\ teams'[j].members = teams[j].members
  BY DEF Touched
<1>3. \A m \in 1 .. Len(teams') : teams'[m].id = teams[i].id => m = i
  BY <1>1, <1>2 DEF Ids
<1> QED
  BY <1>2, <1>3, KeptThere

\* A team is created: every other stays where it is.
LEMMA KeptCreated ==
  ASSUME VikunjaInv, NEW name \in Names, settings.teams[name].desc \in {"x", "y"},
         CreateTeam(name), NEW i \in 1 .. Len(teams)
  PROVE  Kept(i)
<1> DEFINE e == [id |-> lastId + 1, name |-> name, desc |-> settings.teams[name].desc,
                 members |-> {"bot"}]
<1>1. TypeOK /\ Ids /\ DOMAIN teams = 1 .. Len(teams) /\ Len(teams) \in Nat /\ lastId \in Nat
  BY Domains DEF VikunjaInv, TypeOK
<1>2. e \in Team /\ e.id = lastId + 1 /\ teams' = Append(teams, e)
  BY <1>1 DEF Team, CreateTeam, Created
<1> HIDE DEF e
<1>3. /\ Len(teams') = Len(teams) + 1 /\ teams'[Len(teams) + 1] = e
      /\ \A j \in 1 .. Len(teams) : teams'[j] = teams[j]
  BY <1>1, <1>2, Made
<1>4. \A j \in 1 .. Len(teams') : j \in 1 .. Len(teams) \/ j = Len(teams) + 1
  BY <1>1, <1>3
<1>5. teams[i].id # lastId + 1
  <2>1. teams[i].id \in Nat /\ teams[i].id <= lastId
    BY <1>1, Domains DEF Ids, Team
  <2> QED
    BY <1>1, <2>1
<1>6. \A m \in 1 .. Len(teams') : teams'[m].id = teams[i].id => m = i
  BY <1>1, <1>2, <1>3, <1>4, <1>5 DEF Ids
<1>7. i \in 1 .. Len(teams')
  BY <1>1, <1>3
<1> QED
  BY <1>3, <1>6, <1>7, KeptThere

\* A team is deleted, and the others move up.
LEMMA KeptDeleted ==
  ASSUME VikunjaInv, NEW k \in 1 .. Len(teams), teams' = RemoveAt(teams, k),
         teams[k].name \in DeclaredNames \ PresentNames, settings.delete, ~settings.keep,
         NEW i \in 1 .. Len(teams)
  PROVE  Kept(i)
<1>1. TypeOK /\ Ids /\ DOMAIN teams = 1 .. Len(teams) /\ Len(teams) \in Nat
  BY Domains DEF VikunjaInv
<1>2. /\ Len(teams') = Len(teams) - 1
      /\ \A j \in 1 .. Len(teams) - 1 : teams'[j] = IF j < k THEN teams[j] ELSE teams[j + 1]
  BY <1>1, RemovedIsGone, ZenonT(40) DEF TypeOK
<1> DEFINE Was(j) == IF j < k THEN j ELSE j + 1
           Is == IF i < k THEN i ELSE i - 1
<1>3. \A j \in 1 .. Len(teams') : Was(j) \in 1 .. Len(teams) \ {k} /\ teams'[j] = teams[Was(j)]
  BY <1>1, <1>2
<1>4. i # k => Is \in 1 .. Len(teams') /\ Was(Is) = i
  BY <1>1, <1>2
<1>5. \A j, m \in 1 .. Len(teams') : Was(j) = Was(m) => j = m
  BY <1>1, <1>2
<1> HIDE DEF Was, Is
<1>6. \A j \in 1 .. Len(teams') : teams'[j].id = teams[i].id => Was(j) = i
  BY <1>1, <1>3 DEF Ids
<1>7. CASE i = k
  <2>1. {j \in 1 .. Len(teams') : teams'[j].id = teams[i].id} = {}
    BY <1>3, <1>6, <1>7
  <2> QED
    BY <1>7, <2>1 DEF Kept
<1>8. CASE i # k
  <2>1. /\ Is \in 1 .. Len(teams') /\ teams'[Is] = teams[i]
        /\ \A m \in 1 .. Len(teams') : teams'[m].id = teams[i].id => m = Is
    BY <1>3, <1>4, <1>5, <1>6, <1>8
  <2> QED
    BY <2>1, KeptThere
<1> QED
  BY <1>7, <1>8

\* Members of one team are changed: a new one is added, or an extra one removed.
LEMMA KeptMembers ==
  ASSUME VikunjaInv, AddMember \/ RemoveMember, NEW i \in 1 .. Len(teams)
  PROVE  Kept(i)
<1>1. TypeOK /\ Ids /\ SameTeam /\ Plan /\ DOMAIN teams = 1 .. Len(teams)
  BY Domains DEF VikunjaInv
<1>2. CASE teams' = teams
  BY <1>2, KeptInPlace
<1>3. ASSUME NEW who, NEW k, NEW m, k = At(loc.team.id), Has(loc.team.id),
             teams' = [teams EXCEPT ![k].members = m],
             \/ m = teams[k].members \cup {who} /\ who \in loc.add
             \/ pc = "remove" /\ m = teams[k].members \ {who} /\ who \in loc.remove
      PROVE  Kept(i)
  <2>1. k \in 1 .. Len(teams) /\ teams[k].id = loc.team.id
    BY <1>1, <1>3, AtIs
  <2>2. m \in SUBSET (People \cup {"bot"})
    <3>1. teams[k].members \subseteq People \cup {"bot"} /\ loc.add \subseteq People
      BY <1>1, <2>1, Domains, MemoryParts DEF Team, TypeOK
    <3> QED
      BY <1>3, <3>1
  <2>3. Touched(k) /\ teams'[k].members = m
    BY <1>1, <1>3, <2>1, <2>2, Remanned
  <2>4. /\ Len(teams') = Len(teams)
        /\ \A j \in 1 .. Len(teams) : teams'[j].id = teams[j].id
        /\ \A j \in 1 .. Len(teams) : j # k => teams'[j].members = teams[j].members
    BY <2>3 DEF Touched
  <2>5. \A j \in 1 .. Len(teams') : teams'[j].id = teams[i].id => j = i
    BY <1>1, <2>4 DEF Ids
  <2>6. CASE i # k
    BY <2>4, <2>5, <2>6, KeptThere
  <2>7. CASE i = k /\ m = teams[k].members \cup {who}
    <3>1. teams[i].members \ teams'[i].members = {}
      BY <2>3, <2>7
    <3>2. \A j \in 1 .. Len(teams') : teams'[j].id = teams[i].id =>
              teams[i].members \ teams'[j].members = {}
      BY <2>5, <3>1
    <3>3. i \in {j \in 1 .. Len(teams') : teams'[j].id = teams[i].id}
      BY <2>4
    <3> QED
      BY <3>2, <3>3 DEF Kept
  <2>8. CASE i = k /\ pc = "remove" /\ m = teams[k].members \ {who} /\ who \in loc.remove
    <3>1. teams[i].name = loc.team.name
      BY <1>1, <2>1, <2>8 DEF SameTeam
    <3>2. /\ teams[i].name \in PresentNames /\ ~settings.keep
          /\ who \notin settings.teams[teams[i].name].members \cup {"bot"}
      BY <1>1, <2>8, <3>1 DEF Plan
    <3>3. teams[i].members \ teams'[i].members \subseteq {who}
      BY <2>3, <2>8
    <3>4. (teams[i].members \ teams'[i].members)
              \cap (settings.teams[teams[i].name].members \cup {"bot"}) = {}
      BY <3>2, <3>3
    <3> QED
      BY <2>4, <2>5, <3>2, <3>4, KeptThere
  <2> QED
    BY <1>3, <2>6, <2>7, <2>8
<1>4. CASE AddMember
  <2>1. teams' = teams \/ \E who \in loc.add :
            /\ Has(loc.team.id)
            /\ teams' = [teams EXCEPT ![At(loc.team.id)].members =
                            teams[At(loc.team.id)].members \cup {who}]
    BY <1>4 DEF AddMember
  <2> QED
    BY <1>2, <1>3, <2>1
<1>5. CASE RemoveMember
  <2>1. teams' = teams \/ \E who \in loc.remove :
            /\ Has(loc.team.id) /\ pc = "remove"
            /\ teams' = [teams EXCEPT ![At(loc.team.id)].members =
                            teams[At(loc.team.id)].members \ {who}]
    BY <1>5 DEF RemoveMember
  <2> QED
    BY <1>2, <1>3, <2>1
<1> QED
  BY <1>4, <1>5

\* The step of reconcile_teams for one name.
LEMMA KeptTeams ==
  ASSUME VikunjaInv, ReconcileTeam, NEW i \in 1 .. Len(teams)
  PROVE  Kept(i)
<1>1. TypeOK /\ Ids /\ SameTeam /\ Plan
  BY DEF VikunjaInv
<1> DEFINE name == Least(loc.names)
           spec == settings.teams[name]
           found == Found(name, loc.list)
<1>2. name \in loc.names
  <2>1. loc.names \in SUBSET Nat /\ loc.names # {}
    BY <1>1, MemoryParts, NamesAssumption DEF ReconcileTeam, TypeOK
  <2> QED
    BY <2>1, LeastIsLeast
<1>3. name \in DeclaredNames /\ name \in Names /\ spec.desc \in {"x", "y"}
  BY <1>1, <1>2, Declarations DEF Plan, ReconcileTeam, TeamSpec
<1>4. \/ CreateTeam(name)
      \/ /\ Listed(name, loc.list) /\ Has(found.id)
         /\ teams' = [teams EXCEPT ![At(found.id)].desc = spec.desc]
      \/ /\ spec.state = "absent" /\ settings.delete /\ ~settings.keep
         /\ Listed(name, loc.list) /\ Has(found.id)
         /\ teams' = RemoveAt(teams, At(found.id))
      \/ teams' = teams
  BY DEF ReconcileTeam
<1> HIDE DEF name
<1>5. CASE CreateTeam(name)
  BY <1>3, <1>5, KeptCreated
<1>6. CASE /\ Listed(name, loc.list) /\ Has(found.id)
           /\ teams' = [teams EXCEPT ![At(found.id)].desc = spec.desc]
  <2> DEFINE k == At(found.id)
  <2>1. k \in 1 .. Len(teams)
    BY <1>1, <1>6, AtIs
  <2>2. teams' = [teams EXCEPT ![k].desc = spec.desc]
    BY <1>6
  <2> HIDE DEF k
  <2>3. Touched(k) /\ teams'[k].members = teams[k].members
    BY <1>1, <1>3, <2>1, <2>2, Described
  <2> QED
    BY <2>3, KeptInPlace
<1>7. CASE /\ spec.state = "absent" /\ settings.delete /\ ~settings.keep
           /\ Listed(name, loc.list) /\ Has(found.id)
           /\ teams' = RemoveAt(teams, At(found.id))
  <2>1. At(found.id) \in 1 .. Len(teams) /\ teams[At(found.id)].name = name
    BY <1>1, <1>7, FoundIsThere
  <2>2. name \notin PresentNames
    BY <1>7 DEF PresentNames
  <2> QED
    BY <1>3, <1>7, <2>1, <2>2, KeptDeleted
<1>8. CASE teams' = teams
  BY <1>8, KeptInPlace
<1> QED
  BY <1>4, <1>5, <1>6, <1>7, <1>8

\* A run takes nobody out of a team but extra members: never the bot, a declared
\* member or a member of another team, also when the team was changed, deleted
\* or made anew by others since reconcile_team_members read it.
THEOREM MembersStay == Spec => MembersKept
<1>1. ASSUME VikunjaInv, [Next]_vars, pc # "idle", changes' = changes, NEW i \in 1 .. Len(teams)
      PROVE  Kept(i)
  <2>1. changes \in Nat
    BY <1>1, BoundsAssumption DEF VikunjaInv, TypeOK
  <2>2. ~Theirs
    BY <1>1, <2>1 DEF Theirs, ChangeBound
  <2>3. CASE ReconcileTeam
    BY <1>1, <2>3, KeptTeams
  <2>4. CASE AddMember \/ RemoveMember
    BY <1>1, <2>4, KeptMembers
  <2>5. CASE teams' = teams
    BY <1>1, <2>5, KeptInPlace
  <2>6. ReconcileTeam \/ AddMember \/ RemoveMember \/ teams' = teams
    BY <1>1, <2>2 DEF Next, vars, server, Start, Rest, WaitReady, ListProjects, ReconcileProject,
       ListLabels, ReconcileLabel, ListTeams, RelistTeams, GetTeam, TeamRefused, ListWebhooks,
       ReconcileWebhook, WebhookRefused, Done, Stop, ChangeThings, ChangeTeams, SignIn, ChangeHooks
  <2> QED
    BY <2>3, <2>4, <2>5, <2>6
<1>2. VikunjaInv /\ [Next]_vars =>
        [pc # "idle" /\ changes' = changes =>
            \A i \in 1 .. Len(teams) :
                LET t == teams[i]
                    after == {j \in 1 .. Len(teams') : teams'[j].id = t.id}
                IN IF after = {}
                   THEN /\ t.name \in DeclaredNames \ PresentNames
                        /\ settings.delete /\ ~settings.keep
                   ELSE \A j \in after :
                          t.members \ teams'[j].members # {} =>
                              /\ t.name \in PresentNames /\ ~settings.keep
                              /\ (t.members \ teams'[j].members)
                                    \cap (settings.teams[t.name].members \cup {"bot"}) = {}]_vars
  BY <1>1 DEF Kept
<1> QED
  BY <1>2, VikunjaInvariant, PTL DEF Spec, MembersKept
=============================================================================

-------------------------- MODULE OAuthStoreProofs --------------------------
(***************************************************************************)
(* Proofs about OAuthStore, for any processes, generations, contents and   *)
(* revision bound, in three parts.  The first is about a command while it  *)
(* runs: types, who runs, and what it has in memory and on disk.  The      *)
(* second is about what happened before: which tokens were sent, which     *)
(* generations removed, why a live file is fenced and how it advances;     *)
(* each follows from one invariant about every copy of a State there is,   *)
(* in a file, durable or in memory: no copy forgets what was done with the *)
(* State it descends from.  The third is the refinement: while the         *)
(* operator does not roll the store back, each step of OAuthStore is a     *)
(* step of TokenLedger under the mapping of OAuthStoreLedger, or changes   *)
(* nothing the ledger sees.                                                *)
(***************************************************************************)
EXTENDS OAuthStoreLedger, TLAPS

-----------------------------------------------------------------------------
(* The inductive invariant.                                                *)

\* A running command holds a State in memory.
Held == \A p \in Procs : pc[p] # "idle" => st[p] \in State

\* The commands that run are exactly the one that holds the lock.
Exclusive == \A p \in Procs : pc[p] # "idle" <=> lock = p

\* What a command holds in memory, by phase.
Shape ==
    \A p \in Procs :
        /\ pc[p] \in Intents \cup {"dispatch", "exchange"} =>
               st[p].pending /\ st[p].granted
        /\ pc[p] \in {"rollbackSave", "commitSave", "publish", "release"} =>
               ~st[p].pending /\ st[p].granted
        /\ pc[p] = "enrollSave" => ~st[p].pending

\* What the files hold of it, by phase; the live file may be lost at any time.
Published ==
    \A p \in Procs :
        /\ pc[p] \in Writes /\ io[p] = "sync" =>
               \/ vis[FileOf(pc[p])] = st[p]
               \/ FileOf(pc[p]) = "live" /\ vis["live"] = NoState
        /\ pc[p] \in {"intentCkpt", "dispatch", "publish", "release", "enrollCkpt"} =>
               vis["live"] \in {st[p], NoState}
        /\ pc[p] \in {"intentCkpt", "dispatch", "release"} =>
               dur["live"] \in {st[p], NoState}
        /\ pc[p] \in {"dispatch", "release"} =>
               vis["ckpt"] = st[p] /\ dur["ckpt"] = st[p]

-----------------------------------------------------------------------------
(* Lemmas about States and about the steps' common shape.                  *)

\* The operations on a State yield a State.
LEMMA StateOps ==
  ASSUME NEW s \in State
  PROVE  /\ Intent(s) \in State
         /\ Settled(s) \in State
         /\ Tombstone(s) \in State
         /\ CountsFurther(s) =>
                \A t \in {s.token, s.rev + 1} : NextRevision(s, t) \in State
         /\ AttemptOf(s) \in Attempts
         /\ s.enr \in Enrollment
         /\ s.enr.gen \in Generations
<1>1. Intent(s) \in State /\ Settled(s) \in State /\ Tombstone(s) \in State
  BY DEF State, Intent, Settled, Tombstone
<1>2. ASSUME CountsFurther(s), NEW t \in {s.token, s.rev + 1}
      PROVE  NextRevision(s, t) \in State
  <2>1. s.rev + 1 \in 0..MaxRev /\ t \in 0..MaxRev /\ t <= s.rev + 1
    BY <1>2, MaxRevAssumption DEF State, CountsFurther
  <2>2. /\ NextRevision(s, t).rev = s.rev + 1 /\ NextRevision(s, t).token = t
        /\ NextRevision(s, t) \in [enr : Enrollment, rev : 0..MaxRev, token : 0..MaxRev,
                                   pending : BOOLEAN, granted : BOOLEAN]
    BY <2>1 DEF State, NextRevision
  <2> QED
    BY <2>1, <2>2 DEF State
<1>3. AttemptOf(s) \in Attempts /\ s.enr \in Enrollment /\ s.enr.gen \in Generations
  BY DEF State, AttemptOf, Attempts, Enrollment
<1> QED
  BY <1>1, <1>2, <1>3

\* A first enrollment is a State, at revision zero.
LEMMA FirstStateType == ASSUME NEW e \in Enrollment PROVE FirstState(e) \in State
<1>1. 0 \in 0..MaxRev
  BY MaxRevAssumption
<1> QED
  BY <1>1 DEF State, FirstState

\* The variables that record who runs and what it holds.
RunTypes ==
    /\ pc \in [Procs -> Phases]
    /\ io \in [Procs -> {"rename", "sync"}]
    /\ st \in [Procs -> Maybe]

\* Going on to a phase with a State in memory keeps the types.
LEMMA EnterType ==
  ASSUME RunTypes, Held, NEW p \in Procs, NEW phase \in Phases, NEW s \in State,
         Enter(p, phase, s)
  PROVE  RunTypes' /\ Held'
BY DEF RunTypes, Held, Enter, Maybe

\* So does leaving.
LEMMA LeaveType ==
  ASSUME RunTypes, Held, NEW p \in Procs, Leave(p)
  PROVE  RunTypes' /\ Held' /\ lock' = Nobody
BY DEF RunTypes, Held, Leave, Enter, Maybe, Phases

\* And so does going on, which is entering the next phase, or leaving.
LEMMA ContinueType ==
  ASSUME RunTypes, Held, NEW p \in Procs, NEW phase \in Phases, NEW s \in State,
         Continue(p, phase, s)
  PROVE  RunTypes' /\ Held' /\ lock' \in {lock, Nobody}
BY EnterType, LeaveType DEF Continue

\* A file that exists holds a State.
LEMMA FileType ==
  ASSUME TypeOK, NEW f \in Files
  PROVE  (vis[f] # NoState => vis[f] \in State) /\ (dur[f] # NoState => dur[f] \in State)
BY DEF TypeOK, Maybe

\* The attempts cut off by a kill or a power loss are attempts.
LEMMA InterruptedType ==
  ASSUME Held, NEW ps \in SUBSET Procs
  PROVE  Interrupted(ps) \subseteq Attempts
BY StateOps DEF Held, Interrupted, Undispatched, Intents

-----------------------------------------------------------------------------
TypeInv == TypeOK /\ Held

\* Every step keeps the types.
LEMMA TypeInvStep == TypeInv /\ [Next]_vars => TypeInv'
<1> SUFFICES ASSUME TypeOK, Held, [Next]_vars PROVE TypeOK' /\ Held'
  BY DEF TypeInv
<1>0. RunTypes /\ Files = {"live", "ckpt"} /\ "idle" \in Phases /\ Writes \subseteq Phases
  BY DEF TypeOK, RunTypes, Files, Phases
<1>1. ASSUME NEW p \in Procs, UseGrant(p) PROVE TypeOK' /\ Held'
  <2>1. vis["live"] \in State /\ "publish" \in Phases
    BY <1>1, FileType DEF UseGrant, Enrolled, Files, Phases, Writes
  <2>2. RunTypes' /\ Held'
    BY <1>0, <1>1, <2>1, EnterType DEF UseGrant
  <2> QED
    BY <1>1, <2>2 DEF UseGrant, Acquire, ghosts, TypeOK, RunTypes
<1>2. ASSUME NEW p \in Procs, BeginRefresh(p) PROVE TypeOK' /\ Held'
  <2>1. Intent(vis["live"]) \in State /\ "intentSave" \in Phases
    BY <1>2, FileType, StateOps DEF BeginRefresh, Enrolled, Files, Phases, Writes
  <2>2. RunTypes' /\ Held'
    BY <1>0, <1>2, <2>1, EnterType DEF BeginRefresh
  <2> QED
    BY <1>2, <2>2 DEF BeginRefresh, Acquire, ghosts, TypeOK, RunTypes
<1>3. ASSUME NEW p \in Procs, BeginInitialize(p) PROVE TypeOK' /\ Held'
  <2>1. RunTypes' /\ Held'
    BY <1>0, <1>3, FirstStateType, EnterType DEF BeginInitialize, Writes
  <2> QED
    BY <1>3, <2>1 DEF BeginInitialize, Acquire, Lapse, TypeOK, RunTypes
<1>4. ASSUME NEW p \in Procs, BeginApply(p) PROVE TypeOK' /\ Held'
  <2>1. vis["live"] \in State
    BY <1>4, FileType DEF BeginApply, Files
  <2>2. RunTypes' /\ Held'
    BY <1>0, <1>4, <2>1, FirstStateType, EnterType DEF BeginApply, Writes
  <2> QED
    BY <1>4, <2>2 DEF BeginApply, Acquire, ghosts, TypeOK, RunTypes
<1>5. ASSUME NEW p \in Procs, BeginRemove(p) PROVE TypeOK' /\ Held'
  <2>1. Tombstone(vis["live"]) \in State
    BY <1>5, FileType, StateOps DEF BeginRemove, Files
  <2>2. RunTypes' /\ Held'
    BY <1>0, <1>5, <2>1, EnterType DEF BeginRemove, Writes
  <2> QED
    BY <1>5, <2>2 DEF BeginRemove, Acquire, ghosts, TypeOK, RunTypes
<1>6. ASSUME NEW p \in Procs, BeginRestore(p) PROVE TypeOK' /\ Held'
  <2>1. \A s \in {vis["ckpt"], backup} \ {NoState} : s \in State
    BY <1>0 DEF TypeOK, Maybe
  <2>2. RunTypes' /\ Held'
    BY <1>0, <1>6, <2>1, EnterType DEF BeginRestore, Writes
  <2> QED
    BY <1>6, <2>2 DEF BeginRestore, Acquire, Lapse, TypeOK, RunTypes
<1>7. ASSUME NEW p \in Procs, Rename(p) PROVE TypeOK' /\ Held'
  BY <1>7 DEF Rename, TypeOK, Held, ghosts, Writes, Maybe
<1>8. ASSUME NEW p \in Procs, Sync(p) PROVE TypeOK' /\ Held'
  <2>1. st[p] \in State /\ OnOk(pc[p]) \in Phases
    BY <1>8 DEF Held, Sync, Writes, OnOk, Phases
  <2>2. RunTypes' /\ Held' /\ lock' \in Procs \cup {Nobody}
    BY <1>0, <1>8, <2>1, ContinueType DEF Sync, TypeOK
  <2>3. revoked' \in Generations \cup {0}
    BY <1>8, <2>1, StateOps DEF Sync, TypeOK
  <2> QED
    BY <1>8, <2>2, <2>3 DEF Sync, TypeOK, RunTypes
<1>9. ASSUME NEW p \in Procs, WriteFails(p) PROVE TypeOK' /\ Held'
  <2>1. /\ st[p] \in State /\ Settled(st[p]) \in State
        /\ OnErr(pc[p]) \in Phases /\ AttemptOf(st[p]) \in Attempts
    BY <1>9, StateOps DEF Held, WriteFails, Writes, OnErr, Phases
  <2>2. RunTypes' /\ Held' /\ lock' \in Procs \cup {Nobody}
    BY <1>0, <1>9, <2>1, ContinueType DEF WriteFails, TypeOK
  <2> QED
    BY <1>9, <2>1, <2>2 DEF WriteFails, TypeOK, RunTypes
<1>10. ASSUME NEW p \in Procs, Dispatch(p) PROVE TypeOK' /\ Held'
  <2>1. st[p] \in State /\ AttemptOf(st[p]) \in Attempts /\ "exchange" \in Phases
    BY <1>10, StateOps DEF Held, Dispatch, Phases
  <2>2. RunTypes' /\ Held'
    BY <1>0, <1>10, <2>1, EnterType DEF Dispatch
  <2> QED
    BY <1>10, <2>1, <2>2 DEF Dispatch, TypeOK, RunTypes
<1>11. ASSUME NEW p \in Procs, ExchangeOk(p) PROVE TypeOK' /\ Held'
  <2>1. PICK t \in {st[p].token, st[p].rev + 1} :
            /\ Enter(p, "commitSave", NextRevision(st[p], t))
            /\ retained' \subseteq retained \cup {AttemptOf(st[p])}
    BY <1>11 DEF ExchangeOk
  <2>2. NextRevision(st[p], t) \in State /\ AttemptOf(st[p]) \in Attempts
    BY <1>11, <2>1, StateOps DEF Held, ExchangeOk
  <2>3. RunTypes' /\ Held'
    BY <1>0, <2>1, <2>2, EnterType DEF Writes
  <2> QED
    BY <1>11, <2>1, <2>2, <2>3 DEF ExchangeOk, TypeOK, RunTypes
<1>12. ASSUME NEW p \in Procs, ExchangeFails(p) \/ Release(p) PROVE TypeOK' /\ Held'
  <2>1. RunTypes' /\ Held' /\ lock' = Nobody
    BY <1>0, <1>12, LeaveType DEF ExchangeFails, Release
  <2> QED
    BY <1>12, <2>1 DEF ExchangeFails, Release, TypeOK, RunTypes, ghosts
<1>13. ASSUME NEW p \in Procs, Kill(p) PROVE TypeOK' /\ Held'
  <2>1. RunTypes' /\ Held' /\ lock' = Nobody /\ Interrupted({p}) \subseteq Attempts
    BY <1>0, <1>13, LeaveType, InterruptedType DEF Kill
  <2> QED
    BY <1>13, <2>1 DEF Kill, TypeOK, RunTypes
<1>14. CASE PowerLoss
  <2>1. Interrupted(Procs) \subseteq Attempts
    BY InterruptedType
  <2>2. vis' \in [Files -> Maybe] /\ dur' \in [Files -> Maybe]
    BY <1>14 DEF PowerLoss, TypeOK
  <2> QED
    BY <1>0, <1>14, <2>1, <2>2 DEF PowerLoss, TypeOK, Held, Maybe
<1>15. CASE LoseLive \/ TakeBackup
  BY <1>0, <1>15 DEF LoseLive, TakeBackup, TypeOK, Held, Maybe, ghosts
<1>16. CASE UNCHANGED vars
  BY <1>16 DEF vars, TypeOK, Held
<1> QED
  BY <1>1, <1>2, <1>3, <1>4, <1>5, <1>6, <1>7, <1>8, <1>9, <1>10, <1>11, <1>12,
     <1>13, <1>14, <1>15, <1>16 DEF Next, Begin, BeginAccess, Run

-----------------------------------------------------------------------------
(* Who runs, and what it has in memory and on disk.                        *)

CommandInv == Exclusive /\ Shape /\ Published

\* While p runs, and when p takes the lock, every other process is idle; and a
\* process that is idle has nothing to satisfy.
LEMMA Alone ==
  ASSUME TypeOK, Exclusive, NEW p \in Procs, NEW q \in Procs, q # p,
         pc[p] # "idle" \/ lock = Nobody
  PROVE  pc[q] = "idle"
BY NobodyAssumption DEF TypeOK, Exclusive

\* A step of p that enters a phase, seen from every process.
LEMMA EnterSeen ==
  ASSUME TypeOK, NEW p \in Procs, NEW phase, NEW s, Enter(p, phase, s)
  PROVE  /\ pc'[p] = phase /\ io'[p] = "rename" /\ st'[p] = s
         /\ \A q \in Procs \ {p} : pc'[q] = pc[q] /\ st'[q] = st[q]
BY DEF TypeOK, Enter

\* A step of p that enters an active phase keeps the lock with p alone.
LEMMA EnterAlone ==
  ASSUME TypeOK, Exclusive, NEW p \in Procs, NEW phase, NEW s, Enter(p, phase, s),
         phase # "idle", lock' = p, pc[p] # "idle" \/ lock = Nobody
  PROVE  Exclusive' /\ \A q \in Procs \ {p} : pc'[q] = "idle"
<1>1. \A q \in Procs \ {p} : pc'[q] = "idle"
  BY Alone, EnterSeen
<1> QED
  BY <1>1, EnterSeen DEF Exclusive

\* A step of p that leaves has every process idle.
LEMMA LeaveAlone ==
  ASSUME TypeOK, Exclusive, NEW p \in Procs, Leave(p),
         pc[p] # "idle" \/ lock = Nobody
  PROVE  Exclusive' /\ \A q \in Procs : pc'[q] = "idle"
<1>1. \A q \in Procs : pc'[q] = "idle"
  BY Alone, EnterSeen DEF Leave
<1> QED
  BY <1>1, NobodyAssumption DEF Exclusive, Leave

\* When all processes are idle nothing is in memory to speak of.
LEMMA AllIdle ==
  ASSUME \A q \in Procs : pc[q] = "idle"
  PROVE  Shape /\ Published
BY DEF Shape, Published, Intents, Writes

\* Every step keeps what holds of the command that runs.
LEMMA CommandInvStep ==
  TypeInv /\ CommandInv /\ [Next]_vars => CommandInv'
<1> SUFFICES ASSUME TypeOK, Held, Exclusive, Shape, Published, [Next]_vars
             PROVE  CommandInv'
  BY DEF TypeInv, CommandInv
<1>0. \A f \in {"live", "ckpt"} : f \in Files
  BY DEF Files
<1>1. ASSUME NEW p \in Procs, UseGrant(p) PROVE CommandInv'
  <2>1. Exclusive' /\ \A q \in Procs \ {p} : pc'[q] = "idle"
    BY <1>1, EnterAlone DEF UseGrant, Acquire
  <2>2. /\ pc'[p] = "publish" /\ io'[p] = "rename"
        /\ st'[p] = vis["live"] /\ vis' = vis
        /\ ~vis["live"].pending /\ vis["live"].granted
    BY <1>1, EnterSeen DEF UseGrant, Enrolled
  <2> QED
    BY <2>1, <2>2 DEF CommandInv, Shape, Published, Intents, Writes
<1>2. ASSUME NEW p \in Procs, BeginRefresh(p) PROVE CommandInv'
  <2>1. Exclusive' /\ \A q \in Procs \ {p} : pc'[q] = "idle"
    BY <1>2, EnterAlone DEF BeginRefresh, Acquire
  <2>2. /\ pc'[p] = "intentSave" /\ io'[p] = "rename"
        /\ st'[p] = Intent(vis["live"])
        /\ vis["live"] \in State /\ vis["live"].granted
    BY <1>0, <1>2, EnterSeen, FileType DEF BeginRefresh, Enrolled
  <2>3. st'[p].pending /\ st'[p].granted
    BY <2>2 DEF Intent, State
  <2> QED
    BY <2>1, <2>2, <2>3 DEF CommandInv, Shape, Published, Intents, Writes
<1>3. ASSUME NEW p \in Procs, NEW s \in State, ~s.pending, Acquire(p),
             Enter(p, "enrollSave", s), UNCHANGED <<vis, dur>>
      PROVE  CommandInv'
  <2>1. Exclusive' /\ \A q \in Procs \ {p} : pc'[q] = "idle"
    BY <1>3, EnterAlone DEF Acquire
  <2>2. pc'[p] = "enrollSave" /\ io'[p] = "rename" /\ st'[p] = s
    BY <1>3, EnterSeen
  <2> QED
    BY <1>3, <2>1, <2>2 DEF CommandInv, Shape, Published, Intents, Writes
<1>4. ASSUME NEW p \in Procs, BeginInitialize(p) PROVE CommandInv'
  <2>1. \A e \in Enrollment : FirstState(e) \in State /\ ~FirstState(e).pending
    BY FirstStateType DEF FirstState
  <2> QED
    BY <1>3, <1>4, <2>1 DEF BeginInitialize
<1>5. ASSUME NEW p \in Procs, BeginApply(p) PROVE CommandInv'
  <2>1. \A e \in Enrollment : FirstState(e) \in State /\ ~FirstState(e).pending
    BY FirstStateType DEF FirstState
  <2>2. CASE \E e \in Enrollment : Enter(p, "enrollSave", FirstState(e))
    BY <1>3, <1>5, <2>1, <2>2 DEF BeginApply
  <2>3. CASE Enter(p, "enrollCkpt", vis["live"])
    <3>1. Exclusive' /\ \A q \in Procs \ {p} : pc'[q] = "idle"
      BY <1>5, <2>3, EnterAlone DEF BeginApply, Acquire
    <3>2. /\ pc'[p] = "enrollCkpt" /\ io'[p] = "rename"
          /\ st'[p] = vis["live"] /\ vis' = vis
      BY <1>5, <2>3, EnterSeen DEF BeginApply
    <3> QED
      BY <3>1, <3>2 DEF CommandInv, Shape, Published, Intents, Writes
  <2> QED
    BY <1>5, <2>2, <2>3 DEF BeginApply
<1>6. ASSUME NEW p \in Procs, BeginRemove(p) PROVE CommandInv'
  <2>1. vis["live"] \in State
    BY <1>0, <1>6, FileType DEF BeginRemove
  <2>2. Tombstone(vis["live"]) \in State /\ ~Tombstone(vis["live"]).pending
    BY <2>1, StateOps DEF Tombstone, State
  <2> QED
    BY <1>3, <1>6, <2>2 DEF BeginRemove
<1>7. ASSUME NEW p \in Procs, BeginRestore(p) PROVE CommandInv'
  <2>1. \A s \in {vis["ckpt"], backup} \ {NoState} : s \in State
    BY <1>0 DEF TypeOK, Maybe
  <2> QED
    BY <1>3, <1>7, <2>1 DEF BeginRestore, Restorable
<1>8. ASSUME NEW p \in Procs, Rename(p) PROVE CommandInv'
  <2>1. /\ pc' = pc /\ st' = st /\ lock' = lock /\ dur' = dur
        /\ pc[p] \in Writes /\ pc[p] # "idle"
    BY <1>8 DEF Rename, Writes
  <2>2. \A q \in Procs \ {p} : pc[q] = "idle"
    BY <2>1, Alone
  <2>3. FileOf(pc[p]) \in Files /\ vis'[FileOf(pc[p])] = st[p]
    BY <1>0, <1>8 DEF Rename, FileOf, TypeOK
  <2>4. \A f \in Files : f # FileOf(pc[p]) => vis'[f] = vis[f]
    BY <1>8, <2>3 DEF Rename, TypeOK
  <2>5. vis'["live"] \in {vis["live"], st[p]}
    BY <1>0, <2>3, <2>4
  <2> QED
    BY <2>1, <2>2, <2>3, <2>5 DEF CommandInv, Exclusive, Shape, Published, Intents, Writes
<1>9. ASSUME NEW p \in Procs, Sync(p) PROVE CommandInv'
  <2>1. /\ pc[p] \in Writes /\ pc[p] # "idle" /\ lock = p
        /\ vis' = vis /\ dur' = vis /\ Continue(p, OnOk(pc[p]), st[p])
    BY <1>9 DEF Sync, Writes, Exclusive
  <2>2. CASE OnOk(pc[p]) = "idle"
    BY <2>1, <2>2, LeaveAlone, AllIdle DEF CommandInv, Continue, Shape, Published, Intents, Writes
  <2>3. CASE OnOk(pc[p]) # "idle"
    <3>1. Exclusive' /\ \A q \in Procs \ {p} : pc'[q] = "idle"
      BY <2>1, <2>3, EnterAlone DEF Continue
    <3>2. pc'[p] = OnOk(pc[p]) /\ io'[p] = "rename" /\ st'[p] = st[p]
      BY <2>1, <2>3, EnterSeen DEF Continue
    <3>3. \/ vis[FileOf(pc[p])] = st[p]
          \/ FileOf(pc[p]) = "live" /\ vis["live"] = NoState
      BY <1>9 DEF Sync, Published
    <3>4. CASE pc[p] = "intentSave"
      BY <2>1, <3>1, <3>2, <3>3, <3>4
         DEF CommandInv, Shape, Published, Intents, Writes, OnOk, FileOf
    <3>5. CASE pc[p] = "intentCkpt"
      BY <2>1, <3>1, <3>2, <3>3, <3>5
         DEF CommandInv, Shape, Published, Intents, Writes, OnOk, FileOf
    <3>6. CASE pc[p] \in {"commitSave", "enrollSave"}
      BY <2>1, <3>1, <3>2, <3>3, <3>6
         DEF CommandInv, Shape, Published, Intents, Writes, OnOk, FileOf
    <3>7. CASE pc[p] = "publish"
      BY <2>1, <3>1, <3>2, <3>3, <3>7
         DEF CommandInv, Shape, Published, Intents, Writes, OnOk, FileOf
    <3> QED
      BY <2>1, <2>3, <3>4, <3>5, <3>6, <3>7 DEF Writes, OnOk
  <2> QED
    BY <2>2, <2>3
<1>10. ASSUME NEW p \in Procs, WriteFails(p) PROVE CommandInv'
  <2>1. /\ pc[p] \in Writes /\ pc[p] # "idle" /\ lock = p /\ st[p] \in State
        /\ vis' = vis /\ dur' = dur /\ Continue(p, OnErr(pc[p]), Settled(st[p]))
    BY <1>10 DEF WriteFails, Writes, Exclusive, Held
  <2>2. CASE OnErr(pc[p]) = "idle"
    BY <2>1, <2>2, LeaveAlone DEF CommandInv, Continue, Shape, Published, Intents, Writes
  <2>3. CASE OnErr(pc[p]) # "idle"
    <3>1. Exclusive' /\ \A q \in Procs \ {p} : pc'[q] = "idle"
      BY <2>1, <2>3, EnterAlone DEF Continue
    <3>2. pc[p] \in Intents /\ pc'[p] = "rollbackSave" /\ io'[p] = "rename"
      BY <2>1, <2>3, EnterSeen DEF Continue, OnErr
    <3>3. ~st'[p].pending /\ st'[p].granted
      BY <2>1, <2>3, <3>2, EnterSeen DEF Continue, Shape, Settled, State
    <3> QED
      BY <3>1, <3>2, <3>3 DEF CommandInv, Shape, Published, Intents, Writes
  <2> QED
    BY <2>2, <2>3
<1>11. ASSUME NEW p \in Procs, Dispatch(p) PROVE CommandInv'
  <2>1. Exclusive' /\ \A q \in Procs \ {p} : pc'[q] = "idle"
    BY <1>11, EnterAlone DEF Dispatch, Exclusive
  <2>2. pc'[p] = "exchange" /\ st'[p] = st[p] /\ st[p].pending /\ st[p].granted
    BY <1>11, EnterSeen DEF Dispatch, Shape
  <2> QED
    BY <2>1, <2>2 DEF CommandInv, Shape, Published, Intents, Writes
<1>12. ASSUME NEW p \in Procs, ExchangeOk(p) PROVE CommandInv'
  <2>1. Exclusive' /\ \A q \in Procs \ {p} : pc'[q] = "idle"
    BY <1>12, EnterAlone DEF ExchangeOk, Exclusive
  <2>2. /\ pc'[p] = "commitSave" /\ io'[p] = "rename"
        /\ \E t : st'[p] = NextRevision(st[p], t)
        /\ st[p] \in State /\ st[p].granted
    BY <1>12, EnterSeen DEF ExchangeOk, Shape, Held
  <2>3. ~st'[p].pending /\ st'[p].granted
    BY <2>2 DEF NextRevision, State
  <2> QED
    BY <2>1, <2>2, <2>3 DEF CommandInv, Shape, Published, Intents, Writes
<1>13. ASSUME NEW p \in Procs, ExchangeFails(p) \/ Release(p) \/ Kill(p) PROVE CommandInv'
  <2>1. Exclusive' /\ \A q \in Procs : pc'[q] = "idle"
    BY <1>13, LeaveAlone DEF ExchangeFails, Release, Kill
  <2> QED
    BY <2>1 DEF CommandInv, Shape, Published, Intents, Writes
<1>14. CASE PowerLoss
  <2>1. lock' = Nobody /\ \A q \in Procs : pc'[q] = "idle"
    BY <1>14 DEF PowerLoss
  <2> QED
    BY <2>1, NobodyAssumption DEF CommandInv, Exclusive, Shape, Published, Intents, Writes
<1>15. CASE LoseLive
  <2>1. /\ pc' = pc /\ io' = io /\ st' = st /\ lock' = lock
        /\ vis'["live"] = NoState /\ vis'["ckpt"] = vis["ckpt"]
        /\ dur'["live"] = NoState /\ dur'["ckpt"] = dur["ckpt"]
    BY <1>0, <1>15 DEF LoseLive, TypeOK
  <2> QED
    BY <2>1 DEF CommandInv, Exclusive, Shape, Published, FileOf
<1>16. CASE TakeBackup \/ UNCHANGED vars
  BY <1>16 DEF TakeBackup, vars, CommandInv, Exclusive, Shape, Published, ghosts
<1> QED
  BY <1>1, <1>2, <1>4, <1>5, <1>6, <1>7, <1>8, <1>9, <1>10, <1>11, <1>12, <1>13,
     <1>14, <1>15, <1>16 DEF Next, Begin, BeginAccess, Run

\* The invariants about commands hold throughout.
LEMMA Commands == Spec => [](TypeInv /\ CommandInv)
<1>1. Init => TypeInv /\ CommandInv
  BY NobodyAssumption DEF Init, TypeInv, TypeOK, Held, Maybe, Phases, CommandInv,
     Exclusive, Shape, Published, Intents, Writes
<1> QED
  BY <1>1, TypeInvStep, CommandInvStep, PTL DEF Spec

\* Every variable keeps its type, a running command has its State, and it is the
\* lock's holder: no two commands of the state directory ever run together.
THEOREM Typing == Spec => [](TypeOK /\ Held /\ Exclusive)
<1>1. TypeInv /\ CommandInv => TypeOK /\ Held /\ Exclusive
  BY DEF TypeInv, CommandInv
<1> QED
  BY <1>1, Commands, PTL

\* Whatever is released is in the checkpoint, durably, and in the live file if
\* there still is one.
THEOREM Releasing == Spec => []ReleasedIsRecoverable
<1>1. TypeInv /\ CommandInv => ReleasedIsRecoverable
  BY NoStateAssumption DEF TypeInv, CommandInv, Held, Shape, Published,
     ReleasedIsRecoverable, Enrolled
<1> QED
  BY <1>1, Commands, PTL

-----------------------------------------------------------------------------
(* The copies of a State.                                                  *)

Running == {p \in Procs : pc[p] # "idle"}

\* Every State in the files, durable or not, and in the memory of a command.
Copies ==
    ({vis[f] : f \in Files} \cup {dur[f] : f \in Files} \cup {st[p] : p \in Running})
        \ {NoState}

\* Attempt a was made from a State older than s, and left s's token in force if it
\* sent that; or it was made from s itself, and s says so.
Newer(a, s) ==
    \/ a.enr.gen < s.enr.gen
    \/ a.enr = s.enr /\ a.rev < s.rev /\ (a.token = s.token => a \in retained)
Covered(a, s) ==
    Newer(a, s) \/ (a = AttemptOf(s) /\ (s.pending \/ ~s.granted))

\* s remembers every exchange; no exchange was made from s itself.
Remembers(s) == \A a \in sent : Covered(a, s)
Fresh(s) == \A a \in sent : a # AttemptOf(s)

\* No copy of the state has forgotten an exchange that was sent, and a command
\* on its way to send one is the first.
Unsent ==
    lapses = {} =>
        /\ \A s \in Copies : Remembers(s)
        /\ \A p \in Procs : pc[p] \in Undispatched => Fresh(st[p])
        /\ NoState \in {vis["ckpt"], dur["ckpt"]} => sent = {}

\* s is newer than every reported removal, or removed itself.
Respects(s) == s.enr.gen >= revoked /\ (s.granted => s.enr.gen > revoked)

\* No copy of the state has forgotten a removal that was reported.
Gone ==
    lapses = {} =>
        /\ \A s \in Copies : Respects(s)
        /\ NoState \in {vis["ckpt"], dur["ckpt"]} => revoked = 0

\* Every intent in a live file was sent, was cut off, or is being carried out.
Cause ==
    \A s \in {vis["live"], dur["live"]} \ {NoState} :
        s.pending => AttemptOf(s) \in sent \cup abandoned \cup Interrupted(Procs)

\* State t may follow s in the live file.
Follows(s, t) ==
    \/ t.enr.gen > s.enr.gen
    \/ t.enr = s.enr /\ t.rev >= s.rev /\ (t.granted => s.granted)

\* The durable, the visible live file and what a command holds follow each other.
Advancing ==
    /\ vis["live"] = NoState => dur["live"] = NoState
    /\ dur["live"] # NoState => Follows(dur["live"], vis["live"])
    /\ \A p \in Procs : pc[p] # "idle" /\ vis["live"] # NoState =>
           Follows(vis["live"], st[p])

-----------------------------------------------------------------------------
(* Where copies come from.                                                 *)

\* A roll-back is not forgotten.
LEMMA LapsesGrow == [Next]_vars => lapses \subseteq lapses'
BY DEF Next, vars, ghosts, Begin, BeginAccess, Run, UseGrant, BeginRefresh,
       BeginInitialize, BeginApply, BeginRemove, BeginRestore, Lapse, Rename, Sync,
       WriteFails, Dispatch, ExchangeOk, ExchangeFails, Release, Kill, PowerLoss,
       LoseLive, TakeBackup

\* Every copy is a State.
LEMMA CopiesType == ASSUME TypeOK PROVE Copies \subseteq State
BY DEF TypeOK, Copies, Running, Maybe

\* The files and the running commands hold copies.
LEMMA CopiesHere ==
  ASSUME TypeOK
  PROVE  /\ {vis["live"], vis["ckpt"], dur["live"], dur["ckpt"]} \ {NoState} \subseteq Copies
         /\ \A p \in Running : st[p] # NoState => st[p] \in Copies
BY DEF Copies, Files

\* A step that enters a phase brings in the State it enters with.
LEMMA EnterCopies ==
  ASSUME TypeOK, NEW p \in Procs, NEW phase, NEW s, Enter(p, phase, s),
         UNCHANGED <<vis, dur>>
  PROVE  Copies' \subseteq Copies \cup {s}
BY EnterSeen DEF Copies, Running

\* A command that leaves forgets its copy and makes none.
LEMMA LeaveCopies ==
  ASSUME TypeOK, NEW p \in Procs, Leave(p), UNCHANGED <<vis, dur>>
  PROVE  Copies' \subseteq Copies
BY EnterCopies DEF Leave, Copies

\* A command that goes on brings in the State it goes on with.
LEMMA ContinueCopies ==
  ASSUME TypeOK, NEW p \in Procs, NEW phase, NEW s, Continue(p, phase, s),
         UNCHANGED <<vis, dur>>
  PROVE  Copies' \subseteq Copies \cup {s}
BY EnterCopies, LeaveCopies DEF Continue

\* Publishing, losing and restarting make no new copies.
LEMMA RenameCopies ==
  ASSUME TypeOK, Held, NEW p \in Procs, Rename(p)
  PROVE  Copies' \subseteq Copies
<1>1. st' = st /\ pc' = pc /\ dur' = dur /\ st[p] \in Copies
  BY NoStateAssumption DEF Rename, Held, Copies, Running, Writes
<1>2. \A f \in Files : vis'[f] \in {vis[f], st[p]}
  BY DEF Rename, TypeOK
<1> QED
  BY <1>1, <1>2 DEF Copies, Running

\* Making a file durable makes no new copies.
LEMMA SyncCopies ==
  ASSUME TypeOK, Held, NEW p \in Procs, Sync(p)
  PROVE  Copies' \subseteq Copies
<1>1. pc[p] # "idle" /\ vis' = vis /\ dur' = vis
  BY DEF Sync, Writes
<1>2. st[p] \in Copies
  BY <1>1, NoStateAssumption DEF Held, Copies, Running
<1>3. \A q \in Procs : pc'[q] = "idle" \/ (st'[q] = st[q] /\ (q # p => pc'[q] = pc[q]))
  BY EnterSeen DEF Sync, Continue, Leave
<1> QED
  BY <1>1, <1>2, <1>3 DEF Copies, Running

\* After a power loss each file holds what it held, or held durably.
LEMMA PowerLossCopies ==
  ASSUME TypeOK, PowerLoss
  PROVE  Copies' \subseteq Copies
<1>1. /\ \A f \in Files : vis'[f] \in {vis[f], dur[f]}
      /\ dur' = vis' /\ \A p \in Procs : pc'[p] = "idle"
  BY DEF PowerLoss
<1> QED
  BY <1>1 DEF Copies, Running

\* Losing the live file makes no new copies.
LEMMA LoseLiveCopies ==
  ASSUME TypeOK, LoseLive
  PROVE  Copies' \subseteq Copies
<1>1. /\ \A f \in Files : vis'[f] \in {vis[f], NoState} /\ dur'[f] \in {dur[f], NoState}
      /\ st' = st /\ pc' = pc
  BY DEF LoseLive, TypeOK
<1> QED
  BY <1>1 DEF Copies, Running

-----------------------------------------------------------------------------
(* Refresh tokens that were sent.                                          *)

\* Generations and revisions are numbers.
LEMMA Numbers ==
  /\ \A e \in Enrollment : e.gen \in Nat
  /\ \A n \in 0..MaxRev : n \in Nat
<1>1. \A g \in Generations : g \in Nat
  BY GenerationsAssumption
<1>2. \A n \in 0..MaxRev : n \in Nat
  BY MaxRevAssumption
<1> QED
  BY <1>1, <1>2 DEF Enrollment

\* What an attempt is about.
LEMMA AttemptFields ==
  ASSUME NEW a \in Attempts
  PROVE  /\ a.enr \in Enrollment /\ a.enr.gen \in Nat
         /\ a.rev \in Nat /\ a.token \in Nat /\ a.token <= a.rev
<1>1. /\ a.enr \in Enrollment /\ a.rev \in 0..MaxRev /\ a.token \in 0..MaxRev
      /\ a.token <= a.rev
  BY DEF Attempts
<1> QED
  BY <1>1, Numbers

\* What a State is about, and the attempt it would be for.
LEMMA StateFields ==
  ASSUME NEW s \in State
  PROVE  /\ s.enr \in Enrollment /\ s.enr.gen \in Nat /\ s.rev \in Nat
         /\ s.token \in Nat /\ s.token <= s.rev
         /\ AttemptOf(s) \in Attempts
<1>1. /\ s.enr \in Enrollment /\ s.rev \in 0..MaxRev /\ s.token \in 0..MaxRev
      /\ s.token <= s.rev
  BY DEF State
<1> QED
  BY <1>1, Numbers DEF AttemptOf, Attempts

\* No attempt is newer than itself.
LEMMA NewerIrreflexive ==
  ASSUME NEW s \in State, NEW a \in Attempts, Newer(a, s)
  PROVE  a # AttemptOf(s)
BY StateFields, AttemptFields DEF Newer, AttemptOf

\* What the commands make of a State remembers what the State did.
LEMMA CoveredOps ==
  ASSUME NEW s \in State, NEW a \in Attempts, Covered(a, s)
  PROVE  /\ Covered(a, Intent(s))
         /\ Covered(a, Tombstone(s))
         /\ a # AttemptOf(s) => Covered(a, Settled(s))
         /\ \A e \in Enrollment : Supersedes(e, s) => Covered(a, FirstState(e))
<1>0. AttemptOf(s).enr = s.enr /\ AttemptOf(s).rev = s.rev
  BY DEF AttemptOf
<1>1. /\ Intent(s).pending /\ ~Tombstone(s).granted
      /\ \A t \in {Intent(s), Tombstone(s), Settled(s)} :
             t.enr = s.enr /\ t.rev = s.rev /\ t.token = s.token
  BY DEF State, Intent, Tombstone, Settled
<1>2. Covered(a, Intent(s)) /\ Covered(a, Tombstone(s))
  BY <1>1 DEF Covered, Newer, AttemptOf
<1>4. a # AttemptOf(s) => Covered(a, Settled(s))
  BY <1>1 DEF Covered, Newer
<1>5. \A e \in Enrollment : Supersedes(e, s) => Covered(a, FirstState(e))
  <2>1. a.enr.gen <= s.enr.gen
    BY <1>0, StateFields, AttemptFields DEF Covered, Newer
  <2>2. \A e \in Enrollment : e.gen \in Nat
    BY GenerationsAssumption DEF Enrollment
  <2> QED
    BY <2>1, <2>2, StateFields, AttemptFields DEF Covered, Newer, FirstState, Supersedes
<1> QED
  BY <1>2, <1>4, <1>5

\* The next revision remembers the exchange that led to it: if it holds the same
\* token, that exchange left it in force; and a new token was sent by none.
LEMMA CoveredNext ==
  ASSUME NEW s \in State, NEW a \in Attempts, Covered(a, s),
         NEW t \in {s.token, s.rev + 1}, retained \subseteq retained',
         t = s.token => AttemptOf(s) \in retained'
  PROVE  Covered(a, NextRevision(s, t))'
<1>1. /\ NextRevision(s, t).enr = s.enr /\ NextRevision(s, t).rev = s.rev + 1
      /\ NextRevision(s, t).token = t
  BY DEF State, NextRevision
<1>2. s.rev \in Nat /\ s.token <= s.rev /\ a.rev \in Nat /\ a.token \in Nat /\ a.token <= a.rev
  BY StateFields, AttemptFields
<1>3. CASE a.enr.gen < s.enr.gen
  BY <1>1, <1>3 DEF Covered, Newer
<1>4. CASE a.enr = s.enr /\ a.rev < s.rev /\ (a.token = s.token => a \in retained)
  <2>1. a.token = t => a \in retained'
    BY <1>2, <1>4
  <2> QED
    BY <1>1, <1>2, <1>4, <2>1 DEF Covered, Newer
<1>5. CASE a = AttemptOf(s)
  <2>1. a.enr = s.enr /\ a.rev = s.rev /\ a.token = s.token
    BY <1>5 DEF AttemptOf
  <2>2. a.token = t => a \in retained'
    BY <1>2, <1>5, <2>1
  <2> QED
    BY <1>1, <1>2, <2>1, <2>2 DEF Covered, Newer
<1> QED
  BY <1>3, <1>4, <1>5 DEF Covered, Newer

\* What is remembered stays so when nothing is sent.
LEMMA RemembersStay ==
  ASSUME UNCHANGED sent, retained \subseteq retained', NEW s, Remembers(s)
  PROVE  Remembers(s)'
BY DEF Remembers, Covered, Newer

\* The three parts of Unsent, when nothing was rolled back.
UnsentNow ==
    /\ \A s \in Copies : Remembers(s)
    /\ \A p \in Procs : pc[p] \in Undispatched => Fresh(st[p])
    /\ NoState \in {vis["ckpt"], dur["ckpt"]} => sent = {}

\* A step that goes on with a State that remembers, or ends, preserves them.
LEMMA UnsentContinue ==
  ASSUME TypeOK, UnsentNow, NEW p \in Procs, NEW phase, NEW s, Remembers(s),
         phase \in Undispatched => Fresh(s), Continue(p, phase, s),
         Copies' \subseteq Copies \cup {s}, UNCHANGED <<sent, retained>>,
         NoState \in {vis'["ckpt"], dur'["ckpt"]} => NoState \in {vis["ckpt"], dur["ckpt"]}
  PROVE  UnsentNow'
<1>1. \A t \in Copies' : Remembers(t)'
  BY RemembersStay DEF UnsentNow
<1>2. \A q \in Procs \ {p} : pc'[q] = pc[q] /\ st'[q] = st[q]
  BY EnterSeen DEF Continue, Leave
<1>3. pc'[p] = "idle" \/ (pc'[p] = phase /\ st'[p] = s)
  BY EnterSeen DEF Continue, Leave
<1>4. \A q \in Procs : pc'[q] \in Undispatched => Fresh(st'[q])
  BY <1>2, <1>3 DEF UnsentNow, Undispatched, Intents
<1> QED
  BY <1>1, <1>4 DEF UnsentNow, Fresh

\* The same for a command that begins.
LEMMA UnsentBegin ==
  ASSUME TypeOK, UnsentNow, NEW p \in Procs, NEW phase, NEW s, Remembers(s),
         phase \in Undispatched => Fresh(s), Enter(p, phase, s),
         UNCHANGED <<vis, dur, sent, retained>>
  PROVE  UnsentNow'
<1>1. \A t \in Copies' : Remembers(t)'
  BY EnterCopies, RemembersStay DEF UnsentNow
<1>2. \A q \in Procs : pc'[q] \in Undispatched => Fresh(st'[q])
  BY EnterSeen DEF UnsentNow
<1> QED
  BY <1>1, <1>2 DEF UnsentNow, Fresh

\* And for one that ends or is cut off.
LEMMA UnsentLeave ==
  ASSUME TypeOK, UnsentNow, NEW p \in Procs, Leave(p),
         UNCHANGED <<vis, dur, sent, retained>>
  PROVE  UnsentNow'
<1>1. \A t \in Copies' : Remembers(t)'
  BY LeaveCopies, RemembersStay DEF UnsentNow
<1>2. \A q \in Procs : pc'[q] \in Undispatched => pc[q] \in Undispatched /\ st'[q] = st[q]
  BY EnterSeen DEF Leave, Undispatched, Intents
<1> QED
  BY <1>1, <1>2 DEF UnsentNow, Fresh

\* Every step keeps every copy aware of the tokens sent.
LEMMA UnsentStep ==
  TypeInv /\ CommandInv /\ Unsent /\ [Next]_vars => Unsent'
<1> SUFFICES ASSUME TypeOK, Held, Exclusive, Shape, Published, Unsent, [Next]_vars,
                    lapses' = {}
             PROVE  UnsentNow'
  BY DEF TypeInv, CommandInv, Unsent, UnsentNow
<1>0. lapses = {} /\ UnsentNow
  BY LapsesGrow DEF Unsent, UnsentNow
<1>1. /\ sent \subseteq Attempts
      /\ \A s \in Copies : s \in State /\ Remembers(s)
  BY <1>0, CopiesType DEF TypeOK, UnsentNow
<1>2. \A s \in State : Remembers(s) =>
          /\ Remembers(Intent(s)) /\ Remembers(Tombstone(s))
          /\ Fresh(s) => Remembers(Settled(s))
          /\ \A e \in Enrollment : Supersedes(e, s) => Remembers(FirstState(e))
  BY <1>1, CoveredOps DEF Remembers, Fresh
<1>3. \A s \in State : /\ AttemptOf(Intent(s)) = AttemptOf(s)
                       /\ AttemptOf(Settled(s)) = AttemptOf(s)
  BY DEF State, Intent, Settled, AttemptOf
<1>4. vis["live"] # NoState => vis["live"] \in Copies
  BY CopiesHere
<1>5. \A p \in Procs : pc[p] # "idle" => st[p] \in Copies /\ st[p] \in State
  BY CopiesHere, NoStateAssumption DEF Held, Running
<1>6. ASSUME NEW p \in Procs, UseGrant(p) PROVE UnsentNow'
  BY <1>0, <1>1, <1>4, <1>6, UnsentBegin
     DEF UseGrant, Enrolled, ghosts, Undispatched, Intents
<1>7. ASSUME NEW p \in Procs, BeginRefresh(p) PROVE UnsentNow'
  <2>1. vis["live"] \in State /\ Remembers(vis["live"]) /\ Enrolled(vis["live"])
    BY <1>1, <1>4, <1>7 DEF BeginRefresh, Enrolled
  <2>2. \A a \in sent : Newer(a, vis["live"])
    BY <2>1 DEF Remembers, Covered, Enrolled
  <2>3. Fresh(Intent(vis["live"]))
    BY <1>1, <1>3, <2>1, <2>2, NewerIrreflexive DEF Fresh
  <2>4. Remembers(Intent(vis["live"]))
    BY <1>2, <2>1
  <2> QED
    BY <1>0, <1>7, <2>3, <2>4, UnsentBegin DEF BeginRefresh, ghosts
<1>8. ASSUME NEW p \in Procs, BeginInitialize(p) PROVE UnsentNow'
  <2>1. PICK e \in Enrollment :
            /\ Enter(p, "enrollSave", FirstState(e))
            /\ vis["ckpt"] # NoState => ~(e.gen <= vis["ckpt"].enr.gen)
    BY <1>8 DEF BeginInitialize, Lapse
  <2>2. Remembers(FirstState(e))
    <3>1. CASE vis["ckpt"] = NoState
      BY <1>0, <3>1 DEF UnsentNow, Remembers
    <3>2. CASE vis["ckpt"] # NoState
      <4>1. vis["ckpt"] \in State /\ Remembers(vis["ckpt"])
        BY <1>1, <3>2, CopiesHere
      <4>2. Supersedes(e, vis["ckpt"])
        BY <2>1, <3>2, <4>1, Numbers, StateFields DEF Supersedes
      <4> QED
        BY <1>2, <4>1, <4>2
    <3> QED
      BY <3>1, <3>2
  <2> QED
    BY <1>0, <1>8, <2>1, <2>2, UnsentBegin DEF BeginInitialize, Undispatched, Intents
<1>9. ASSUME NEW p \in Procs, BeginApply(p) PROVE UnsentNow'
  <2>1. vis["live"] \in State /\ Remembers(vis["live"])
    BY <1>1, <1>4, <1>9 DEF BeginApply
  <2>2. PICK e \in Enrollment :
            \/ Supersedes(e, vis["live"]) /\ Enter(p, "enrollSave", FirstState(e))
            \/ Enter(p, "enrollCkpt", vis["live"])
    BY <1>9 DEF BeginApply
  <2>3. Supersedes(e, vis["live"]) => Remembers(FirstState(e))
    BY <1>2, <2>1
  <2> QED
    BY <1>0, <1>9, <2>1, <2>2, <2>3, UnsentBegin
       DEF BeginApply, ghosts, Undispatched, Intents
<1>10. ASSUME NEW p \in Procs, BeginRemove(p) PROVE UnsentNow'
  <2>1. Remembers(Tombstone(vis["live"]))
    BY <1>1, <1>2, <1>4, <1>10 DEF BeginRemove
  <2> QED
    BY <1>0, <1>10, <2>1, UnsentBegin DEF BeginRemove, ghosts, Undispatched, Intents
<1>11. ASSUME NEW p \in Procs, BeginRestore(p) PROVE UnsentNow'
  <2>1. vis["ckpt"] # NoState /\ Enter(p, "enrollSave", vis["ckpt"])
    BY <1>11 DEF BeginRestore, Lapse
  <2>2. Remembers(vis["ckpt"])
    BY <1>1, <2>1, CopiesHere
  <2> QED
    BY <1>0, <1>11, <2>1, <2>2, UnsentBegin DEF BeginRestore, Undispatched, Intents
<1>12. ASSUME NEW p \in Procs, Rename(p) PROVE UnsentNow'
  <2>1. /\ UNCHANGED <<pc, st, sent, retained>> /\ Copies' \subseteq Copies
    BY <1>12, RenameCopies DEF Rename, ghosts
  <2>2. /\ dur' = dur /\ vis'["ckpt"] \in {vis["ckpt"], st[p]}
        /\ pc[p] # "idle" /\ st[p] # NoState
    BY <1>5, <1>12, NoStateAssumption DEF Rename, Writes, TypeOK, Files
  <2> QED
    BY <1>0, <2>1, <2>2, RemembersStay DEF UnsentNow, Fresh
<1>13. ASSUME NEW p \in Procs, Sync(p) PROVE UnsentNow'
  <2>1. /\ pc[p] \in Writes /\ pc[p] # "idle" /\ vis' = vis /\ dur' = vis
        /\ UNCHANGED <<sent, retained>>
        /\ Continue(p, OnOk(pc[p]), st[p]) /\ Copies' \subseteq Copies
    BY <1>13, SyncCopies DEF Sync, Writes
  <2>2. OnOk(pc[p]) \in Undispatched => pc[p] \in Undispatched
    BY <2>1 DEF Writes, OnOk, Undispatched, Intents
  <2>3. OnOk(pc[p]) \in Undispatched => Fresh(st[p])
    BY <1>0, <2>2 DEF UnsentNow
  <2>4. Remembers(st[p])
    BY <1>1, <1>5, <2>1
  <2> QED
    BY <1>0, <2>1, <2>3, <2>4, UnsentContinue
<1>14. ASSUME NEW p \in Procs, WriteFails(p) PROVE UnsentNow'
  <2>1. /\ pc[p] \in Writes /\ pc[p] # "idle" /\ UNCHANGED <<vis, dur, sent, retained>>
        /\ Continue(p, OnErr(pc[p]), Settled(st[p]))
    BY <1>14 DEF WriteFails, Writes
  <2>2. CASE pc[p] \in Intents
    <3>1. Fresh(st[p]) /\ Remembers(st[p]) /\ st[p] \in State
      BY <1>0, <1>1, <1>5, <2>1, <2>2 DEF UnsentNow, Undispatched
    <3>2. Fresh(Settled(st[p])) /\ Remembers(Settled(st[p]))
      BY <1>2, <1>3, <3>1 DEF Fresh
    <3>3. Copies' \subseteq Copies \cup {Settled(st[p])}
      BY <2>1, ContinueCopies
    <3> QED
      BY <1>0, <2>1, <3>2, <3>3, UnsentContinue
  <2>3. CASE pc[p] \notin Intents
    BY <1>0, <2>1, <2>3, UnsentLeave DEF Continue, OnErr
  <2> QED
    BY <2>2, <2>3
<1>15. ASSUME NEW p \in Procs, Dispatch(p) PROVE UnsentNow'
  <2>1. /\ pc[p] = "dispatch" /\ sent' = sent \cup {AttemptOf(st[p])}
        /\ Enter(p, "exchange", st[p]) /\ UNCHANGED <<vis, dur, retained>>
    BY <1>15 DEF Dispatch
  <2>2. \A q \in Procs \ {p} : pc[q] = "idle"
    BY <2>1, Alone
  <2>3. \A s \in Copies' : s \in Copies
    BY <1>5, <2>1, EnterCopies
  <2>4. /\ vis["ckpt"] = st[p] /\ dur["ckpt"] = st[p] /\ st[p] \in State
        /\ vis["live"] \in {st[p], NoState} /\ dur["live"] \in {st[p], NoState}
        /\ st[p].pending
    BY <1>5, <2>1 DEF Published, Shape
  <2>5. \A q \in Procs \ {p} : pc'[q] = "idle" /\ st'[q] = st[q]
    BY <2>1, <2>2, EnterSeen
  <2>6. pc'[p] = "exchange" /\ st'[p] = st[p]
    BY <2>1, EnterSeen
  <2>7. \A s \in Copies : s = st[p]
    BY <2>2, <2>4 DEF Copies, Running, Files
  <2>8. Covered(AttemptOf(st[p]), st[p])
    BY <2>4 DEF Covered
  <2>9. \A s \in Copies' : Remembers(s)'
    BY <1>0, <2>1, <2>3, <2>7, <2>8 DEF UnsentNow, Remembers, Covered, Newer
  <2>10. NoState # st[p] /\ vis'["ckpt"] = st[p] /\ dur'["ckpt"] = st[p]
    BY <2>1, <2>4, NoStateAssumption
  <2> QED
    BY <2>5, <2>6, <2>9, <2>10 DEF UnsentNow, Undispatched, Intents
<1>16. ASSUME NEW p \in Procs, ExchangeOk(p) PROVE UnsentNow'
  <2>0. PICK t \in {st[p].token, st[p].rev + 1} :
            /\ Enter(p, "commitSave", NextRevision(st[p], t))
            /\ retained \subseteq retained'
            /\ t = st[p].token => AttemptOf(st[p]) \in retained'
    BY <1>16 DEF ExchangeOk
  <2>1. PICK n : /\ n = NextRevision(st[p], t) /\ Enter(p, "commitSave", n)
                 /\ t \in {st[p].token, st[p].rev + 1}
                 /\ retained \subseteq retained'
                 /\ t = st[p].token => AttemptOf(st[p]) \in retained'
    BY <2>0
  <2>2. pc[p] # "idle" /\ UNCHANGED <<vis, dur, sent>>
    BY <1>16 DEF ExchangeOk
  <2>3. st[p] \in State /\ \A a \in sent : a \in Attempts /\ Covered(a, st[p])
    BY <1>1, <1>5, <2>2 DEF Remembers
  <2>4. \A a \in sent : Covered(a, n)'
    BY <2>1, <2>3, CoveredNext
  <2>5. \A s \in Copies : Remembers(s)'
    BY <1>0, <2>1, <2>2, RemembersStay DEF UnsentNow
  <2>6. \A s \in Copies' : Remembers(s)'
    BY <2>1, <2>2, <2>4, <2>5, EnterCopies DEF Remembers
  <2>7. \A q \in Procs : pc'[q] \in Undispatched => pc[q] \in Undispatched /\ st'[q] = st[q]
    BY <2>1, EnterSeen DEF Undispatched, Intents
  <2> QED
    BY <1>0, <2>2, <2>6, <2>7 DEF UnsentNow, Fresh
<1>17. ASSUME NEW p \in Procs, ExchangeFails(p) \/ Release(p) \/ Kill(p) PROVE UnsentNow'
  BY <1>0, <1>17, UnsentLeave DEF ExchangeFails, Release, Kill, ghosts
<1>18. CASE PowerLoss
  <2>1. /\ \A q \in Procs : pc'[q] = "idle"
        /\ dur' = vis' /\ vis'["ckpt"] \in {vis["ckpt"], dur["ckpt"]}
        /\ UNCHANGED <<sent, retained>>
    BY <1>18 DEF PowerLoss, Files
  <2>2. Copies' \subseteq Copies
    BY <1>18, PowerLossCopies
  <2> QED
    BY <1>0, <2>1, <2>2, RemembersStay DEF UnsentNow, Undispatched, Intents
<1>19. CASE LoseLive
  <2>1. /\ vis'["ckpt"] = vis["ckpt"] /\ dur'["ckpt"] = dur["ckpt"]
        /\ UNCHANGED <<pc, st, sent, retained>>
    BY <1>19 DEF LoseLive, TypeOK, Files, ghosts
  <2>2. Copies' \subseteq Copies
    BY <1>19, LoseLiveCopies
  <2> QED
    BY <1>0, <2>1, <2>2, RemembersStay DEF UnsentNow, Fresh
<1>20. CASE TakeBackup \/ UNCHANGED vars
  BY <1>0, <1>20 DEF TakeBackup, vars, ghosts, UnsentNow, Copies, Running, Remembers,
     Covered, Newer, Fresh
<1> QED
  BY <1>6, <1>7, <1>8, <1>9, <1>10, <1>11, <1>12, <1>13, <1>14, <1>15, <1>16, <1>17,
     <1>18, <1>19, <1>20 DEF Next, Begin, BeginAccess, Run

\* What a command about to contact the provider knows: it makes an exchange for a
\* later revision than any before, and every exchange that sent its token left it
\* in force.
LEMMA First ==
  ASSUME TypeOK, Held, UnsentNow, NEW p \in Procs, pc[p] = "dispatch",
         NEW a \in sent, a.enr = st[p].enr
  PROVE  a.rev < st[p].rev /\ (a.token = st[p].token => a \in retained)
<1>1. st[p] \in State /\ st[p] \in Copies
  BY CopiesHere, NoStateAssumption DEF Held, Running
<1>2. Covered(a, st[p]) /\ a # AttemptOf(st[p])
  BY <1>1 DEF UnsentNow, Remembers, Fresh, Undispatched
<1>3. ~(a.enr.gen < st[p].enr.gen)
  BY <1>1, StateFields
<1> QED
  BY <1>2, <1>3 DEF Covered, Newer

\* No exchange is repeated and no token that may have been rotated is sent again.
THEOREM SendingOnce == Spec => []NoReplay
<1>1. Init => Unsent
  BY DEF Init, Unsent, Copies, Running, Files, Remembers, Undispatched, Intents
<1>2. TypeInv /\ Unsent => NoReplay
  BY First DEF TypeInv, Unsent, UnsentNow, NoReplay
<1> QED
  BY <1>1, <1>2, Commands, UnsentStep, PTL DEF Spec

-----------------------------------------------------------------------------
(* Removed generations.                                                    *)

\* What the commands make of a State respects the removals the State does.
LEMMA RespectsOps ==
  ASSUME TypeOK, NEW s \in State, Respects(s)
  PROVE  /\ Respects(Intent(s)) /\ Respects(Tombstone(s))
         /\ Respects(Settled(s)) /\ \A t : Respects(NextRevision(s, t))
         /\ \A e \in Enrollment : Supersedes(e, s) => Respects(FirstState(e))
<1>1. /\ Intent(s).enr = s.enr /\ Intent(s).granted = s.granted
      /\ Tombstone(s).enr = s.enr /\ ~Tombstone(s).granted
      /\ Settled(s).enr = s.enr /\ Settled(s).granted = s.granted
      /\ \A t : /\ NextRevision(s, t).enr = s.enr
                /\ NextRevision(s, t).granted = s.granted
  BY DEF State, Intent, Tombstone, Settled, NextRevision
<1>2. revoked \in Nat
  BY Numbers, GenerationsAssumption DEF TypeOK
<1>3. \A e \in Enrollment : Supersedes(e, s) => Respects(FirstState(e))
  BY <1>2, Numbers, StateFields DEF Respects, FirstState, Supersedes
<1> QED
  BY <1>1, <1>3 DEF Respects

\* The parts of Gone, when nothing was rolled back.
GoneNow ==
    /\ \A s \in Copies : Respects(s)
    /\ NoState \in {vis["ckpt"], dur["ckpt"]} => revoked = 0

\* A step that makes one copy that respects removals, and reports none.
LEMMA GoneContinue ==
  ASSUME GoneNow, NEW s, Respects(s), Copies' \subseteq Copies \cup {s},
         UNCHANGED revoked,
         NoState \in {vis'["ckpt"], dur'["ckpt"]} => NoState \in {vis["ckpt"], dur["ckpt"]}
  PROVE  GoneNow'
BY DEF GoneNow, Respects

\* A step that makes no copy, and reports no removal.
LEMMA GoneKept ==
  ASSUME GoneNow, Copies' \subseteq Copies, UNCHANGED revoked,
         NoState \in {vis'["ckpt"], dur'["ckpt"]} => NoState \in {vis["ckpt"], dur["ckpt"]}
  PROVE  GoneNow'
BY DEF GoneNow, Respects

\* Every step keeps every copy aware of the generations removed.
LEMMA GoneStep ==
  TypeInv /\ CommandInv /\ Gone /\ [Next]_vars => Gone'
<1> SUFFICES ASSUME TypeOK, Held, Exclusive, Shape, Published, Gone, [Next]_vars,
                    lapses' = {}
             PROVE  GoneNow'
  BY DEF TypeInv, CommandInv, Gone, GoneNow
<1>0. GoneNow
  BY LapsesGrow DEF Gone, GoneNow
<1>1. \A s \in Copies : s \in State /\ Respects(s)
  BY <1>0, CopiesType DEF GoneNow
<1>2. vis["live"] # NoState => vis["live"] \in Copies
  BY CopiesHere
<1>3. \A p \in Procs : pc[p] # "idle" => st[p] \in Copies /\ st[p] \in State
  BY CopiesHere, NoStateAssumption DEF Held, Running
<1>4. ASSUME NEW p \in Procs, NEW phase, NEW s, Respects(s), Enter(p, phase, s),
             UNCHANGED <<vis, dur, revoked>>
      PROVE  GoneNow'
  BY <1>0, <1>4, EnterCopies, GoneContinue
<1>5. ASSUME NEW p \in Procs, UseGrant(p) PROVE GoneNow'
  BY <1>1, <1>2, <1>4, <1>5 DEF UseGrant, Enrolled, ghosts
<1>6. ASSUME NEW p \in Procs, BeginRefresh(p) PROVE GoneNow'
  <2>1. Respects(Intent(vis["live"]))
    BY <1>1, <1>2, <1>6, RespectsOps DEF BeginRefresh, Enrolled
  <2> QED
    BY <1>4, <1>6, <2>1 DEF BeginRefresh, ghosts
<1>7. ASSUME NEW p \in Procs, BeginInitialize(p) PROVE GoneNow'
  <2>1. PICK e \in Enrollment :
            /\ Enter(p, "enrollSave", FirstState(e))
            /\ vis["ckpt"] # NoState => ~(e.gen <= vis["ckpt"].enr.gen)
    BY <1>7 DEF BeginInitialize, Lapse
  <2>2. Respects(FirstState(e))
    <3>1. CASE vis["ckpt"] = NoState
      <4>1. revoked = 0 /\ e.gen \in Nat \ {0}
        BY <1>0, <3>1, GenerationsAssumption DEF GoneNow, Enrollment
      <4> QED
        BY <4>1 DEF Respects, FirstState
    <3>2. CASE vis["ckpt"] # NoState
      <4>1. vis["ckpt"] \in State /\ Respects(vis["ckpt"])
        BY <1>1, <3>2, CopiesHere
      <4>2. Supersedes(e, vis["ckpt"])
        BY <2>1, <3>2, <4>1, Numbers, StateFields DEF Supersedes
      <4> QED
        BY <4>1, <4>2, RespectsOps
    <3> QED
      BY <3>1, <3>2
  <2> QED
    BY <1>4, <1>7, <2>1, <2>2 DEF BeginInitialize
<1>8. ASSUME NEW p \in Procs, BeginApply(p) PROVE GoneNow'
  <2>1. vis["live"] \in State /\ Respects(vis["live"])
    BY <1>1, <1>2, <1>8 DEF BeginApply
  <2>2. PICK e \in Enrollment :
            \/ Supersedes(e, vis["live"]) /\ Enter(p, "enrollSave", FirstState(e))
            \/ Enter(p, "enrollCkpt", vis["live"])
    BY <1>8 DEF BeginApply
  <2>3. Supersedes(e, vis["live"]) => Respects(FirstState(e))
    BY <2>1, RespectsOps
  <2> QED
    BY <1>4, <1>8, <2>1, <2>2, <2>3 DEF BeginApply, ghosts
<1>9. ASSUME NEW p \in Procs, BeginRemove(p) PROVE GoneNow'
  <2>1. Respects(Tombstone(vis["live"]))
    BY <1>1, <1>2, <1>9, RespectsOps DEF BeginRemove
  <2> QED
    BY <1>4, <1>9, <2>1 DEF BeginRemove, ghosts
<1>10. ASSUME NEW p \in Procs, BeginRestore(p) PROVE GoneNow'
  <2>1. vis["ckpt"] # NoState /\ Enter(p, "enrollSave", vis["ckpt"])
    BY <1>10 DEF BeginRestore, Lapse
  <2>2. Respects(vis["ckpt"])
    BY <1>1, <2>1, CopiesHere
  <2> QED
    BY <1>4, <1>10, <2>1, <2>2 DEF BeginRestore
<1>11. ASSUME NEW p \in Procs, Rename(p) PROVE GoneNow'
  <2>1. revoked' = revoked /\ dur' = dur /\ vis'["ckpt"] \in {vis["ckpt"], st[p]}
    BY <1>11 DEF Rename, ghosts, TypeOK, Files
  <2>2. st[p] # NoState
    BY <1>3, <1>11, NoStateAssumption DEF Rename, Writes
  <2> QED
    BY <1>0, <1>11, <2>1, <2>2, RenameCopies, GoneKept
<1>12. ASSUME NEW p \in Procs, Sync(p) PROVE GoneNow'
  <2>1. /\ pc[p] \in Writes /\ pc[p] # "idle" /\ io[p] = "sync"
        /\ vis' = vis /\ dur' = vis /\ Copies' \subseteq Copies
    BY <1>12, SyncCopies DEF Sync, Writes
  <2>2. CASE revoked' = revoked
    BY <1>0, <2>1, <2>2, GoneKept
  <2>3. CASE revoked' # revoked
    <3>1. pc[p] = "enrollCkpt" /\ ~st[p].granted /\ revoked' = st[p].enr.gen
      BY <1>12, <2>3 DEF Sync
    <3>2. /\ vis["ckpt"] = st[p] /\ vis["live"] \in {st[p], NoState}
          /\ st[p] \in State /\ st[p] # NoState
      BY <1>3, <2>1, <3>1, NoStateAssumption DEF Published, FileOf
    <3>3. \A q \in Procs \ {p} : pc[q] = "idle"
      BY <2>1, Alone
    <3>4. \A q \in Procs : pc'[q] # "idle" => st'[q] = st[p]
      BY <1>12, <3>3, EnterSeen DEF Sync, Continue, Leave
    <3>5. \A s \in Copies' : s = st[p]
      BY <2>1, <3>2, <3>4 DEF Copies, Running, Files
    <3>6. st[p].enr.gen \in Nat
      BY <3>2, StateFields
    <3>7. \A s \in Copies' : Respects(s)'
      BY <3>1, <3>5, <3>6 DEF Respects
    <3> QED
      BY <2>1, <3>2, <3>7 DEF GoneNow
  <2> QED
    BY <2>2, <2>3
<1>13. ASSUME NEW p \in Procs, WriteFails(p) PROVE GoneNow'
  <2>1. Copies' \subseteq Copies \cup {Settled(st[p])} /\ UNCHANGED <<vis, dur, revoked>>
    BY <1>13, ContinueCopies DEF WriteFails
  <2>2. Respects(Settled(st[p]))
    BY <1>1, <1>3, <1>13, RespectsOps DEF WriteFails, Writes
  <2> QED
    BY <1>0, <2>1, <2>2, GoneContinue
<1>14. ASSUME NEW p \in Procs, Dispatch(p) PROVE GoneNow'
  BY <1>1, <1>3, <1>4, <1>14 DEF Dispatch
<1>15. ASSUME NEW p \in Procs, ExchangeOk(p) PROVE GoneNow'
  <2>1. \A t : Respects(NextRevision(st[p], t))
    BY <1>1, <1>3, <1>15, RespectsOps DEF ExchangeOk
  <2> QED
    BY <1>4, <1>15, <2>1 DEF ExchangeOk
<1>16. ASSUME NEW p \in Procs, ExchangeFails(p) \/ Release(p) \/ Kill(p) PROVE GoneNow'
  BY <1>0, <1>16, LeaveCopies, GoneKept DEF ExchangeFails, Release, Kill, ghosts
<1>17. CASE PowerLoss
  <2>1. dur' = vis' /\ vis'["ckpt"] \in {vis["ckpt"], dur["ckpt"]} /\ revoked' = revoked
    BY <1>17 DEF PowerLoss, Files
  <2> QED
    BY <1>0, <1>17, <2>1, PowerLossCopies, GoneKept
<1>18. CASE LoseLive
  <2>1. /\ vis'["ckpt"] = vis["ckpt"] /\ dur'["ckpt"] = dur["ckpt"] /\ revoked' = revoked
    BY <1>18 DEF LoseLive, TypeOK, Files, ghosts
  <2> QED
    BY <1>0, <1>18, <2>1, LoseLiveCopies, GoneKept
<1>19. CASE TakeBackup \/ UNCHANGED vars
  <2>1. Copies' = Copies /\ UNCHANGED <<vis, dur, revoked>>
    BY <1>19 DEF TakeBackup, vars, ghosts, Copies, Running
  <2> QED
    BY <1>0, <2>1, GoneKept
<1> QED
  BY <1>5, <1>6, <1>7, <1>8, <1>9, <1>10, <1>11, <1>12, <1>13, <1>14, <1>15, <1>16,
     <1>17, <1>18, <1>19 DEF Next, Begin, BeginAccess, Run

\* No access token of a generation that was reported removed is ever released.
THEOREM RemovalLasts == Spec => []RemovedStaysRemoved
<1>1. Init => Gone
  BY DEF Init, Gone, Copies, Running, Files
<1>2. TypeInv /\ CommandInv /\ Gone => RemovedStaysRemoved
  BY CopiesHere, NoStateAssumption
     DEF TypeInv, CommandInv, Held, Shape, Running, Gone, Respects, RemovedStaysRemoved
<1> QED
  BY <1>1, <1>2, Commands, GoneStep, PTL DEF Spec

-----------------------------------------------------------------------------
(* Fenced live files.                                                      *)

Causes == sent \cup abandoned \cup Interrupted(Procs)
LiveCopies == {vis["live"], dur["live"]}

\* A step that forgets no cause and brings no new intent into a live file.
LEMMA CauseKept ==
  ASSUME Cause, Causes \subseteq Causes',
         \A s \in LiveCopies' \ {NoState} :
             s \in LiveCopies \/ ~s.pending \/ AttemptOf(s) \in Causes'
  PROVE  Cause'
BY DEF Cause, Causes, LiveCopies

\* A running exchange is interrupted with its process.
LEMMA InterruptedOne ==
  ASSUME NEW p \in Procs, pc[p] \in Undispatched
  PROVE  /\ AttemptOf(st[p]) \in Interrupted(Procs)
         /\ AttemptOf(st[p]) \in Interrupted({p})
BY DEF Interrupted

\* If only p moves, no other process's intent is forgotten.
LEMMA CausesOf ==
  ASSUME NEW p \in Procs, \A q \in Procs \ {p} : pc'[q] = pc[q] /\ st'[q] = st[q],
         sent \cup abandoned \subseteq sent' \cup abandoned',
         pc[p] \in Undispatched => AttemptOf(st[p]) \in Causes'
  PROVE  Causes \subseteq Causes'
<1>1. ASSUME NEW q \in Procs, pc[q] \in Undispatched PROVE AttemptOf(st[q]) \in Causes'
  <2>1. CASE q = p
    BY <1>1, <2>1
  <2>2. CASE q # p
    <3>1. pc'[q] \in Undispatched /\ AttemptOf(st[q]) = AttemptOf(st'[q])
      BY <1>1, <2>2
    <3> QED
      BY <3>1 DEF Causes, Interrupted
  <2> QED
    BY <2>1, <2>2
<1>2. Interrupted(Procs) \subseteq Causes'
  BY <1>1 DEF Interrupted
<1> QED
  BY <1>2 DEF Causes

\* Every step keeps a cause for each fenced live file.
LEMMA CauseStep ==
  TypeInv /\ CommandInv /\ Cause /\ [Next]_vars => Cause'
<1> SUFFICES ASSUME TypeOK, Held, Exclusive, Shape, Published, Cause, [Next]_vars
             PROVE  Cause'
  BY DEF TypeInv, CommandInv
<1>1. ASSUME NEW p \in Procs, NEW phase, NEW s, Enter(p, phase, s) \/ Leave(p),
             pc[p] \notin Undispatched, UNCHANGED <<vis, dur, abandoned>>,
             sent \subseteq sent'
      PROVE  Cause'
  <2>1. Causes \subseteq Causes'
    BY <1>1, EnterSeen, CausesOf DEF Leave
  <2> QED
    BY <1>1, <2>1, CauseKept DEF LiveCopies
<1>2. ASSUME NEW p \in Procs, Begin(p) PROVE Cause'
  <2>1. /\ pc[p] \notin Undispatched /\ UNCHANGED <<vis, dur, abandoned, sent>>
        /\ \E phase, s : Enter(p, phase, s)
    BY <1>2 DEF Begin, BeginAccess, UseGrant, BeginRefresh, BeginInitialize, BeginApply,
                BeginRemove, BeginRestore, Acquire, ghosts, Undispatched, Intents
  <2> QED
    BY <1>1, <2>1
<1>3. ASSUME NEW p \in Procs, Rename(p) PROVE Cause'
  <2>1. /\ pc[p] \in Writes /\ UNCHANGED <<pc, st, sent, abandoned, dur>>
        /\ vis'["live"] # vis["live"] => FileOf(pc[p]) = "live" /\ vis'["live"] = st[p]
    BY <1>3 DEF Rename, ghosts, TypeOK, FileOf, Files
  <2>2. Causes' = Causes
    BY <2>1 DEF Causes, Interrupted
  <2>3. FileOf(pc[p]) = "live" /\ st[p].pending => pc[p] \in Intents
    BY <2>1 DEF Shape, FileOf, Writes, Intents
  <2>4. FileOf(pc[p]) = "live" /\ st[p].pending => AttemptOf(st[p]) \in Causes
    BY <2>3, InterruptedOne DEF Causes, Undispatched
  <2> QED
    BY <2>1, <2>2, <2>4, CauseKept DEF LiveCopies
<1>4. ASSUME NEW p \in Procs, Sync(p) PROVE Cause'
  <2>1. /\ pc[p] \in Writes /\ io[p] = "sync" /\ UNCHANGED <<vis, sent, abandoned>>
        /\ dur' = vis /\ Continue(p, OnOk(pc[p]), st[p])
    BY <1>4 DEF Sync
  <2>2. CASE pc[p] = "rollbackSave"
    <3>1. vis["live"] \in {st[p], NoState} /\ ~st[p].pending
      BY <2>1, <2>2 DEF Published, Shape, FileOf
    <3> QED
      BY <2>1, <3>1 DEF Cause
  <2>3. CASE pc[p] # "rollbackSave"
    <3>1. pc[p] \in Undispatched =>
              OnOk(pc[p]) \in Undispatched /\ OnOk(pc[p]) # "idle"
      BY <2>1, <2>3 DEF Writes, Undispatched, Intents, OnOk
    <3>2. pc[p] \in Undispatched => pc'[p] \in Undispatched /\ st'[p] = st[p]
      BY <2>1, <3>1, EnterSeen DEF Continue
    <3>3. pc[p] \in Undispatched => AttemptOf(st[p]) \in Causes'
      BY <3>2 DEF Causes, Interrupted
    <3>4. Causes \subseteq Causes'
      BY <2>1, <3>3, EnterSeen, CausesOf DEF Continue, Leave
    <3> QED
      BY <2>1, <3>4, CauseKept DEF LiveCopies
  <2> QED
    BY <2>2, <2>3
<1>5. ASSUME NEW p \in Procs, WriteFails(p) PROVE Cause'
  <2>1. /\ pc[p] \in Writes /\ UNCHANGED <<vis, dur, sent>> /\ st[p] \in State
        /\ Continue(p, OnErr(pc[p]), Settled(st[p])) /\ abandoned \subseteq abandoned'
        /\ pc[p] = "rollbackSave" => AttemptOf(st[p]) \in abandoned'
    BY <1>5 DEF WriteFails, Held, Writes
  <2>2. pc[p] \in Intents => pc'[p] = "rollbackSave" /\ st'[p] = Settled(st[p])
    BY <2>1, EnterSeen DEF Continue, OnErr
  <2>3. AttemptOf(Settled(st[p])) = AttemptOf(st[p])
    BY <2>1 DEF State, Settled, AttemptOf
  <2>4. pc[p] \in Intents => AttemptOf(st[p]) \in Interrupted(Procs)'
    BY <2>2, <2>3 DEF Interrupted, Undispatched
  <2>5. pc[p] \in Undispatched => AttemptOf(st[p]) \in Causes'
    BY <2>1, <2>4 DEF Causes, Undispatched, Writes
  <2>6. Causes \subseteq Causes'
    BY <2>1, <2>5, EnterSeen, CausesOf DEF Continue, Leave
  <2> QED
    BY <2>1, <2>6, CauseKept DEF LiveCopies
<1>6. ASSUME NEW p \in Procs, Dispatch(p) PROVE Cause'
  <2>1. /\ Enter(p, "exchange", st[p]) /\ UNCHANGED <<vis, dur>>
        /\ sent' = sent \cup {AttemptOf(st[p])}
        /\ abandoned' = abandoned \ {AttemptOf(st[p])}
    BY <1>6 DEF Dispatch
  <2>2. Causes \subseteq Causes'
    BY <2>1, EnterSeen, CausesOf DEF Causes
  <2> QED
    BY <2>1, <2>2, CauseKept DEF LiveCopies
<1>7. ASSUME NEW p \in Procs, ExchangeOk(p) \/ ExchangeFails(p) \/ Release(p)
      PROVE  Cause'
  BY <1>1, <1>7
     DEF ExchangeOk, ExchangeFails, Release, ghosts, Undispatched, Intents
<1>8. ASSUME NEW p \in Procs, Kill(p) PROVE Cause'
  <2>1. /\ Leave(p) /\ UNCHANGED <<vis, dur, sent>>
        /\ abandoned' = abandoned \cup Interrupted({p})
    BY <1>8 DEF Kill
  <2>2. pc[p] \in Undispatched => AttemptOf(st[p]) \in Causes'
    BY <2>1, InterruptedOne DEF Causes
  <2>3. Causes \subseteq Causes'
    BY <2>1, <2>2, EnterSeen, CausesOf DEF Leave
  <2> QED
    BY <2>1, <2>3, CauseKept DEF LiveCopies
<1>9. CASE PowerLoss
  <2>1. /\ abandoned' = abandoned \cup Interrupted(Procs) /\ sent' = sent
        /\ dur' = vis' /\ vis'["live"] \in LiveCopies
    BY <1>9 DEF PowerLoss, Files, LiveCopies
  <2>2. Causes \subseteq Causes'
    BY <2>1 DEF Causes
  <2> QED
    BY <2>1, <2>2, CauseKept DEF LiveCopies
<1>10. CASE LoseLive
  <2>1. vis'["live"] = NoState /\ dur'["live"] = NoState
    BY <1>10 DEF LoseLive, TypeOK, Files
  <2> QED
    BY <2>1 DEF Cause
<1>11. CASE TakeBackup \/ UNCHANGED vars
  BY <1>11 DEF TakeBackup, vars, ghosts, Cause, Interrupted
<1> QED
  BY <1>2, <1>3, <1>4, <1>5, <1>6, <1>7, <1>8, <1>9, <1>10, <1>11 DEF Next, Run

\* A live file demands a new authorization only if its exchange was sent or was
\* cut off on the way.
THEOREM Fencing == Spec => []FencedOnlyForCause
<1>1. Init => Cause
  BY DEF Init, Cause, Files
<1>2. ASSUME TypeInv, CommandInv, Cause PROVE FencedOnlyForCause
  <2>1. lock = Nobody => Interrupted(Procs) = {}
    BY <1>2, NobodyAssumption
       DEF CommandInv, Exclusive, Interrupted, Undispatched, Intents
  <2> QED
    BY <1>2, <2>1 DEF Cause, FencedOnlyForCause
<1> QED
  BY <1>1, <1>2, Commands, CauseStep, PTL DEF Spec

-----------------------------------------------------------------------------
(* The live file advances.                                                 *)

\* Follows is a preorder on States.
LEMMA FollowsOrder ==
  /\ \A s \in State : Follows(s, s)
  /\ \A s, t, u \in State : Follows(s, t) /\ Follows(t, u) => Follows(s, u)
<1>1. \A s \in State : s.rev >= s.rev
  BY StateFields
<1>2. \A s, t, u \in State : Follows(s, t) /\ Follows(t, u) => Follows(s, u)
  BY StateFields DEF Follows
<1> QED
  BY <1>1, <1>2 DEF Follows

\* What the commands make of a State follows it.
LEMMA FollowsOps ==
  ASSUME NEW s \in State
  PROVE  /\ Follows(s, Intent(s)) /\ Follows(s, Settled(s)) /\ Follows(s, Tombstone(s))
         /\ \A t : Follows(s, NextRevision(s, t))
         /\ \A e \in Enrollment : Supersedes(e, s) => Follows(s, FirstState(e))
<1>1. /\ \A t \in {Intent(s), Settled(s), Tombstone(s)} :
             t.enr = s.enr /\ t.rev = s.rev /\ (t.granted => s.granted)
      /\ \A t : /\ NextRevision(s, t).enr = s.enr /\ NextRevision(s, t).rev = s.rev + 1
                /\ NextRevision(s, t).granted = s.granted
  BY DEF State, Intent, Settled, Tombstone, NextRevision
<1>2. s.rev >= s.rev /\ s.rev + 1 >= s.rev
  BY StateFields
<1> QED
  BY <1>1, <1>2 DEF Follows, Supersedes, FirstState

\* Every step keeps the live file, durable and visible, and the commands in order.
LEMMA AdvancingStep ==
  TypeInv /\ CommandInv /\ Advancing /\ [Next]_vars =>
      Advancing' /\ (dur["live"] # NoState /\ dur'["live"] # NoState =>
                         Follows(dur["live"], dur'["live"]))
<1> DEFINE Result == Advancing' /\ (dur["live"] # NoState /\ dur'["live"] # NoState =>
                                        Follows(dur["live"], dur'["live"]))
<1> SUFFICES ASSUME TypeOK, Held, Exclusive, Advancing, [Next]_vars PROVE Result
  BY DEF TypeInv, CommandInv
<1>0. /\ vis["live"] # NoState => vis["live"] \in State
      /\ dur["live"] # NoState => dur["live"] \in State
      /\ \A p \in Procs : pc[p] # "idle" => st[p] \in State
  BY FileType DEF Files, Held
<1>1. ASSUME NEW p \in Procs, NEW phase, NEW s,
             pc[p] # "idle" \/ lock = Nobody,
             Enter(p, phase, s) \/ Continue(p, phase, s) \/ Leave(p),
             vis["live"] # NoState => Follows(vis["live"], s),
             vis' = vis, dur' \in {vis, dur}
      PROVE  Result
  <2>1. \A q \in Procs \ {p} : pc'[q] = "idle"
    BY <1>1, Alone, EnterSeen DEF Continue, Leave
  <2>2. pc'[p] = "idle" \/ st'[p] = s
    BY <1>1, EnterSeen DEF Continue, Leave
  <2>3. \A q \in Procs : pc'[q] # "idle" /\ vis["live"] # NoState =>
            Follows(vis["live"], st'[q])
    BY <1>1, <2>1, <2>2
  <2>4. vis["live"] # NoState => Follows(vis["live"], vis["live"])
    BY <1>0, FollowsOrder
  <2>5. dur["live"] # NoState => Follows(dur["live"], dur["live"])
    BY <1>0, FollowsOrder
  <2> QED
    BY <1>1, <2>3, <2>4, <2>5 DEF Advancing
<1>2. ASSUME NEW p \in Procs, UseGrant(p) \/ BeginRefresh(p) PROVE Result
  BY <1>0, <1>1, <1>2, FollowsOps, FollowsOrder DEF UseGrant, BeginRefresh, Acquire
<1>3. ASSUME NEW p \in Procs, BeginInitialize(p) \/ BeginRestore(p) PROVE Result
  BY <1>1, <1>3 DEF BeginInitialize, BeginRestore, Restorable, Acquire
<1>4. ASSUME NEW p \in Procs, BeginApply(p) PROVE Result
  <2>1. PICK e \in Enrollment :
            \/ Supersedes(e, vis["live"]) /\ Enter(p, "enrollSave", FirstState(e))
            \/ Enter(p, "enrollCkpt", vis["live"])
    BY <1>4 DEF BeginApply
  <2> QED
    BY <1>0, <1>1, <1>4, <2>1, FollowsOps, FollowsOrder DEF BeginApply, Acquire
<1>5. ASSUME NEW p \in Procs, BeginRemove(p) PROVE Result
  BY <1>0, <1>1, <1>5, FollowsOps DEF BeginRemove, Acquire
<1>6. ASSUME NEW p \in Procs, Rename(p) PROVE Result
  <2>1. /\ pc[p] # "idle" /\ UNCHANGED <<pc, st, dur>>
        /\ vis'["live"] \in {vis["live"], st[p]}
    BY <1>6 DEF Rename, TypeOK, FileOf, Files, Writes
  <2>2. CASE vis'["live"] = vis["live"]
    BY <1>0, <2>1, <2>2, FollowsOrder DEF Advancing
  <2>3. CASE vis'["live"] = st[p]
    <3>1. \A q \in Procs \ {p} : pc[q] = "idle"
      BY <2>1, Alone
    <3>2. st[p] \in State /\ st[p] # NoState /\ Follows(st[p], st[p])
      BY <1>0, <2>1, FollowsOrder, NoStateAssumption
    <3>3. dur["live"] # NoState => Follows(dur["live"], st[p])
      BY <1>0, <2>1, <3>2, FollowsOrder DEF Advancing
    <3>4. dur["live"] # NoState => Follows(dur["live"], dur["live"])
      BY <1>0, FollowsOrder
    <3> QED
      BY <2>1, <2>3, <3>1, <3>2, <3>3, <3>4 DEF Advancing
  <2> QED
    BY <2>1, <2>2, <2>3
<1>7. ASSUME NEW p \in Procs, Sync(p) PROVE Result
  BY <1>1, <1>7 DEF Sync, Writes, Advancing
<1>8. ASSUME NEW p \in Procs, WriteFails(p) PROVE Result
  <2>1. pc[p] # "idle" /\ Continue(p, OnErr(pc[p]), Settled(st[p])) /\ UNCHANGED <<vis, dur>>
    BY <1>8 DEF WriteFails, Writes
  <2>2. vis["live"] # NoState => Follows(vis["live"], Settled(st[p]))
    BY <1>0, <2>1, FollowsOps, FollowsOrder, StateOps DEF Advancing
  <2> QED
    BY <1>1, <2>1, <2>2
<1>9. ASSUME NEW p \in Procs, Dispatch(p) PROVE Result
  BY <1>1, <1>9 DEF Dispatch, Advancing
<1>10. ASSUME NEW p \in Procs, ExchangeOk(p) PROVE Result
  <2>1. /\ pc[p] # "idle" /\ CountsFurther(st[p]) /\ UNCHANGED <<vis, dur>>
        /\ \E t \in {st[p].token, st[p].rev + 1} :
               Enter(p, "commitSave", NextRevision(st[p], t))
    BY <1>10 DEF ExchangeOk
  <2>2. \A t \in {st[p].token, st[p].rev + 1} :
            /\ NextRevision(st[p], t) \in State
            /\ Follows(st[p], NextRevision(st[p], t))
    BY <1>0, <2>1, FollowsOps, StateOps
  <2>3. \A t \in {st[p].token, st[p].rev + 1} :
            vis["live"] # NoState => Follows(vis["live"], NextRevision(st[p], t))
    BY <1>0, <2>1, <2>2, FollowsOrder DEF Advancing
  <2> QED
    BY <1>1, <2>1, <2>3
<1>11. ASSUME NEW p \in Procs, ExchangeFails(p) \/ Release(p) \/ Kill(p) PROVE Result
  BY <1>1, <1>11 DEF ExchangeFails, Release, Kill, Advancing
<1>12. CASE PowerLoss
  <2>1. /\ dur' = vis' /\ vis'["live"] \in {vis["live"], dur["live"]}
        /\ \A q \in Procs : pc'[q] = "idle"
    BY <1>12 DEF PowerLoss, Files
  <2>2. vis'["live"] # NoState => Follows(vis'["live"], vis'["live"])
    BY <1>0, <2>1, FollowsOrder
  <2>3. dur["live"] # NoState => Follows(dur["live"], dur["live"])
    BY <1>0, FollowsOrder
  <2> QED
    BY <2>1, <2>2, <2>3 DEF Advancing
<1>13. CASE LoseLive
  <2>1. vis'["live"] = NoState /\ dur'["live"] = NoState
    BY <1>13 DEF LoseLive, TypeOK, Files
  <2> QED
    BY <2>1 DEF Advancing
<1>14. CASE TakeBackup \/ UNCHANGED vars
  <2>1. UNCHANGED <<vis, dur, pc, st>>
    BY <1>14 DEF TakeBackup, vars
  <2> QED
    BY <1>0, <2>1, FollowsOrder DEF Advancing
<1> QED
  BY <1>2, <1>3, <1>4, <1>5, <1>6, <1>7, <1>8, <1>9, <1>10, <1>11, <1>12, <1>13,
     <1>14 DEF Next, Begin, BeginAccess, Run

\* The durable live file only ever advances.
THEOREM Forward == Spec => LiveNeverRollsBack
<1>1. Init => Advancing
  BY DEF Init, Advancing, Files
<1>2. TypeInv /\ CommandInv /\ Advancing /\ [Next]_vars => Advancing'
  BY AdvancingStep
<1>3. TypeInv /\ CommandInv /\ Advancing /\ [Next]_vars =>
          [dur.live # NoState /\ dur'.live # NoState =>
              \/ dur'.live.enr.gen > dur.live.enr.gen
              \/ /\ dur'.live.enr = dur.live.enr
                 /\ dur'.live.rev >= dur.live.rev
                 /\ dur'.live.granted => dur.live.granted]_vars
  BY AdvancingStep DEF Follows
<1> QED
  BY <1>1, <1>2, <1>3, Commands, PTL DEF Spec, LiveNeverRollsBack

-----------------------------------------------------------------------------
(* What the ledger sees of who runs.                                       *)

\* Nothing is being handed out unless the command that runs is releasing.
LEMMA HandsNothing ==
  ASSUME \A p \in Procs : pc[p] # "release"
  PROVE  HandedOut = {}
BY DEF HandedOut

\* One command runs at a time, so at most one enrollment is handed out.
LEMMA HandsOne ==
  ASSUME NEW p \in Procs, \A q \in Procs \ {p} : pc[q] = "idle", pc[p] = "release"
  PROVE  HandedOut = {st[p].enr}
BY DEF HandedOut

\* A command that does not go on to a release leaves nothing handed out.
LEMMA HandsLast ==
  ASSUME TypeOK, Exclusive, NEW p \in Procs, NEW phase, NEW s, phase # "release",
         pc[p] # "idle" \/ lock = Nobody,
         Enter(p, phase, s) \/ Continue(p, phase, s) \/ Leave(p)
  PROVE  HandedOut' = {}
<1>1. \A q \in Procs \ {p} : pc[q] = "idle"
  BY Alone, NobodyAssumption DEF Exclusive
<1>2. \A q \in Procs : pc'[q] # "release"
  BY <1>1, EnterSeen DEF Continue, Leave
<1> QED
  BY <1>2 DEF HandedOut

-----------------------------------------------------------------------------
(* Exchanges on their way.                                                 *)

\* A command that waits for an answer has sent what it waits for.
Asked == \A p \in Procs : pc[p] = "exchange" => AttemptOf(st[p]) \in sent

\* A step after which nobody new waits for an answer.
LEMMA AskedKept ==
  ASSUME Asked, sent \subseteq sent',
         \A q \in Procs : pc'[q] = "exchange" => pc[q] = "exchange" /\ st'[q] = st[q]
  PROVE  Asked'
BY DEF Asked

\* Every step keeps what is asked among what was sent.
LEMMA AskedStep == TypeInv /\ Asked /\ [Next]_vars => Asked'
<1> SUFFICES ASSUME TypeOK, Held, Asked, [Next]_vars PROVE Asked'
  BY DEF TypeInv
<1>1. ASSUME NEW p \in Procs, NEW phase, NEW s, phase # "exchange", UNCHANGED sent,
             Enter(p, phase, s) \/ Continue(p, phase, s) \/ Leave(p)
      PROVE  Asked'
  BY <1>1, EnterSeen, AskedKept DEF Continue, Leave
<1>2. ASSUME NEW p \in Procs, Begin(p) PROVE Asked'
  <2>1. UNCHANGED sent /\ \E phase, s : phase # "exchange" /\ Enter(p, phase, s)
    BY <1>2 DEF Begin, BeginAccess, UseGrant, BeginRefresh, BeginInitialize, BeginApply,
                BeginRemove, BeginRestore, ghosts
  <2> QED
    BY <1>1, <2>1
<1>3. ASSUME NEW p \in Procs, Rename(p) PROVE Asked'
  BY <1>3 DEF Rename, ghosts, Asked
<1>4. ASSUME NEW p \in Procs, Sync(p) PROVE Asked'
  BY <1>1, <1>4 DEF Sync, OnOk
<1>5. ASSUME NEW p \in Procs, WriteFails(p) PROVE Asked'
  BY <1>1, <1>5 DEF WriteFails, OnErr
<1>6. ASSUME NEW p \in Procs, Dispatch(p) PROVE Asked'
  <2>1. /\ sent' = sent \cup {AttemptOf(st[p])} /\ st'[p] = st[p]
        /\ \A q \in Procs \ {p} : pc'[q] = pc[q] /\ st'[q] = st[q]
    BY <1>6, EnterSeen DEF Dispatch
  <2> QED
    BY <2>1 DEF Asked
<1>7. ASSUME NEW p \in Procs, ExchangeOk(p) \/ ExchangeFails(p) \/ Release(p) \/ Kill(p)
      PROVE  Asked'
  BY <1>1, <1>7 DEF ExchangeOk, ExchangeFails, Release, Kill, ghosts
<1>8. CASE PowerLoss
  BY <1>8 DEF PowerLoss, Asked
<1>9. CASE LoseLive \/ TakeBackup \/ UNCHANGED vars
  BY <1>9 DEF LoseLive, TakeBackup, vars, ghosts, Asked
<1> QED
  BY <1>2, <1>3, <1>4, <1>5, <1>6, <1>7, <1>8, <1>9 DEF Next, Run

-----------------------------------------------------------------------------
(* Each step of the store is a step of the ledger.                         *)

\* A step that leaves the ledger's books alone is a Write of the ledger.
LEMMA LedgerWrite ==
  ASSUME Ledger!Moves, HandedOut' \in {HandedOut, {}},
         UNCHANGED <<sent, retained, revoked>>
  PROVE  Ledger!Next
BY DEF Ledger!Next, Ledger!Write

\* The record moves as the live file does.
LEMMA LedgerMoves ==
  ASSUME dur["live"] # NoState /\ dur'["live"] # NoState => Follows(dur["live"], dur'["live"])
  PROVE  Ledger!Moves
BY DEF Ledger!Moves, Ledger!Forward, Follows

\* Dispatch spends, an answer without a new token keeps, the last publication of an
\* access hands out, that of a removal removes, and everything else is a Write.
LEMMA LedgerStep ==
  TypeInv /\ CommandInv /\ Unsent /\ Gone /\ Asked /\ Advancing /\ lapses = {}
      /\ [Next]_vars => [Ledger!Next]_(Ledger!lvars)
<1> SUFFICES ASSUME TypeInv, CommandInv, Unsent, Gone, Asked, Advancing, lapses = {}, Next
             PROVE  Ledger!Next \/ UNCHANGED Ledger!lvars
  BY DEF vars, ghosts, Ledger!lvars, HandedOut
<1>0. TypeOK /\ Held /\ Exclusive /\ Shape /\ Published
  BY DEF TypeInv, CommandInv
<1>1. Ledger!Moves
  BY AdvancingStep, LedgerMoves
<1>2. ASSUME NEW p \in Procs, Begin(p) PROVE Ledger!Next
  <2>1. /\ lock = Nobody /\ UNCHANGED <<sent, retained, revoked>>
        /\ \E phase, s : phase # "release" /\ Enter(p, phase, s)
    BY <1>2 DEF Begin, BeginAccess, UseGrant, BeginRefresh, BeginInitialize, BeginApply,
                BeginRemove, BeginRestore, Acquire, ghosts
  <2>2. HandedOut' = {}
    BY <1>0, <2>1, HandsLast
  <2> QED
    BY <1>1, <2>1, <2>2, LedgerWrite
<1>3. ASSUME NEW p \in Procs, Rename(p) PROVE Ledger!Next
  BY <1>1, <1>3, LedgerWrite DEF Rename, ghosts, HandedOut
<1>4. ASSUME NEW p \in Procs, Sync(p) PROVE Ledger!Next
  <2>1. /\ pc[p] \in Writes /\ pc[p] # "idle" /\ st[p] \in State
        /\ UNCHANGED <<sent, retained>>
        /\ dur' = vis /\ Continue(p, OnOk(pc[p]), st[p])
    BY <1>0, <1>4 DEF Sync, Writes, Held
  <2>2. \A q \in Procs \ {p} : pc[q] = "idle"
    BY <1>0, <2>1, Alone
  <2>3. HandedOut = {}
    BY <2>1, <2>2, HandsNothing DEF Writes
  <2>4. CASE pc[p] = "publish"
    <3>1. pc'[p] = "release" /\ st'[p] = st[p] /\ revoked' = revoked
      BY <1>4, <2>1, <2>4, EnterSeen, <1>0 DEF Sync, Continue, OnOk
    <3>2. \A q \in Procs \ {p} : pc'[q] = "idle"
      BY <1>0, <2>1, <2>2, EnterSeen DEF Continue, Leave
    <3>3. HandedOut' = {st[p].enr}
      BY <3>1, <3>2 DEF HandedOut
    <3>4. dur'["live"] \in {st[p], NoState} /\ st[p].granted /\ ~st[p].pending
      BY <1>0, <2>1, <2>4 DEF Published, Shape
    <3>5. st[p].enr \in Enrollment /\ st[p].enr.gen > revoked
      BY <1>0, <2>1, <3>4, CopiesHere, NoStateAssumption, StateFields
         DEF Gone, Respects, Running
    <3>6. Ledger!Hand(st[p].enr)
      BY <1>1, <2>1, <2>3, <3>1, <3>3, <3>4, <3>5 DEF Ledger!Hand
    <3> QED
      BY <3>5, <3>6 DEF Ledger!Next
  <2>5. CASE pc[p] = "enrollCkpt" /\ ~st[p].granted /\ st[p].enr.gen > revoked
    <3>1. HandedOut' = {} /\ revoked' = st[p].enr.gen
      BY <1>0, <1>4, <2>1, <2>5, HandsLast DEF Sync, OnOk
    <3>2. dur'["live"] \in {st[p], NoState} /\ st[p].enr \in Enrollment
      BY <1>0, <2>1, <2>5, StateFields DEF Published
    <3>3. Ledger!Remove(st[p].enr)
      BY <1>1, <2>1, <2>3, <2>5, <3>1, <3>2 DEF Ledger!Remove
    <3> QED
      BY <3>2, <3>3 DEF Ledger!Next
  <2>6. CASE /\ pc[p] # "publish"
             /\ ~(pc[p] = "enrollCkpt" /\ ~st[p].granted /\ st[p].enr.gen > revoked)
    <3>1. OnOk(pc[p]) # "release" /\ revoked' = revoked
      BY <1>4, <2>1, <2>6 DEF Sync, Writes, OnOk
    <3>2. HandedOut' = {}
      BY <1>0, <2>1, <3>1, HandsLast
    <3> QED
      BY <1>1, <2>1, <3>1, <3>2, LedgerWrite
  <2> QED
    BY <2>4, <2>5, <2>6
<1>5. ASSUME NEW p \in Procs, WriteFails(p) PROVE Ledger!Next
  <2>1. /\ pc[p] # "idle" /\ UNCHANGED <<sent, retained, revoked>>
        /\ Continue(p, OnErr(pc[p]), Settled(st[p])) /\ OnErr(pc[p]) # "release"
    BY <1>5 DEF WriteFails, Writes, OnErr
  <2>2. HandedOut' = {}
    BY <1>0, <2>1, HandsLast
  <2> QED
    BY <1>1, <2>1, <2>2, LedgerWrite
<1>6. ASSUME NEW p \in Procs, Dispatch(p) PROVE Ledger!Next
  <2>1. /\ pc[p] = "dispatch" /\ st[p] \in State /\ Enter(p, "exchange", st[p])
        /\ sent' = sent \cup {AttemptOf(st[p])} /\ UNCHANGED <<dur, retained, revoked>>
    BY <1>0, <1>6 DEF Dispatch, Held
  <2>2. HandedOut = {} /\ HandedOut' = {}
    BY <1>0, <2>1, HandsNothing, HandsLast, Alone
  <2>3. /\ AttemptOf(st[p]) \in Attempts
        /\ \A a \in sent : a.enr = st[p].enr =>
               a.rev < st[p].rev /\ (a.token = st[p].token => a \in retained)
    BY <1>0, <2>1, StateOps, First DEF Unsent, UnsentNow
  <2>4. Ledger!Spend(AttemptOf(st[p]))
    BY <2>1, <2>2, <2>3 DEF Ledger!Spend, AttemptOf
  <2> QED
    BY <2>3, <2>4 DEF Ledger!Next
<1>7. ASSUME NEW p \in Procs, ExchangeOk(p) PROVE Ledger!Next
  <2>1. /\ pc[p] = "exchange" /\ UNCHANGED <<dur, sent, revoked>> /\ st[p] \in State
        /\ \E s : Enter(p, "commitSave", s)
        /\ retained' \in {retained, retained \cup {AttemptOf(st[p])}}
    BY <1>0, <1>7 DEF ExchangeOk, Held
  <2>2. HandedOut = {} /\ HandedOut' = {}
    BY <1>0, <2>1, HandsNothing, HandsLast, Alone
  <2>3. AttemptOf(st[p]) \in Attempts /\ AttemptOf(st[p]) \in sent
    BY <2>1, StateOps DEF Asked
  <2>4. CASE retained' = retained
    BY <1>1, <2>1, <2>2, <2>4, LedgerWrite
  <2>5. CASE retained' = retained \cup {AttemptOf(st[p])}
    <3>1. Ledger!Keep(AttemptOf(st[p]))
      BY <2>1, <2>2, <2>3, <2>5 DEF Ledger!Keep
    <3> QED
      BY <2>3, <3>1 DEF Ledger!Next
  <2> QED
    BY <2>1, <2>4, <2>5
<1>8. ASSUME NEW p \in Procs, ExchangeFails(p) \/ Release(p) \/ Kill(p) PROVE Ledger!Next
  <2>1. pc[p] # "idle" /\ Leave(p) /\ UNCHANGED <<sent, retained, revoked>>
    BY <1>8 DEF ExchangeFails, Release, Kill, ghosts
  <2>2. HandedOut' = {}
    BY <1>0, <2>1, HandsLast
  <2> QED
    BY <1>1, <2>1, <2>2, LedgerWrite
<1>9. CASE PowerLoss
  <2>1. HandedOut' = {} /\ UNCHANGED <<sent, retained, revoked>>
    BY <1>9 DEF PowerLoss, HandedOut
  <2> QED
    BY <1>1, <2>1, LedgerWrite
<1>10. CASE LoseLive \/ TakeBackup
  BY <1>1, <1>10, LedgerWrite DEF LoseLive, TakeBackup, ghosts, HandedOut
<1> QED
  BY <1>2, <1>3, <1>4, <1>5, <1>6, <1>7, <1>8, <1>9, <1>10 DEF Next, Run

-----------------------------------------------------------------------------
(* The refinement.                                                         *)

\* The ledger's invariants, together.
LEMMA Books == Spec => [](TypeInv /\ CommandInv /\ Unsent /\ Gone /\ Asked /\ Advancing)
<1>1. Init => Unsent /\ Gone /\ Asked /\ Advancing
  BY DEF Init, Unsent, Gone, Asked, Advancing, Copies, Running, Files, Undispatched,
         Intents
<1> QED
  BY <1>1, Commands, UnsentStep, GoneStep, AskedStep, AdvancingStep, PTL DEF Spec

\* As long as the operator has not rolled the store back, the store is the
\* ledger: exchanges are made in order, a token is spent again only when it was left
\* in force, the record only moves forward, and access tokens are handed out one at
\* a time from the grant on record.
THEOREM StoreIsLedger == Spec /\ [](lapses = {}) => ImplementsLedger
<1>1. Init => Ledger!Init
  <2>1. Init => HandedOut = {}
    BY DEF Init, HandedOut
  <2> QED
    BY <2>1 DEF Init, Ledger!Init, Files
<1> QED
  BY <1>1, Books, LedgerStep, PTL DEF Spec, ImplementsLedger, Ledger!Spec

\* The operator cannot roll the store back, and has not.
Untampered == RollBacks = FALSE /\ lapses = {}

\* Without roll-backs, which are the operator's and never the program's, the
\* store implements the ledger outright.
THEOREM UntamperedStoreIsLedger == RollBacks = FALSE => (Spec => ImplementsLedger)
<1>1. RollBacks = FALSE /\ Init => Untampered
  BY DEF Init, Untampered
<1>2. Untampered /\ [Next]_vars => Untampered'
  BY DEF Untampered, Next, vars, ghosts, Begin, BeginAccess, Run, UseGrant, BeginRefresh,
         BeginInitialize, BeginApply, BeginRemove, BeginRestore, Lapse, Rename, Sync,
         WriteFails, Dispatch, ExchangeOk, ExchangeFails, Release, Kill, PowerLoss,
         LoseLive, TakeBackup
<1>3. Untampered => lapses = {}
  BY DEF Untampered
<1> QED
  BY <1>1, <1>2, <1>3, StoreIsLedger, PTL DEF Spec
=============================================================================

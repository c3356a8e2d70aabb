-------------------------- MODULE EnrollmentProofs --------------------------
(***************************************************************************)
(* Proofs about EnrollmentTransaction, for any bound on generations and    *)
(* grants.  Generations are kept apart by two mechanisms, either of which  *)
(* may fail: the files, which the next generation must exceed, and the     *)
(* clock, which is past every generation it made.  The inductive invariant *)
(* has one part for each, conditional on the fault that disables it.       *)
(***************************************************************************)
EXTENDS EnrollmentTransaction, TLAPS

-----------------------------------------------------------------------------
(* The inductive invariant.                                                *)

\* A generation that neither the receipt nor the pending grant has reached.
Exceeds(g, d) == g > d.receipt /\ (d.pending # NoFile => g > d.pending.gen)

\* Some enrollment of this generation was applied by the target.
WasApplied(g) == \E a \in applied : a.gen = g

\* What the running command holds in memory, by phase.
Working ==
    /\ pc # "idle" => enr \in Enrollment
    /\ io = "sync" => pc \notin {"idle", "encrypt"}
    /\ pc = "savePending" /\ io = "write" => Exceeds(enr.gen, vis)
    /\ pc \in {"encrypt", "saveSecret"} \/ (pc = "savePending" /\ io = "sync") =>
           enr = vis.pending /\ enr.gen > vis.receipt
    /\ pc = "saveReceipt" => enr = vis.pending /\ enr.gen >= vis.receipt /\ WasApplied(enr.gen)
    /\ pc = "saveReceipt" /\ io = "sync" => vis.receipt = enr.gen
    /\ pc = "unlink" => Consumed(vis)

\* Nothing is in the secret, and no receipt anywhere, without a reason.
Recorded ==
    /\ {vis.secret, dur.secret} \subseteq published \cup {NoFile}
    /\ \A r \in {vis.receipt, dur.receipt} : r # 0 => WasApplied(r)

\* Generations are names in a set of enrollments.
Names(es) == \A a, b \in es : a.gen = b.gen => a = b

\* While no file is lost, the files are at or past all that was published.
FilesKeepApart ==
    "power" \notin faults =>
        /\ \A e \in published : ~Exceeds(e.gen, vis)
        /\ Names(published \cup ({vis.pending} \ {NoFile}))
        /\ \A g \in finalized : g <= vis.receipt

\* Every enrollment there is a copy of.
Known == (published \cup {vis.pending, dur.pending, enr}) \ {NoFile}

\* While the clock is not set back, it is past every generation.
ClockKeepsApart ==
    "clock" \notin faults =>
        /\ \A e \in Known : e.gen < clock
        /\ vis.receipt < clock /\ dur.receipt < clock
        /\ Names(Known)

EnrollmentInv == TypeOK /\ Working /\ Recorded /\ FilesKeepApart /\ ClockKeepsApart

-----------------------------------------------------------------------------
(* Lemmas about generations.                                               *)

\* Generations and the clock are positive numbers.
LEMMA GenTypes ==
  /\ \A g \in Gens : g \in Nat /\ g > 0
  /\ \A e \in Enrollment : e.gen \in Gens /\ e.gen \in Nat /\ e.gen > 0
<1>1. \A g \in Gens : g \in Nat /\ g > 0
  BY MaxGenAssumption DEF Gens
<1> QED
  BY <1>1 DEF Enrollment

\* The members of the files.
LEMMA DirectoryTypes ==
  ASSUME NEW d \in Directory
  PROVE  /\ d.receipt \in Nat /\ (d.receipt # 0 => d.receipt \in Gens)
         /\ d.pending # NoFile => d.pending \in Enrollment /\ d.pending.gen \in Nat
         /\ d.secret # NoFile => d.secret \in Enrollment
BY GenTypes DEF Directory

\* The next generation exceeds the files, and is the clock's once it is past them.
LEMMA NextExceeds ==
  ASSUME NEW d \in Directory, clock \in Gens
  PROVE  /\ NextGeneration(d) \in Nat /\ NextGeneration(d) > 0
         /\ Exceeds(NextGeneration(d), d)
         /\ Exceeds(clock, d) => NextGeneration(d) = clock
<1> DEFINE pending == IF d.pending = NoFile THEN 0 ELSE d.pending.gen
           last == IF d.receipt > pending THEN d.receipt ELSE pending
<1>1. pending \in Nat /\ d.receipt \in Nat /\ clock \in Nat /\ clock > 0
  BY DirectoryTypes, GenTypes
<1>2. NextGeneration(d) = IF clock > last THEN clock ELSE last + 1
  BY DEF NextGeneration
<1>3. \A g \in Nat : g > last => Exceeds(g, d)
  BY <1>1, DirectoryTypes DEF Exceeds
<1>4. Exceeds(clock, d) => clock > last
  BY <1>1 DEF Exceeds
<1> HIDE DEF pending, last
<1>5. last \in Nat
  BY <1>1 DEF last
<1> QED
  BY <1>1, <1>2, <1>3, <1>4, <1>5

\* A later receipt, and unlinking a consumed grant, take nothing back: what the
\* new files are short of, the old ones were.
LEMMA ExceedsFalls ==
  ASSUME NEW d \in Directory, NEW new \in Directory, NEW g \in Nat, Exceeds(g, new),
         new.receipt >= d.receipt,
         \/ new.pending = d.pending
         \/ new.pending = NoFile /\ (d.pending # NoFile => d.pending.gen <= new.receipt)
  PROVE  Exceeds(g, d)
BY DirectoryTypes DEF Exceeds

\* Fewer enrollments are still named by their generations.
LEMMA NamesFewer == ASSUME NEW as, NEW bs, as \subseteq bs, Names(bs) PROVE Names(as)
BY DEF Names

\* One more enrollment with a generation of its own, as well.
LEMMA NamesOneMore ==
  ASSUME NEW es, NEW e, Names(es), \A a \in es : a.gen # e.gen
  PROVE  Names(es \cup {e})
BY DEF Names

-----------------------------------------------------------------------------
(* Steps that change little.                                               *)

\* What depends on the files alone is kept while they and the history are.
LEMMA FilesSame ==
  ASSUME Recorded, FilesKeepApart, UNCHANGED <<vis, dur, published, finalized>>,
         applied \subseteq applied', faults \subseteq faults'
  PROVE  Recorded' /\ FilesKeepApart'
BY DEF Recorded, FilesKeepApart, WasApplied, Exceeds

\* What depends on the clock is kept while no enrollment is made up.
LEMMA ClockSame ==
  ASSUME ClockKeepsApart, Known' \subseteq Known, clock' = clock, faults \subseteq faults',
         {vis'.receipt, dur'.receipt} \subseteq
             {vis.receipt, dur.receipt} \cup {e.gen : e \in Known}
  PROVE  ClockKeepsApart'
<1>1. "clock" \notin faults' => "clock" \notin faults
  OBVIOUS
<1>2. "clock" \notin faults => vis'.receipt < clock /\ dur'.receipt < clock
  BY DEF ClockKeepsApart
<1> QED
  BY <1>1, <1>2 DEF ClockKeepsApart, Names

\* Leaving is always in order.
LEMMA LeaveWorks == ASSUME Leave PROVE Working'
BY DEF Leave, Enter, Working

-----------------------------------------------------------------------------
(* Every step preserves the invariant.                                     *)

\* authorize keeps to the invariant.
LEMMA AuthorizeStep ==
  ASSUME TypeOK, Working, Recorded, FilesKeepApart, ClockKeepsApart, Authorize
  PROVE  TypeOK' /\ Working' /\ Recorded' /\ FilesKeepApart' /\ ClockKeepsApart'
<1>0. /\ vis \in Directory /\ dur \in Directory /\ clock \in Gens
      /\ vis.receipt \in Nat
      /\ vis.receipt # 0 => vis.receipt \in Gens
      /\ vis.pending # NoFile => vis.pending \in Enrollment
  BY DirectoryTypes DEF TypeOK
<1>1. CASE AuthorizeFinished
  <2>1. /\ pc = "idle" /\ Consumed(vis) /\ vis.receipt \in Gens
        /\ UNCHANGED <<vis, dur, clock, issued, published, applied, faults>>
        /\ finalized' \in {finalized, finalized \cup {vis.receipt}}
        /\ \/ UNCHANGED <<pc, io, enr>>
           \/ vis.pending # NoFile /\ Enter("unlink", vis.pending)
    BY <1>0, <1>1 DEF AuthorizeFinished, Consumed
  <2>2. TypeOK'
    BY <1>0, <2>1 DEF TypeOK, Enter
  <2>3. Working'
    BY <1>0, <2>1 DEF Working, Enter, Consumed, WasApplied
  <2>4. Recorded' /\ FilesKeepApart'
    BY <1>0, <2>1 DEF Recorded, WasApplied, FilesKeepApart, Exceeds
  <2>5. Known' \subseteq Known
    BY <2>1 DEF Known, Enter
  <2> QED
    BY <2>1, <2>2, <2>3, <2>4, <2>5, ClockSame
<1>2. CASE AuthorizeResume
  <2>1. /\ pc = "idle" /\ ~Consumed(vis) /\ vis.pending # NoFile
        /\ Enter("encrypt", vis.pending) /\ UNCHANGED <<vis, dur, clock, history>>
    BY <1>2 DEF AuthorizeResume
  <2>2. TypeOK'
    BY <1>0, <2>1 DEF TypeOK, Enter, history
  <2>3. vis.pending.gen > vis.receipt
    BY <1>0, <2>1, GenTypes DEF Consumed
  <2>4. Working'
    BY <1>0, <2>1, <2>3 DEF Working, Enter
  <2>5. Recorded' /\ FilesKeepApart'
    BY <2>1, FilesSame DEF history
  <2>6. Known' \subseteq Known
    BY <2>1 DEF Known, Enter, history
  <2> QED
    BY <2>1, <2>2, <2>4, <2>5, <2>6, ClockSame DEF history
<1>3. CASE \E reauth \in BOOLEAN : AuthorizeFresh(reauth)
  <2> DEFINE new == [gen |-> NextGeneration(vis), grant |-> issued + 1]
  <2>1. /\ pc = "idle" /\ issued < MaxGrants /\ clock < MaxGen
        /\ NextGeneration(vis) <= MaxGen
        /\ issued' = issued + 1 /\ clock' = clock + 1 /\ Enter("savePending", new)
        /\ UNCHANGED <<vis, dur, published, applied, finalized, faults>>
    BY <1>3 DEF AuthorizeFresh
  <2>2. /\ NextGeneration(vis) \in Gens /\ clock + 1 \in Gens
        /\ issued + 1 \in 1..MaxGrants /\ issued' \in 0..MaxGrants
    BY <1>0, <2>1, NextExceeds, GenTypes, MaxGenAssumption, MaxGrantsAssumption
       DEF TypeOK, Gens
  <2>3. new \in Enrollment /\ new # NoFile /\ new.gen = NextGeneration(vis)
    BY <2>2, NoFileAssumption DEF Enrollment
  <2>4. TypeOK'
    BY <2>1, <2>2, <2>3 DEF TypeOK, Enter
  <2>5. Exceeds(new.gen, vis)
    BY <1>0, <2>3, NextExceeds
  <2> HIDE DEF new
  <2>6. Working'
    BY <2>1, <2>3, <2>5 DEF Working, Enter, Exceeds
  <2>7. Recorded' /\ FilesKeepApart'
    BY <2>1, FilesSame
  <2>8. ASSUME "clock" \notin faults PROVE ClockKeepsApart'
    <3>1. \A e \in Known : e.gen < clock /\ e.gen \in Nat
      BY <2>8, GenTypes, DirectoryTypes DEF ClockKeepsApart, Known, TypeOK
    <3>2. Exceeds(clock, vis)
      <4>1. vis.pending # NoFile => vis.pending \in Known
        BY DEF Known
      <4> QED
        BY <1>0, <2>8, <3>1, <4>1, GenTypes DEF ClockKeepsApart, Exceeds
    <3>3. new.gen = clock
      BY <1>0, <2>3, <3>2, NextExceeds
    <3>4. Known' \subseteq Known \cup {new}
      BY <2>1 DEF Known, Enter
    <3>5. \A e \in Known : e.gen # clock
      BY <1>0, <3>1, GenTypes
    <3>6. Names(Known \cup {new})
      BY <2>8, <3>3, <3>5, NamesOneMore DEF ClockKeepsApart
    <3>7. Names(Known')
      BY <3>4, <3>6, NamesFewer
    <3>8. \A e \in Known' : e.gen < clock'
      BY <1>0, <2>1, <3>1, <3>3, <3>4, GenTypes
    <3>9. vis'.receipt < clock' /\ dur'.receipt < clock'
      BY <1>0, <2>1, <2>8, DirectoryTypes, GenTypes DEF ClockKeepsApart
    <3> QED
      BY <3>7, <3>8, <3>9 DEF ClockKeepsApart, Names
  <2>9. "clock" \in faults => ClockKeepsApart'
    BY <2>1 DEF ClockKeepsApart
  <2> QED
    BY <2>4, <2>6, <2>7, <2>8, <2>9
<1> QED
  BY <1>1, <1>2, <1>3 DEF Authorize

\* So does finalize, up to its first write.
LEMMA AcknowledgeStep ==
  ASSUME TypeOK, Working, Recorded, FilesKeepApart, ClockKeepsApart, Acknowledge
  PROVE  TypeOK' /\ Working' /\ Recorded' /\ FilesKeepApart' /\ ClockKeepsApart'
<1>1. PICK a \in applied : Finalize(a.gen) \/ FinalizeAgain(a.gen)
  BY DEF Acknowledge
<1>2. CASE Finalize(a.gen)
  <2>1. /\ pc = "idle" /\ vis.pending # NoFile /\ vis.pending.gen = a.gen
        /\ vis.receipt <= a.gen /\ UNCHANGED <<vis, dur, clock, history>>
        /\ vis.pending \in Enrollment
    BY <1>2, DirectoryTypes DEF Finalize, Finalizes, TypeOK
  <2>2. Enter("saveReceipt", vis.pending)
    BY <1>2, <2>1 DEF Finalize, Enrollment
  <2>3. TypeOK'
    BY <2>1, <2>2 DEF TypeOK, Enter, history
  <2>4. a.gen \in Nat /\ vis.receipt \in Nat
    BY <1>1, GenTypes, DirectoryTypes DEF TypeOK
  <2>5. Working'
    BY <2>1, <2>2, <2>4 DEF Working, Enter, WasApplied, history
  <2>6. Recorded' /\ FilesKeepApart'
    BY <2>1, FilesSame DEF history
  <2>7. Known' \subseteq Known
    BY <2>1, <2>2 DEF Known, Enter, history
  <2> QED
    BY <2>1, <2>3, <2>5, <2>6, <2>7, ClockSame DEF history
<1>3. CASE FinalizeAgain(a.gen)
  <2>1. /\ UNCHANGED <<vis, dur, pc, io, enr, clock, issued, published, applied, faults>>
        /\ vis.receipt = a.gen /\ finalized' = finalized \cup {a.gen}
    BY <1>3 DEF FinalizeAgain
  <2>2. a.gen \in Gens /\ a.gen \in Nat
    BY <1>1, GenTypes DEF TypeOK
  <2>3. TypeOK'
    BY <2>1, <2>2 DEF TypeOK
  <2>4. Working' /\ Recorded' /\ FilesKeepApart' /\ ClockKeepsApart'
    BY <2>1, <2>2 DEF Working, Recorded, WasApplied, FilesKeepApart, Exceeds,
       ClockKeepsApart, Known, Names, Consumed
  <2> QED
    BY <2>3, <2>4
<1> QED
  BY <1>1, <1>2, <1>3

\* The first halves of the file publications, which only processes see yet.
LEMMA WriteStep ==
  ASSUME TypeOK, Working, Recorded, FilesKeepApart, ClockKeepsApart,
         SavePending \/ SaveSecret \/ SaveReceipt \/ Unlink
  PROVE  TypeOK' /\ Working' /\ Recorded' /\ FilesKeepApart' /\ ClockKeepsApart'
<1>0. /\ vis \in Directory /\ dur \in Directory
      /\ vis.receipt \in Nat
      /\ pc # "idle" => enr \in Enrollment /\ enr # NoFile /\ enr.gen \in Gens /\ enr.gen \in Nat
      /\ pc # "idle" => enr \in Known
      /\ \A e \in published : e.gen \in Nat
  BY GenTypes, DirectoryTypes, NoFileAssumption DEF TypeOK, Working, Known
<1>1. CASE SavePending
  <2>1. /\ pc = "savePending" /\ io = "write" /\ io' = "sync"
        /\ vis' = [vis EXCEPT !.pending = enr] /\ UNCHANGED <<dur, pc, enr, clock, history>>
    BY <1>1 DEF SavePending
  <2>2. /\ vis' \in Directory /\ vis'.pending = enr
        /\ vis'.receipt = vis.receipt /\ vis'.secret = vis.secret
    BY <1>0, <2>1 DEF Directory
  <2>3. TypeOK'
    BY <2>1, <2>2 DEF TypeOK, history
  <2>4. Exceeds(enr.gen, vis)
    BY <2>1 DEF Working
  <2>5. Working' /\ Recorded'
    BY <2>1, <2>2, <2>4 DEF Working, Exceeds, Recorded, WasApplied, history
  <2>6. ASSUME "power" \notin faults PROVE FilesKeepApart'
    <3>1. \A e \in published : ~Exceeds(e.gen, vis) /\ ~Exceeds(e.gen, vis')
      <4>1. vis.pending # NoFile => vis.pending \in Enrollment /\ vis.pending.gen < enr.gen
        BY <1>0, <2>1, <2>4, DirectoryTypes, GenTypes DEF Exceeds
      <4>2. \A g \in Nat : Exceeds(g, vis') => Exceeds(g, vis)
        BY <1>0, <2>1, <2>2, <4>1, GenTypes DEF Exceeds
      <4> QED
        BY <1>0, <2>6, <4>2 DEF FilesKeepApart
    <3>2. \A e \in published : e.gen # enr.gen
      BY <2>4, <3>1
    <3>3. Names(published)
      BY <2>6, NamesFewer DEF FilesKeepApart
    <3>4. Names(published \cup {enr})
      BY <3>2, <3>3, NamesOneMore
    <3>5. published' \cup ({vis'.pending} \ {NoFile}) = published \cup {enr}
      BY <1>0, <2>1, <2>2 DEF history
    <3>6. Names(published \cup ({vis.pending} \ {NoFile}))'
      BY <3>4, <3>5 DEF Names
    <3> QED
      BY <2>1, <2>2, <2>6, <3>1, <3>6 DEF FilesKeepApart, Exceeds, history
  <2>7. "power" \in faults => FilesKeepApart'
    BY <2>1 DEF FilesKeepApart, history
  <2>8. ClockKeepsApart'
    BY <1>0, <2>1, <2>2, ClockSame DEF Known, history
  <2> QED
    BY <2>3, <2>5, <2>6, <2>7, <2>8
<1>2. CASE SaveSecret
  <2>1. /\ pc = "saveSecret" /\ io = "write" /\ io' = "sync" /\ vis' = [vis EXCEPT !.secret = enr]
        /\ published' = published \cup {enr} /\ enr = vis.pending /\ enr.gen > vis.receipt
        /\ UNCHANGED <<dur, pc, enr, clock, issued, applied, finalized, faults>>
    BY <1>2 DEF SaveSecret, Working
  <2>2. /\ vis' \in Directory /\ vis'.secret = enr
        /\ vis'.receipt = vis.receipt /\ vis'.pending = vis.pending
    BY <1>0, <2>1 DEF Directory
  <2>3. TypeOK'
    BY <1>0, <2>1, <2>2 DEF TypeOK
  <2>4. Working' /\ Recorded'
    BY <1>0, <2>1, <2>2 DEF Working, Recorded, WasApplied
  <2>5. FilesKeepApart'
    <3>1. published' \cup ({vis'.pending} \ {NoFile}) = published \cup ({vis.pending} \ {NoFile})
      BY <1>0, <2>1, <2>2
    <3>2. ~Exceeds(enr.gen, vis)
      BY <1>0, <2>1 DEF Exceeds
    <3> QED
      BY <2>1, <2>2, <3>1, <3>2 DEF FilesKeepApart, Exceeds, Names
  <2>6. ClockKeepsApart'
    BY <1>0, <2>1, <2>2, ClockSame DEF Known
  <2> QED
    BY <2>3, <2>4, <2>5, <2>6
<1>3. CASE SaveReceipt
  <2>1. /\ pc = "saveReceipt" /\ io = "write" /\ io' = "sync"
        /\ vis' = [vis EXCEPT !.receipt = enr.gen] /\ UNCHANGED <<dur, pc, enr, clock, history>>
        /\ enr = vis.pending /\ enr.gen >= vis.receipt /\ WasApplied(enr.gen)
    BY <1>3 DEF SaveReceipt, Working
  <2>2. /\ vis' \in Directory /\ vis'.receipt = enr.gen
        /\ vis'.secret = vis.secret /\ vis'.pending = vis.pending
    BY <1>0, <2>1 DEF Directory
  <2>3. TypeOK'
    BY <2>1, <2>2 DEF TypeOK, history
  <2>4. Working' /\ Recorded'
    BY <1>0, <2>1, <2>2 DEF Working, Recorded, WasApplied, history
  <2>5. FilesKeepApart'
    <3>1. "power" \notin faults => \A e \in published : ~Exceeds(e.gen, vis')
      BY <1>0, <2>1, <2>2, ExceedsFalls DEF FilesKeepApart
    <3>2. \A g \in finalized : g \in Nat
      BY GenTypes DEF TypeOK
    <3> QED
      BY <1>0, <2>1, <2>2, <3>1, <3>2 DEF FilesKeepApart, Names, Exceeds, history
  <2>6. ClockKeepsApart'
    BY <1>0, <2>1, <2>2, ClockSame DEF Known, history
  <2> QED
    BY <2>3, <2>4, <2>5, <2>6
<1>4. CASE Unlink
  <2>1. /\ pc = "unlink" /\ io = "write" /\ io' = "sync" /\ vis' = [vis EXCEPT !.pending = NoFile]
        /\ UNCHANGED <<dur, pc, enr, clock, history>> /\ Consumed(vis)
    BY <1>4 DEF Unlink, Working
  <2>2. /\ vis' \in Directory /\ vis'.pending = NoFile
        /\ vis'.secret = vis.secret /\ vis'.receipt = vis.receipt
    BY <1>0, <2>1 DEF Directory
  <2>3. TypeOK'
    BY <2>1, <2>2 DEF TypeOK, history
  <2>4. Working' /\ Recorded'
    BY <1>0, <2>1, <2>2 DEF Working, Consumed, Recorded, WasApplied, history
  <2>5. FilesKeepApart'
    <3>1. \A g \in Nat : Exceeds(g, vis') => Exceeds(g, vis)
      <4>1. vis.pending # NoFile => vis.pending.gen <= vis'.receipt
        BY <2>1, <2>2 DEF Consumed
      <4>2. vis'.receipt >= vis.receipt
        BY <1>0, <2>2
      <4> QED
        BY <1>0, <2>2, <4>1, <4>2, ExceedsFalls
    <3>2. published' \cup ({vis'.pending} \ {NoFile}) \subseteq published \cup ({vis.pending} \ {NoFile})
      BY <2>1, <2>2 DEF history
    <3>3. "power" \notin faults => \A e \in published : ~Exceeds(e.gen, vis')
      BY <1>0, <3>1 DEF FilesKeepApart
    <3> QED
      BY <2>1, <2>2, <3>2, <3>3 DEF FilesKeepApart, Names, Exceeds, history
  <2>6. ClockKeepsApart'
    BY <2>1, <2>2, ClockSame DEF Known, history
  <2> QED
    BY <2>3, <2>4, <2>5, <2>6
<1> QED
  BY <1>1, <1>2, <1>3, <1>4

\* The second half: the directory is synced, and the command goes on or ends.
LEMMA SyncStep ==
  ASSUME TypeOK, Working, Recorded, FilesKeepApart, ClockKeepsApart, Sync
  PROVE  TypeOK' /\ Working' /\ Recorded' /\ FilesKeepApart' /\ ClockKeepsApart'
<1>1. /\ io = "sync" /\ UNCHANGED <<vis, clock, issued, published, applied, faults>>
      /\ finalized' = IF pc = "unlink" THEN finalized \cup {vis.receipt} ELSE finalized
      /\ pc \in {"savePending", "saveSecret", "saveReceipt", "unlink"} /\ enr \in Enrollment
      /\ vis \in Directory /\ dur \in Directory
  BY DEF Sync, Working, TypeOK
<1>2. /\ pc = "savePending" => Enter("encrypt", enr)
      /\ pc = "saveReceipt" => Enter("unlink", enr)
      /\ pc \in {"saveSecret", "unlink"} => Leave
  BY <1>1 DEF Sync, OnSynced
<1>3. /\ dur' \in Directory /\ dur'.secret \in {vis.secret, dur.secret}
      /\ dur'.pending \in {vis.pending, dur.pending}
      /\ dur'.receipt \in {vis.receipt, dur.receipt}
  BY <1>1 DEF Sync, Directory
<1>4. pc = "unlink" => vis.receipt \in Gens
  BY <1>1, DirectoryTypes DEF Working, Consumed
<1>5. TypeOK'
  BY <1>1, <1>2, <1>3, <1>4 DEF TypeOK, Enter, Leave
<1>6. Working'
  <2>1. CASE pc = "savePending"
    BY <1>1, <1>2, <2>1 DEF Working, Enter
  <2>2. CASE pc = "saveReceipt"
    <3>1. vis.receipt = vis.pending.gen /\ vis.receipt \in Nat /\ vis.receipt # 0
      BY <1>1, <2>2, GenTypes DEF Working
    <3> QED
      BY <1>1, <1>2, <2>2, <3>1 DEF Working, Enter, Consumed
  <2> QED
    BY <1>1, <1>2, <2>1, <2>2, LeaveWorks
<1>7. Recorded' /\ FilesKeepApart'
  <2>1. vis.receipt <= vis.receipt
    BY <1>1, DirectoryTypes
  <2> QED
    BY <1>1, <1>3, <2>1 DEF Recorded, WasApplied, FilesKeepApart, Exceeds
<1>8. ClockKeepsApart'
  BY <1>1, <1>2, <1>3, ClockSame DEF Known, Enter, Leave
<1> QED
  BY <1>5, <1>6, <1>7, <1>8

\* And so does what the operator's machine and the fleet do.
LEMMA EnvironmentStep ==
  ASSUME TypeOK, Working, Recorded, FilesKeepApart, ClockKeepsApart,
         Interrupt \/ PowerLoss \/ SetClockBack \/ Deploy
  PROVE  TypeOK' /\ Working' /\ Recorded' /\ FilesKeepApart' /\ ClockKeepsApart'
<1>1. CASE Interrupt
  <2>1. Leave /\ UNCHANGED <<vis, dur, clock, history>>
    BY <1>1 DEF Interrupt
  <2>2. TypeOK'
    BY <2>1 DEF TypeOK, Leave, Enter, history
  <2>3. Known' \subseteq Known
    BY <2>1 DEF Known, Leave, Enter, history
  <2> QED
    BY <2>1, <2>2, <2>3, LeaveWorks, FilesSame, ClockSame DEF history
<1>2. CASE PowerLoss
  <2>1. /\ Leave /\ dur' = vis' /\ UNCHANGED <<clock, issued, published, applied, finalized>>
        /\ faults' = IF vis' = vis THEN faults ELSE faults \cup {"power"}
    BY <1>2 DEF PowerLoss
  <2>2. /\ vis' \in Directory /\ vis'.pending \in {vis.pending, dur.pending}
        /\ vis'.receipt \in {vis.receipt, dur.receipt}
        /\ vis'.secret \in {vis.secret, dur.secret}
    BY <1>2 DEF PowerLoss, TypeOK, Directory
  <2>3. TypeOK'
    BY <2>1, <2>2 DEF TypeOK, Leave, Enter
  <2>4. Recorded'
    BY <2>1, <2>2 DEF Recorded, WasApplied
  <2>5. FilesKeepApart'
    BY <2>1 DEF FilesKeepApart
  <2>6. ClockKeepsApart'
    BY <2>1, <2>2, ClockSame DEF Known, Leave, Enter
  <2> QED
    BY <2>1, <2>3, <2>4, <2>5, <2>6, LeaveWorks
<1>3. CASE SetClockBack
  <2>1. /\ clock' \in 1..(clock - 1) /\ faults' = faults \cup {"clock"}
        /\ UNCHANGED <<vis, dur, pc, io, enr, issued, published, applied, finalized>>
    BY <1>3 DEF SetClockBack
  <2>2. clock' \in Gens
    BY <2>1, MaxGenAssumption DEF TypeOK, Gens
  <2>3. TypeOK'
    BY <2>1, <2>2 DEF TypeOK
  <2>4. Working'
    BY <2>1 DEF Working, Consumed, Exceeds, WasApplied
  <2> QED
    BY <2>1, <2>3, <2>4, FilesSame DEF ClockKeepsApart
<1>4. CASE Deploy
  <2>1. /\ applied \subseteq applied' /\ applied' \subseteq published
        /\ UNCHANGED <<vis, dur, pc, io, enr, clock, issued, published, finalized, faults>>
    BY <1>4 DEF Deploy, TypeOK
  <2>2. TypeOK'
    BY <2>1 DEF TypeOK
  <2>3. Working'
    BY <2>1 DEF Working, Consumed, Exceeds, WasApplied
  <2>4. Known' = Known
    BY <2>1 DEF Known
  <2> QED
    BY <2>1, <2>2, <2>3, <2>4, FilesSame, ClockSame
<1> QED
  BY <1>1, <1>2, <1>3, <1>4

\* Every behaviour of the transaction stays within the invariant.
LEMMA Enrolling == Spec => []EnrollmentInv
<1>1. Init => EnrollmentInv
  <2> SUFFICES ASSUME Init PROVE EnrollmentInv
    OBVIOUS
  <2>1. vis \in Directory /\ 1 \in Gens /\ 0 \in 0..MaxGrants
    BY MaxGenAssumption, MaxGrantsAssumption DEF Init, Directory, Gens
  <2>2. TypeOK
    BY <2>1 DEF Init, TypeOK
  <2>3. Working /\ Recorded /\ FilesKeepApart /\ ClockKeepsApart
    BY DEF Init, Working, Recorded, FilesKeepApart, ClockKeepsApart, Known, Names
  <2> QED
    BY <2>2, <2>3 DEF EnrollmentInv
<1>2. EnrollmentInv /\ [Next]_vars => EnrollmentInv'
  <2> SUFFICES ASSUME TypeOK, Working, Recorded, FilesKeepApart, ClockKeepsApart, [Next]_vars
               PROVE  TypeOK' /\ Working' /\ Recorded' /\ FilesKeepApart' /\ ClockKeepsApart'
    BY DEF EnrollmentInv
  <2>1. CASE Encrypt
    <3>1. /\ pc = "encrypt"
          /\ Enter("saveSecret", enr) \/ Leave
          /\ UNCHANGED <<vis, dur, clock, history>>
      BY <2>1 DEF Encrypt
    <3>2. TypeOK' /\ Working'
      BY <3>1 DEF TypeOK, Working, Enter, Leave, history
    <3>3. Known' \subseteq Known
      BY <3>1 DEF Known, Enter, Leave, history
    <3> QED
      BY <3>1, <3>2, <3>3, FilesSame, ClockSame DEF history
  <2>2. CASE UNCHANGED vars
    BY <2>2 DEF vars, history, TypeOK, Working, Recorded, FilesKeepApart, ClockKeepsApart,
       Known, Names, Consumed, Exceeds, WasApplied
  <2> QED
    BY <2>1, <2>2, AuthorizeStep, AcknowledgeStep, WriteStep, SyncStep, EnvironmentStep DEF Next
<1> QED
  BY <1>1, <1>2, PTL DEF Spec

-----------------------------------------------------------------------------
(* What follows.                                                           *)

\* While the files or the clock hold, generations name what was published, and
\* the pending grant among it.
LEMMA NamesPublished ==
  ASSUME EnrollmentInv, OneFault
  PROVE  /\ Names(published)
         /\ vis.pending # NoFile =>
                \A e \in published : e.gen = vis.pending.gen => e = vis.pending
<1>1. "power" \notin faults \/ "clock" \notin faults
  BY DEF EnrollmentInv, TypeOK, OneFault
<1>2. published \cup ({vis.pending} \ {NoFile}) \subseteq Known
  BY NoFileAssumption DEF Known, EnrollmentInv, TypeOK
<1>3. Names(published \cup ({vis.pending} \ {NoFile}))
  BY <1>1, <1>2, NamesFewer DEF EnrollmentInv, FilesKeepApart, ClockKeepsApart
<1> QED
  BY <1>3 DEF Names

\* The transaction is well typed.
THEOREM EnrollmentTyping == Spec => []TypeOK
BY Enrolling, PTL DEF EnrollmentInv

\* No two enrollments the fleet could ever have deployed share a generation, as
\* long as not both the files were rolled back and the clock was set back.
THEOREM GenerationsAreNames == Spec => []GenerationNamesGrant
<1>1. EnrollmentInv => GenerationNamesGrant
  BY NamesPublished DEF GenerationNamesGrant, Names
<1> QED
  BY <1>1, Enrolling, PTL

\* A grant whose receipt was published, or that was reported finalized, is never
\* encrypted again.
THEOREM ConsumedStaysConsumed == Spec => []ConsumedNotEncrypted
<1>1. EnrollmentInv => ConsumedNotEncrypted
  <2> SUFFICES ASSUME EnrollmentInv, pc \in {"encrypt", "saveSecret"}, "power" \notin faults
               PROVE  enr.gen > vis.receipt /\ \A g \in finalized : enr.gen > g
    BY DEF ConsumedNotEncrypted
  <2>1. enr.gen > vis.receipt /\ enr \in Enrollment /\ vis.receipt \in Nat
    BY DirectoryTypes DEF EnrollmentInv, Working, TypeOK
  <2>2. \A g \in finalized : g <= vis.receipt /\ g \in Nat
    BY GenTypes DEF EnrollmentInv, FilesKeepApart, TypeOK
  <2> QED
    BY <2>1, <2>2, GenTypes
<1> QED
  BY <1>1, Enrolling, PTL

\* A plaintext grant is unlinked only once the target applied it or a newer one.
THEOREM DiscardingWaits == Spec => DiscardedOnlyApplied
<1> DEFINE Discards ==
        vis.pending # NoFile /\ vis'.pending = NoFile /\ pc = "unlink" /\ OneFault
            => \E a \in applied : a = vis.pending \/ a.gen > vis.pending.gen
<1>1. EnrollmentInv => [Discards]_vars
  <2> SUFFICES ASSUME EnrollmentInv, vis.pending # NoFile, pc = "unlink", OneFault
               PROVE  \E a \in applied : a = vis.pending \/ a.gen > vis.pending.gen
    OBVIOUS
  <2>1. vis.receipt # 0 /\ vis.pending.gen <= vis.receipt
    BY DEF EnrollmentInv, Working, Consumed
  <2>2. PICK a \in applied : a.gen = vis.receipt
    BY <2>1 DEF EnrollmentInv, Recorded, WasApplied
  <2>3. a \in published /\ vis.receipt \in Nat /\ vis.pending.gen \in Nat
    BY DirectoryTypes DEF EnrollmentInv, TypeOK
  <2>4. a.gen = vis.pending.gen => a = vis.pending
    BY <2>3, NamesPublished
  <2> QED
    BY <2>1, <2>2, <2>3, <2>4
<1> QED
  BY <1>1, Enrolling, PTL DEF DiscardedOnlyApplied

\* The encrypted source never returns to an older generation.
THEOREM SecretAdvances == Spec => SecretNeverOlder
<1> DEFINE Advances ==
        vis.secret # NoFile /\ "power" \notin faults' =>
            vis'.secret # NoFile /\ vis'.secret.gen >= vis.secret.gen
<1>1. EnrollmentInv /\ [Next]_vars => [Advances]_vars
  <2> SUFFICES ASSUME EnrollmentInv, Next, vis.secret # NoFile, "power" \notin faults'
               PROVE  vis'.secret # NoFile /\ vis'.secret.gen >= vis.secret.gen
    OBVIOUS
  <2>1. vis.secret \in published /\ vis.secret.gen \in Nat /\ vis \in Directory
    BY GenTypes DEF EnrollmentInv, Recorded, TypeOK
  <2>2. CASE SaveSecret
    <3>1. /\ vis'.secret = enr /\ enr = vis.pending /\ enr \in Enrollment /\ enr # NoFile
          /\ enr.gen > vis.receipt /\ "power" \notin faults /\ vis.receipt \in Nat
      BY <2>1, <2>2, NoFileAssumption, DirectoryTypes
         DEF SaveSecret, EnrollmentInv, Working, Directory
    <3>2. ~Exceeds(vis.secret.gen, vis)
      BY <2>1, <3>1 DEF EnrollmentInv, FilesKeepApart
    <3> QED
      BY <2>1, <3>1, <3>2, GenTypes DEF Exceeds
  <2>3. CASE ~SaveSecret
    <3>1. vis'.secret = vis.secret
      BY <2>1, <2>3 DEF Next, Authorize, AuthorizeFinished, AuthorizeResume, AuthorizeFresh,
         Acknowledge, Finalize, FinalizeAgain, SavePending, Encrypt, SaveReceipt, Unlink, Sync,
         Interrupt, PowerLoss, SetClockBack, Deploy, Directory
    <3> QED
      BY <2>1, <3>1
  <2> QED
    BY <2>2, <2>3
<1> QED
  BY <1>1, Enrolling, PTL DEF Spec, SecretNeverOlder
=============================================================================

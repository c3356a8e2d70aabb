--------------------------- MODULE MigrationProofs --------------------------
(***************************************************************************)
(* Proofs about the two one-time migrations: of a mail server's store      *)
(* (StalwartProvision) and of rbw's login state (RbwMigration).            *)
(*                                                                          *)
(* StalwartProvision, for any plans, number of migration documents and     *)
(* hosts.  Two invariants build on the types: what a marker, or the        *)
(* progress of an activation, says of the store's documents and of the     *)
(* backup, whatever is lost; and what the registry marker says of the      *)
(* registry, as long as plans go forward and no marker is lost.            *)
(*                                                                          *)
(* RbwMigration, for any bound on the versions rbw writes.  Its inductive  *)
(* invariant speaks of the file system as it is and of every one a power   *)
(* loss can bring back: in none of them is the latest version of a tree    *)
(* gone, and in none of those before the marker does a legacy tree hold    *)
(* anything but the latest version.                                        *)
(***************************************************************************)
EXTENDS StalwartProvision, RbwMigration, TLAPS

-----------------------------------------------------------------------------
(* The inductive invariants.                                               *)

\* Nothing is missing from the store, or it was recreated empty since.
Complete == Migrated(store) \/ wiped

\* Steps of an activation at which no document was sent yet.
Early == {"promote", "check", "assume", "probe", "gate", "wait"}
\* Steps that are taken only after all documents are in.
Late == {"probe", "applyPlan", "markRegistry", "stop", "serve"}
\* Steps that know what was pending.
Decided == {"assume", "probe", "gate", "wait", "migrate", "applyPlan", "markRegistry", "stop",
            "serve"}

\* A marker, the administrator's word, or how far the activation got vouches
\* for the documents.
DocsVouched ==
    /\ marks.legacy \/ marks.migration \/ kept.migration \/ settings.assumeMigrated => Complete
    /\ pc = "assume" => settings.assumeMigrated
    /\ pc \in Early => doc = 1
    /\ pc \in {"gate", "wait"} /\ ~pending.migration => Complete
    /\ pc = "migrate" => wiped \/ \A d \in 1..Docs : d < doc => store.docs[d] \in {"once", "again"}
    /\ pc \in Late => Complete

\* The store was touched before anything that says so, and never without the
\* backup a host demands.
TouchVouched ==
    /\ settings.needsBackup /\ store.touched => backedUp
    /\ store.tables => store.touched
    /\ marks.registry # NoPlan \/ kept.registry # NoPlan => store.touched
    /\ pc \in Decided /\ ~pending.registry => marks.registry = target
    /\ pc = "probe" => ~pending.registry
    /\ pc \in {"wait", "migrate", "applyPlan", "markRegistry", "stop", "serve"} => store.touched

\* What is deployed, and what was marked, is where the plans have got to.
Forwards ==
    /\ pc # "off" => target = plan
    /\ marks.registry \in former \cup {plan, NoPlan}

\* A current registry marker tells the truth, unless the store was recreated
\* and the probe will tell; a recovery is for a marker that is not current.
RegistryVouched ==
    /\ marks.registry = plan => store.registry = plan \/ (wiped /\ ~store.tables)
    /\ marks.registry # NoPlan => marks.migration \/ Docs = 0
    /\ pc = "assume" => (pending.registry <=> marks.registry # target)
    /\ pc \in {"gate", "wait", "migrate", "applyPlan", "markRegistry"} =>
           pending.registry /\ marks.registry # target
    /\ pc \in {"gate", "wait"} /\ ~pending.migration => marks.migration \/ Docs = 0
    /\ pc \in {"applyPlan", "markRegistry"} => marks.migration \/ Docs = 0
    /\ pc \in {"promote", "check", "assume", "probe"} => blind
    /\ pc = "probe" => marks.registry = target
    /\ pc \in {"markRegistry", "stop"} => store.registry = target
    /\ pc = "serve" => store.registry = target \/ (wiped /\ blind)

SafetyInv == TypeOK /\ DocsVouched /\ TouchVouched
ForwardInv == lapses = {} => Forwards /\ RegistryVouched

-----------------------------------------------------------------------------
(* Types.                                                                  *)

\* Documents are numbered.
LEMMA DocNumbers == 1 \in 1..(Docs + 1) /\ \A d \in 1..(Docs + 1) : d \in Nat
BY DocsAssumption

\* A failed apply of anything leaves a store, and breaks at most what it was
\* about; documents that were in stay in.
LEMMA FailedApply ==
  ASSUME TypeOK, ApplyFails
  PROVE  /\ store' \in Store /\ store'.tables = store.tables /\ store'.touched = store.touched
         /\ \A d \in 1..Docs :
             store.docs[d] \in {"once", "again"} => store'.docs[d] \in {"once", "again"}
         /\ pc = "migrate" => store'.registry = store.registry
<1>1. store \in Store /\ doc \in 1..(Docs + 1)
  BY DEF TypeOK
<1>2. CASE pc = "migrate" /\ doc <= Docs
           /\ store' \in {store, [store EXCEPT !.docs[doc] = Broken(@)]}
  <2>1. doc \in 1..Docs
    BY <1>1, <1>2, DocsAssumption
  <2>2. /\ store.docs[doc] \in Progress
        /\ Broken(store.docs[doc]) \in Progress
        /\ store.docs[doc] \in {"once", "again"} => Broken(store.docs[doc]) = "again"
    BY <1>1, <2>1 DEF Store, Progress, Broken
  <2>3. CASE store' = [store EXCEPT !.docs[doc] = Broken(store.docs[doc])]
    <3>1. /\ store' \in Store /\ store'.tables = store.tables
          /\ store'.touched = store.touched /\ store'.registry = store.registry
      BY <1>1, <2>1, <2>2, <2>3 DEF Store
    <3>2. \A d \in 1..Docs :
              store'.docs[d] = IF d = doc THEN Broken(store.docs[doc]) ELSE store.docs[d]
      BY <1>1, <2>1, <2>3 DEF Store
    <3> QED
      BY <2>2, <3>1, <3>2
  <2> QED
    BY <1>1, <1>2, <2>3
<1>3. CASE pc = "applyPlan" /\ store' \in {store, [store EXCEPT !.registry = NoPlan]}
  BY <1>1, <1>3 DEF Store
<1> QED
  BY <1>2, <1>3 DEF ApplyFails

\* And a successful one brings its document in.
LEMMA DocumentIn ==
  ASSUME TypeOK, ApplyDocument
  PROVE  /\ store' \in Store /\ store'.tables = store.tables /\ store'.touched = store.touched
         /\ store'.registry = store.registry /\ doc \in 1..Docs /\ doc' \in 1..(Docs + 1)
         /\ \A d \in 1..Docs : store'.docs[d] \in {"once", "again"} \/
                (d # doc /\ store'.docs[d] = store.docs[d])
<1>1. store \in Store /\ doc \in 1..(Docs + 1)
  BY DEF TypeOK
<1>2. doc \in 1..Docs /\ doc' \in 1..(Docs + 1)
  BY <1>1, DocsAssumption DEF ApplyDocument
<1>3. Applied(store.docs[doc]) \in {"once", "again"}
  BY DEF Applied
<1>4. store' = [store EXCEPT !.docs[doc] = Applied(store.docs[doc])]
  BY DEF ApplyDocument
<1> QED
  BY <1>1, <1>2, <1>3, <1>4 DEF Store, Progress

\* Every step keeps the types, and the recovery server where it belongs.
LEMMA StalwartTypes == TypeOK /\ [Next]_vars => TypeOK'
<1> SUFFICES ASSUME TypeOK, [Next]_vars PROVE TypeOK'
  OBVIOUS
<1> USE DEF TypeOK, site, history, unit
<1>1. CASE Activate
  BY <1>1, DocNumbers DEF Activate
<1>2. CASE PromoteLegacyMarker
  BY <1>2 DEF PromoteLegacyMarker, Marks
<1>3. CASE CheckPending
  <2>1. (Docs > 0 /\ ~marks.migration) \in BOOLEAN /\ RegistryPending(marks) \in BOOLEAN
    BY DEF RegistryPending
  <2>2. pending' \in [migration : BOOLEAN, registry : BOOLEAN]
    BY <1>3, <2>1 DEF CheckPending
  <2> QED
    BY <1>3, <2>2 DEF CheckPending, Route
<1>4. CASE AssumeMigration
  BY <1>4 DEF AssumeMigration, Route, Marks
<1>5. CASE ProbeOk \/ ProbeSkipped
  BY <1>5 DEF ProbeOk, ProbeSkipped
<1>6. CASE ProbeTableMissing
  BY <1>6 DEF ProbeTableMissing, Marks, WithTableMissing
<1>7. CASE StartRecovery
  BY <1>7 DEF StartRecovery, Store
<1>8. CASE RecoveryReady
  BY <1>8 DEF RecoveryReady, Store
<1>9. CASE ApplyDocument
  BY <1>9, DocumentIn DEF ApplyDocument
<1>10. CASE WriteMigrationMarker
  BY <1>10 DEF WriteMigrationMarker, Marks
<1>11. CASE ApplyPlan
  BY <1>11 DEF ApplyPlan, Store
<1>12. CASE WriteRegistryMarker
  BY <1>12 DEF WriteRegistryMarker, Marks
<1>13. CASE Terminate \/ Exit
  BY <1>13 DEF Terminate, Exit, Reaped
<1>14. CASE ApplyFails
  BY <1>14, FailedApply DEF ApplyFails, AfterFailure
<1>15. CASE RecoveryFails
  BY <1>15 DEF RecoveryFails
<1>16. CASE ServerExits \/ ServerDies
  BY <1>16 DEF ServerExits, ServerDies
<1>17. CASE Kill \/ WriteBack
  BY <1>17 DEF Kill, WriteBack, Stopped
<1>18. CASE PowerLoss
  BY <1>18 DEF PowerLoss, Stopped, Marks
<1>19. CASE Deploy
  BY <1>19 DEF Deploy, Stopped
<1>20. CASE Wipe
  BY <1>20 DEF Wipe, Stopped, Store, Untouched, Progress
<1>21. CASE VerifyBackup \/ UNCHANGED vars
  BY <1>21 DEF VerifyBackup, vars
<1> QED
  BY <1>1, <1>2, <1>3, <1>4, <1>5, <1>6, <1>7, <1>8, <1>9, <1>10, <1>11, <1>12, <1>13,
     <1>14, <1>15, <1>16, <1>17, <1>18, <1>19, <1>20, <1>21 DEF Next, Proceed, Succeed

-----------------------------------------------------------------------------
(* What vouches for the documents and for the backup.                      *)

\* While the store's documents and the markers stay as they are, what vouches
\* for the documents is how far the activation got.
LEMMA DocsStay ==
  ASSUME DocsVouched, UNCHANGED <<settings, marks, kept, store, wiped>>,
         pc' = "assume" => settings.assumeMigrated, pc' \in Early => doc' = 1,
         pc' \in {"gate", "wait"} /\ ~pending'.migration => Complete,
         pc' = "migrate" =>
             wiped \/ \A d \in 1..Docs : d < doc' => store.docs[d] \in {"once", "again"},
         pc' \in Late => Complete
  PROVE  DocsVouched'
BY DEF DocsVouched, Complete, Migrated

\* While the markers stay, and the store is only ever touched, what vouches for
\* a touch is how far the activation got.
LEMMA TouchStays ==
  ASSUME TouchVouched, UNCHANGED <<settings, marks, kept, backedUp, target, pending>>,
         store'.touched = store.touched, store'.tables => store.touched,
         pc' \in Decided => pc \in Decided, pc' = "probe" => pc = "probe",
         pc' \in {"wait", "migrate", "applyPlan", "markRegistry", "stop", "serve"} => store.touched
  PROVE  TouchVouched'
BY DEF TouchVouched

\* A step of an activation preserves what vouches for the documents.
LEMMA DocsStep ==
  ASSUME TypeOK, DocsVouched, [Next]_vars
  PROVE  DocsVouched'
<1> USE DEF site, history, unit, Early, Late
<1>1. CASE Activate
  BY <1>1, DocsStay DEF Activate
<1>2. CASE PromoteLegacyMarker
  <2>1. /\ marks' = [marks EXCEPT !.migration = marks.migration \/ marks.legacy]
        /\ pc = "promote" /\ pc' = "check" /\ UNCHANGED <<settings, kept, store, wiped, doc>>
    BY <1>2 DEF PromoteLegacyMarker
  <2>2. /\ marks'.legacy <=> marks.legacy
        /\ marks'.migration <=> marks.migration \/ marks.legacy
    BY <2>1 DEF TypeOK, Marks
  <2> QED
    BY <2>1, <2>2 DEF DocsVouched, Complete, Migrated
<1>3. CASE CheckPending
  <2>1. /\ pc = "check" /\ UNCHANGED <<settings, marks, kept, store, doc, wiped>>
        /\ pending'.migration <=> Docs > 0 /\ ~marks.migration
        /\ pc' \in {"assume", "gate", "probe", "serve"}
        /\ pc' \in {"probe", "serve"} => ~pending'.migration
        /\ pc' = "assume" => settings.assumeMigrated
    BY <1>3 DEF CheckPending, Route
  <2>2. ~pending'.migration => Complete
    BY <2>1, DocsAssumption DEF DocsVouched, Complete, Migrated
  <2> QED
    BY <2>1, <2>2, DocsStay DEF DocsVouched
<1>4. CASE AssumeMigration
  <2>1. /\ pc = "assume" /\ marks' = [marks EXCEPT !.migration = TRUE]
        /\ UNCHANGED <<settings, kept, store, doc, wiped>>
        /\ pc' \in {"gate", "probe", "serve"}
    BY <1>4 DEF AssumeMigration, Route
  <2>2. Complete
    BY <2>1 DEF DocsVouched
  <2> QED
    BY <2>1, <2>2 DEF DocsVouched, Complete, Migrated
<1>5. CASE ProbeOk \/ ProbeSkipped
  BY <1>5, DocsStay DEF ProbeOk, ProbeSkipped, DocsVouched
<1>6. CASE ProbeTableMissing
  <2>1. /\ pc = "probe" /\ pc' = "gate" /\ UNCHANGED <<settings, kept, store, doc, wiped>>
        /\ pending'.migration = pending.migration
        /\ marks'.legacy = marks.legacy /\ marks'.migration = marks.migration
    BY <1>6 DEF ProbeTableMissing, WithTableMissing, TypeOK, Marks
  <2> QED
    BY <2>1 DEF DocsVouched, Complete, Migrated
<1>7. CASE StartRecovery
  <2>1. /\ pc = "gate" /\ pc' = "wait" /\ store'.docs = store.docs
        /\ UNCHANGED <<settings, marks, kept, pending, doc, wiped>>
    BY <1>7 DEF StartRecovery, TypeOK, Store
  <2> QED
    BY <2>1 DEF DocsVouched, Complete, Migrated
<1>8. CASE RecoveryReady
  <2>1. /\ pc = "wait" /\ store'.docs = store.docs
        /\ pc' = IF pending.migration THEN "migrate" ELSE "applyPlan"
        /\ UNCHANGED <<settings, marks, kept, pending, doc, wiped>>
    BY <1>8 DEF RecoveryReady, TypeOK, Store
  <2>2. \A d \in 1..Docs : ~(d < 1)
    BY DocsAssumption
  <2> QED
    BY <2>1, <2>2 DEF DocsVouched, Complete, Migrated
<1>9. CASE ApplyDocument
  <2>1. /\ pc = "migrate" /\ pc' = "migrate" /\ doc' = doc + 1
        /\ UNCHANGED <<settings, marks, kept, pending, wiped>>
    BY <1>9 DEF ApplyDocument
  <2>2. \A d \in 1..Docs : d < doc' => d < doc \/ d = doc
    BY <1>9, <2>1, DocumentIn, DocsAssumption
  <2>3. \A d \in 1..Docs : store.docs[d] \in {"once", "again"} =>
            store'.docs[d] \in {"once", "again"}
    BY <1>9, DocumentIn
  <2>4. store'.docs[doc] \in {"once", "again"}
    BY <1>9, DocumentIn
  <2> QED
    BY <2>1, <2>2, <2>3, <2>4 DEF DocsVouched, Complete, Migrated
<1>10. CASE WriteMigrationMarker
  <2>1. /\ pc = "migrate" /\ doc > Docs /\ pc' \in {"applyPlan", "stop"}
        /\ UNCHANGED <<settings, kept, store, wiped>>
    BY <1>10 DEF WriteMigrationMarker
  <2>2. \A d \in 1..Docs : d < doc
    BY <2>1, DocsAssumption DEF TypeOK
  <2>3. Complete
    BY <2>1, <2>2 DEF DocsVouched, Complete, Migrated
  <2> QED
    BY <2>1, <2>3 DEF DocsVouched, Complete, Migrated
<1>11. CASE ApplyPlan
  <2>1. /\ pc = "applyPlan" /\ pc' = "markRegistry" /\ store'.docs = store.docs
        /\ UNCHANGED <<settings, marks, kept, wiped>>
    BY <1>11 DEF ApplyPlan, TypeOK, Store
  <2> QED
    BY <2>1 DEF DocsVouched, Complete, Migrated
<1>12. CASE WriteRegistryMarker
  <2>1. /\ pc = "markRegistry" /\ pc' = "stop" /\ UNCHANGED <<settings, kept, store, wiped>>
        /\ marks'.legacy = marks.legacy /\ marks'.migration = marks.migration
    BY <1>12 DEF WriteRegistryMarker, TypeOK, Marks
  <2> QED
    BY <2>1 DEF DocsVouched, Complete, Migrated
<1>13. CASE Terminate \/ ServerExits \/ ServerDies \/ VerifyBackup \/ UNCHANGED vars
  <2>1. UNCHANGED <<settings, marks, kept, store, pc, pending, doc, wiped>>
    BY <1>13 DEF Terminate, ServerExits, ServerDies, VerifyBackup, vars
  <2> QED
    BY <2>1 DEF DocsVouched, Complete, Migrated
<1>14. CASE Exit
  <2>1. /\ UNCHANGED <<settings, marks, kept, store, wiped>>
        /\ pc' = "off" \/ (pc = "stop" /\ pc' = "serve")
    BY <1>14 DEF Exit
  <2> QED
    BY <2>1 DEF DocsVouched, Complete, Migrated
<1>15. CASE ApplyFails
  <2>1. pc' = "abort" /\ UNCHANGED <<settings, marks, kept, wiped>>
    BY <1>15 DEF ApplyFails, AfterFailure
  <2>2. Complete => Complete'
    BY <1>15, <2>1, FailedApply DEF Complete, Migrated
  <2> QED
    BY <2>1, <2>2 DEF DocsVouched
<1>16. CASE RecoveryFails \/ Kill \/ Deploy
  <2>1. pc' \in {"abort", "off"} /\ UNCHANGED <<settings, marks, kept, store, wiped>>
    BY <1>16 DEF RecoveryFails, Kill, Deploy, Stopped
  <2> QED
    BY <2>1, DocsStay
<1>17. CASE WriteBack
  <2>1. kept' = marks /\ UNCHANGED <<settings, marks, store, pc, pending, doc, wiped>>
    BY <1>17 DEF WriteBack
  <2> QED
    BY <2>1 DEF DocsVouched, Complete, Migrated
<1>18. CASE PowerLoss
  <2>1. /\ pc' = "off" /\ UNCHANGED <<settings, store, wiped>> /\ kept' = marks'
        /\ marks'.legacy = marks.legacy
        /\ marks'.migration \in {marks.migration, kept.migration}
    BY <1>18 DEF PowerLoss, Stopped
  <2> QED
    BY <2>1 DEF DocsVouched, Complete, Migrated
<1>19. CASE Wipe
  <2>1. pc' = "off" /\ wiped'
    BY <1>19 DEF Wipe, Stopped
  <2> QED
    BY <2>1 DEF DocsVouched, Complete
<1> QED
  BY <1>1, <1>2, <1>3, <1>4, <1>5, <1>6, <1>7, <1>8, <1>9, <1>10, <1>11, <1>12, <1>13,
     <1>14, <1>15, <1>16, <1>17, <1>18, <1>19 DEF Next, Proceed, Succeed

\* So does it what vouches for the backup.
LEMMA TouchStep ==
  ASSUME TypeOK, TouchVouched, [Next]_vars
  PROVE  TouchVouched'
<1> USE DEF site, history, unit, Decided
<1>0. plan # NoPlan /\ target # NoPlan
  BY NoPlanAssumption DEF TypeOK
<1>1. CASE Activate \/ PromoteLegacyMarker
  <2>1. /\ pc' \in {"promote", "check"} /\ UNCHANGED <<settings, kept, store, backedUp>>
        /\ marks'.registry = marks.registry
    BY <1>1 DEF Activate, PromoteLegacyMarker, TypeOK, Marks
  <2> QED
    BY <2>1 DEF TouchVouched
<1>2. CASE CheckPending
  <2>1. /\ pc' \in {"assume", "gate", "probe", "serve"}
        /\ pending'.registry <=> marks.registry # target
        /\ pc' \in {"probe", "serve"} => ~pending'.registry
        /\ UNCHANGED <<settings, marks, kept, store, target, backedUp>>
    BY <1>2 DEF CheckPending, Route, RegistryPending
  <2> QED
    BY <1>0, <2>1 DEF TouchVouched
<1>3. CASE AssumeMigration
  <2>1. /\ pc = "assume" /\ pc' \in {"gate", "probe", "serve"} /\ marks'.registry = marks.registry
        /\ UNCHANGED <<settings, kept, store, target, backedUp>>
        /\ pending'.registry = pending.registry
        /\ pc' \in {"probe", "serve"} => ~pending.registry
    BY <1>3 DEF AssumeMigration, Route, TypeOK, Marks
  <2> QED
    BY <1>0, <2>1 DEF TouchVouched
<1>4. CASE ProbeOk \/ ProbeSkipped
  <2>1. /\ pc = "probe" /\ pc' = "serve"
        /\ UNCHANGED <<settings, marks, kept, store, target, pending, backedUp>>
    BY <1>4 DEF ProbeOk, ProbeSkipped
  <2> QED
    BY <1>0, <2>1 DEF TouchVouched
<1>5. CASE ProbeTableMissing
  <2>1. /\ pc' = "gate" /\ pending'.registry
        /\ UNCHANGED <<settings, kept, store, target, backedUp>>
        /\ marks'.registry \in {marks.registry, NoPlan}
    BY <1>5 DEF ProbeTableMissing, WithTableMissing, TypeOK, Marks
  <2> QED
    BY <2>1 DEF TouchVouched
<1>6. CASE StartRecovery
  <2>1. /\ pc = "gate" /\ pc' = "wait" /\ store'.touched /\ (settings.needsBackup => backedUp)
        /\ UNCHANGED <<settings, marks, kept, pending, target, backedUp>>
    BY <1>6 DEF StartRecovery, BackupVerified, TypeOK, Store
  <2> QED
    BY <2>1 DEF TouchVouched
<1>7. CASE RecoveryReady \/ ApplyDocument \/ ApplyPlan \/ ApplyFails \/ RecoveryFails
           \/ Terminate \/ ServerExits \/ ServerDies \/ UNCHANGED vars
  <2>1. /\ UNCHANGED <<settings, marks, kept, pending, target, backedUp>>
        /\ store'.touched = store.touched /\ (store'.tables => store.tables \/ pc = "wait")
    BY <1>7, DocumentIn, FailedApply
       DEF RecoveryReady, ApplyDocument, ApplyPlan, ApplyFails, RecoveryFails, Terminate,
           ServerExits, ServerDies, vars, TypeOK, Store
  <2>2. \/ pc' = pc \/ pc' = "abort"
        \/ /\ pc \in {"wait", "applyPlan"}
           /\ pc' \in {"migrate", "applyPlan", "markRegistry"}
    BY <1>7 DEF RecoveryReady, ApplyDocument, ApplyPlan, ApplyFails, RecoveryFails, Terminate,
           ServerExits, ServerDies, vars, AfterFailure
  <2> QED
    BY <2>1, <2>2, TouchStays DEF TouchVouched
<1>8. CASE WriteMigrationMarker
  <2>1. /\ pc = "migrate" /\ pc' \in {"applyPlan", "stop"} /\ marks'.registry = marks.registry
        /\ UNCHANGED <<settings, kept, store, pending, target, backedUp>>
    BY <1>8 DEF WriteMigrationMarker, TypeOK, Marks
  <2> QED
    BY <2>1 DEF TouchVouched
<1>9. CASE WriteRegistryMarker
  <2>1. /\ pc = "markRegistry" /\ pc' = "stop" /\ marks'.registry = target
        /\ UNCHANGED <<settings, kept, store, pending, target, backedUp>>
    BY <1>9 DEF WriteRegistryMarker, TypeOK, Marks
  <2> QED
    BY <2>1 DEF TouchVouched
<1>10. CASE Exit
  <2>1. /\ UNCHANGED <<settings, marks, kept, store, pending, target, backedUp>>
        /\ pc' = "off" \/ (pc = "stop" /\ pc' = "serve")
    BY <1>10 DEF Exit
  <2> QED
    BY <2>1 DEF TouchVouched
<1>11. CASE Kill \/ Deploy
  <2>1. pc' = "off" /\ UNCHANGED <<settings, marks, kept, store, backedUp>>
    BY <1>11 DEF Kill, Deploy, Stopped
  <2> QED
    BY <2>1 DEF TouchVouched
<1>12. CASE WriteBack
  <2>1. kept' = marks /\ UNCHANGED <<settings, marks, store, pc, pending, target, backedUp>>
    BY <1>12 DEF WriteBack
  <2> QED
    BY <2>1 DEF TouchVouched
<1>13. CASE PowerLoss
  <2>1. /\ pc' = "off" /\ UNCHANGED <<settings, store, backedUp>> /\ kept' = marks'
        /\ marks'.registry \in {marks.registry, kept.registry}
    BY <1>13 DEF PowerLoss, Stopped
  <2> QED
    BY <2>1 DEF TouchVouched
<1>14. CASE Wipe
  <2>1. /\ pc' = "off" /\ UNCHANGED <<settings, marks, kept, backedUp>> /\ store'.touched
        /\ store.tables
    BY <1>14 DEF Wipe, Stopped, Untouched
  <2> QED
    BY <2>1 DEF TouchVouched
<1>15. CASE VerifyBackup
  <2>1. /\ backedUp' /\ UNCHANGED <<settings, marks, kept, store, pc, pending, target>>
    BY <1>15 DEF VerifyBackup
  <2> QED
    BY <2>1 DEF TouchVouched
<1> QED
  BY <1>1, <1>2, <1>3, <1>4, <1>5, <1>6, <1>7, <1>8, <1>9, <1>10, <1>11, <1>12, <1>13,
     <1>14, <1>15 DEF Next, Proceed, Succeed

-----------------------------------------------------------------------------
(* What vouches for the registry, while nothing was rolled back or lost.   *)

\* Every step preserves what the registry marker is trusted for.
LEMMA ForwardStep ==
  ASSUME TypeOK, ForwardInv, [Next]_vars, lapses' = {}
  PROVE  Forwards' /\ RegistryVouched'
<1> USE DEF site, history, unit
<1>0. lapses = {}
  BY DEF Next, Proceed, Succeed, Activate, PromoteLegacyMarker, CheckPending,
         AssumeMigration, ProbeOk, ProbeSkipped, ProbeTableMissing, StartRecovery,
         RecoveryReady, ApplyDocument, WriteMigrationMarker, ApplyPlan,
         WriteRegistryMarker, Terminate, Exit, ApplyFails, RecoveryFails, ServerExits,
         ServerDies, Kill, WriteBack, PowerLoss, Deploy, Wipe, VerifyBackup, vars
<1>1. Forwards /\ RegistryVouched /\ plan # NoPlan /\ plan \in Plans
  BY <1>0, NoPlanAssumption DEF ForwardInv, TypeOK
<1>2. CASE Activate
  BY <1>1, <1>2 DEF Activate, Forwards, RegistryVouched
<1>3. CASE PromoteLegacyMarker
  <2>1. /\ pc = "promote" /\ pc' = "check" /\ marks'.registry = marks.registry
        /\ marks.migration => marks'.migration
        /\ UNCHANGED <<store, plan, former, target, blind, wiped>>
    BY <1>3 DEF PromoteLegacyMarker, TypeOK, Marks
  <2> QED
    BY <1>1, <2>1 DEF Forwards, RegistryVouched
<1>4. CASE CheckPending
  <2>1. /\ pc = "check" /\ UNCHANGED <<marks, store, plan, former, target, blind, wiped>>
        /\ pending'.registry <=> marks.registry # target
        /\ pending'.migration <=> Docs > 0 /\ ~marks.migration
        /\ pc' \in {"assume", "gate", "probe", "serve"}
        /\ pc' = "gate" => pending'.migration \/ pending'.registry
        /\ pc' \in {"probe", "serve"} => ~pending'.registry
    BY <1>4 DEF CheckPending, Route, RegistryPending
  <2>2. target = plan /\ blind
    BY <1>1, <2>1 DEF Forwards, RegistryVouched
  <2>3. pending'.migration => marks.registry = NoPlan
    BY <1>1, <2>1, DocsAssumption DEF RegistryVouched
  <2>4. ~pending'.migration => marks.migration \/ Docs = 0
    BY <2>1, DocsAssumption
  <2> QED
    BY <1>1, <2>1, <2>2, <2>3, <2>4 DEF Forwards, RegistryVouched
<1>5. CASE AssumeMigration
  <2>1. /\ pc = "assume" /\ marks'.registry = marks.registry /\ marks'.migration
        /\ UNCHANGED <<store, plan, former, target, blind, wiped>>
        /\ pending'.registry = pending.registry
        /\ pc' \in {"gate", "probe", "serve"}
        /\ pc' = "gate" => pending.registry
        /\ pc' \in {"probe", "serve"} => ~pending.registry
    BY <1>5 DEF AssumeMigration, Route, TypeOK, Marks
  <2> QED
    BY <1>1, <2>1 DEF Forwards, RegistryVouched
<1>6. CASE ProbeOk \/ ProbeSkipped
  <2>1. /\ pc = "probe" /\ pc' = "serve" /\ (store.tables \/ blind' = blind)
        /\ UNCHANGED <<marks, store, plan, former, target, wiped>>
    BY <1>6 DEF ProbeOk, ProbeSkipped
  <2> QED
    BY <1>1, <2>1 DEF Forwards, RegistryVouched
<1>7. CASE ProbeTableMissing
  <2>1. /\ pc = "probe" /\ pc' = "gate" /\ marks'.registry = NoPlan /\ pending'.registry
        /\ pending'.migration = pending.migration /\ marks'.migration = marks.migration
        /\ UNCHANGED <<store, plan, former, target, wiped>>
    BY <1>0, <1>7 DEF ProbeTableMissing, WithTableMissing, TypeOK, Marks
  <2> QED
    BY <1>1, <2>1 DEF Forwards, RegistryVouched
<1>8. CASE StartRecovery
  <2>1. /\ pc = "gate" /\ pc' = "wait"
        /\ store'.registry = store.registry /\ store'.tables = store.tables
        /\ UNCHANGED <<marks, plan, former, target, pending, wiped>>
    BY <1>8 DEF StartRecovery, TypeOK, Store
  <2> QED
    BY <1>1, <2>1 DEF Forwards, RegistryVouched
<1>9. CASE RecoveryReady
  <2>1. /\ pc = "wait" /\ pc' = (IF pending.migration THEN "migrate" ELSE "applyPlan")
        /\ store'.registry = store.registry
        /\ UNCHANGED <<marks, plan, former, target, pending, wiped>>
    BY <1>9 DEF RecoveryReady, TypeOK, Store
  <2> QED
    BY <1>1, <2>1 DEF Forwards, RegistryVouched
<1>10. CASE ApplyDocument
  <2>1. /\ pc = "migrate" /\ pc' = "migrate"
        /\ store'.registry = store.registry /\ store'.tables = store.tables
        /\ UNCHANGED <<marks, plan, former, target, pending, wiped>>
    BY <1>10, DocumentIn DEF ApplyDocument
  <2> QED
    BY <1>1, <2>1 DEF Forwards, RegistryVouched
<1>11. CASE WriteMigrationMarker
  <2>1. /\ pc = "migrate" /\ pc' = (IF pending.registry THEN "applyPlan" ELSE "stop")
        /\ marks'.registry = marks.registry /\ marks'.migration
        /\ UNCHANGED <<store, plan, former, target, pending, wiped>>
    BY <1>11 DEF WriteMigrationMarker, TypeOK, Marks
  <2> QED
    BY <1>1, <2>1 DEF Forwards, RegistryVouched
<1>12. CASE ApplyPlan
  <2>1. /\ pc = "applyPlan" /\ pc' = "markRegistry" /\ store'.registry = target
        /\ UNCHANGED <<marks, plan, former, target, pending, wiped>>
    BY <1>12 DEF ApplyPlan, TypeOK, Store
  <2> QED
    BY <1>1, <2>1 DEF Forwards, RegistryVouched
<1>13. CASE WriteRegistryMarker
  <2>1. /\ pc = "markRegistry" /\ pc' = "stop" /\ marks'.registry = target
        /\ marks'.migration = marks.migration
        /\ UNCHANGED <<store, plan, former, target, wiped>>
    BY <1>13 DEF WriteRegistryMarker, TypeOK, Marks
  <2> QED
    BY <1>1, <2>1 DEF Forwards, RegistryVouched
<1>14. CASE Terminate \/ ServerExits \/ ServerDies \/ WriteBack \/ VerifyBackup
            \/ UNCHANGED vars
  <2>1. UNCHANGED <<marks, store, plan, former, pc, target, pending, blind, wiped>>
    BY <1>14 DEF Terminate, ServerExits, ServerDies, WriteBack, VerifyBackup, vars
  <2> QED
    BY <1>1, <2>1 DEF Forwards, RegistryVouched
<1>15. CASE Exit
  <2>1. /\ UNCHANGED <<marks, store, plan, former, target, pending, blind, wiped>>
        /\ pc' = "off" \/ (pc = "stop" /\ pc' = "serve")
    BY <1>15 DEF Exit
  <2> QED
    BY <1>1, <2>1 DEF Forwards, RegistryVouched
<1>16. CASE ApplyFails
  <2>1. /\ pc' = "abort" /\ UNCHANGED <<marks, plan, former, target, wiped>>
        /\ store'.tables = store.tables
        /\ pc = "migrate" => store'.registry = store.registry
        /\ pc \in {"migrate", "applyPlan"}
    BY <1>16, FailedApply DEF ApplyFails, AfterFailure
  <2> QED
    BY <1>1, <2>1 DEF Forwards, RegistryVouched
<1>17. CASE RecoveryFails \/ Kill
  <2>1. /\ pc' \in {"abort", "off"} /\ pc # "off"
        /\ UNCHANGED <<marks, store, plan, former, target, wiped>>
    BY <1>17 DEF RecoveryFails, Kill, Stopped
  <2> QED
    BY <1>1, <2>1 DEF Forwards, RegistryVouched
<1>18. CASE PowerLoss
  <2>1. pc' = "off" /\ marks' = marks /\ UNCHANGED <<store, plan, former, wiped>>
    BY <1>18, <1>0 DEF PowerLoss, Stopped
  <2> QED
    BY <1>1, <2>1 DEF Forwards, RegistryVouched
<1>19. CASE Deploy
  <2>1. /\ pc' = "off" /\ former' = former \cup {plan} /\ plan' # plan /\ plan' \in Plans
        /\ plan' \notin former /\ UNCHANGED <<marks, store, wiped>>
    BY <1>0, <1>19 DEF Deploy, Stopped
  <2>2. plan' # NoPlan
    BY <2>1, NoPlanAssumption
  <2> QED
    BY <1>1, <2>1, <2>2 DEF Forwards, RegistryVouched
<1>20. CASE Wipe
  <2>1. /\ pc' = "off" /\ wiped' /\ store'.tables = FALSE
        /\ UNCHANGED <<marks, plan, former>>
    BY <1>20 DEF Wipe, Stopped, Untouched
  <2> QED
    BY <1>1, <2>1 DEF Forwards, RegistryVouched
<1> QED
  BY <1>2, <1>3, <1>4, <1>5, <1>6, <1>7, <1>8, <1>9, <1>10, <1>11, <1>12, <1>13,
     <1>14, <1>15, <1>16, <1>17, <1>18, <1>19, <1>20 DEF Next, Proceed, Succeed

-----------------------------------------------------------------------------
(* What follows.                                                           *)

\* Every behaviour of the host stays within the invariants.
LEMMA Provisioning == Spec => [](SafetyInv /\ ForwardInv)
<1>1. Init => SafetyInv /\ ForwardInv
  <2> SUFFICES ASSUME Init PROVE SafetyInv /\ ForwardInv
    OBVIOUS
  <2>1. Untouched \in Store /\ Imported \in Store
    BY DEF Untouched, Imported, Store, Progress
  <2>2. Imported.touched /\ ~Untouched.touched /\ ~Untouched.tables
    BY DEF Imported, Untouched
  <2>3. \A d \in 1..Docs : Imported.docs[d] = "once"
    BY DEF Imported, Untouched
  <2>4. TypeOK
    <3>1. /\ settings \in Settings /\ plan \in Plans /\ target \in Plans
          /\ former \subseteq Plans /\ doc \in 1..(Docs + 1)
      BY DocNumbers DEF Init
    <3>2. store \in Store
      BY <2>1 DEF Init
    <3>3. store.touched \in BOOLEAN
      BY <3>2 DEF Store
    <3>4. settings.assumeMigrated = TRUE \/ settings.assumeMigrated = FALSE
      BY <3>1, SettingsAssumption
    <3>5. marks \in Marks
      <4>1. CASE settings.assumeMigrated = TRUE
        <5>1. (~settings.assumeMigrated) = FALSE
          BY <4>1
        <5>2. marks = [legacy |-> FALSE, migration |-> FALSE, registry |-> NoPlan]
          BY <5>1 DEF Init
        <5> QED
          BY <5>2 DEF Marks
      <4>2. CASE settings.assumeMigrated = FALSE
        <5>1. (~settings.assumeMigrated) = TRUE
          BY <4>2
        <5>2. \E b \in BOOLEAN : marks = [legacy |-> b, migration |-> FALSE, registry |-> NoPlan]
          BY <5>1 DEF Init
        <5> QED
          BY <5>2 DEF Marks
      <4> QED
        BY <3>4, <4>1, <4>2
    <3>6. pending \in [migration : BOOLEAN, registry : BOOLEAN]
      BY DEF Init
    <3> QED
      BY <3>1, <3>2, <3>3, <3>5, <3>6 DEF Init, TypeOK
  <2>5. DocsVouched
    BY <2>3 DEF Init, DocsVouched, Complete, Migrated, Early, Late
  <2>6. TouchVouched
    BY <2>2 DEF Init, TouchVouched, Decided
  <2>7. Forwards /\ RegistryVouched
    BY NoPlanAssumption DEF Init, Forwards, RegistryVouched
  <2> QED
    BY <2>4, <2>5, <2>6, <2>7 DEF SafetyInv, ForwardInv
<1>2. SafetyInv /\ ForwardInv /\ [Next]_vars => SafetyInv' /\ ForwardInv'
  BY StalwartTypes, DocsStep, TouchStep, ForwardStep DEF SafetyInv, ForwardInv
<1> QED
  BY <1>1, <1>2, PTL DEF Spec

\* The provisioner is well typed, and a recovery server is there only for the
\* steps that use it.
THEOREM ProvisioningTyping == Spec => []TypeOK
BY Provisioning, PTL DEF SafetyInv

\* No server works on a store that lacks a document, that a demanded backup does
\* not cover, or that another server is up on.
THEOREM StoreStaysSafe == Spec => []StoreIsSafe
<1>1. SafetyInv => StoreIsSafe
  <2> SUFFICES ASSUME SafetyInv PROVE ServesMigrated /\ OneServer /\ NoTouchBeforeBackup
    BY DEF StoreIsSafe
  <2>1. ServesMigrated
    BY DEF SafetyInv, DocsVouched, Complete, Late, ServesMigrated
  <2>2. OneServer
    BY DEF SafetyInv, TypeOK, OneServer
  <2>3. NoTouchBeforeBackup
    BY DEF SafetyInv, TouchVouched, NoTouchBeforeBackup
  <2> QED
    BY <2>1, <2>2, <2>3
<1> QED
  BY <1>1, Provisioning, PTL

\* Skipping an apply because the registry marker is current is never wrong, as
\* long as plans are deployed forward only and no change of a marker is lost.
THEOREM SkippingIsSound == Spec => []ServesProvisioned
<1>1. ForwardInv => ServesProvisioned
  BY DEF ForwardInv, RegistryVouched, ServesProvisioned, ServesItsPlan
<1> QED
  BY <1>1, Provisioning, PTL

-----------------------------------------------------------------------------
(* RbwMigration: the inductive invariant.                                  *)

\* The file systems a power loss can leave.
Survivors == past \cup {fs}

\* A tree that is there holds the last version rbw wrote.
Current(tree, t) == tree # NoTree /\ tree.version = latest[t]

\* No durable tree is ahead of what rbw wrote.
Bounded ==
    \A f \in Survivors, t \in Trees :
        f.durable[t] # NoTree => f.durable[t].version <= latest[t]

\* Until the marker is there, a legacy tree that exists is the latest one.
LegacyCurrent ==
    \A f \in Survivors, t \in Trees :
        ~f.marker /\ f.legacy[t] # NoTree => f.legacy[t].version = latest[t]

\* Whatever a power loss leaves, the latest version is in one of the two places.
Kept ==
    "lost" \notin faults => \A f \in Survivors, t \in Trees :
        latest[t] > 0 => Current(f.legacy[t], t) \/ Current(f.durable[t], t)

\* The marker is set once: it is the last thing a power loss takes back.
MarkedLast ==
    /\ \A f \in past : ~f.marker
    /\ step \in {"syncMarker", "ready"} \/ agent = "durable" => fs.marker

\* The trees a preparation, or a finished migration, has moved.
Done(t) ==
    \/ fs.marker \/ step = "marker"
    \/ step = t /\ moved
    \/ t = "cache" /\ step = "data"

\* A tree that was moved is durable, and the latest one while all clients are
\* wrapped, for then nobody writes while trees move.
Moved ==
    /\ "lost" \notin faults => \A t \in Trees : Done(t) => fs.durable[t] # NoTree
    /\ faults = {} => \A t \in Trees : Done(t) => Current(fs.durable[t], t)
    /\ faults = {} /\ step \in Trees \cup {"marker"} => agent = "off"
    /\ faults = {} /\ fs.marker => agent # "legacy"

MigrationInv == MigrationTypeOK /\ Bounded /\ LegacyCurrent /\ Kept /\ MarkedLast /\ Moved

-----------------------------------------------------------------------------
(* What the steps do to the trees.                                         *)

\* A move takes the legacy tree along, or provides for one that never was.
LEMMA MoveEffect ==
  ASSUME MigrationTypeOK, Move
  PROVE  /\ fs' \in FileSystem /\ fs'.marker = fs.marker /\ past' \in {past, past \cup {fs}}
         /\ \A t \in Trees \ {step} :
             fs'.legacy[t] = fs.legacy[t] /\ fs'.durable[t] = fs.durable[t]
         /\ fs'.legacy[step] = NoTree
         /\ \/ fs.legacy[step] # NoTree /\ fs'.durable[step] = fs.legacy[step]
            \/ fs.legacy[step] = NoTree /\ fs.durable[step] # NoTree
               /\ fs'.durable[step] = fs.durable[step]
            \/ fs.legacy[step] = NoTree /\ fs.durable[step] = NoTree
               /\ fs'.durable[step] = Empty
<1>1. step \in Trees /\ fs \in FileSystem
  BY DEF Move, MigrationTypeOK
<1>2. Empty \in Content
  BY MaxVersionAssumption, NoTreeAssumption DEF Empty, Content
<1>3. CASE fs.legacy[step] # NoTree
  <2>1. /\ fs' = [fs EXCEPT !.durable[step] = fs.legacy[step], !.legacy[step] = NoTree]
        /\ past' = past \cup {fs}
    BY <1>3 DEF Move, Change
  <2> QED
    BY <1>1, <1>3, <2>1 DEF FileSystem
<1>4. CASE fs.legacy[step] = NoTree
  <2>1. CASE fs.durable[step] = NoTree
    <3>1. fs' = [fs EXCEPT !.durable[step] = Empty] /\ past' = past \cup {fs}
      BY <1>4, <2>1 DEF Move, Change
    <3> QED
      BY <1>1, <1>2, <1>4, <2>1, <3>1 DEF FileSystem
  <2>2. CASE fs.durable[step] # NoTree
    BY <1>1, <1>4, <2>2 DEF Move
  <2> QED
    BY <2>1, <2>2
<1> QED
  BY <1>3, <1>4

\* What rbw writes is durable at once, and newer than all there was.
LEMMA WriteEffect ==
  ASSUME MigrationTypeOK, NEW t \in Trees, NEW empty \in BOOLEAN, AgentWrites(t, empty)
  PROVE  /\ fs' \in FileSystem /\ fs'.marker = fs.marker /\ past' = {}
         /\ latest' \in [Trees -> 0..MaxVersion]
         /\ latest'[t] = latest[t] + 1 /\ latest[t] \in Nat
         /\ \A u \in Trees \ {t} :
             /\ latest'[u] = latest[u]
             /\ fs'.legacy[u] = fs.legacy[u] /\ fs'.durable[u] = fs.durable[u]
         /\ \/ agent = "durable" /\ fs.durable[t] # NoTree
               /\ Current(fs.durable[t], t)' /\ fs'.legacy[t] = fs.legacy[t]
            \/ agent = "legacy" /\ Current(fs.legacy[t], t)'
               /\ fs'.durable[t] = fs.durable[t]
<1> DEFINE new == [version |-> latest[t] + 1, empty |-> empty]
<1>1. fs \in FileSystem /\ latest \in [Trees -> 0..MaxVersion] /\ latest[t] < MaxVersion
  BY DEF MigrationTypeOK, AgentWrites
<1>2. latest[t] + 1 \in 0..MaxVersion /\ latest[t] \in Nat
  BY MaxVersionAssumption, NoTreeAssumption, <1>1
<1>3. latest' = [latest EXCEPT ![t] = latest[t] + 1]
  BY DEF AgentWrites
<1>4. new \in Content /\ new # NoTree /\ new.version = latest'[t]
  BY MaxVersionAssumption, NoTreeAssumption, <1>1, <1>2, <1>3 DEF Content
<1>5. CASE agent = "durable"
  <2>1. fs' = [fs EXCEPT !.durable[t] = new] /\ past' = {} /\ fs.durable[t] # NoTree
    BY <1>5 DEF AgentWrites, Commit
  <2> HIDE DEF new
  <2> QED
    BY <1>1, <1>2, <1>3, <1>4, <1>5, <2>1 DEF FileSystem, Current
<1>6. CASE agent = "legacy"
  <2>1. fs' = [fs EXCEPT !.legacy[t] = new] /\ past' = {}
    BY <1>6 DEF AgentWrites, Commit
  <2> HIDE DEF new
  <2> QED
    BY <1>1, <1>2, <1>3, <1>4, <1>6, <2>1 DEF FileSystem, Current
<1> QED
  BY <1>5, <1>6 DEF AgentWrites, MigrationTypeOK

-----------------------------------------------------------------------------
(* Every step preserves the invariant.                                     *)

\* The versions and the trees have the types the arithmetic needs.
LEMMA VersionTypes ==
  ASSUME MigrationTypeOK
  PROVE  /\ \A t \in Trees : latest[t] \in Nat
         /\ \A f \in Survivors, t \in Trees :
             /\ f.legacy[t] # NoTree => f.legacy[t].version \in Nat
             /\ f.durable[t] # NoTree => f.durable[t].version \in Nat
<1>1. Survivors \subseteq FileSystem /\ latest \in [Trees -> 0..MaxVersion]
  BY DEF MigrationTypeOK, Survivors
<1>2. \A n \in 0..MaxVersion : n \in Nat
  BY MaxVersionAssumption, NoTreeAssumption
<1>3. \A c \in Content : c.version \in 0..MaxVersion
  BY DEF Content
<1>4. \A f \in Survivors, t \in Trees :
          f.legacy[t] \in Content \cup {NoTree} /\ f.durable[t] \in Content \cup {NoTree}
  BY <1>1 DEF FileSystem
<1> QED
  BY <1>1, <1>2, <1>3, <1>4

\* A step that touches no file keeps what the files say.
LEMMA FilesKept ==
  ASSUME Bounded, LegacyCurrent, Kept, Survivors' \subseteq Survivors,
         latest' = latest, faults \subseteq faults'
  PROVE  Bounded' /\ LegacyCurrent' /\ Kept'
BY DEF Bounded, LegacyCurrent, Kept, Current

\* Every step of the migration, rbw and the operator keeps to the invariant.
LEMMA MigrationStep == MigrationInv /\ [MigrationNext]_migrationVars => MigrationInv'
<1> SUFFICES ASSUME MigrationTypeOK, Bounded, LegacyCurrent, Kept, MarkedLast, Moved,
                    [MigrationNext]_migrationVars
             PROVE  /\ MigrationTypeOK' /\ Bounded' /\ LegacyCurrent'
                    /\ Kept' /\ MarkedLast' /\ Moved'
  BY DEF MigrationInv
<1>1. CASE PrepareMigrated \/ BeginMigration \/ StopAgent \/ Launch
           \/ Interrupt \/ LegacyStart \/ AgentExits \/ UNCHANGED migrationVars
  <2>1. UNCHANGED <<fs, past, latest>> /\ faults \subseteq faults'
    BY <1>1 DEF PrepareMigrated, BeginMigration, StopAgent, Launch, Interrupt,
       LegacyStart, AgentExits, migrationVars
  <2>2. MigrationTypeOK'
    BY <1>1, <2>1 DEF PrepareMigrated, BeginMigration, StopAgent, Launch,
       Interrupt, LegacyStart, AgentExits, migrationVars, MigrationTypeOK, Trees,
       Migrates, AgentStopped
  <2>3. Bounded' /\ LegacyCurrent' /\ Kept'
    BY <2>1, FilesKept DEF Survivors
  <2>4. MarkedLast'
    BY <1>1, <2>1 DEF PrepareMigrated, BeginMigration, StopAgent, Launch,
       Interrupt, LegacyStart, AgentExits, migrationVars, MarkedLast, AgentStopped
  <2>5. Moved'
    BY <1>1, <2>1, <2>2 DEF PrepareMigrated, BeginMigration, StopAgent, Launch,
       Interrupt, LegacyStart, AgentExits, migrationVars, Moved, Done, MigrationTypeOK,
       Trees, Current, AgentStopped
  <2> QED
    BY <2>2, <2>3, <2>4, <2>5
<1>2. CASE Move
  <2>1. MigrationTypeOK' /\ UNCHANGED <<step, agent, latest, faults>> /\ step \in Trees /\ moved'
    BY <1>2, MoveEffect DEF Move, MigrationTypeOK
  <2>2. ~fs.marker /\ MarkedLast'
    BY <1>2, <2>1, MoveEffect DEF MigrationTypeOK, MarkedLast, Trees
  <2>3. Bounded'
    BY <1>2, <2>1, <2>2, MoveEffect, VersionTypes
       DEF Bounded, LegacyCurrent, Survivors, Empty
  <2>4. LegacyCurrent'
    BY <1>2, <2>1, MoveEffect DEF LegacyCurrent, Survivors
  <2>5. Kept'
    BY <1>2, <2>1, <2>2, MoveEffect DEF Kept, LegacyCurrent, Survivors, Current
  <2>6. Moved'
    <3>1. \A t \in Trees \ {step} : Done(t)' => Done(t)
      BY <1>2, <2>1, MoveEffect DEF Done
    <3>2. fs'.durable[step] # NoTree
      <4>1. Empty \in Content
        BY MaxVersionAssumption, NoTreeAssumption DEF Empty, Content
      <4> QED
        BY MaxVersionAssumption, NoTreeAssumption, <1>2, <2>1, <4>1, MoveEffect
    <3>3. "lost" \notin faults => fs'.durable[step].version = latest[step]
      <4>1. fs \in Survivors /\ latest[step] \in Nat
        BY <2>1, VersionTypes DEF Survivors
      <4>2. CASE fs.legacy[step] # NoTree
        BY <1>2, <2>1, <2>2, <4>1, <4>2, MoveEffect DEF LegacyCurrent
      <4>3. CASE fs.legacy[step] = NoTree /\ fs.durable[step] # NoTree
        <5>1. fs'.durable[step] = fs.durable[step]
          BY <1>2, <4>3, MoveEffect
        <5>2. /\ fs.durable[step].version \in Nat
              /\ fs.durable[step].version <= latest[step]
          BY <2>1, <4>1, <4>3, VersionTypes DEF Bounded
        <5>3. "lost" \notin faults /\ latest[step] > 0 => fs.durable[step].version = latest[step]
          BY <2>1, <4>1, <4>3 DEF Kept, Current
        <5> QED
          BY <4>1, <5>1, <5>2, <5>3
      <4>4. CASE fs.legacy[step] = NoTree /\ fs.durable[step] = NoTree
        <5>1. fs'.durable[step].version = 0
          BY <1>2, <4>4, MoveEffect DEF Empty
        <5>2. "lost" \notin faults => ~(latest[step] > 0)
          BY <2>1, <4>1, <4>4 DEF Kept, Current
        <5> QED
          BY <4>1, <5>1, <5>2
      <4> QED
        BY <4>2, <4>3, <4>4
    <3>4. \A t \in Trees \ {step} : fs'.durable[t] = fs.durable[t]
      BY <1>2, MoveEffect
    <3> QED
      BY <2>1, <2>2, <3>1, <3>2, <3>3, <3>4, <1>2, MoveEffect DEF Moved, Current
  <2> QED
    BY <2>1, <2>2, <2>3, <2>4, <2>5, <2>6
<1>3. CASE SyncMove
  <2>1. UNCHANGED <<fs, latest, faults, agent>> /\ past' = {} /\ step \in Trees /\ moved
        /\ step' = (IF step = "cache" THEN "data" ELSE "marker") /\ moved' = FALSE
    BY <1>3 DEF SyncMove, AfterMove
  <2>2. MigrationTypeOK'
    BY <2>1 DEF MigrationTypeOK, Trees
  <2>3. Bounded' /\ LegacyCurrent' /\ Kept'
    BY <2>1, FilesKept DEF Survivors
  <2>4. MarkedLast' /\ Moved'
    BY <2>1 DEF MarkedLast, Moved, Done, Trees, Current
  <2> QED
    BY <2>2, <2>3, <2>4
<1>4. CASE CreateMarker
  <2>1. /\ step = "marker" /\ step' = "syncMarker" /\ UNCHANGED <<moved, agent, latest, faults>>
        /\ fs' = [fs EXCEPT !.marker = TRUE] /\ past' = past \cup {fs} /\ ~fs.marker
    BY <1>4 DEF CreateMarker, Change, MigrationTypeOK
  <2>2. /\ fs' \in FileSystem /\ fs'.marker
        /\ fs'.legacy = fs.legacy /\ fs'.durable = fs.durable
    BY <2>1 DEF MigrationTypeOK, FileSystem
  <2>3. MigrationTypeOK'
    BY <2>1, <2>2 DEF MigrationTypeOK, Trees
  <2>4. Survivors' = Survivors \cup {fs'} /\ fs \in Survivors
    BY <2>1 DEF Survivors
  <2>5. Bounded'
    <3>1. \A f \in Survivors', t \in Trees :
              f.durable[t] # NoTree => f.durable[t].version <= latest[t]
      BY <2>2, <2>4 DEF Bounded
    <3> QED
      BY <2>1, <3>1 DEF Bounded
  <2>6. LegacyCurrent' /\ Kept'
    <3>1. \A f \in Survivors' : f \in Survivors \/ f = fs'
      BY <2>4
    <3>2. LegacyCurrent'
      BY <2>1, <2>2, <3>1 DEF LegacyCurrent
    <3>3. ASSUME "lost" \notin faults, NEW f \in Survivors', NEW t \in Trees, latest[t] > 0
          PROVE  Current(f.legacy[t], t) \/ Current(f.durable[t], t)
      <4>1. PICK g \in Survivors : g.legacy = f.legacy /\ g.durable = f.durable
        BY <2>2, <2>4, <3>1
      <4> QED
        BY <3>3, <4>1 DEF Kept
    <3>4. Kept'
      BY <2>1, <3>3 DEF Kept, Current
    <3> QED
      BY <3>2, <3>4
  <2>7. MarkedLast' /\ Moved'
    BY <2>1, <2>2 DEF MarkedLast, Moved, Done, Trees, Current
  <2> QED
    BY <2>3, <2>5, <2>6, <2>7
<1>5. CASE SyncMarker
  <2>1. /\ UNCHANGED <<fs, latest, faults, agent, moved>> /\ past' = {}
        /\ step = "syncMarker" /\ step' = "ready" /\ fs.marker
    BY <1>5 DEF SyncMarker, MarkedLast
  <2>2. MigrationTypeOK'
    BY <2>1 DEF MigrationTypeOK, Trees
  <2>3. Bounded' /\ LegacyCurrent' /\ Kept'
    BY <2>1, FilesKept DEF Survivors
  <2>4. MarkedLast' /\ Moved'
    BY <2>1 DEF MarkedLast, Moved, Done, Trees, Current
  <2> QED
    BY <2>2, <2>3, <2>4
<1>6. ASSUME NEW t \in Trees, NEW empty \in BOOLEAN, AgentWrites(t, empty)
      PROVE  MigrationTypeOK' /\ Bounded' /\ LegacyCurrent' /\ Kept' /\ MarkedLast' /\ Moved'
  <2>1. UNCHANGED <<step, moved, agent, faults>> /\ Survivors' = {fs'}
    BY <1>6, WriteEffect DEF AgentWrites, Survivors
  <2>2. MigrationTypeOK'
    BY <1>6, <2>1, WriteEffect DEF MigrationTypeOK
  <2>3. Bounded'
    BY <1>6, <2>1, WriteEffect, VersionTypes DEF Bounded, Survivors, Current
  <2>4. LegacyCurrent'
    BY <1>6, <2>1, WriteEffect DEF LegacyCurrent, Survivors, Current, MarkedLast
  <2>5. Kept'
    BY <1>6, <2>1, WriteEffect DEF Kept, Survivors, Current
  <2>6. MarkedLast'
    BY <1>6, <2>1, WriteEffect DEF MarkedLast
  <2>7. Moved'
    <3>1. \A u \in Trees : Done(u)' <=> Done(u)
      BY <1>6, <2>1, WriteEffect DEF Done
    <3>2. \A u \in Trees : fs.durable[u] # NoTree => fs'.durable[u] # NoTree
      BY <1>6, <2>1, WriteEffect DEF Current
    <3>3. ASSUME faults = {}, NEW u \in Trees, Done(u) PROVE Current(fs.durable[u], u)'
      <4>1. agent = "durable"
        BY <1>6, <3>3, WriteEffect DEF Moved, Done, Trees
      <4> QED
        BY <1>6, <3>3, <4>1, WriteEffect DEF Moved, Current
    <3> QED
      BY <1>6, <2>1, <3>1, <3>2, <3>3, WriteEffect DEF Moved
  <2> QED
    BY <2>2, <2>3, <2>4, <2>5, <2>6, <2>7
<1>7. CASE LoseDurable
  <2>1. PICK t \in Trees :
            /\ fs' = [fs EXCEPT !.durable[t] = NoTree] /\ past' = {}
            /\ "lost" \in faults' /\ faults' = faults \cup {"lost"}
            /\ UNCHANGED <<step, moved, agent, latest>>
    BY <1>7 DEF LoseDurable, Commit
  <2>2. /\ fs' \in FileSystem /\ fs'.legacy = fs.legacy /\ fs'.marker = fs.marker
        /\ \A u \in Trees : fs'.durable[u] \in {fs.durable[u], NoTree}
    BY <2>1 DEF MigrationTypeOK, FileSystem
  <2>3. MigrationTypeOK'
    BY <2>1, <2>2 DEF MigrationTypeOK
  <2>4. Bounded' /\ LegacyCurrent' /\ Kept'
    BY <2>1, <2>2 DEF Bounded, LegacyCurrent, Kept, Survivors
  <2>5. MarkedLast' /\ Moved'
    BY <2>1, <2>2 DEF MarkedLast, Moved
  <2> QED
    BY <2>3, <2>4, <2>5
<1>8. CASE PowerFailure
  <2>1. /\ fs' \in Survivors /\ Survivors' = {fs'} /\ past' = {} /\ step' = "idle"
        /\ moved' = FALSE /\ agent' = "off" /\ UNCHANGED <<latest, faults>>
    BY <1>8 DEF PowerFailure, Survivors
  <2>2. MigrationTypeOK'
    BY <2>1 DEF MigrationTypeOK, Survivors, Trees
  <2>3. Bounded' /\ LegacyCurrent' /\ Kept'
    BY <2>1, FilesKept
  <2>4. MarkedLast' /\ (fs'.marker => fs' = fs)
    BY <2>1 DEF MarkedLast, Survivors
  <2>5. Moved'
    BY <2>1, <2>4 DEF Moved, Done, Trees, Current
  <2> QED
    BY <2>2, <2>3, <2>4, <2>5
<1> QED
  BY <1>1, <1>2, <1>3, <1>4, <1>5, <1>6, <1>7, <1>8 DEF MigrationNext, Prepare, Trees

-----------------------------------------------------------------------------
(* What follows.                                                           *)

\* Every behaviour of the migration stays within the invariant.
LEMMA Migrating == MigrationSpec => []MigrationInv
<1>1. MigrationInit => MigrationInv
  <2> SUFFICES ASSUME MigrationInit PROVE MigrationInv
    OBVIOUS
  <2>1. /\ 0 \in 0..MaxVersion /\ latest \in [Trees -> 0..MaxVersion]
        /\ \A t \in Trees : latest[t] \in {0, 1}
    BY MaxVersionAssumption, NoTreeAssumption DEF MigrationInit
  <2>2. \A t \in Trees : latest[t] # 0 => latest[t] = 1 /\ Written(1) \in Content
    BY <2>1 DEF Written, Content
  <2>3. /\ fs \in FileSystem /\ ~fs.marker
        /\ \A t \in Trees : fs.durable[t] = NoTree
        /\ \A t \in Trees : fs.legacy[t] = IF latest[t] = 0 THEN NoTree ELSE Written(1)
    BY <2>2 DEF MigrationInit, FileSystem
  <2>4. Survivors = {fs}
    BY DEF MigrationInit, Survivors
  <2>5. MigrationTypeOK
    BY <2>1, <2>3 DEF MigrationInit, MigrationTypeOK
  <2>6. Bounded /\ LegacyCurrent
    BY <2>2, <2>3, <2>4 DEF Bounded, LegacyCurrent, Written
  <2>7. \A t \in Trees : latest[t] > 0 => Current(fs.legacy[t], t)
    BY MaxVersionAssumption, NoTreeAssumption, <2>1, <2>2, <2>3 DEF Current, Written
  <2>8. Kept
    BY <2>4, <2>7 DEF Kept
  <2>9. MarkedLast /\ Moved
    BY <2>3 DEF MigrationInit, MarkedLast, Moved, Done, Trees
  <2> QED
    BY <2>5, <2>6, <2>8, <2>9 DEF MigrationInv
<1> QED
  BY <1>1, MigrationStep, PTL DEF MigrationSpec

\* The migration is well typed, and moves nothing once the marker is there.
THEOREM MigrationTyping == MigrationSpec => []MigrationTypeOK
BY Migrating, PTL DEF MigrationInv

\* The one-time move loses nothing, is marked only when it is whole, and what it
\* marked is the latest state, wherever it is cut and whoever writes meanwhile.
THEOREM MoveIsSafe == MigrationSpec => []MigrationIsSafe
<1>1. MigrationInv => MigrationIsSafe
  <2> SUFFICES ASSUME MigrationInv PROVE MigrationIsSafe
    OBVIOUS
  <2>1. LatestKept
    BY DEF MigrationInv, Kept, Survivors, Current, LatestKept
  <2>2. MarkerMeansMoved
    BY DEF MigrationInv, MarkedLast, Moved, Done, MarkerMeansMoved
  <2>3. MigratedIsLatest
    BY DEF MigrationInv, Moved, Done, Current, MigratedIsLatest
  <2> QED
    BY <2>1, <2>2, <2>3 DEF MigrationIsSafe
<1> QED
  BY <1>1, Migrating, PTL

\* Once the marker is there, no step takes durable state back to an earlier
\* version: not a purge, not an old agent, and not a power loss.
THEOREM NoResurrection == MigrationSpec => NeverResurrected
<1> DEFINE Ahead ==
        fs.marker /\ fs'.marker => \A t \in Trees :
            fs.durable[t] # NoTree =>
                \/ fs'.durable[t] = NoTree
                \/ fs'.durable[t].version >= fs.durable[t].version
<1>1. MigrationInv /\ [MigrationNext]_migrationVars => [Ahead]_migrationVars
  <2> SUFFICES ASSUME MigrationTypeOK, Bounded, MarkedLast, MigrationNext, fs.marker, fs'.marker,
                      NEW t \in Trees, fs.durable[t] # NoTree, fs'.durable[t] # NoTree
               PROVE  fs'.durable[t].version >= fs.durable[t].version
    BY DEF MigrationInv
  <2>1. fs.durable[t].version \in Nat /\ fs.durable[t].version <= latest[t] /\ latest[t] \in Nat
    BY VersionTypes DEF Bounded, Survivors
  <2>2. step \notin Trees \cup {"marker"}
    BY DEF MigrationTypeOK
  <2>3. ASSUME NEW u \in Trees, NEW empty \in BOOLEAN, AgentWrites(u, empty)
        PROVE  fs'.durable[t].version >= fs.durable[t].version
    BY <2>1, <2>3, WriteEffect DEF Current
  <2>4. CASE LoseDurable
    BY <2>1, <2>4 DEF LoseDurable, Commit, MigrationTypeOK, FileSystem
  <2>5. CASE PowerFailure
    BY <2>1, <2>5 DEF PowerFailure, MarkedLast
  <2>6. CASE PrepareMigrated \/ BeginMigration \/ StopAgent \/ SyncMove
             \/ SyncMarker \/ Launch \/ Interrupt \/ LegacyStart
             \/ AgentExits
    BY <2>1, <2>6 DEF PrepareMigrated, BeginMigration, StopAgent, SyncMove,
       SyncMarker, Launch, Interrupt, LegacyStart, AgentExits
  <2> QED
    BY <2>2, <2>3, <2>4, <2>5, <2>6 DEF MigrationNext, Prepare, Move, CreateMarker,
       Trees
<1> QED
  BY <1>1, Migrating, PTL DEF MigrationSpec, NeverResurrected
=============================================================================

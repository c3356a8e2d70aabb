----------------------- MODULE EnrollmentTransaction -----------------------
(***************************************************************************)
(* The operator's side of an enrollment (crates/provenance-oauth, main.rs, *)
(* `authorize' and `finalize').  A pending directory holds the plaintext   *)
(* grant (enrollment.json, "pending") until the operator acknowledges its  *)
(* deployment, and then a receipt (receipt.json); the encrypted source     *)
(* ("secret") is another file, published for the fleet to deploy.          *)
(*                                                                         *)
(* Both commands hold the lock of the pending directory from their first   *)
(* read to their last write (the lock itself is part of OAuthStore), so at *)
(* most one of them runs; its progress is pc.  A command that is refused   *)
(* or fails before its first write is not a step.  `agenix rekey' runs     *)
(* last, re-encrypts what is published and changes nothing modelled here.  *)
(*                                                                         *)
(* The target host is the environment: it applies what the fleet deploys,  *)
(* never going back to an older generation (OAuthStore!LiveNeverRollsBack).*)
(***************************************************************************)
EXTENDS Naturals

CONSTANTS
    MaxGen,    \* generations and clock readings are 1..MaxGen
    MaxGrants, \* bound on the authorizations the operator performs
    NoFile

ASSUME MaxGenAssumption == MaxGen \in Nat \ {0}
ASSUME MaxGrantsAssumption == MaxGrants \in Nat

VARIABLES
    vis,       \* the files as processes see them
    dur,       \* the files a power loss is certain to leave behind
    pc,        \* what the running command does next
    io,        \* half of the file publication it has reached
    enr,       \* the enrollment it holds in memory
    clock,     \* a reading of the operator's clock
    issued,    \* number of grants the provider has issued
    published, \* enrollments the secret has ever held
    applied,   \* enrollments the target has ever applied
    finalized, \* generations a command has reported finalized
    faults     \* what has happened to the operator's machine

history == <<issued, published, applied, finalized, faults>>
vars == <<vis, dur, pc, io, enr, clock, history>>

Gens == 1..MaxGen
Enrollment == [gen : Gens, grant : 1..MaxGrants]

ASSUME NoFileAssumption == NoFile \notin Enrollment

\* receipt.json is the generation it records; 0 when it does not exist.
Directory == [pending : Enrollment \cup {NoFile}, receipt : Gens \cup {0},
              secret : Enrollment \cup {NoFile}]

Init ==
    /\ vis = [pending |-> NoFile, receipt |-> 0, secret |-> NoFile]
    /\ dur = vis
    /\ pc = "idle"
    /\ io = "write"
    /\ enr = NoFile
    /\ clock = 1
    /\ issued = 0
    /\ published = {}
    /\ applied = {}
    /\ finalized = {}
    /\ faults = {}

Enter(phase, e) == pc' = phase /\ io' = "write" /\ enr' = e

Leave == Enter("idle", NoFile)

-----------------------------------------------------------------------------
(* authorize                                                               *)

\* Mutation: a grant whose receipt was published is taken for a pending one.
ConsumedStrictly(d) ==
    d.receipt # 0 /\ (d.pending # NoFile => d.pending.gen < d.receipt)

\* The transaction is over, even if the grant was not unlinked in time.
Consumed(d) == d.receipt # 0 /\ (d.pending # NoFile => d.pending.gen <= d.receipt)

\* Without --reauth a finished transaction only discards the consumed grant.
AuthorizeFinished ==
    /\ pc = "idle"
    /\ Consumed(vis)
    /\ IF vis.pending = NoFile
       THEN UNCHANGED <<pc, io, enr>> /\ finalized' = finalized \cup {vis.receipt}
       ELSE Enter("unlink", vis.pending) /\ UNCHANGED finalized
    /\ UNCHANGED <<vis, dur, clock, issued, published, applied, faults>>

\* Without --reauth a pending grant is encrypted again.
AuthorizeResume ==
    /\ pc = "idle"
    /\ ~Consumed(vis)
    /\ vis.pending # NoFile
    /\ Enter("encrypt", vis.pending)
    /\ UNCHANGED <<vis, dur, clock, history>>

\* Mutation: the generation is the clock reading alone.
NextGenerationByClock(d) == clock

\* Mutation: only a finished transaction counts as an earlier generation.
NextGenerationPastReceipt(d) == IF clock > d.receipt THEN clock ELSE d.receipt + 1

NextGeneration(d) ==
    LET pending == IF d.pending = NoFile THEN 0 ELSE d.pending.gen
        last == IF d.receipt > pending THEN d.receipt ELSE pending
    IN  IF clock > last THEN clock ELSE last + 1

\* A new device authorization, which takes the operator a while: the clock
\* advances before the next one can begin.
AuthorizeFresh(reauth) ==
    /\ pc = "idle"
    /\ reauth \/ (vis.pending = NoFile /\ vis.receipt = 0)
    /\ issued < MaxGrants
    /\ clock < MaxGen
    /\ NextGeneration(vis) <= MaxGen
    /\ issued' = issued + 1
    /\ clock' = clock + 1
    /\ Enter("savePending", [gen |-> NextGeneration(vis), grant |-> issued'])
    /\ UNCHANGED <<vis, dur, published, applied, finalized, faults>>

SavePending ==
    /\ pc = "savePending"
    /\ io = "write"
    /\ vis' = [vis EXCEPT !.pending = enr]
    /\ io' = "sync"
    /\ UNCHANGED <<dur, pc, enr, clock, history>>

\* agenix encrypts into a fresh temporary directory, or fails.
Encrypt ==
    /\ pc = "encrypt"
    /\ Enter("saveSecret", enr) \/ Leave
    /\ UNCHANGED <<vis, dur, clock, history>>

SaveSecret ==
    /\ pc = "saveSecret"
    /\ io = "write"
    /\ vis' = [vis EXCEPT !.secret = enr]
    /\ published' = published \cup {enr}
    /\ io' = "sync"
    /\ UNCHANGED <<dur, pc, enr, clock, issued, applied, finalized, faults>>

-----------------------------------------------------------------------------
(* finalize                                                                *)

\* Mutation: any grant is discarded once some generation was acknowledged.
FinalizesAny(d, g) == d.pending # NoFile /\ d.receipt <= g

Finalizes(d, g) == d.pending # NoFile /\ d.pending.gen = g /\ d.receipt <= g

\* The operator acknowledges a generation read, some time ago, on the target.
Finalize(g) ==
    /\ pc = "idle"
    /\ Finalizes(vis, g)
    /\ Enter("saveReceipt", [vis.pending EXCEPT !.gen = g])
    /\ UNCHANGED <<vis, dur, clock, history>>

\* Repeating a finalization changes nothing.
FinalizeAgain(g) ==
    /\ pc = "idle"
    /\ vis.pending = NoFile
    /\ vis.receipt = g
    /\ finalized' = finalized \cup {g}
    /\ UNCHANGED <<vis, dur, pc, io, enr, clock, issued, published, applied, faults>>

SaveReceipt ==
    /\ pc = "saveReceipt"
    /\ io = "write"
    /\ vis' = [vis EXCEPT !.receipt = enr.gen]
    /\ io' = "sync"
    /\ UNCHANGED <<dur, pc, enr, clock, history>>

Unlink ==
    /\ pc = "unlink"
    /\ io = "write"
    /\ vis' = [vis EXCEPT !.pending = NoFile]
    /\ io' = "sync"
    /\ UNCHANGED <<dur, pc, enr, clock, history>>

-----------------------------------------------------------------------------
OnSynced(phase) ==
    CASE phase = "savePending" -> "encrypt"
      [] phase = "saveReceipt" -> "unlink"
      [] OTHER                 -> "idle"

\* The fsync of the directory written last: the fleet's, or the pending one.
Sync ==
    /\ io = "sync"
    /\ dur' = IF pc = "saveSecret" THEN [dur EXCEPT !.secret = vis.secret]
                                   ELSE [vis EXCEPT !.secret = dur.secret]
    /\ IF OnSynced(pc) = "idle" THEN Leave ELSE Enter(OnSynced(pc), enr)
    /\ finalized' = IF pc = "unlink" THEN finalized \cup {vis.receipt} ELSE finalized
    /\ UNCHANGED <<vis, clock, issued, published, applied, faults>>

\* The command fails at a file operation, or is killed.
Interrupt ==
    /\ pc # "idle"
    /\ Leave
    /\ UNCHANGED <<vis, dur, clock, history>>

\* Every directory entry written since the last fsync may or may not survive.
PowerLoss ==
    /\ \E p \in {vis.pending, dur.pending}, r \in {vis.receipt, dur.receipt},
          s \in {vis.secret, dur.secret} :
            vis' = [pending |-> p, receipt |-> r, secret |-> s]
    /\ dur' = vis'
    /\ Leave
    /\ faults' = IF vis' = vis THEN faults ELSE faults \cup {"power"}
    /\ UNCHANGED <<clock, issued, published, applied, finalized>>

SetClockBack ==
    /\ clock' \in 1..(clock - 1)
    /\ faults' = faults \cup {"clock"}
    /\ UNCHANGED <<vis, dur, pc, io, enr, issued, published, applied, finalized>>

\* The fleet deploys some encrypted source, and the target enrolls it.
Deploy ==
    /\ \E e \in published :
        /\ \A a \in applied : e.gen > a.gen
        /\ applied' = applied \cup {e}
    /\ UNCHANGED <<vis, dur, pc, io, enr, clock, issued, published, finalized, faults>>

-----------------------------------------------------------------------------
Authorize == AuthorizeFinished \/ AuthorizeResume
             \/ (\E reauth \in BOOLEAN : AuthorizeFresh(reauth))

Acknowledge == \E a \in applied : Finalize(a.gen) \/ FinalizeAgain(a.gen)

Next == \/ Authorize \/ Acknowledge
        \/ SavePending \/ Encrypt \/ SaveSecret \/ SaveReceipt \/ Unlink \/ Sync
        \/ Interrupt \/ PowerLoss \/ SetClockBack \/ Deploy

Spec == Init /\ [][Next]_vars

-----------------------------------------------------------------------------
\* The type invariant.
TypeOK ==
    /\ vis \in Directory
    /\ dur \in Directory
    /\ pc \in {"idle", "savePending", "encrypt", "saveSecret", "saveReceipt", "unlink"}
    /\ io \in {"write", "sync"}
    /\ enr \in Enrollment \cup {NoFile}
    /\ clock \in Gens
    /\ issued \in 0..MaxGrants
    /\ published \subseteq Enrollment
    /\ applied \subseteq published
    /\ finalized \subseteq Gens
    /\ faults \subseteq {"power", "clock"}

\* The files and the clock each keep generations apart, should the other fail.
OneFault == faults # {"power", "clock"}

\* A generation names one grant: no two enrollments the fleet could ever have
\* deployed share a generation, so the target never meets a generation reused
\* with different contents (Enrollment: "Monotonic enrollment epoch").
GenerationNamesGrant ==
    OneFault => \A a, b \in published : a.gen = b.gen => a = b

\* A grant whose receipt was published is never encrypted again, though the
\* command that unlinks it may be interrupted, and neither is one that was
\* reported finalized (comment in run: "A retry never re-encrypts that consumed
\* grant").
ConsumedNotEncrypted ==
    pc \in {"encrypt", "saveSecret"} /\ "power" \notin faults =>
        /\ enr.gen > vis.receipt
        /\ \A g \in finalized : enr.gen > g

\* A plaintext grant is unlinked only once the target has applied that very
\* grant or a newer one: a stale acknowledgement never destroys a grant the
\* target still needs.
DiscardedOnlyApplied ==
    [][vis.pending # NoFile /\ vis'.pending = NoFile /\ pc = "unlink" /\ OneFault
        => \E a \in applied : a = vis.pending \/ a.gen > vis.pending.gen]_vars

\* The encrypted source never returns to an older generation, which the target
\* would silently ignore.
SecretNeverOlder ==
    [][vis.secret # NoFile /\ "power" \notin faults' =>
        vis'.secret # NoFile /\ vis'.secret.gen >= vis.secret.gen]_vars

\* Until a transaction is finalized its grant stays at hand for a retry (docs:
\* "The same grant and generation are reused").
RetryReusesGrant ==
    pc = "idle" /\ vis.secret # NoFile /\ vis.secret.gen > vis.receipt =>
        vis.pending # NoFile /\ vis.pending.gen >= vis.secret.gen
=============================================================================

-------------------------- MODULE OAuthStoreLedger --------------------------
(* The store implements the ledger: its refinement mapping.                *)
EXTENDS OAuthStore

\* Who hands out an access token does so from the state it holds in memory.
HandedOut == {st[p].enr : p \in {q \in Procs : pc[q] = "release"}}

Ledger == INSTANCE TokenLedger
          WITH spent <- sent, kept <- retained, record <- dur.live,
               out <- HandedOut, removed <- revoked

\* While the operator does not roll the store back, every step of every
\* process, every crash and every loss is one step of the ledger, or none.
ImplementsLedger == Ledger!Spec
=============================================================================

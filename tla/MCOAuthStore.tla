---------------------------- MODULE MCOAuthStore ----------------------------
(* Model-checking instance of OAuthStore.                                  *)
EXTENDS OAuthStoreLedger, TLC

CONSTANTS p1, p2, d1, d2

\* Processes and enrollment contents are only ever compared for equality.
Symmetry == Permutations(Procs) \cup Permutations(Digests)
=============================================================================

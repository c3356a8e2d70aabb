----------------------------- MODULE TokenLedger -----------------------------
(***************************************************************************)
(* What the token store promises to the consumers and the provider, with   *)
(* none of its files, locks and processes: exchanges are made in the order *)
(* of the revisions they replace, a token is spent again only when every   *)
(* answer so far left it in force, the record only moves forward, and an   *)
(* access token is handed out by one command at a time, from the grant on  *)
(* record, never after its removal.  OAuthStore implements it.             *)
(***************************************************************************)
EXTENDS Naturals

CONSTANTS Attempts,    \* exchanges: an enrollment, a revision, a token to spend
          Enrollment,  \* what an exchange is for; has a generation, gen
          NoState      \* the record is lost, or was never made

VARIABLES spent,   \* exchanges made with the provider
          kept,    \* those whose answer left the token they spent in force
          record,  \* the grant as a power loss would leave it
          out,     \* the enrollment whose access token is being handed out
          removed  \* the newest generation reported removed

lvars == <<spent, kept, record, out, removed>>

Init == spent = {} /\ kept = {} /\ record = NoState /\ out = {} /\ removed = 0

Forward(r, s) ==
    \/ s.enr.gen > r.enr.gen
    \/ s.enr = r.enr /\ s.rev >= r.rev /\ (s.granted => r.granted)

Moves == record # NoState /\ record' # NoState => Forward(record, record')

\* The record moves, or is lost, or found; the command that hands out may end.
Write ==
    /\ Moves
    /\ out' \in {out, {}}
    /\ UNCHANGED <<spent, kept, removed>>

Spend(t) ==
    /\ out = {}
    /\ \A a \in spent : a.enr = t.enr =>
           a.rev < t.rev /\ (a.token = t.token => a \in kept)
    /\ spent' = spent \cup {t}
    /\ UNCHANGED <<kept, record, out, removed>>

\* The provider answered t without a new token.
Keep(t) ==
    /\ t \in spent
    /\ kept' = kept \cup {t}
    /\ UNCHANGED <<spent, record, out, removed>>

Hand(e) ==
    /\ out = {}
    /\ e.gen > removed
    /\ Moves
    /\ record' # NoState => record'.enr = e /\ record'.granted /\ ~record'.pending
    /\ out' = {e}
    /\ UNCHANGED <<spent, kept, removed>>

Remove(e) ==
    /\ out = {}
    /\ e.gen > removed
    /\ Moves
    /\ record' # NoState => record'.enr = e /\ ~record'.granted
    /\ removed' = e.gen
    /\ UNCHANGED <<spent, kept, out>>

Next == \/ Write
        \/ \E t \in Attempts : Spend(t) \/ Keep(t)
        \/ \E e \in Enrollment : Hand(e) \/ Remove(e)

Spec == Init /\ [][Next]_lvars
=============================================================================

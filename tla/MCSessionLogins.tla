-------------------------- MODULE MCSessionLogins --------------------------
(* Small instances of SessionLogins.                                       *)
EXTENDS SessionLogins

Doc(valid, password, seed) == [valid |-> valid, password |-> password, seed |-> seed]

\* A document that is right with and without 2FA, and one for each way to be
\* wrong.
MCDocuments ==
    {Doc(TRUE, TRUE, "right"), Doc(TRUE, TRUE, "none"), Doc(TRUE, TRUE, "wrong"),
     Doc(TRUE, FALSE, "right"), Doc(FALSE, TRUE, "right")}
=============================================================================

------------------------- MODULE MCTuwunelProvision -------------------------
(* Model-checking instance of TuwunelProvision: the declarations considered. *)
EXTENDS TuwunelProvision

Declared(n, apis, windows, sessions, refreshes, roomKinds, pins) ==
    [users : {n}, api : apis, window : windows, session : sessions, refresh : refreshes,
     room : roomKinds, pin : pins]

\* Without a room: every way to an account.  With one: the room's own choices.
MCSettings ==
    Declared(2, BOOLEAN, {TRUE}, BOOLEAN, {TRUE}, {"none"}, {FALSE}) \cup
    Declared(2, {FALSE}, {FALSE}, {FALSE}, {FALSE}, {"none"}, {FALSE}) \cup
    Declared(1, {TRUE}, {TRUE}, {FALSE}, {FALSE}, {"shared"}, {FALSE}) \cup
    Declared(1, {TRUE}, {TRUE}, {FALSE}, {FALSE}, {"private"}, BOOLEAN)
=============================================================================

--------------------------- MODULE MCKeyProvision ---------------------------
(* Model-checking instance of KeyProvision: the declarations considered.    *)
EXTENDS KeyProvision

No == [state |-> "no", key |-> "k1"]
Has(k) == [state |-> "present", key |-> k]
Not(k) == [state |-> "absent", key |-> k]

\* Titles "a" and "b".
Want(a1, b1, a2, b2) ==
    [s \in Shelves |-> [t \in Titles |-> IF s = 1 THEN (IF t = "a" THEN a1 ELSE b1)
                                         ELSE (IF t = "a" THEN a2 ELSE b2)]]

Of(services, wants, allows) ==
    [service : services, want : wants, allow : allows, collab : {FALSE}, named : {FALSE},
     accept : {{}}]

MCSettings ==
    Of({"forgejo", "github"}, {Want(Has("k1"), Not("k2"), Has("k2"), No)}, BOOLEAN)
    \cup Of({"github"}, {Want(No, No, Has("k1"), Not("k2"))}, {TRUE})
    \cup [service : {"github"}, want : {Want(No, No, No, No)}, allow : {FALSE},
          collab : {TRUE}, named : BOOLEAN, accept : {{"trusted"}}]
=============================================================================

------------------------- MODULE MCVikunjaProvision -------------------------
(* Model-checking instance of VikunjaProvision: the declarations considered. *)
EXTENDS VikunjaProvision

Present(members) == [state |-> "present", members |-> members, desc |-> "x"]
Nothing == [state |-> "no", members |-> {}, desc |-> "x"]
Absent == [state |-> "absent", members |-> {}, desc |-> "x"]

Of(things, teamSpecs, hookKinds, keeps, deletes) ==
    [things : things, teams : teamSpecs, hook : hookKinds, keep : keeps, delete : deletes]

\* The first team is to be, the others are not; or a project, a label and a webhook.
MCSettings ==
    Of({FALSE}, {<<Present({"ann"}), Absent, Absent>>}, {"no"}, {FALSE}, BOOLEAN)
    \cup Of({FALSE}, {<<Present({"ann"}), Absent, Absent>>}, {"no"}, {TRUE}, {TRUE})
    \cup Of({TRUE}, {<<Nothing, Nothing, Nothing>>}, {"present", "absent"}, {FALSE}, {FALSE})
=============================================================================

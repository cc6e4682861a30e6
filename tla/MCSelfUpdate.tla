----------------------------- MODULE MCSelfUpdate -----------------------------
(* Three releases, of which the last may need the owner's decision: from the *)
(* second when the first was pre-1.0, from both when it was not.             *)
EXTENDS SelfUpdate

OwnOrSystem == {"own", "system"}
Majors == {<<0, 1, 2>>, <<1, 1, 2>>}
=============================================================================

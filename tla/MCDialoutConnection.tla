------------------------ MODULE MCDialoutConnection ------------------------
(***************************************************************************)
(* Four programs, each with a request and two drops.                      *)
(***************************************************************************)
EXTENDS DialoutConnection

CONSTANTS r1

OneRequest == {r1}
AllRoles == {"daemon", "plugin", "oneshot", "pair"}
AnyFault == {"refusal", "files", "ws"}
NoFault == {}
DaemonOnly == {"daemon"}
=============================================================================

------------------------------ MODULE Receipt ------------------------------
(***************************************************************************)
(* What the client of a mailbox promises: effectively once.  An envelope is*)
(* applied at most once and while the host still holds it, and the host    *)
(* lets go of an envelope only when it was applied, was refused, or was    *)
(* forgotten: a crash caught it when it counted as seen already, and it    *)
(* will never be applied.  Connections and handlers do not appear here.    *)
(***************************************************************************)
EXTENDS Naturals

CONSTANTS Messages, Refused

VARIABLES
    held,       \* what the host still holds
    applied,    \* applied[m]: how often m was applied
    forgotten

vars == <<held, applied, forgotten>>

Open(m) == m \in held /\ applied[m] = 0 /\ m \notin forgotten

Init ==
    /\ held = Messages
    /\ applied = [m \in Messages |-> 0]
    /\ forgotten = {}

Apply(m) ==
    /\ Open(m)
    /\ m \notin Refused
    /\ applied' = [applied EXCEPT ![m] = @ + 1]
    /\ UNCHANGED <<held, forgotten>>

Forget(m) ==
    /\ Open(m)
    /\ forgotten' = forgotten \cup {m}
    /\ UNCHANGED <<held, applied>>

Release(m) ==
    /\ m \in held
    /\ m \in Refused \/ applied[m] > 0 \/ m \in forgotten
    /\ held' = held \ {m}
    /\ UNCHANGED <<applied, forgotten>>

Next == \E m \in Messages : Apply(m) \/ Forget(m) \/ Release(m)

Spec == Init /\ [][Next]_vars
=============================================================================

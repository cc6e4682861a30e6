----------------------------- MODULE Admission -----------------------------
(***************************************************************************)
(* What Edge Book promises an owner about who gets in.  A pair <<a, b>> is *)
(* accepted from the moment owner a accepts peer b until a revokes or      *)
(* blocks b; only an accepted peer is ever admitted.  The state of the     *)
(* relationship may suspend and resume the admission of an accepted peer   *)
(* in between, as requests and responses cross.                            *)
(***************************************************************************)
CONSTANT Agents

VARIABLES admitted, accepted

vars == <<admitted, accepted>>

Init == admitted = {} /\ accepted = {}

Accept(p) ==
    /\ accepted' = accepted \cup {p}
    /\ admitted' = admitted \cup {p}

Close(p) ==
    /\ accepted' = accepted \ {p}
    /\ admitted' = admitted \ {p}

Suspend(p) ==
    /\ admitted' = admitted \ {p}
    /\ UNCHANGED accepted

Resume(p) ==
    /\ p \in accepted
    /\ admitted' = admitted \cup {p}
    /\ UNCHANGED accepted

Next == \E a, b \in Agents :
            /\ a # b
            /\ \/ Accept(<<a, b>>)
               \/ Close(<<a, b>>)
               \/ Suspend(<<a, b>>)
               \/ Resume(<<a, b>>)

Spec == Init /\ [][Next]_vars
=============================================================================

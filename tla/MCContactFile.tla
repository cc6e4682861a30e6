--------------------------- MODULE MCContactFile ---------------------------
(***************************************************************************)
(* Two peers, and a home whose handlers run one at a time and may be cut   *)
(* by a crash, or two at a time.                                           *)
(***************************************************************************)
EXTENDS ContactFile, TLC

CONSTANTS alice, bob, s1, s2

TwoPeers == {alice, bob}
TwoSlots == {s1, s2}
SerialOrOverlapping ==
    {[slots |-> {s}, crashes |-> 1] : s \in TwoSlots}
        \cup {[slots |-> TwoSlots, crashes |-> 0]}
Alike == Permutations(TwoPeers) \cup Permutations(TwoSlots)
=============================================================================

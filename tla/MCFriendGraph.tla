--------------------------- MODULE MCFriendGraph ---------------------------
(***************************************************************************)
(* A small instance of FriendGraph: Alice takes requests from anybody, Bob *)
(* is invite-only.                                                         *)
(***************************************************************************)
EXTENDS FriendGraph

CONSTANTS alice, bob

TwoAgents == {alice, bob}
OnlyBob == {bob}
=============================================================================

------------------------------- MODULE MCFeed -------------------------------
(***************************************************************************)
(* A small instance of Feed.                                               *)
(***************************************************************************)
EXTENDS Feed

CONSTANT p1

OnePost == {p1}
=============================================================================

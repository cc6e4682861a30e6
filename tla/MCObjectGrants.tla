-------------------------- MODULE MCObjectGrants --------------------------
(***************************************************************************)
(* A small instance of ObjectGrants: Alice writes the note, Bob and Carol  *)
(* read it.                                                                *)
(***************************************************************************)
EXTENDS ObjectGrants

CONSTANTS alice, bob, carol, note

ThreeAgents == {alice, bob, carol}
OneObject == {note}
ByAlice == [o \in OneObject |-> alice]
=============================================================================

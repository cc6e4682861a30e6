-------------------------- MODULE MCMailboxIntake --------------------------
(***************************************************************************)
(* A small instance of MailboxIntake: three envelopes, one of them poison. *)
(***************************************************************************)
EXTENDS MailboxIntake

CONSTANTS m1, m2, poison, s1

ThreeMessages == {m1, m2, poison}
Poison == {poison}
OneSlot == {s1}
=============================================================================

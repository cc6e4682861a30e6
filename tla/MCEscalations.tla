--------------------------- MODULE MCEscalations ---------------------------
(***************************************************************************)
(* Two friends that ask each other, and themselves.                        *)
(***************************************************************************)
EXTENDS Escalations

CONSTANTS alice, bob, yes, no

TwoAgents == {alice, bob}
YesOrNo == {yes, no}
=============================================================================

------------------------------ MODULE MCOutreach ------------------------------
(* Two newcomers: one whose pack has another member before the greeter, with *)
(* the candidate and an invite link of each, who may run two joins at a      *)
(* time, and one who joins the greeter's pack.                               *)
EXTENDS Outreach, TLC

CONSTANTS n1, n2, g, q, j1, j2

PacksOf == n1 :> <<q, g>> @@ n2 :> <<g>>
LinksOf == n1 :> {q, g} @@ n2 :> {}
=============================================================================

----------------------------- MODULE MCInbound -----------------------------
(* A home with a bundle in its support inbox: either two strangers'        *)
(* requests with one single-use code come next, and a bundle, or three     *)
(* bundles come, more than there is room for.                              *)
EXTENDS Inbound, TLC

CONSTANTS r1, r2, b1, b2, b3, b4, ann, bob

MCFrom == [e \in Envelopes |-> IF e \in {r1, b1, b2} THEN ann ELSE bob]
MCEarlier == <<b1>>
MCPasts == {{b1, b3, b4}, {b1, r1, r2}}
=============================================================================

-------------------------- MODULE MCPostTaxonomy ---------------------------
(* An author makes a post of every class of lifecycle and answers its own; *)
(* a friend answers what it received.  The kinds left out share the class  *)
(* of one that is there: delegation_request of query, coordinate of share. *)
EXTENDS PostTaxonomy, TLC

CONSTANTS author, reader

MCMakes ==
    (author :> {"query", "share", "signal", "answer", "endorse",
                "result_attestation", "capability_advertisement"})
    @@ (reader :> {"answer"})
=============================================================================

--------------------------- MODULE MCAuthorClient ---------------------------
(* Small instances of AuthorClient.  Runs of handlePayFee are              *)
(* interchangeable, and only invariants and action properties are checked. *)
EXTENDS AuthorClient, TLC

RunSymmetry == Permutations(Invocation)
=============================================================================

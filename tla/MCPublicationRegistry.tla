------------------------ MODULE MCPublicationRegistry ------------------------
(***************************************************************************)
(* Small instances of PublicationRegistry and of its refinement mappings.  *)
(* Panels are fixed lists, which are not closed under permutation, so no   *)
(* symmetry is declared.                                                   *)
(***************************************************************************)
EXTENDS ReviewProcessRefinement, LifecycleRefinement

CONSTANTS a1, r1, r2, r3, r4

OnePanel == {<<r1, r2, r3>>}
(* A panel of two is refused by the oracle contract. *)
TwoPanels == {<<r1, r2, r3>>, <<r4, r3, r2>>, <<r1, r2>>}
=============================================================================

----------------------- MODULE MCReviewerReassignment -----------------------
(***************************************************************************)
(* One manuscript whose panel of three the script may shrink to a single   *)
(* newcomer or let exchange one member, back and forth.                     *)
(***************************************************************************)
EXTENDS ReviewerReassignment

CONSTANTS a1, r1, r2, r3, r4

OnePanel == {<<r1, r2, r3>>}
OtherPanels == {<<r4>>, <<r1, r2, r4>>}
=============================================================================

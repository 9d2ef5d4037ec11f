---------------------------- MODULE MCReviewDesk ----------------------------
EXTENDS ReviewDesk, TLC

CONSTANTS a1, x1, y1, z1, x2, y2, z2

MainWallets == <<"main", "other">>
(* The reviewer followed sits on both panels, under a fresh key each time. *)
Panels == {<<x1, y1, z1>>, <<x2, y2, z2>>}

WithdrawalSymmetry == Permutations(Withdrawal)
=============================================================================

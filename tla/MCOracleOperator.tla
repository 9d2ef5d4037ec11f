-------------------------- MODULE MCOracleOperator --------------------------
(***************************************************************************)
(* One author.  Field f1 has three verified reviewers, f2 only two: too    *)
(* few for a panel.                                                        *)
(***************************************************************************)
EXTENDS OracleOperator

CONSTANTS a1, k1, k2, k3, k4, k5, k6, w1, w2, w3, f1, f2

SixKeys == <<k1, k2, k3, k4, k5, k6>>
ThreeAndTwo == [f \in Field |-> IF f = f1 THEN {w1, w2, w3} ELSE {w1, w2}]

(* Handler slots are interchangeable.  Used for invariants only. *)
HandlerSymmetry == Permutations(Handler)
=============================================================================

----------------------------- MODULE MCAccounts -----------------------------
EXTENDS Accounts, TLC

(* Accounts, wallets, field sets and in-flight slots are interchangeable. *)
AccountSymmetry ==
  Permutations(User) \cup Permutations(Wallet) \cup Permutations(FieldSet)
    \cup Permutations(Job) \cup Permutations(Decision)
=============================================================================

----------------------------- MODULE MCAccounts -----------------------------
EXTENDS Accounts, TLC

(* People are alike, and so are sweep runs. *)
AccountSymmetry == Permutations(People) \cup Permutations(Sweeps)
=============================================================================

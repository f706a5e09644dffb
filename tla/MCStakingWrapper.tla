--------------------------- MODULE MCStakingWrapper ---------------------------
(* Instances of StakingWrapper small enough for TLC. *)
EXTENDS StakingWrapper, TLC

AccountSymmetry == Permutations(Accounts)
===============================================================================

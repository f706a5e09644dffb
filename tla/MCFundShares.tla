---------------------------- MODULE MCFundShares ----------------------------
(* Instances of FundShares small enough for TLC. *)
EXTENDS FundShares, TLC
=============================================================================

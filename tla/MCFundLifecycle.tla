--------------------------- MODULE MCFundLifecycle ---------------------------
(* Instances of FundLifecycle small enough for TLC. *)
EXTENDS FundLifecycle, TLC

\* Releases, ComptrollerProxy addresses and accounts are interchangeable.
AddressSymmetry ==
    Permutations(FundDeployers) \cup Permutations(Comptrollers) \cup Permutations(Accounts)
==============================================================================

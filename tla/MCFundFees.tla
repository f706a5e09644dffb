----------------------------- MODULE MCFundFees -----------------------------
(* Instances of FundFees small enough for TLC. *)
EXTENDS FundFees

\* The order that setConfigForFund recommends.
ContinuousFees == <<"Management", "Performance">>
AllButManagement ==
  <<"External", "Performance", "EntranceRateBurn", "EntranceRateDirect",
    "ExitRateBurn", "ExitRateDirect", "MinSharesSupply">>

\* Half of the net shares per instant (RateScaleBase 4).
HalfPerInstant == [n \in 0..MaxTime |-> 2 * n]

OneOutstanding ==
  [type : {"MintSharesOutstanding", "BurnSharesOutstanding", "Revert"},
   due : {1}]
NothingOutstanding == {}
=============================================================================

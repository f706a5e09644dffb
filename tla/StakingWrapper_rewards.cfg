\* Two accounts share rewards in a base token and in one that the pool may
\* start and cease to pay, with stakes and integrals that round.
SPECIFICATION WrapperSpec
CONSTANTS
  Accounts = {alice,bob}
  RewardTokens = {crv,ldo}
  BaseRewards = {crv}
  IntegralPrecision = 3
  Uint128 = 65536
  MaxStake = 2
  Accruals = {2}
  MaxRewards = 2
  MaxIntegral = 9
SYMMETRY AccountSymmetry
INVARIANTS
  CoveredButForOvercount
PROPERTIES
  RewardsFollowStakes

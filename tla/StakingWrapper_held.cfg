\* Violated: the balance that a claim leaves is counted a second time, and
\* the wrapper owes more than it holds.
SPECIFICATION WrapperSpec
CONSTANTS
  Accounts = {alice,bob}
  RewardTokens = {crv,ldo}
  BaseRewards = {crv}
  IntegralPrecision = 2
  Uint128 = 65536
  MaxStake = 2
  Accruals = {2}
  MaxRewards = 2
  MaxIntegral = 6
SYMMETRY AccountSymmetry
INVARIANTS
  RewardsHeld

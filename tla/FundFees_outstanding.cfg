\* Every other fee at once, one of a third party among them, with exit fees of
\* a half each and a performance fee of all profit, which may revert.
SPECIFICATION Spec
CONSTANTS
  Investors = {alice}
  FeeRecipient = manager
  Owner = owner
  VaultProxy = vault
  ProtocolFeeReserve = reserve
  LockedSharesAddress = locked
  Fees <- AllButManagement
  SharesUnit = 2
  DenominationAssetUnit = 2
  OneHundredPercent = 4
  PerformanceRate = 4
  EntranceRate = 1
  ExitInKindRate = 2
  ExitSpecificAssetsRate = 1
  Growth <- HalfPerInstant
  RateScaleBase = 4
  MinSharesSupply = 1
  ResetHwmFlag = RESET_HWM_FLAG
  ExternalSettlements <- OneOutstanding
  ProtocolFees = {0}
  Investments = {4}
  Gavs = {0, 8}
  MaxSupply = 5
  MaxGav = 8
  MaxTime = 1
INVARIANTS
  SharesOutstandingBacked
  RedeemableDespiteFees

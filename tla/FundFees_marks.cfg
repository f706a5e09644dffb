\* The two continuous fees, while the fund's value rises and falls, the
\* protocol fee dilutes, and the fund is reconfigured.
SPECIFICATION Spec
CONSTANTS
  Investors = {alice}
  FeeRecipient = manager
  Owner = manager
  VaultProxy = vault
  ProtocolFeeReserve = reserve
  LockedSharesAddress = locked
  Fees <- ContinuousFees
  SharesUnit = 1
  DenominationAssetUnit = 2
  OneHundredPercent = 4
  PerformanceRate = 3
  EntranceRate = 0
  ExitInKindRate = 0
  ExitSpecificAssetsRate = 0
  Growth <- HalfPerInstant
  RateScaleBase = 4
  MinSharesSupply = 0
  ResetHwmFlag = RESET_HWM_FLAG
  ExternalSettlements <- NothingOutstanding
  ProtocolFees = {0, 2}
  Investments = {1, 4}
  Gavs = {2, 8}
  MaxSupply = 6
  MaxGav = 9
  MaxTime = 2
INVARIANTS
  TypeOK
PROPERTIES
  ProfitChargedOnce
  HighWaterMarkHolds

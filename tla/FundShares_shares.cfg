\* A timelock of one instant, while requests come and go, prices fail and
\* the fee accrues; values high enough for fee shares to be bought back, and
\* low enough for every division to round.
SPECIFICATION Spec
CONSTANTS
  Investors = {alice, bob}
  ProtocolFeeReserve = reserve
  BuySharesCallers = {alice}
  SharesUnit = 2
  DenominationAssetUnit = 2
  MlnPrice = 1
  SharesActionTimelock = 1
  FeeBps = 1
  MaxBps = 4
  SecondsInYear = 1
  Investments = {3}
  AssetBalances = {16}
  MlnBalances = {4}
  PositionValues = {0, 2}
  Percentages = {0, 100}
  MaxSupply = 4
  MaxAssetBalance = 4
  MaxTime = 2
INVARIANT
  RedeemableInKind
PROPERTIES
  NoEarlyExit
  SharePriceNeverFalls
  SupplyChangesPayTheFee

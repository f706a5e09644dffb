\* Positions and handovers; a limit that one position and one asset reach.
SPECIFICATION Spec
CONSTANTS
  usd = usd
  mln = mln
  shares = shares
  first = first
  second = second
  Assets = {usd, mln, shares}
  SupportedAssets = {usd, mln}
  MlnToken = mln
  VaultShares = shares
  Positions = {lend, borrow}
  Adapters = {adapter}
  AdapterActions <- ShareTrades
  PositionActions <- PositionCalls
  Comptrollers = {first, second}
  FirstComptroller = first
  DenominationAsset <- Denominations
  PositionsLimit = 3
  Amounts = {1}
  MaxBalance <- PositionBalances
  MaxArray = 2
  MaxBurned = 1
SYMMETRY PositionSymmetry
INVARIANTS
  MutexesMatchCalls
  OnlyOwnPositions
  WithinPositionsLimit
  OwnSharesStay

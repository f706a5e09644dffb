\* Trades and handovers; room for a trade's assets but for no more.
SPECIFICATION Spec
CONSTANTS
  usd = usd
  mln = mln
  shares = shares
  first = first
  second = second
  Assets = {usd, mln, shares}
  SupportedAssets = {usd, mln}
  MlnToken = mln
  VaultShares = shares
  Positions = {}
  Adapters = {adapter}
  AdapterActions <- Trades
  PositionActions <- NoActions
  Comptrollers = {first, second}
  FirstComptroller = first
  DenominationAsset <- Denominations
  PositionsLimit = 2
  Amounts = {1}
  MaxBalance <- TradeBalances
  MaxArray = 1
  MaxBurned = 1
INVARIANTS
  NoApprovalOutlivesItsCall
  DenominationTracked
  NoCallOutlivesItsComptroller
PROPERTIES
  LossWithinAnnounced
  GainIsNet
  ReceivedIsTracked

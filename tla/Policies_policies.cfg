\* Two ComptrollerProxies in turn, one asset whose price may fail, trades
\* that lose a third or two thirds; the tolerance is a half in three instants,
\* so that slippages and what is restored are rounded, and a bypass window
\* opens an instant after it is announced, for two instants.
SPECIFICATION Spec
CONSTANTS
  Comptrollers = {c1, c2}
  NoAddress = NoAddress
  Assets = {usdc, mln}
  FailingAssets = {mln}
  Adapters = {uniswap, trusted}
  BypassableAdapters = {trusted}
  Policies <- ThreePolicies
  Configurations <- WithOrWithoutTransferRecipients
  Tolerances = {2}
  NoSettings = NoSettings
  OneHundredPercent = 4
  TolerancePeriodDuration = 3
  BypassTimelock = 1
  BypassTimeLimit = 1
  Trades <- SomeTrades
  Genesis = 2
  MaxTime = 5
SYMMETRY ComptrollerSymmetry
INVARIANTS
  LossesWithinTolerance
PROPERTIES
  TermsStay

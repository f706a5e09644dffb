\* One fund that may leave its release and come back: two releases, two
\* accounts between whom the roles change hands while requests are pending,
\* three ComptrollerProxies, two instants and a timelock that may change
\* under a pending request.  Every step is a step of the handover that the
\* protocol promises.
SPECIFICATION Spec
CONSTANTS
  FundDeployers = {fd1, fd2}
  Vaults = {v1}
  Comptrollers = {c1, c2, c3}
  Accounts = {alice, bob}
  NoAddress = NoAddress
  Timelocks = {0, 1}
  TwoDays = 1
  LastPaidTimes = {2}
  MaxTime = 2
SYMMETRY AddressSymmetry
INVARIANTS
  AccessorInForce
  RequestsAreExecutable
  PredecessorsDestroyed
  NoSecondChargedTwice
  OwnerCanCallOff
PROPERTIES
  AccessorHandoverSpec

SPECIFICATION Spec
CONSTANTS
  Order <- RunOrder
  Networks <- Mainnet
  MaxInterrupts = 1
  MaxForeignLists = 0
INVARIANTS
  LibsInitialized
CHECK_DEADLOCK FALSE

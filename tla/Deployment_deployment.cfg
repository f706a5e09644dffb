SPECIFICATION FairSpec
CONSTANTS
  Order <- RunOrder
  Networks <- AllNetworks
  MaxInterrupts = 1
  MaxForeignLists = 1
INVARIANTS
  LookupsSettled
  FollowUpsDone
  ConfiguredWhenDone
  BypassListIsOurs
  TypesMatchLabels
PROPERTIES
  RerunChangesNothing
  CleanInterruptionsHeal
CHECK_DEADLOCK FALSE

SPECIFICATION Spec
CONSTANTS
  Programs <- AllPrograms
  MaxFailures = 1
CHECK_DEADLOCK FALSE
INVARIANTS SentAsBuilt ReceiptsAreOwn AwaitedStubsAnswer
PROPERTIES EveryCallSettles

SPECIFICATION Spec
CHECK_DEADLOCK FALSE
CONSTANTS
  Installs = {"osl"}
  Starts <- AnyStarts
  CrdsAtStart = {"backstage"}
  WithFinalizer = {"sfp"}
  OtherBackstages = {0, 1, 2}
  MaxFaults = 1
INVARIANT TypeOK
INVARIANT FinalizerBeforeProvision
INVARIANT RestsSettled
PROPERTY CleanUpBeforeRelease
PROPERTY OperandsBeforeOperator
PROPERTY DeletionCompletesWithCRDs
PROPERTY ImplementsContract

SPECIFICATION Spec
CHECK_DEADLOCK FALSE
CONSTANTS
  Starts <- AllStarts
  Changes <- AllChanges
  MaxFaults = 1
  MaxEdits = 1
INVARIANT TypeOK
INVARIANT CompletedIsEarned
INVARIANT RestsWhenDone
PROPERTY StatusNeverForgotten
PROPERTY ImplementsStatus
PROPERTY ObjectsConverge
PROPERTY StatusConverges

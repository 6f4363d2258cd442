SPECIFICATION Spec
CHECK_DEADLOCK FALSE
CONSTANTS
  Starts <- GitOpsStarts
  Changes <- NoChanges
  MaxFaults = 1
  MaxEdits = 0
INVARIANT GitOpsErrorsReturned

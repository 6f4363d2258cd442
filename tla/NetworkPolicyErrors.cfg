SPECIFICATION Spec
CHECK_DEADLOCK FALSE
CONSTANTS
  Starts <- OSLStarts
  Changes <- NoChanges
  MaxFaults = 0
  MaxEdits = 0
INVARIANT NetworkPolicyErrorsAreCurrent

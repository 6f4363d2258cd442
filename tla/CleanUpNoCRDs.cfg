SPECIFICATION Spec
CHECK_DEADLOCK FALSE
CONSTANTS
  Installs = {"osl"}
  Starts <- NewStarts
  CrdsAtStart = {}
  WithFinalizer = {"sfp"}
  OtherBackstages = {0}
  MaxFaults = 0
PROPERTY DeletionCompletes

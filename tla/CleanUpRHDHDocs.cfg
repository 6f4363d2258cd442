SPECIFICATION Spec
CHECK_DEADLOCK FALSE
CONSTANTS
  Installs = {"rhdh"}
  Starts <- RHDHStarts
  CrdsAtStart = {"sonataflow", "backstage"}
  WithFinalizer = {"sfp"}
  OtherBackstages = {0}
  MaxFaults = 0
PROPERTY RHDHOperatorRemoved

SPECIFICATION Spec
CONSTANTS
  Workers = {w1}
  Watch = watch
  Flow = "rhdh"
  PlanIds = {p1}
  NoPlan = NoPlan
  CrdAtStart = TRUE
  Upgrades = TRUE
  MaxFaults = 0
  MaxEdits = 0
  MaxEvents = 0
  UserEdits <- NoEdits
INVARIANT DeployedAtRest

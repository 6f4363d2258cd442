SPECIFICATION Spec
CONSTANTS
  Workers = {w1, w2}
  Watch = watch
  Flow = "osl"
  PlanIds = {p1, p2}
  NoPlan = NoPlan
  CrdAtStart = FALSE
  Upgrades = TRUE
  MaxFaults = 1
  MaxEdits = 1
  MaxEvents = 1
  UserEdits <- AllEdits
INVARIANT TypeOK
INVARIANT OnlyStartingCSVApproved
INVARIANT SubscriptionHasGroup
INVARIANT NamespaceCanBeCleanedUp
INVARIANT RestsWhenInstalled
PROPERTY ImplementsLifecycle
PROPERTY DriftAttended
SYMMETRY Symmetry

SPECIFICATION Spec
CONSTANTS
  Workers = {w1}
  Watch = watch
  Flow = "knative"
  PlanIds = {p1, p2}
  NoPlan = NoPlan
  CrdAtStart = FALSE
  Upgrades = FALSE
  MaxFaults = 1
  MaxEdits = 1
  MaxEvents = 2
  UserEdits <- LiveEdits
INVARIANT SubscriptionExistsAtCRDCheck
PROPERTIES EventuallyInstalled LabelledInTheEnd DriftRepaired SharedOperatorRestored

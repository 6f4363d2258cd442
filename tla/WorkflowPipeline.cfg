SPECIFICATION Spec
CONSTANTS
  r1 = r1
  r2 = r2
  w1 = w1
  w2 = w2
  PipelineRuns = {r1, r2}
  Workflows = {w1, w2}
  Settings <- MCSettings
  MaxCommits = 2
  MaxPushes = 1
  MaxFaults = 1
INVARIANTS TypeOK DeployedImageExists ConflictsConfined FailuresExplained
PROPERTIES NoLostDeployment ImplementsAtomicDeployment RunsEnd
CHECK_DEADLOCK FALSE

SPECIFICATION Spec
CONSTANTS
  Orchestrators = {o1}
  ConfigMaps <- ConfigMapNames
  Settings <- AnyFlags
  Domains = {"set"}
  MaxFaults = 0
INVARIANT ArgoCDPluginInstalled
CHECK_DEADLOCK FALSE

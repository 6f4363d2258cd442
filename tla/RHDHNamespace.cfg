SPECIFICATION Spec
CONSTANTS
  Orchestrators = {o1, o2}
  ConfigMaps <- BaseAndPlugins
  Settings <- DevModeOnly
  Domains = {"set", "unset"}
  MaxFaults = 1
INVARIANTS TypeOK BackstageConfigured HostComplete NoneForgotten
PROPERTIES KnownBackstageKept RHDHProvided ImplementsSharing
CHECK_DEADLOCK FALSE

SPECIFICATION StoreSpec
CONSTANTS
  Pods = {p1, p2}
  Devices = {d1, d2}
  Claims = {c1, c2}
  NoConfig = NoConfig
  NetNSPaths = {n1}
  NoNetNS = NoNetNS
  MaxTime = 1
  DeviceConfigs <- MCDeviceConfigs
SYMMETRY Symmetry
INVARIANTS MemoryIsDurable PodStateOnlyForKnownPods
PROPERTY ImplementsDurableStore
CHECK_DEADLOCK TRUE

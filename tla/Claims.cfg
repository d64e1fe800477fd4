SPECIFICATION Spec
CONSTANTS
  p1 = p1
  p2 = p2
  p3 = p3
  c1 = c1
  c2 = c2
  c3 = c3
  d1 = d1
  d2 = d2
  d3 = d3
  a1 = a1
  a2 = a2
  Pods = {p1, p2, p3}
  Claims = {c1, c2, c3}
  Devices = {d1, d2, d3}
  Addrs = {a1, a2}
  NoPod = NoPod
  NoClaim = NoClaim
  NoDevice = NoDevice
  NoConfig = NoConfig
  NetNSPaths = {}
  NoNetNS = NoNetNS
  MaxTime = 0
  DeviceConfigs <- MCDeviceConfigs
  PodClaims <- OwnClaims
  Results <- Shared
  Request <- DynamicStaticDHCP
  Managed = {d1, d2}
  Undeletable = {p2}
  MaxCrashes = 1
INVARIANTS AddressesMatchStore NoSharedAddress AcknowledgedIsStored UnpreparedIsForgotten
PROPERTY TerminatingPodsGo

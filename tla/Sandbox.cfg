SPECIFICATION Spec
CONSTANTS
  roce = roce
  sub = sub
  ib = ib
  Sandboxes = {s1, s2}
  Devices = {roce, sub, ib}
  Netdev = {roce}
  Sub = {sub}
  Rdma = {roce, ib}
  HostName <- HostNames
  PodName <- Renamed
  Fallback <- Fallbacks
  Host = Host
  NoDevice = NoDevice
  NoNS = NoNS
  CleanupMayFail = TRUE
  NsSent = {TRUE, FALSE}
INVARIANTS ReadySandboxHasDevices DevicesComeHome ReturnedRdmaIsSeen

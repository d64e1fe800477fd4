SPECIFICATION NetSpec
CONSTANTS
  nic = nic
  parent = parent
  small = small
  Devices = {nic, parent, small}
  Configs <- MCConfigs
  HostMTU <- MCHostMTU
  MinIPv6MTU = 1280
  MaxFaults = 2
INVARIANTS NetTypeOK NeverUpWithoutPolicy ReadyIsConfigured FailsOnlyForCause FailureLeavesNothing

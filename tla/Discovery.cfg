SPECIFICATION DiscoverySpec
CONSTANTS
  nic0 = nic0
  nic1 = nic1
  hca = hca
  erdma = erdma
  vfio = vfio
  br0 = br0
  bond0 = bond0
  eth0 = eth0
  eth1 = eth1
  ib0 = ib0
  lo = lo
  None = None
  Function <- MCFunction
  Link <- MCLink
  DefaultRoutes <- MCDefaultRoutes
  Modes <- MCModes
  Wanted <- MCWanted
  MaxMoves = 2
  MaxFaults = 1
INVARIANTS DiscoveryTypeOK UplinkStays IBOnlyHasNoNetdev AllocatableStaysPublished

SPECIFICATION ConfigSpec
CONSTANTS
  c1 = c1
  nic = nic
  vf = vf
  ib = ib
  Claims = {c1}
  Devices = {nic, vf, ib}
  ClaimDevices <- MCClaimDevices
  Names <- MCNames
  V6 <- MCV6
  TableHash <- MCTableHash
  MinMTU = 68
  MinIPv6MTU = 1280
  MaxTableID = 2147483647
  RawConfigs <- MCRawConfigs
  ProviderConfigs <- MCProviderConfigs
  ProfileConfigs <- MCProfileConfigs
  DHCPAnswers <- MCDHCPAnswers
  HostAddresses <- MCHostAddresses
  HostRoutes <- MCHostRoutes
  HostRules <- MCHostRules
  HostNeighbors <- MCHostNeighbors
  IBOnly = {ib}
  RDMACapable = {nic}
  PFMTU <- MCPFMTU
INVARIANTS UserWins CommittedApplies CopiedSourcesAreLocal RulesFollowRoutes
 

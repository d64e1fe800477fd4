SPECIFICATION Spec
CONSTANTS
  rdma0 = rdma0  rdma2 = rdma2  plain1 = plain1  vf0 = vf0  pf1 = pf1  ib3 = ib3
  Width = 6
  MaxNics = 2
  MinChildBits = 1
  MaxChildBits = 4
  SpecialRanges <- MCSpecialRanges
  Nics = {rdma0, rdma2, plain1, vf0, pf1, ib3}
  NicKind <- MCNicKind
  NicIndex <- MCNicIndex
  Nodes <- MCNodes
  ForeignAddr = 60
  Claims = {u1}
  NoClaim = NoClaim
  Requests <- MCRequests
  MaxClaims = 2
  V6States <- MCV6States
  ReservedIIDs = {0}
  Hash <- MCHash
  MaxCounter = 2
  MaxAge = 2
INVARIANTS OKETypeOK GrantsDistinct
PROPERTIES ConflictSeenInTime ChildAvoidsParent ServableClaimsResolve
CHECK_DEADLOCK TRUE

----------------------------- MODULE OKEProfile -----------------------------
(***************************************************************************)
(* The OKE provider of one node: it learns the metadata of the node from   *)
(* the instance metadata service (IMDS) piece by piece, advertises its     *)
(* profile for the RDMA NICs it recognises, and resolves the profile of a  *)
(* claim into an IPvlan child address and a routing table.                 *)
(*                                                                         *)
(* Around it the node changes: NICs appear, OCA assigns their IPv4         *)
(* addresses, rail routers advertise IPv6 prefixes and renumber them, and  *)
(* VNICs of pods attach whose subnet collides with the child range.  An    *)
(* error of the provider changes nothing and is retried.                   *)
(***************************************************************************)
EXTENDS OKEAddressing, Sequences, FiniteSetsExt

CONSTANTS
  Nics, NicKind, NicIndex,
             \* the kind and the number of each NIC: "rdma" is named rdmaN,
             \* "vf" rdma_vf_railN, "plain" has another name and is N in the
             \* table of OCA, "shared" is an rdmaN with other netdevs on its
             \* PCI function, "ib" a native InfiniBand NIC
  Nodes,     \* what the node may be:
             \* [nics, v6, pods, mode, vnic, parentRange, childRange, layout,
             \*  service, ipoib, exclusive]
             \* pods is whether other networks come and go,
             \* mode is the OCA address mode, "" without a features file,
             \* layout the IPv4 address OCA gives each NIC, service the address
             \* of the Kubernetes service, ipoib whether the inventory attaches
             \* the IPoIB netdev of an InfiniBand NIC to it, and exclusive the
             \* RDMA namespace mode
  ForeignAddr,   \* an IPv4 address OCA does not manage
  Claims, NoClaim,
  Requests,  \* what a claim may ask for: [supported, routing, vrf, acceptRA, arp,
             \* named], named when it names the profile itself
  MaxClaims, \* bound on the claims at a time
  V6States,  \* IPv6 addresses and default routers a NIC may have: [addrs, routers],
             \* sets of [prefix, iid, usable] and of [gw, metric]
  ReservedIIDs,
  Hash,      \* Hash[claim][nic][counter] is an interface identifier
  MaxCounter,
  MaxAge     \* vnicSubnetsMaxAge in ticks

SBRTableBase == 100                       \* okeRDMASBRTableBase
RailVFTableBase == SBRTableBase + MaxNics \* okeRailVFTableBase
NoTable == 0

\* NICs are numbered by their names, and OCA gives two NICs two addresses.
ASSUME ProfileAssumption ==
  /\ MaxAge \in Nat /\ MaxCounter \in Nat /\ ForeignAddr \in Nat
  /\ NicIndex \in [Nics -> Nat]
  /\ \A n, m \in Nics :
       n # m /\ NicKind[n] = NicKind[m] /\ NicKind[n] \in {"rdma", "vf"} => NicIndex[n] # NicIndex[m]
  /\ \A h \in Nodes :
       /\ h.nics \subseteq Nics
       /\ h.vnic \in [ip : 0..(2^Width - 1), subnet : Prefixes]
       /\ h.parentRange \in Prefixes /\ h.childRange \in Prefixes
       /\ ~Contains(h.parentRange, ForeignAddr)
       /\ h.service \in Nat
       /\ \A n \in h.nics : NicKind[n] \in {"rdma", "plain"} =>
            /\ h.layout[n] \in Nat
            /\ \A m \in h.nics \ {n} : NicKind[m] \in {"rdma", "plain"} => h.layout[n] # h.layout[m]

\* The hashes of a claim and a NIC come to one that is free.
ASSUME HashAssumption ==
  \A c \in Claims, n \in Nics, s \in V6States : \A a \in s.addrs : \E k \in 0..MaxCounter :
    /\ Hash[c][n][k] \notin ReservedIIDs
    /\ \A b \in s.addrs : <<b.prefix, b.iid>> # <<a.prefix, Hash[c][n][k]>>

VARIABLES
  node,             \* which of Nodes this is
  present,          \* the NICs the host has
  addrs,            \* their IPv4 addresses, in order
  v6addrs, routers, \* their IPv6 addresses and default routers
  conflict,         \* a network that overlaps the child range, and its age
  phase,            \* of start: "new", "polling", "running", "failed"
  addressFallback,
  metadata,         \* the snapshot: which fields are known
  vnicCache,        \* the cached read of the VNIC subnets
  layoutValidated,
  advertised,       \* GetDeviceConfig at the last scan of the inventory
  claims            \* the claim of each NIC, with its grant

hostVars == <<node, present, addrs, v6addrs, routers, conflict>>
providerVars == <<phase, addressFallback, metadata, vnicCache, layoutValidated>>
okeVars == <<hostVars, providerVars, advertised, claims>>

NoMetadata == [fabric |-> FALSE, vnic |-> FALSE]
NoRead == [age |-> MaxAge, seen |-> "none"]
NoConflict == [kind |-> "none", age |-> 0]
NoGateway == 0
NoGrant == [net |-> "", host |-> 0, table |-> NoTable, gw |-> NoGateway]

-----------------------------------------------------------------------------
(* Which NICs are RDMA NICs.                                               *)

\* addressIn: the first address of n inside the OCA network, if there is one.
InRange(n) == {k \in DOMAIN addrs[n] : Contains(node.parentRange, addrs[n][k])}

AddressIn(n) == addrs[n][Min(InRange(n))]

NamedKinds == {"rdma", "shared"}

NamedRDMANic(n) == n \in present /\ NicKind[n] \in NamedKinds

IsRDMANic(n) ==
  \/ NamedRDMANic(n)
  \/ /\ n \in present /\ NicKind[n] # "ib"
     /\ addressFallback /\ InRange(n) # {}

\* infiniBandHostError and sharedRDMAFunction: NICs the host keeps.  Of an
\* InfiniBand NIC a claim takes the IPoIB netdev, or the RDMA device when the
\* namespaces are exclusive.
InfiniBandHost(n) == NicKind[n] = "ib" /\ (node.ipoib \/ node.exclusive)

SharedRDMAFunction(n) == NicKind[n] = "shared"

\* railVFIndex.
IsRailVF(n) == NicKind[n] = "vf"

HasRDMANic == \E n \in Nics : IsRDMANic(n)

\* A NIC the provider keeps away from every pod gets the profile without a
\* type, any other without an OCA address yet nothing.
GetDeviceConfig(n) ==
  CASE n \notin present -> "none"
    [] InfiniBandHost(n) \/ SharedRDMAFunction(n) -> "guard"
    [] IsRailVF(n) \/ IsRDMANic(n) -> "ipvlan"
    [] OTHER -> "none"

-----------------------------------------------------------------------------
(* Metadata.                                                               *)

\* Answers of the endpoints: the host endpoint may fail or lack a part of the
\* fabric data; the VNIC list may fail or lack the IPv4 address of the primary
\* VNIC.  The string fields, which only attributes carry, are left out.
Answers == {a \in [host : BOOLEAN, fabric : BOOLEAN, vnic : BOOLEAN] : a.fabric => a.host}

\* Only the host names of RDMA NICs count.
NeedVNICNamed == ~metadata.vnic /\ \E n \in Nics : NamedRDMANic(n)

NeedVNIC == ~metadata.vnic /\ HasRDMANic

\* fetchOKEMetadata and metadataFromIMDS: the snapshot, and whether the read
\* is an error.  The VNIC list is only read when it is needed.
Snapshot(a) ==
  [fabric |-> a.fabric, vnic |-> NeedVNIC /\ a.vnic]

FetchFails(a) == ~a.host \/ (NeedVNIC /\ ~a.vnic)

MergeMetadata(current, next) ==
  [f \in DOMAIN next |-> next[f] \/ current[f]]

-----------------------------------------------------------------------------
(* Life of the provider.                                                   *)

\* start, up to the first poll.
Start ==
  /\ phase = "new"
  /\ phase' = "polling"
  /\ addressFallback' = ~(\E n \in Nics : NamedRDMANic(n))
  /\ UNCHANGED <<hostVars, metadata, vnicCache, layoutValidated, advertised, claims>>

\* refreshMetadata, in the first poll or in refreshLoop.
Refresh(a) ==
  /\ phase \in {"polling", "running"}
  /\ metadata' = MergeMetadata(metadata, Snapshot(a))
  /\ phase' = IF FetchFails(a) THEN phase ELSE "running"
  /\ UNCHANGED <<hostVars, addressFallback, vnicCache, layoutValidated, advertised, claims>>

\* The startup window ends without a complete read: the loop goes on polling.
StartupWindowEnds ==
  /\ phase = "polling"
  /\ phase' = "running"
  /\ UNCHANGED <<hostVars, addressFallback, metadata, vnicCache, layoutValidated,
                 advertised, claims>>

\* The context ends while start polls: GetInstance returns an error.
StartCancelled ==
  /\ phase = "polling"
  /\ phase' = "failed"
  /\ UNCHANGED <<hostVars, addressFallback, metadata, vnicCache, layoutValidated,
                 advertised, claims>>

\* The driver restarts: newOKEInstance knows nothing.  Claims that have their
\* grant keep it, and the slices keep what was advertised.
Restart ==
  /\ phase \in {"running", "failed"}
  /\ phase' = "new"
  /\ addressFallback' = TRUE
  /\ metadata' = NoMetadata
  /\ vnicCache' = NoRead
  /\ layoutValidated' = FALSE
  /\ UNCHANGED <<hostVars, advertised, claims>>

\* The inventory scans the devices of the host.
Scan ==
  /\ phase = "running"
  /\ advertised' = [n \in Nics |-> GetDeviceConfig(n)]
  /\ UNCHANGED <<hostVars, providerVars, claims>>

-----------------------------------------------------------------------------
(* Claims.                                                                 *)

\* Claim c asks for NIC n, and perhaps for others.  It reaches the profile when
\* the NIC was advertised with it, or when the claim names it.
ClaimArrives(n, c, r) ==
  /\ n \in present
  /\ advertised[n] # "none" \/ r.named
  /\ claims[n] = NoClaim
  /\ Cardinality({m \in Nics : claims[m] # NoClaim}) < MaxClaims
  /\ claims' = [claims EXCEPT ![n] = [uid |-> c, req |-> r, grant |-> NoGrant]]
  /\ UNCHANGED <<hostVars, providerVars, advertised>>

\* ReleaseProfileConfig frees nothing.
ClaimEnds(n) ==
  /\ claims[n] # NoClaim
  /\ claims' = [claims EXCEPT ![n] = NoClaim]
  /\ UNCHANGED <<hostVars, providerVars, advertised>>

Waiting(n) == claims[n] # NoClaim /\ claims[n].grant = NoGrant

\* validateOKEProfileRequest: no passthrough, DHCP, unnumbered or addresses.
ValidateOKEProfileRequest(r) == r.supported

\* ethernetParent: the PCI function has one netdev, an Ethernet one.
EthernetParent(n) == n \in present /\ NicKind[n] # "ib"

\* parentARPPolicy: the claim gives the settings or the parent's can be read.
ParentARPPolicy(r) == r.arp

\* loadOCARDMAConfig: the address mode, "" without a usable features file.
AddressMode == node.mode

\* The checks of GetProfileConfig that do not depend on the fabric.
ProfileApplies(n) ==
  /\ phase = "running"
  /\ Waiting(n)
  /\ ~InfiniBandHost(n) /\ ~SharedRDMAFunction(n)
  /\ ValidateOKEProfileRequest(claims[n].req)
  /\ metadata.fabric
  /\ EthernetParent(n)

UserRouting(r) == r.routing \/ r.vrf

Granted(n, net, host, table, gw) ==
  claims' = [claims EXCEPT ![n].grant =
               [net |-> net, host |-> host, table |-> table, gw |-> gw]]

-----------------------------------------------------------------------------
(* The profile on an IPv4 fabric.                                          *)

\* resolveRDMANicIndex: the name first, else the address.
HasIndex(n) ==
  \/ NicKind[n] \in NamedKinds
  \/ /\ InRange(n) # {}
     /\ InvertsAddress(node.vnic, AddressIn(n), node.parentRange)

ResolveIndex(n) ==
  IF NicKind[n] \in NamedKinds THEN NicIndex[n]
  ELSE NicIndexFromAddress(node.vnic, AddressIn(n), node.parentRange)

\* The NIC with the index by its name needs no address.
CheckParentAddressInRange(n, a) == InRange(n) # {}

CheckParentAddress(n, a) == \E k \in DOMAIN addrs[n] : addrs[n][k] = a

\* validateClassicHostLayout: at least one NIC has an OCA address, and every
\* one that has is at the address of its index.
ValidateClassicHostLayout ==
  LET checked == {m \in Nics : IsRDMANic(m) /\ InRange(m) # {}}
  IN /\ checked # {}
     /\ \A m \in checked :
          /\ HasIndex(m)
          /\ DerivesParent(node.vnic, ResolveIndex(m), node.parentRange)
          /\ AddressIn(m) = ParentIPv4(node.vnic, ResolveIndex(m), node.parentRange)

\* A read that is kept for good.
ReadVNICSubnetsOnce(answer) ==
  IF vnicCache.seen # "none" THEN vnicCache
  ELSE [age |-> 0, seen |-> IF answer = "fails" THEN "failed"
                            ELSE IF conflict.kind = "vnic" THEN "conflict" ELSE "clear"]

\* readVNICSubnets: a read younger than MaxAge is used again, a failed one too.
ReadVNICSubnets(answer) ==
  IF vnicCache.age < MaxAge THEN vnicCache
  ELSE [age |-> 0, seen |-> IF answer = "fails" THEN "failed"
                            ELSE IF conflict.kind = "vnic" THEN "conflict" ELSE "clear"]

\* checkChildRangeConflicts, after the read of the subnets.
ChildRangeFree(cache, routes) ==
  /\ cache.seen # "conflict"
  /\ ~(conflict.kind = "route" /\ routes = "ok")
  /\ ~Contains(node.childRange, node.service)

\* The steps of GetProfileConfig up to deriveRDMAIPv4, none of which changes
\* anything: rail VFs have no IPv4 layout, and the ARP policy of the parent
\* must be readable or given.
DerivesIPv4(n) ==
  /\ ProfileApplies(n)
  /\ ~node.v6
  /\ metadata.vnic
  /\ AddressMode \in {"", "classic"}
  /\ ~IsRailVF(n)
  /\ ParentARPPolicy(claims[n].req)
  /\ HasIndex(n)
  /\ DerivesChild(node.vnic, ResolveIndex(n), node.parentRange, node.childRange)

\* GetProfileConfig from checkChildRangeConflicts on.  A failed read of the
\* subnets or of the host routes is no conflict.  What fails after the read of
\* the subnets leaves the cache renewed.
GetProfileConfigIPv4(n, vnics, routes) ==
  LET index == ResolveIndex(n)
      free == ChildRangeFree(ReadVNICSubnets(vnics), routes)
      valid == /\ CheckParentAddress(n, ParentIPv4(node.vnic, index, node.parentRange))
               /\ (AddressMode = "" /\ ~layoutValidated) => ValidateClassicHostLayout
  IN /\ DerivesIPv4(n)
     /\ vnicCache' = ReadVNICSubnets(vnics)
     /\ \/ /\ ~(free /\ valid)
           /\ UNCHANGED <<layoutValidated, claims>>
        \/ /\ free /\ valid
           /\ layoutValidated' = (layoutValidated \/ AddressMode = "")
           /\ Granted(n, "ipv4", ChildIPv4(node.vnic, index, node.childRange),
                      IF UserRouting(claims[n].req) THEN NoTable ELSE SBRTableBase + index,
                      NoGateway)
     /\ UNCHANGED <<hostVars, phase, addressFallback, metadata, advertised>>

-----------------------------------------------------------------------------
(* The profile on an IPv6 fabric.                                          *)

\* parentIPv6Prefix: the usable addresses must agree on the prefix.
UsablePrefixes(n) == {a.prefix : a \in {b \in v6addrs[n] : b.usable}}

\* Deprecated addresses are not avoided.
TakenUsable(n) == {[prefix |-> a.prefix, iid |-> a.iid] : a \in {b \in v6addrs[n] : b.usable}}

Taken(n) == {[prefix |-> a.prefix, iid |-> a.iid] : a \in v6addrs[n]}

ReservedInterfaceID(iid) == iid \in ReservedIIDs

\* childIPv6Address: the first hash that is neither reserved nor taken.
ChildIID(c, n, prefix) ==
  LET fits == {k \in 0..MaxCounter : /\ ~ReservedInterfaceID(Hash[c][n][k])
                                     /\ [prefix |-> prefix, iid |-> Hash[c][n][k]] \notin Taken(n)}
  IN Hash[c][n][Min(fits)]

TableIPv6(n) ==
  (IF IsRailVF(n) THEN RailVFTableBase ELSE SBRTableBase) + NicIndex[n]

\* The checks of ipv6ProfileConfig.  The router is needed for the routing of
\* the profile only.
DerivesIPv6(n) ==
  /\ ProfileApplies(n)
  /\ node.v6
  /\ NicKind[n] \in {"rdma", "vf"}
  /\ IndexSupported(NicIndex[n])
  /\ ~claims[n].req.acceptRA
  /\ ~claims[n].req.vrf
  /\ Cardinality(UsablePrefixes(n)) = 1
  /\ claims[n].req.routing \/ routers[n] # {}

\* parentIPv6Router: the lowest metric, then the lowest address.
ParentIPv6Router(n) ==
  (CHOOSE r \in routers[n] : \A q \in routers[n] :
     r.metric < q.metric \/ (r.metric = q.metric /\ r.gw <= q.gw)).gw

GetProfileConfigIPv6(n) ==
  /\ DerivesIPv6(n)
  /\ LET prefix == CHOOSE p \in UsablePrefixes(n) : TRUE
         child == ChildIID(claims[n].uid, n, prefix)
     IN IF claims[n].req.routing
          THEN Granted(n, prefix, child, NoTable, NoGateway)
          ELSE Granted(n, prefix, child, TableIPv6(n), ParentIPv6Router(n))
  /\ UNCHANGED <<hostVars, providerVars, advertised>>

-----------------------------------------------------------------------------
(* The node around the provider.                                           *)

NicAppears(n) ==
  /\ n \in node.nics \ present
  /\ present' = present \cup {n}
  /\ UNCHANGED <<node, addrs, v6addrs, routers, conflict, providerVars, advertised, claims>>

AddAddress(n, a) ==
  /\ n \in present /\ ~node.v6
  /\ \A k \in DOMAIN addrs[n] : addrs[n][k] # a
  /\ addrs' = [addrs EXCEPT ![n] = Append(@, a)]
  /\ UNCHANGED <<node, present, v6addrs, routers, conflict, providerVars, advertised, claims>>

OCAAssigns(n) == NicKind[n] \in {"rdma", "plain"} /\ AddAddress(n, node.layout[n])

\* An address of somebody else comes first in the list.
ForeignAssigned(n) ==
  NicKind[n] = "plain" /\ addrs[n] = <<>> /\ AddAddress(n, ForeignAddr)

\* Router advertisements, duplicate address detection, expiry, renumbering.
IPv6Changes(n, s) ==
  /\ n \in present /\ node.v6
  /\ NicKind[n] \in {"rdma", "vf"}
  /\ v6addrs' = [v6addrs EXCEPT ![n] = s.addrs]
  /\ routers' = [routers EXCEPT ![n] = s.routers]
  /\ UNCHANGED <<node, present, addrs, conflict, providerVars, advertised, claims>>

ConflictChanges(kind) ==
  /\ node.pods
  /\ (kind = "none") # (conflict.kind = "none")
  /\ conflict' = [kind |-> kind, age |-> 0]
  /\ UNCHANGED <<node, present, addrs, v6addrs, routers, providerVars, advertised, claims>>

\* Time, as far as the cache tells it.
Tick ==
  /\ vnicCache.age < MaxAge \/ (conflict.kind # "none" /\ conflict.age < MaxAge)
  /\ vnicCache' = [vnicCache EXCEPT !.age = IF @ < MaxAge THEN @ + 1 ELSE @]
  /\ conflict' = [conflict EXCEPT !.age =
                    IF conflict.kind # "none" /\ @ < MaxAge THEN @ + 1 ELSE @]
  /\ UNCHANGED <<node, present, addrs, v6addrs, routers, phase, addressFallback,
                 metadata, layoutValidated, advertised, claims>>

-----------------------------------------------------------------------------

Init ==
  /\ node \in Nodes
  /\ present \in {node.nics, {n \in node.nics : NicKind[n] # "rdma"}}
  /\ addrs = [n \in Nics |-> <<>>]
  /\ v6addrs = [n \in Nics |-> {}]
  /\ routers = [n \in Nics |-> {}]
  /\ conflict = NoConflict
  /\ phase = "new"
  /\ addressFallback = TRUE
  /\ metadata = NoMetadata
  /\ vnicCache = NoRead
  /\ layoutValidated = FALSE
  /\ advertised = [n \in Nics |-> "none"]
  /\ claims = [n \in Nics |-> NoClaim]

\* A refresh for which every endpoint answers in full.
CompleteRefresh == \E a \in Answers : a.fabric /\ a.vnic /\ Refresh(a)

ResolveIPv4(n) ==
  \E vnics \in {"ok", "fails"}, routes \in {"ok", "fails"} :
    GetProfileConfigIPv4(n, vnics, routes)

Next ==
  \/ Start \/ StartupWindowEnds \/ StartCancelled \/ Restart \/ Scan \/ Tick
  \/ \E a \in Answers : Refresh(a)
  \/ \E n \in Nics :
       \/ \E c \in Claims, r \in Requests : ClaimArrives(n, c, r)
       \/ ClaimEnds(n)
       \/ ResolveIPv4(n) \/ GetProfileConfigIPv6(n)
       \/ NicAppears(n) \/ OCAAssigns(n) \/ ForeignAssigned(n)
       \/ \E s \in V6States : IPv6Changes(n, s)
  \/ \E kind \in {"none", "vnic", "route"} : ConflictChanges(kind)

\* refreshLoop goes on as long as the driver runs, the kubelet retries, time
\* passes, and OCA configures the NICs it finds.  IMDS may fail any number of
\* times but not for ever.
Fairness ==
  /\ WF_okeVars(Tick)
  /\ SF_okeVars(CompleteRefresh)
  /\ WF_okeVars(\E n \in Nics : OCAAssigns(n))
  /\ \A n \in {m \in Nics : NicKind[m] \in {"rdma", "plain"}} : WF_okeVars(ResolveIPv4(n))

Spec == Init /\ [][Next]_okeVars /\ Fairness

-----------------------------------------------------------------------------
(* Properties.                                                             *)

Grants == {n \in Nics : claims[n] # NoClaim /\ claims[n].grant # NoGrant}

\* The state of the provider and the node is well formed; the table of a grant
\* is one of the MaxNics tables of its kind of NIC.
OKETypeOK ==
  /\ node \in Nodes /\ present \subseteq Nics
  /\ phase \in {"new", "polling", "running", "failed"}
  /\ addressFallback \in BOOLEAN /\ layoutValidated \in BOOLEAN
  /\ metadata \in [{"fabric", "vnic"} -> BOOLEAN]
  /\ vnicCache \in [age : 0..MaxAge, seen : {"none", "failed", "clear", "conflict"}]
  /\ conflict \in [kind : {"none", "vnic", "route"}, age : 0..MaxAge]
  /\ advertised \in [Nics -> {"none", "guard", "ipvlan"}]
  /\ \A n \in Grants :
       LET base == IF NicKind[n] = "vf" THEN RailVFTableBase ELSE SBRTableBase
       IN claims[n].grant.table \in {NoTable} \cup (base .. (base + MaxNics - 1))

\* Two NICs with a grant have different IPv4 children, and different routing
\* tables when the profile routes for them: whether the index of a NIC comes
\* from its name or from its address, whatever addresses OCA gave, and with
\* rdmaN and rail VFs of one number side by side.
GrantsDistinct ==
  \A n, m \in Grants : n # m =>
    /\ ~node.v6 => claims[n].grant.host # claims[m].grant.host
    /\ claims[n].grant.table # NoTable => claims[n].grant.table # claims[m].grant.table

\* On an IPv4 fabric a NIC gets a grant while a pod VNIC overlaps the child range
\* only when that VNIC attached within the age of the cached subnets, or the
\* subnets could not be read.
ConflictSeenInTime ==
  [][~node.v6 /\ (\E n \in Nics : n \in Grants' /\ n \notin Grants) =>
       ~(conflict.kind = "vnic" /\ conflict.age >= MaxAge /\ vnicCache'.seen # "failed")]_okeVars

\* The IPv6 child of a new grant is an address the parent does not have, in
\* whatever state, and not a reserved one, and it is in a prefix the parent can
\* use.
ChildAvoidsParent ==
  [][\A n \in Grants' \ Grants : node.v6 =>
       LET grant == claims'[n].grant
       IN /\ grant.host \notin ReservedIIDs
          /\ \A a \in v6addrs[n] : <<a.prefix, a.iid>> # <<grant.net, grant.host>>
          /\ \E a \in v6addrs[n] : a.usable /\ a.prefix = grant.net]_okeVars

\* A claim the profile can serve: an IPv4 fabric in classic layout, a NIC whose
\* addresses fit the ranges, no setting the profile refuses, and a Kubernetes
\* service outside the child range.
Servable(n) ==
  /\ n \in present /\ Waiting(n) /\ phase = "running"
  /\ ~node.v6 /\ AddressMode \in {"", "classic"}
  /\ claims[n].req.supported /\ claims[n].req.arp
  /\ \A m \in node.nics : NicKind[m] \in {"rdma", "plain"} =>
       /\ DerivesParent(node.vnic, NicIndex[m], node.parentRange)
       /\ node.layout[m] = ParentIPv4(node.vnic, NicIndex[m], node.parentRange)
  /\ DerivesChild(node.vnic, NicIndex[n], node.parentRange, node.childRange)
  /\ ~Contains(node.childRange, node.service)

\* A claim the profile can serve is served, in whatever order the metadata, the
\* NICs and their addresses arrive, also when the provider started before any
\* RDMA NIC could be recognised; unless the claim ends, the driver restarts or
\* a network collides with the child range.
ServableClaimsResolve ==
  \A n \in {m \in Nics : NicKind[m] \in {"rdma", "plain"}} :
    Servable(n) ~> (~Waiting(n) \/ phase # "running" \/ conflict.kind # "none")
=============================================================================

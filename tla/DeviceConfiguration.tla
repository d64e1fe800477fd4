------------------------- MODULE DeviceConfiguration -------------------------
(***************************************************************************)
(* What NodePrepareResources puts into the pod configuration store         *)
(* (prepareResourceClaim and prepareDevice of pkg/driver/dra_hooks.go):    *)
(* the user's configuration of the claim, over the one the inventory       *)
(* caches for the device, over the profile's, completed with what the host *)
(* knows of the interface: DHCP's answer or the interface's addresses, its *)
(* routes, the policy rules of their tables, its permanent neighbours.     *)
(*                                                                         *)
(* ClaimLifecycle models the interleavings of the calls, the store and the *)
(* crashes; here one call runs at a time and the data it computes is what  *)
(* matters.  The calls of one claim are retried, so a device prepared by   *)
(* an earlier, failed call is met again.                                   *)
(***************************************************************************)
EXTENDS NetworkConfig

CONSTANTS
  Devices, Claims,
  ClaimDevices,     \* the devices allocated to a claim, in the order of its results
  RawConfigs,       \* the possible opaque configurations of a claim, as sequences
  ProviderConfigs,  \* what a provider may answer for each device, EmptyConfig for nothing
  ProfileConfigs,   \* what a profile may resolve to
  DHCPAnswers,      \* [ip, len, routes] of a lease
  HostAddresses, HostRoutes, HostRules, HostNeighbors,
  IBOnly,           \* devices without a network interface
  RDMACapable,      \* network interfaces with an RDMA device
  PFMTU             \* the MTU of a VF's parent, Nil for other interfaces

\* Configurations are what the API and the providers can say; the kernel has an
\* address once; and DHCP's routes are to a network over a router.
ASSUME ConfigAssumption ==
  /\ \A c \in Claims : ClaimDevices[c] \in Seq(Devices)
  /\ RawConfigs \subseteq Seq([ok : BOOLEAN, conf : NetworkConfigs])
  /\ \A d \in Devices : ProviderConfigs[d] \subseteq NetworkConfigs
  /\ ProfileConfigs \subseteq NetworkConfigs
ASSUME HostAssumption ==
  /\ DHCPAnswers \subseteq [ip : Names, len : Nat, routes : Seq(Routes)]
  /\ \A lease \in DHCPAnswers : ValidRoutes(lease.routes)
  /\ \A d \in Devices :
       /\ HostAddresses[d] \in Seq([ip : Names, len : Nat, scope : Int])
       /\ ValidAddresses(HostAddresses[d])
       /\ HostRoutes[d] \in Seq([dst : Names, gw : Names, src : Names, scope : Int, table : Int,
                                 kernel : BOOLEAN, linkLocal : BOOLEAN])
       /\ HostNeighbors[d] \in Seq(Neighbors)
  /\ HostRules \in Seq(Rules)

VARIABLES
  providerConfig,    \* the provider's answer for each device
  profileProvider,   \* whether a profile provider is wired
  rdmaSharedMode,
  deviceConfigStore, \* the inventory's cache of the provider's answers
  claims,            \* the claims the kubelet knows: their opaque configurations
  call,              \* the running prepareResourceClaim
  committed,         \* the devices in the pod configuration store
  acked              \* the claims whose last prepare call returned no error

configVars == <<providerConfig, profileProvider, rdmaSharedMode, deviceConfigStore,
                claims, call, committed, acked>>
nodeVars == <<providerConfig, profileProvider, rdmaSharedMode>>

NoCall == "none"
Idle == [claim |-> NoCall, at |-> 1, rules |-> {}, failed |-> FALSE]

\* A map with one entry more.
With(f, k, v) == [x \in DOMAIN f \union {k} |-> IF x = k THEN v ELSE f[x]]

Pairs == {p \in Claims \X Devices : p[2] \in ToSet(ClaimDevices[p[1]])}

----------------------------------------------------------------------------
\* The inventory's cache.

\* updateDeviceStore, for one device: a profile nobody can resolve is dropped.
Cacheable(conf) == IF profileProvider THEN conf ELSE [conf EXCEPT !.profile = ""]

Cached ==
  [d \in {e \in Devices : providerConfig[e] # EmptyConfig} |-> Cacheable(providerConfig[d])]

----------------------------------------------------------------------------
\* The configuration of the claim.

\* ValidateConfig of one opaque configuration that is there at all: it parses,
\* and what it says is valid once defaulted.
ValidRaw(raw) == raw.ok /\ Valid(Default(raw.conf))

\* The first valid configuration is used, and those after it are not looked at.
FirstValid(raws) == SelectInSeq(raws, ValidRaw)
Examined(raws) == IF FirstValid(raws) = 0 THEN raws ELSE SubSeq(raws, 1, FirstValid(raws))
UserConfigAccepted(raws) == \A i \in DOMAIN Examined(raws) : ValidRaw(Examined(raws)[i])
UserConfig(raws) ==
  IF FirstValid(raws) = 0 THEN EmptyConfig ELSE Default(raws[FirstValid(raws)].conf)

\* getDeviceNetworkConfig up to the validation, with `profile' the profile's
\* answer: the user's over the provider's, and that over the profile's.
WithProvider(d, user) ==
  IF d \in DOMAIN deviceConfigStore
  THEN MergeNetworkConfig(user, deviceConfigStore[d]) ELSE user

Resolved(d, user, profile) ==
  LET merged == WithProvider(d, user)
  IN  Default(IF merged.profile # "" THEN MergeNetworkConfig(merged, profile) ELSE merged)

\* The cache after a merge for device d, which Default follows on the cached
\* vrf object or not: see WrittenThrough and DefaultedThrough.
CacheAfterMerge(d, user, defaulted) ==
  IF d \notin DOMAIN deviceConfigStore THEN deviceConfigStore
  ELSE [deviceConfigStore EXCEPT ![d] =
          IF defaulted THEN DefaultedThrough(WrittenThrough(user, @)) ELSE WrittenThrough(user, @)]

AcceptMergedUnchecked(conf) == TRUE
AcceptMerged(conf) == Valid(conf)

----------------------------------------------------------------------------
\* What the host adds.

NoLease == [ip |-> "", len |-> 0, routes |-> <<>>]

PodAddresses(d, conf, lease) ==
  IF conf.addressing = "DHCP" THEN <<[ip |-> lease.ip, len |-> lease.len]>>
  ELSE IF IsSubinterface(conf) \/ conf.addresses # <<>> THEN conf.addresses
  ELSE LET global == Kept(HostAddresses[d], {i \in DOMAIN HostAddresses[d] :
                                               HostAddresses[d][i].scope = UniverseScope})
       IN  [i \in DOMAIN global |-> [ip |-> global[i].ip, len |-> global[i].len]]

\* getRouteInfo: no route without a destination, of the local table, to an IPv6
\* link-local network, or of IPv6 that the kernel adds by itself.
GetRouteInfo(d) ==
  LET Copies(r) == /\ r.dst # "" /\ r.table # LocalTable
                   /\ r.dst \in V6 => ~r.linkLocal /\ ~r.kernel
      copied == Kept(HostRoutes[d], {i \in DOMAIN HostRoutes[d] : Copies(HostRoutes[d][i])})
  IN  [i \in DOMAIN copied |-> [dst |-> copied[i].dst, gw |-> copied[i].gw, src |-> copied[i].src,
                                scope |-> copied[i].scope, table |-> copied[i].table]]

RouteTables(routes) == {routes[i].table : i \in DOMAIN routes} \ {0}

ClearStaleRouteSourcesNot(routes, addresses) == routes
ClearStaleRouteSources(routes, addresses) ==
  [i \in DOMAIN routes |->
     IF routes[i].src \in {addresses[j].ip : j \in DOMAIN addresses} THEN routes[i]
     ELSE [routes[i] EXCEPT !.src = ""]]

\* getRuleInfo: the tables that have rules of the host, without main and local.
\* The code's map also has the rules, which do not change during a call.
GetRuleInfo == {HostRules[i].table : i \in DOMAIN HostRules} \ {0, MainTable, LocalTable}

\* The tables whose rules are the device's from now on: nobody else of the call
\* gets them.  An interface in a VRF needs no rules and leaves them.
TablesTakenInVRFToo(conf, routes) == RouteTables(routes) \intersect call.rules
TablesTaken(conf, routes) ==
  IF conf.vrf # NoVRF THEN {} ELSE RouteTables(routes) \intersect call.rules

\* The rules of some tables; the code goes through the tables in any order.
RulesOf(tables) == Kept(HostRules, {i \in DOMAIN HostRules : HostRules[i].table \in tables})

\* The configuration that is stored: `own' counts the routes that are not the
\* host's, and is not part of the code's record.
Completed(d, conf, lease) ==
  LET addresses == PodAddresses(d, conf, lease)
      own       == conf.routes \o lease.routes
      host      == IF IsSubinterface(conf) THEN <<>>
                   ELSE ClearStaleRouteSources(GetRouteInfo(d), addresses)
  IN  [conf |-> [conf EXCEPT
                   !.addresses = addresses,
                   !.routes    = own \o host,
                   !.rules     = IF conf.vrf # NoVRF THEN @ ELSE @ \o RulesOf(TablesTaken(conf, host)),
                   !.neighbors = @ \o HostNeighbors[d]],
       own  |-> Len(own)]

\* The checks of prepareDevice on a network interface.
FitsVF(d, conf) ==
  PFMTU[d] # Nil /\ conf.scalars["mtu"] # Nil => conf.scalars["mtu"] <= PFMTU[d]
Numbered(conf) ==
  IsSubinterface(conf) /\ conf.addresses = <<>> => conf.addressing = "Unnumbered"
ShareableRDMA(d, conf) == IsSubinterface(conf) /\ d \in RDMACapable => rdmaSharedMode
----------------------------------------------------------------------------
ConfigInit ==
  /\ providerConfig \in {f \in [Devices -> UNION {ProviderConfigs[d] : d \in Devices}] :
                            \A d \in Devices : f[d] \in ProviderConfigs[d]}
  /\ profileProvider \in BOOLEAN
  /\ rdmaSharedMode \in BOOLEAN
  /\ deviceConfigStore = Cached
  /\ claims = <<>>
  /\ call = Idle
  /\ committed = <<>>
  /\ acked = {}

\* The inventory scans: the cache is filled anew.
UpdateDeviceStore ==
  /\ deviceConfigStore' = Cached
  /\ UNCHANGED <<nodeVars, claims, call, committed, acked>>

\* The scheduler allocates devices to a claim that says raws about them.
ClaimArrives(c, raws) ==
  /\ \A b \in DOMAIN claims :
       ToSet(ClaimDevices[b]) \intersect ToSet(ClaimDevices[c]) = {}
  /\ claims' = With(claims, c, raws)
  /\ UNCHANGED <<nodeVars, deviceConfigStore, call, committed, acked>>

BeginPrepare(c) ==
  /\ call = Idle
  /\ c \in DOMAIN claims
  /\ call' = [claim |-> c, at |-> 1, rules |-> GetRuleInfo, failed |-> FALSE]
  /\ UNCHANGED <<nodeVars, deviceConfigStore, claims, committed, acked>>

\* The device prepareDevice is called for, and the claim's configurations.
AtDevice == call # Idle /\ call.at <= Len(ClaimDevices[call.claim])
Current == ClaimDevices[call.claim][call.at]
CurrentRaws == claims[call.claim]
CurrentUser == UserConfig(CurrentRaws)
UnpreparedOrNot == AtDevice
Unprepared == AtDevice /\ <<call.claim, Current>> \notin DOMAIN committed

\* An error of one device does not end the call.
NextDevice(ok) == call' = [call EXCEPT !.at = @ + 1, !.failed = @ \/ ~ok]

ReusePrepared ==
  /\ AtDevice
  /\ <<call.claim, Current>> \in DOMAIN committed
  /\ NextDevice(TRUE)
  /\ UNCHANGED <<nodeVars, deviceConfigStore, claims, committed, acked>>

RejectUserConfig ==
  /\ Unprepared
  /\ ~UserConfigAccepted(CurrentRaws)
  /\ NextDevice(FALSE)
  /\ UNCHANGED <<nodeVars, deviceConfigStore, claims, committed, acked>>

\* The merge has happened, whatever comes of it.
Merges(defaulted) ==
  /\ Unprepared
  /\ UserConfigAccepted(CurrentRaws)
  /\ deviceConfigStore' = CacheAfterMerge(Current, CurrentUser, defaulted)
  /\ UNCHANGED <<nodeVars, claims, acked>>

\* GetProfileConfig fails, as it does when no profile provider is wired.
ProfileFails ==
  /\ Merges(FALSE)
  /\ WithProvider(Current, CurrentUser).profile # ""
  /\ NextDevice(FALSE)
  /\ UNCHANGED committed

\* What the profile may have answered.
Profiles ==
  IF WithProvider(Current, CurrentUser).profile = "" THEN {EmptyConfig}
  ELSE IF profileProvider THEN ProfileConfigs ELSE {}

\* The merged configuration is defaulted before it is validated; it has the
\* cached vrf object unless the profile brings one.
MergesAndDefaults(profile) == Merges(profile.vrf = NoVRF)

RejectMerged(profile) ==
  /\ MergesAndDefaults(profile)
  /\ ~AcceptMerged(Resolved(Current, CurrentUser, profile))
  /\ NextDevice(FALSE)
  /\ UNCHANGED committed

\* A device without a network interface: what the user wrote is checked again,
\* all of it, and the configuration is stored as it is, unless the RDMA device
\* has no name any more or the store cannot write (`persisted').
PrepareIBOnly(profile, persisted) ==
  LET conf == Resolved(Current, CurrentUser, profile)
      fits == \A i \in DOMAIN CurrentRaws : CurrentRaws[i].ok /\ ValidRDMAOnly(CurrentRaws[i].conf)
      ok   == fits /\ persisted
  IN
  /\ MergesAndDefaults(profile)
  /\ AcceptMerged(conf)
  /\ Current \in IBOnly
  /\ NextDevice(ok)
  /\ committed' = IF ok
                  THEN With(committed, <<call.claim, Current>>, [conf |-> conf, own |-> Len(conf.routes)])
                  ELSE committed

\* A network interface, resolved to conf.
Reaches(profile, conf) ==
  /\ MergesAndDefaults(profile)
  /\ conf = Resolved(Current, CurrentUser, profile)
  /\ AcceptMerged(conf)
  /\ Current \notin IBOnly

Leases(conf) == IF conf.addressing = "DHCP" THEN DHCPAnswers ELSE {NoLease}

\* The checks that reject the device, and the lookups on the host that may fail:
\* the interface or its link is gone, no answer from DHCP, an ethtool feature
\* the interface lacks.
HostFails(profile) ==
  /\ \E conf \in {Resolved(Current, CurrentUser, profile)} : Reaches(profile, conf)
  /\ NextDevice(FALSE)
  /\ UNCHANGED committed

PrepareDevice(profile, persisted) ==
  \E conf \in {Resolved(Current, CurrentUser, profile)} : \E lease \in Leases(conf) :
    LET done  == Completed(Current, conf, lease)
        taken == IF IsSubinterface(conf) THEN {} ELSE TablesTaken(conf, GetRouteInfo(Current))
        ok    == Numbered(done.conf) /\ ShareableRDMA(Current, conf) /\ persisted
    IN
    /\ Reaches(profile, conf)
    /\ FitsVF(Current, conf)
    /\ call' = [call EXCEPT !.at = @ + 1, !.failed = @ \/ ~ok,
                            !.rules = @ \ taken]
    /\ committed' = IF ok THEN With(committed, <<call.claim, Current>>, done) ELSE committed

FinishPrepare ==
  /\ call # Idle
  /\ call.at > Len(ClaimDevices[call.claim])
  /\ acked' = IF call.failed THEN acked \ {call.claim} ELSE acked \union {call.claim}
  /\ call' = Idle
  /\ UNCHANGED <<nodeVars, deviceConfigStore, claims, committed>>

\* UnprepareResourceClaims and the end of the claim.
Unprepare(c) ==
  /\ call = Idle
  /\ c \in DOMAIN claims
  /\ claims' = [b \in DOMAIN claims \ {c} |-> claims[b]]
  /\ committed' = [p \in {q \in DOMAIN committed : q[1] # c} |-> committed[p]]
  /\ acked' = acked \ {c}
  /\ UNCHANGED <<nodeVars, deviceConfigStore, call>>

ConfigNext ==
  \/ UpdateDeviceStore
  \/ \E c \in Claims \ DOMAIN claims, raws \in RawConfigs : ClaimArrives(c, raws)
  \/ \E c \in Claims : BeginPrepare(c)
  \/ ReusePrepared
  \/ RejectUserConfig
  \/ ProfileFails
  \/ Unprepared /\ \E profile \in Profiles :
       \/ RejectMerged(profile)
       \/ HostFails(profile)
       \/ \E persisted \in BOOLEAN :
            PrepareIBOnly(profile, persisted) \/ PrepareDevice(profile, persisted)
  \/ FinishPrepare
  \/ \E c \in Claims : Unprepare(c)

ConfigSpec == ConfigInit /\ [][ConfigNext]_configVars

----------------------------------------------------------------------------
\* The routes of a stored configuration that do not come from the host.
OwnRoutes(p) == SubSeq(committed[p].conf.routes, 1, committed[p].own)

\* MergeNetworkConfig, twice, with the user on top: whatever the provider and the
\* profile say, a stored configuration has every value the user gave (a zero
\* excepted, which only addrGenMode can express; of neighbours with one address
\* only the last stays), and of the routes to a destination in a table the user
\* has a route for, only the user's, unless DHCP adds one.
UserWins ==
  \A p \in DOMAIN committed :
    LET user == UserConfig(claims[p[1]])
        conf == committed[p].conf
        keys == {RouteKey(r) : r \in ToSet(user.routes)}
    IN
    /\ \A f \in Scalars : user.scalars[f] \notin {Nil, 0} => conf.scalars[f] = user.scalars[f]
    /\ user.scalars["addrGenMode"] # Nil => conf.scalars["addrGenMode"] = user.scalars["addrGenMode"]
    /\ user.type # "" => conf.type = user.type
    /\ user.vrf # NoVRF => conf.vrf = user.vrf
    /\ ToSet(user.addresses) \subseteq ToSet(conf.addresses)
    /\ ToSet(user.rules) \subseteq ToSet(conf.rules)
    /\ \A n \in ToSet(user.neighbors) :
         \E m \in ToSet(user.neighbors) \intersect ToSet(conf.neighbors) : m.dst = n.dst
    /\ keys \subseteq {RouteKey(r) : r \in ToSet(OwnRoutes(p))}
    /\ conf.addressing # "DHCP" =>
         \A r \in ToSet(OwnRoutes(p)) : RouteKey(r) \in keys => r \in ToSet(user.routes)

\* getDeviceNetworkConfig validates "the configuration that is actually going to
\* be applied": a stored configuration of a network interface still obeys the
\* rules on combinations of fields, whose breach RunPodSandbox would refuse or
\* apply in part, though each source alone may be fine and the host's own state,
\* which is not validated, is added afterwards.  That a source address the claim
\* names in a route is one the pod has is checked by nobody, and not said here.
CommittedApplies ==
  \A p \in DOMAIN committed : p[2] \notin IBOnly =>
    LET conf == committed[p].conf IN
    /\ conf.vrf # NoVRF => conf.rules = <<>> /\ ValidVRF(conf.vrf)
    /\ ValidAddresses(conf.addresses)
    /\ IsSubinterface(conf) => (conf.addresses = <<>>) = (conf.addressing = "Unnumbered")
    /\ conf.addressing = "DHCP" => Len(conf.addresses) = 1 /\ ~IsSubinterface(conf)
    /\ ValidRoutes(OwnRoutes(p))
    /\ (conf.scalars["addrGenMode"] # Nil \/ conf.scalars["acceptRA"] # Nil)
         /\ conf.scalars["mtu"] # Nil => conf.scalars["mtu"] >= MinIPv6MTU

\* clearStaleRouteSources: no route copied from the host prefers a source the
\* pod does not have, also when DHCP or the claim replaces the host's addresses;
\* the kernel rejects such a route, and the pod's sandbox with it.
CopiedSourcesAreLocal ==
  \A p \in DOMAIN committed :
    LET conf == committed[p].conf IN
    \A i \in DOMAIN conf.routes : i > committed[p].own /\ conf.routes[i].src # "" =>
      \E a \in ToSet(conf.addresses) : a.ip = conf.routes[i].src

\* The rules follow the routes: once a claim is acknowledged, the host's rules of
\* every table an interface outside a VRF brings routes of are with one of the
\* claim's interfaces, though a call gives the rules of a table to the first
\* device only, some devices were stored by earlier calls, and a device that
\* failed after it took the rules does not keep them.
RulesFollowRoutes ==
  \A p \in DOMAIN committed : p[1] \in acked /\ p[2] \notin IBOnly =>
    LET conf   == committed[p].conf
        tables == {conf.routes[i].table : i \in {j \in DOMAIN conf.routes : j > committed[p].own}}
    IN  conf.vrf = NoVRF =>
          \A t \in tables \intersect GetRuleInfo :
            \E q \in DOMAIN committed :
              q[1] = p[1] /\ ToSet(RulesOf({t})) \subseteq ToSet(committed[q].conf.rules)

\* prepareResourceClaim goes on after the error of a device, prepareDevice "reuses
\* the existing configuration", and the kubelet may ask again for what it was told
\* is prepared.  So once a call for a claim returned no error, all of its devices
\* are stored, whichever calls stored them; and until the claim is unprepared no
\* later call fails or replaces what is stored, though by then the host, the
\* store's disk or the inventory's configuration would not allow it again.
PreparedStaysPrepared ==
  [][\A c \in acked : c \in DOMAIN claims' =>
       /\ c \in acked'
       /\ \A d \in ToSet(ClaimDevices[c]) :
            /\ <<c, d>> \in DOMAIN committed /\ <<c, d>> \in DOMAIN committed'
            /\ committed'[<<c, d>>] = committed[<<c, d>>]]_configVars

\* MergeNetworkConfig: "Do not let merging a pointer value mutate the provider
\* configuration" (config_merge.go:43).  What the inventory caches for a device is
\* what its provider said.
ProviderConfigKept ==
  \A d \in DOMAIN deviceConfigStore : deviceConfigStore[d] = Cached[d]
=============================================================================

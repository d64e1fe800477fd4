------------------------ MODULE MCDeviceConfiguration ------------------------
\* One claim with three devices: two network interfaces whose routes share a
\* policy routing table, the second of them a VF, and one RDMA device without an
\* interface.  The claim comes back with other configurations after it is gone.
EXTENDS DeviceConfiguration, TLC

CONSTANTS c1, nic, vf, ib

MCClaimDevices == c1 :> <<nic, vf, ib>>
MCNames == {"", "p", "red", "blue", "IPVLAN", "Passthrough", "DHCP", "Unnumbered", "net4", "net6",
            "gwUser", "gwProvider", "gwLease", "gw4", "gw6", "a4", "a6", "b4", "h4", "l4", "ll",
            "m0", "m1"}
MCV6 == {"net6", "gw6", "a6"}
MCTableHash == "red" :> 17 @@ "blue" :> 2^30 + 17

Route(dst, gw, src, scope, table) ==
  [dst |-> dst, gw |-> gw, src |-> src, scope |-> scope, table |-> table]
Rule(src, table) == [priority |-> 100, src |-> src, dst |-> "", table |-> table]
Addr(ip, len) == [ip |-> ip, len |-> len]
Neighbor(dst, mac) == [dst |-> dst, mac |-> mac]
Only(f, v) == [NoScalars EXCEPT ![f] = v]
Raw(conf) == [ok |-> TRUE, conf |-> conf]

PodRoute == Route("net4", "gwUser", "", UniverseScope, 100)
JumboAndRoute == [EmptyConfig EXCEPT !.scalars = Only("mtu", 9000), !.routes = <<PodRoute>>,
                                     !.neighbors = <<Neighbor("gwUser", "m1")>>]
Static == [EmptyConfig EXCEPT !.addresses = <<Addr("a4", 24), Addr("a6", 64)>>]
RedVRF == [EmptyConfig EXCEPT !.vrf = [name |-> "red", table |-> Nil]]
DHCP == [EmptyConfig EXCEPT !.scalars = Only("dhcp", 1)]
Zeros == [EmptyConfig EXCEPT !.scalars = [Only("acceptRA", 0) EXCEPT !["addrGenMode"] = 0]]
Profiled == [EmptyConfig EXCEPT !.type = "IPVLAN", !.profile = "p"]
Unnumbered == [EmptyConfig EXCEPT !.type = "IPVLAN", !.addressing = "Unnumbered"]
Ruled == [EmptyConfig EXCEPT !.rules = <<Rule("a4", 7)>>]
Contradiction == [Unnumbered EXCEPT !.type = "Passthrough"]

MCRawConfigs ==
  {<<>>, <<Raw(JumboAndRoute)>>, <<Raw(Static)>>, <<Raw(RedVRF)>>, <<Raw(DHCP)>>, <<Raw(Zeros)>>,
   <<Raw(Profiled)>>, <<Raw(Unnumbered)>>, <<Raw(Ruled)>>,
   <<Raw([EmptyConfig EXCEPT !.profile = "p"])>>,
   <<Raw(Contradiction), Raw(Static)>>, <<Raw(Static), [ok |-> FALSE, conf |-> EmptyConfig]>>}

Baseline == [EmptyConfig EXCEPT
  !.scalars = [NoScalars EXCEPT !["mtu"] = 1500, !["acceptRA"] = 2, !["addrGenMode"] = 1],
  !.routes  = <<Route("net4", "gwProvider", "", UniverseScope, 100)>>,
  !.addresses = <<Addr("a6", 96)>>]
SmallMTU == [EmptyConfig EXCEPT !.scalars = Only("mtu", 1000), !.rules = <<Rule("a4", 100)>>]
BlueVRF == [EmptyConfig EXCEPT !.vrf = [name |-> "blue", table |-> 5], !.profile = "p"]
BlueByName == [EmptyConfig EXCEPT !.vrf = [name |-> "blue", table |-> Nil], !.profile = "p"]
EmptyVRF == [EmptyConfig EXCEPT !.vrf = [name |-> "", table |-> Nil]]

MCProviderConfigs ==
  nic :> {EmptyConfig, Baseline, SmallMTU, BlueVRF, BlueByName}
  @@ vf :> {EmptyConfig, Baseline, EmptyVRF} @@ ib :> {EmptyConfig}

\* Providers whose VRFs have tables, which Default leaves alone.
MCTabledProviders == [MCProviderConfigs EXCEPT ![nic] = @ \ {BlueByName}]

MCProfileConfigs ==
  {EmptyConfig, [EmptyConfig EXCEPT !.addresses = <<Addr("b4", 24)>>, !.rules = <<Rule("b4", 9)>>,
                                    !.scalars = Only("mtu", 1400)]}

MCDHCPAnswers ==
  {[ip |-> "l4", len |-> 24, routes |-> <<Route("net4", "gwLease", "", UniverseScope, 0)>>]}

HostRoute(dst, gw, src, scope, table, kernel, linkLocal) ==
  [dst |-> dst, gw |-> gw, src |-> src, scope |-> scope, table |-> table,
   kernel |-> kernel, linkLocal |-> linkLocal]

MCHostRoutes ==
  nic :> <<HostRoute("net4", "", "h4", LinkScope, MainTable, TRUE, FALSE),
           HostRoute("net4", "gw4", "h4", UniverseScope, 100, FALSE, FALSE),
           HostRoute("net6", "", "", UniverseScope, MainTable, TRUE, FALSE),
           HostRoute("h4", "", "h4", LinkScope, LocalTable, TRUE, FALSE)>>
  @@ vf :> <<HostRoute("net4", "gw4", "", UniverseScope, 100, FALSE, FALSE)>>
  @@ ib :> <<>>
MCHostAddresses ==
  nic :> <<[ip |-> "h4", len |-> 24, scope |-> UniverseScope],
           [ip |-> "ll", len |-> 64, scope |-> LinkScope]>>
  @@ vf :> <<>> @@ ib :> <<>>
MCHostRules == <<Rule("h4", 100), Rule("", MainTable)>>
MCHostNeighbors == nic :> <<Neighbor("gw4", "m0")>> @@ vf :> <<>> @@ ib :> <<>>
MCPFMTU == nic :> Nil @@ vf :> 4000 @@ ib :> Nil
=============================================================================

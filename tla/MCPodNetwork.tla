---------------------------- MODULE MCPodNetwork ----------------------------
\* A pod with an interface of its own and a child of another one, each with a
\* handful of configurations, and a third device whose MTU is too small for IPv6.
EXTENDS PodNetwork

CONSTANTS nic, parent, small

Plain == [sub |-> FALSE, mtu |-> Nil, addrGenMode |-> FALSE, arp |-> FALSE, acceptRA |-> Nil,
          addrs |-> <<>>, ethtool |-> FALSE, ebpf |-> FALSE, vrf |-> NoVRF,
          routes |-> <<>>, rules |-> <<>>, neighbors |-> <<>>, rdma |-> FALSE]
Child == [Plain EXCEPT !.sub = TRUE]
V4(onLink) == [ip |-> "a4", v6 |-> FALSE, onLink |-> onLink]
V6 == [ip |-> "a6", v6 |-> TRUE, onLink |-> {"g6"}]
Red == [name |-> "red", table |-> 1017]

Link(dst, table) == [dst |-> dst, gw |-> "", scope |-> LinkScope, table |-> table]
Via(dst, gw, table) == [dst |-> dst, gw |-> gw, scope |-> 0, table |-> table]

\* A /32 address: the gateway is behind a link scope route that is stored after
\* the route that needs it; one destination in two tables.
Gateways == <<Via("net", "g4", 0), Link("g4", 0), Via("net", "g4", 7)>>

MCConfigs ==
  nic :> {[Plain EXCEPT !.addrs = <<V4({})>>, !.routes = Gateways, !.rules = <<"r1">>,
                        !.neighbors = <<"g4">>, !.arp = TRUE],
          [Plain EXCEPT !.addrs = <<V4({}), V6>>, !.vrf = Red, !.routes = <<Via("net6", "g6", 0)>> \o Gateways,
                        !.acceptRA = 0, !.addrGenMode = TRUE],
          [Plain EXCEPT !.ethtool = TRUE, !.ebpf = TRUE, !.rdma = TRUE]}
  @@ parent :> {[Child EXCEPT !.addrs = <<V4({"g4"})>>, !.routes = <<Via("net", "g4", 0)>>, !.arp = TRUE],
                [Child EXCEPT !.addrs = <<V6>>, !.vrf = Red, !.addrGenMode = TRUE,
                              !.routes = <<Via("net6", "g6", 7)>>],
                [Child EXCEPT !.mtu = 9000]}
  @@ small :> {[Plain EXCEPT !.acceptRA = 2], [Plain EXCEPT !.addrs = <<V6>>, !.vrf = Red],
               [Plain EXCEPT !.addrGenMode = TRUE], [Plain EXCEPT !.addrs = <<V6>>],
               [Plain EXCEPT !.mtu = 1500, !.acceptRA = 2],
               [Plain EXCEPT !.routes = <<Link("g4", 0), Via("net9", "g4", 0)>>]}
MCHostMTU == nic :> 1500 @@ parent :> 1500 @@ small :> 1000
=============================================================================

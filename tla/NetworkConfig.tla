---------------------------- MODULE NetworkConfig ----------------------------
(***************************************************************************)
(* The NetworkConfig of pkg/apis: how a user's configuration is merged     *)
(* over a provider's (config_merge.go), defaulted (defaults.go) and        *)
(* validated (validation.go).  Addresses, networks and gateways are names; *)
(* V6 tells which of them are IPv6.  A string of the API that does not     *)
(* parse is an input of its own (`ok' in DeviceConfiguration), so what is  *)
(* here are the checks on parsed values.                                   *)
(*                                                                         *)
(* The optional scalars of InterfaceConfig are Go pointers.  Four stand    *)
(* for all of them: one with an ordinary range (mtu), one whose zero is    *)
(* meaningful (acceptRA), the one MergeNetworkConfig treats by hand        *)
(* (addrGenMode) and the Boolean that is folded away (dhcp: 0 and 1).      *)
(***************************************************************************)
EXTENDS Integers, Sequences, SequencesExt

CONSTANTS
  Names,            \* the strings of the API: names, modes, addresses, networks
  V6,               \* those that are IPv6 addresses or networks
  TableHash,        \* FNV-1a of the names of VRFs
  MinMTU, MinIPv6MTU,
  MaxTableID        \* 2^32 - 1 in the code

\* A nil pointer, and no vrf object at all: an empty one is [name |-> "", table |-> Nil].
Nil == -1
Scalars == {"mtu", "acceptRA", "addrGenMode", "dhcp"}
NoScalars == [f \in Scalars |-> Nil]
NoVRF == [name |-> "", table |-> -2]
RouteTableOffset == 1000
RouteTableRange == 2^30
ReservedTables == 253 .. 255
MainTable == 254
LocalTable == 255
UniverseScope == 0
LinkScope == 253

PrefixAddresses == [ip : Names, len : Nat]
Routes == [dst : Names, gw : Names, src : Names, scope : Int, table : Int]
Rules == [priority : Int, src : Names, dst : Names, table : Int]
Neighbors == [dst : Names, mac : Names]
NetworkConfigs ==
  [profile : Names, type : Names, addressing : Names, addresses : Seq(PrefixAddresses),
   scalars : [Scalars -> Int], vrf : [name : DOMAIN TableHash \union {""}, table : Int], ipvlan : BOOLEAN,
   routes : Seq(Routes), rules : Seq(Rules), neighbors : Seq(Neighbors)]

ASSUME TableAssumption ==
  /\ {"", "DHCP"} \subseteq Names
  /\ DOMAIN TableHash \subseteq Names /\ \A name \in DOMAIN TableHash : TableHash[name] \in Nat
  /\ MaxTableID \in Nat /\ MinIPv6MTU \in Nat /\ MinMTU \in Nat

EmptyConfig == [profile |-> "", type |-> "", addressing |-> "", addresses |-> <<>>,
                scalars |-> NoScalars, vrf |-> NoVRF, ipvlan |-> FALSE,
                routes |-> <<>>, rules |-> <<>>, neighbors |-> <<>>]

IsSubinterface(c) == c.type = "IPVLAN"
SameIPFamily(a, b) == (a \in V6) = (b \in V6)
RouteKey(r) == <<r.dst, r.table>>

----------------------------------------------------------------------------
\* MergeNetworkConfig.

\* mergo's override of one value by another: an empty value overrides nothing.
Override(user, cloud, empty) == IF user \in empty THEN cloud ELSE user

\* mergo on a pointer: a nil destination takes the source's pointer; otherwise
\* what it points to is overridden, unless the source points to a zero.
OverridePointer(user, cloud) ==
  IF cloud = Nil THEN user ELSE Override(user, cloud, {Nil, 0})

\* The numbers of a set from the least to the greatest, and what a sequence has
\* at these positions.
InOrder(I) == [k \in 1 .. Cardinality(I) |-> CHOOSE i \in I : Cardinality({j \in I : j <= i}) = k]
Kept(s, I) == [k \in 1 .. Cardinality(I) |-> s[InOrder(I)[k]]]

\* The last occurrence of every key, in the order of the slice.
Deduplicate(s, key) ==
  Kept(s, {i \in DOMAIN s : \A j \in DOMAIN s : j > i => key[j] # key[i]})

DeduplicateStrings(s)   == Deduplicate(s, s)

RouteKeys(s) == [i \in DOMAIN s |-> RouteKey(s[i])]

\* Of routes with one key, the first one: the provider's.
DeduplicateRoutesFirst(s) == Reverse(Deduplicate(Reverse(s), RouteKeys(Reverse(s))))
DeduplicateRoutes(s)    == Deduplicate(s, RouteKeys(s))

DeduplicateRules(s)     == Deduplicate(s, s)
DeduplicateNeighbors(s) == Deduplicate(s, [i \in DOMAIN s |-> s[i].dst])

MergeScalars(user, cloud) ==
  [f \in Scalars |-> IF f = "addrGenMode" THEN Override(user[f], cloud[f], {Nil})
                     ELSE OverridePointer(user[f], cloud[f])]

MergeVRF(user, cloud) ==
  CASE user = NoVRF  -> cloud
    [] cloud = NoVRF -> user
    [] OTHER         -> [name  |-> Override(user.name, cloud.name, {""}),
                         table |-> OverridePointer(user.table, cloud.table)]

MergeNetworkConfig(user, cloud) ==
  LET type == Override(user.type, cloud.type, {""})
  IN  [profile    |-> Override(user.profile, cloud.profile, {""}),
       type       |-> type,
       addressing |-> Override(user.addressing, cloud.addressing, {""}),
       addresses  |-> DeduplicateStrings(cloud.addresses \o user.addresses),
       scalars    |-> MergeScalars(user.scalars, cloud.scalars),
       vrf        |-> MergeVRF(user.vrf, cloud.vrf),
       ipvlan     |-> (user.ipvlan \/ cloud.ipvlan) /\ type = "IPVLAN",
       routes     |-> DeduplicateRoutes(cloud.routes \o user.routes),
       rules      |-> DeduplicateRules(cloud.rules \o user.rules),
       neighbors  |-> DeduplicateNeighbors(cloud.neighbors \o user.neighbors)]

\* What the merge leaves in the cloud configuration: the first merge copies its
\* pointers, only addrGenMode gets a value of its own, and the second one writes
\* the user's values through the others.
WrittenThrough(user, cloud) ==
  [cloud EXCEPT
     !.scalars = [f \in Scalars |->
                    IF f = "addrGenMode" \/ cloud.scalars[f] = Nil THEN cloud.scalars[f]
                    ELSE OverridePointer(user.scalars[f], cloud.scalars[f])],
     !.vrf = IF cloud.vrf = NoVRF THEN NoVRF ELSE MergeVRF(user.vrf, cloud.vrf)]

----------------------------------------------------------------------------
\* Default.

TableIDForName(name) == (TableHash[name] % RouteTableRange) + RouteTableOffset

DefaultVRF(v) ==
  IF v.table = Nil /\ v.name # "" THEN [v EXCEPT !.table = TableIDForName(v.name)] ELSE v

Default(c) ==
  [c EXCEPT
     !.addressing = IF @ = "" /\ c.scalars["dhcp"] = 1 THEN "DHCP" ELSE @,
     !.ipvlan     = @ \/ c.type = "IPVLAN",
     !.vrf        = DefaultVRF(@)]

\* What Default leaves in the cloud configuration when the merged one still has
\* its vrf object: the derived table too.  (So with the mode and the flag of its
\* ipvlan object, of which only the presence is modelled.)
DefaultedThrough(cloud) == [cloud EXCEPT !.vrf = DefaultVRF(@)]

----------------------------------------------------------------------------
\* Validate, on a defaulted configuration.

\* What the kernel compares: an IPv4 address with its prefix length, an IPv6
\* address without.
AddressKey(a) == IF a.ip \in V6 THEN <<a.ip, 128>> ELSE <<a.ip, a.len>>

ValidAddresses(s) ==
  \A i, j \in DOMAIN s : AddressKey(s[i]) = AddressKey(s[j]) => i = j

ValidSubinterface(c) == c.addressing # "DHCP" /\ c.scalars["dhcp"] # 1

ValidVRF(v) ==
  /\ v.name # ""
  /\ v.table # Nil => v.table \in 1 .. MaxTableID /\ v.table \notin ReservedTables

ValidInterface(c) ==
  LET s == c.scalars
      ipv6Allowed == s["mtu"] # Nil => s["mtu"] >= MinIPv6MTU
  IN
  /\ c.type \in {"", "Passthrough", "IPVLAN"}
  /\ IsSubinterface(c) => ValidSubinterface(c)
  /\ c.addressing \in {"", "Static", "DHCP", "Unnumbered"}
  /\ s["dhcp"] = 1 => c.addressing \in {"", "DHCP"}
  /\ c.addressing = "Unnumbered" => IsSubinterface(c) /\ c.addresses = <<>>
  /\ ValidAddresses(c.addresses)
  /\ (c.addressing = "DHCP" \/ s["dhcp"] = 1) => c.addresses = <<>>
  /\ s["mtu"] # Nil => s["mtu"] >= MinMTU
  /\ s["addrGenMode"] # Nil => s["addrGenMode"] \in 0 .. 3 /\ ipv6Allowed
  /\ s["acceptRA"] # Nil => s["acceptRA"] \in 0 .. 2 /\ ipv6Allowed
  /\ c.vrf # NoVRF => ValidVRF(c.vrf)
  /\ c.ipvlan => c.type = "IPVLAN"

ValidRoutes(routes) ==
  \A i \in DOMAIN routes : LET r == routes[i] IN
    /\ r.dst # ""
    /\ r.scope \in {UniverseScope, LinkScope}
    /\ r.gw = "" => r.scope = LinkScope
    /\ r.gw # "" => SameIPFamily(r.dst, r.gw)
    /\ r.src # "" => SameIPFamily(r.dst, r.src)
    /\ r.table \in 0 .. MaxTableID

ValidRules(rules) ==
  \A i \in DOMAIN rules : LET r == rules[i] IN
    /\ r.priority \in 0 .. 32767
    /\ r.table \in 0 .. MaxTableID
    /\ r.src # "" /\ r.dst # "" => SameIPFamily(r.src, r.dst)

ValidNeighbors(neighbors) ==
  \A i \in DOMAIN neighbors : neighbors[i].dst # "" /\ neighbors[i].mac # ""

Valid(c) ==
  /\ ValidInterface(c)
  /\ ValidRoutes(c.routes)
  /\ IF c.vrf # NoVRF THEN c.rules = <<>> ELSE ValidRules(c.rules)
  /\ ValidNeighbors(c.neighbors)

\* ValidateRDMAOnlyConfig: a device without a network interface takes nothing
\* but a profile.
ValidRDMAOnly(c) == c = [EmptyConfig EXCEPT !.profile = c.profile]
=============================================================================

------------------------- MODULE OKEProfileProofs -------------------------
(***************************************************************************)
(* What the address arithmetic of the OKE profile promises, for every      *)
(* address width, RDMA network, child range, subnet and host; and what the *)
(* provider's grants have, for any NICs, nodes, claims and requests.       *)
(***************************************************************************)
EXTENDS OKEProfile, WellFoundedInduction, FiniteSetTheorems, TLAPS

-----------------------------------------------------------------------------
(* Addresses.                                                              *)

VNICs == {v \in [ip : 0..(2^Width - 1), subnet : Prefixes] : ValidateVNIC(v)}

\* The size of a prefix is a positive number.
LEMMA SizeType ==
  ASSUME NEW p \in Prefixes
  PROVE  Size(p) \in Nat \ {0} /\ p.base \in Nat /\ p.bits \in 0..Width
<1>1. 2^Width \in Nat
  BY WidthAssumption
<1>2. p.bits \in 0..Width /\ p.base \in 0..(2^Width - 1)
  BY DEF Prefixes
<1>3. Width - p.bits \in 0..Width
  BY <1>2, WidthAssumption
<1> QED
  BY <1>1, <1>2, <1>3, WidthAssumption DEF Size

\* Quotient and remainder by a block size are unique.
LEMMA UniqueQuotient ==
  ASSUME NEW s \in Nat \ {0}, NEW i \in Nat, NEW j \in Nat,
         NEW a \in 0..s-1, NEW b \in 0..s-1, i * s + a = j * s + b
  PROVE  i = j /\ a = b
<1>1. ASSUME NEW m \in Nat, NEW n \in Nat, NEW c \in 0..s-1, NEW d \in 0..s-1,
             m * s + c = n * s + d, m < n
      PROVE  FALSE
  <2>1. PICK k \in Nat : n = m + 1 + k
    BY <1>1
  <2>2. n * s = m * s + s + k * s
    BY <2>1
  <2>3. k * s \in Nat /\ m * s \in Nat
    BY <2>1
  <2> QED
    BY <2>2, <2>3, <1>1
<1>2. ~(i < j) /\ ~(j < i)
  BY <1>1
<1>3. i = j
  BY <1>2
<1> QED
  BY <1>3

\* Division gives back the quotient and the remainder a number was built of.
LEMMA DivMod ==
  ASSUME NEW s \in Nat \ {0}, NEW i \in Nat, NEW a \in 0..s-1
  PROVE  (i * s + a) % s = a /\ (i * s + a) \div s = i
<1> DEFINE x == i * s + a
           q == x \div s
           r == x % s
<1>1. x \in Nat
  OBVIOUS
<1>2. q \in Nat /\ r \in 0..s-1 /\ x = q * s + r
  BY <1>1
<1> QED
  BY <1>2, UniqueQuotient

\* A number is its quotient times the block size plus its remainder.
LEMMA Division ==
  ASSUME NEW s \in Nat \ {0}, NEW x \in Nat
  PROVE  x \div s \in Nat /\ x % s \in 0..s-1 /\ x = (x \div s) * s + (x % s)
OBVIOUS

\* The position of a VNIC in its subnet is below the size of the subnet.
LEMMA PositionType ==
  ASSUME NEW v \in VNICs
  PROVE  /\ v.subnet \in Prefixes
         /\ Size(v.subnet) \in Nat \ {0}
         /\ HostPosition(v) \in 0..(Size(v.subnet) - 1)
<1>1. v.subnet \in Prefixes /\ v.ip \in 0..(2^Width - 1) /\ ValidateVNIC(v)
  BY DEF VNICs
<1>2. 2^Width \in Nat
  BY WidthAssumption
<1> QED
  BY <1>1, <1>2, SizeType DEF ValidateVNIC, Contains, HostPosition

\* Offsets are natural numbers.
LEMMA OffsetType ==
  ASSUME NEW v \in VNICs, NEW i \in Nat
  PROVE  OCAOffset(v, i) \in Nat
<1>1. Size(v.subnet) \in Nat /\ HostPosition(v) \in Nat
  BY PositionType
<1>2. i * Size(v.subnet) \in Nat
  BY <1>1
<1> QED
  BY <1>1, <1>2 DEF OCAOffset

\* A child that deriveRDMAIPv4 returns lies in the child range, and neither in
\* the OCA RDMA network nor in the subnet of the primary VNIC: it can be no
\* host's parent address and no neighbour of this host in its subnet.
THEOREM ChildStaysInItsRange ==
  ASSUME NEW v \in VNICs, NEW i \in Nat,
         NEW parentRange \in Prefixes, NEW childRange \in Prefixes,
         DerivesChild(v, i, parentRange, childRange)
  PROVE  LET child == ChildIPv4(v, i, childRange)
         IN /\ Contains(childRange, child)
            /\ ~Contains(parentRange, child)
            /\ ~Contains(v.subnet, child)
            /\ \A special \in SpecialRanges : ~Contains(special, child)
<1> DEFINE child == ChildIPv4(v, i, childRange)
<1>1. OCAOffset(v, i) \in Nat /\ OCAOffset(v, i) < Size(childRange)
  BY OffsetType DEF DerivesChild
<1>2. childRange.base \in Nat /\ Size(childRange) \in Nat
  BY SizeType
<1>3. child \in Nat /\ Contains(childRange, child)
  BY <1>1, <1>2 DEF ChildIPv4, Contains
<1>4. ASSUME NEW p \in Prefixes, ~Overlaps(p, childRange) \/ ~Overlaps(childRange, p)
      PROVE  ~Contains(p, child)
  <2>1. p.base \in Nat /\ Size(p) \in Nat
    BY SizeType
  <2> QED
    BY <1>2, <1>3, <1>4, <2>1 DEF Overlaps, Contains
<1>5. ~Contains(parentRange, child)
  BY <1>4 DEF DerivesChild
<1>6. ~Contains(v.subnet, child)
  BY <1>4, PositionType DEF DerivesChild
<1>7. \A special \in SpecialRanges : ~Contains(special, child)
  BY <1>4, OKEConstantsAssumption DEF DerivesChild, ValidateChildIPv4Range
<1> QED
  BY <1>3, <1>5, <1>6, <1>7

\* Hosts that share the OCA network and the child range cannot derive one child
\* for two parents: children collide only where OCA itself has already given
\* one address to two NICs.  The hosts may be in different subnets, of
\* different sizes.
THEOREM ChildrenCollideOnlyWithParents ==
  ASSUME NEW v \in VNICs, NEW w \in VNICs, NEW i \in Nat, NEW j \in Nat,
         NEW parentRange \in Prefixes, NEW childRange \in Prefixes,
         ChildIPv4(v, i, childRange) = ChildIPv4(w, j, childRange)
  PROVE  ParentIPv4(v, i, parentRange) = ParentIPv4(w, j, parentRange)
<1>1. OCAOffset(v, i) \in Nat /\ OCAOffset(w, j) \in Nat /\ childRange.base \in Nat
  BY OffsetType, SizeType
<1>2. OCAOffset(v, i) = OCAOffset(w, j)
  BY <1>1 DEF ChildIPv4
<1> QED
  BY <1>2 DEF ParentIPv4

\* Among the hosts of one subnet no two NICs have one child: equal children
\* are the same NIC number of the same host.
THEOREM ChildrenOfSubnetAreDistinct ==
  ASSUME NEW v \in VNICs, NEW w \in VNICs, NEW i \in Nat, NEW j \in Nat,
         NEW childRange \in Prefixes, v.subnet = w.subnet,
         ChildIPv4(v, i, childRange) = ChildIPv4(w, j, childRange)
  PROVE  i = j /\ v.ip = w.ip
<1> DEFINE s == Size(v.subnet)
<1>1. OCAOffset(v, i) \in Nat /\ OCAOffset(w, j) \in Nat /\ childRange.base \in Nat
  BY OffsetType, SizeType
<1>2. OCAOffset(v, i) = OCAOffset(w, j)
  BY <1>1 DEF ChildIPv4
<1>3. s \in Nat \ {0} /\ HostPosition(v) \in 0..s-1 /\ HostPosition(w) \in 0..s-1
  BY PositionType
<1>4. i * s + HostPosition(v) = j * s + HostPosition(w)
  BY <1>2 DEF OCAOffset
<1>5. i = j /\ HostPosition(v) = HostPosition(w)
  BY <1>3, <1>4, UniqueQuotient
<1>6. v.ip \in 0..(2^Width - 1) /\ w.ip \in 0..(2^Width - 1) /\ v.subnet.base \in Nat
  BY PositionType, SizeType DEF VNICs
<1>7. 2^Width \in Nat
  BY WidthAssumption
<1> QED
  BY <1>5, <1>6, <1>7 DEF HostPosition

\* rdmaNicIndexFromAddress inverts deriveOCAParentIPv4: the address of NIC i,
\* found on an interface without an rdmaN name, gives index i back.
THEOREM IndexFromDerivedAddress ==
  ASSUME NEW v \in VNICs, NEW i \in Nat, NEW parentRange \in Prefixes,
         DerivesParent(v, i, parentRange)
  PROVE  LET a == ParentIPv4(v, i, parentRange)
         IN /\ InvertsAddress(v, a, parentRange)
            /\ NicIndexFromAddress(v, a, parentRange) = i
<1> DEFINE a == ParentIPv4(v, i, parentRange)
           s == Size(v.subnet)
<1>1. OCAOffset(v, i) \in Nat /\ parentRange.base \in Nat /\ Size(parentRange) \in Nat
  BY OffsetType, SizeType
<1>2. s \in Nat \ {0} /\ HostPosition(v) \in 0..s-1
  BY PositionType
<1>3. a - parentRange.base = i * s + HostPosition(v)
  BY <1>1 DEF ParentIPv4, OCAOffset
<1>4. Contains(parentRange, a)
  BY <1>1 DEF Contains, ParentIPv4, DerivesParent
<1>5. (a - parentRange.base) % s = HostPosition(v) /\ (a - parentRange.base) \div s = i
  BY <1>2, <1>3, DivMod
<1> QED
  BY <1>4, <1>5 DEF InvertsAddress, NicIndexFromAddress, DerivesParent

\* An address that inverts to index i is the address derived for i, so an
\* interface whose index comes from its address passes checkParentAddress.
THEOREM DerivedFromIndexOfAddress ==
  ASSUME NEW v \in VNICs, NEW parentRange \in Prefixes, NEW a \in Nat,
         InvertsAddress(v, a, parentRange)
  PROVE  LET i == NicIndexFromAddress(v, a, parentRange)
         IN i \in Nat /\ ParentIPv4(v, i, parentRange) = a
<1> DEFINE s == Size(v.subnet)
           x == a - parentRange.base
<1>1. parentRange.base \in Nat /\ Size(parentRange) \in Nat /\ s \in Nat \ {0}
  BY SizeType, PositionType
<1>2. x \in Nat /\ x % s = HostPosition(v)
  BY <1>1 DEF InvertsAddress, Contains
<1>3. x \div s \in Nat /\ x = (x \div s) * s + (x % s)
  BY <1>1, <1>2, Division
<1>4. (x \div s) * s + HostPosition(v) = x
  <2> HIDE DEF x, s
  <2> QED BY <1>2, <1>3
<1>5. OCAOffset(v, x \div s) = x
  BY <1>4 DEF OCAOffset
<1> QED
  BY <1>1, <1>2, <1>3, <1>5 DEF ParentIPv4, NicIndexFromAddress

-----------------------------------------------------------------------------
(* The provider.                                                           *)

\* A set of natural numbers has a least one.
LEMMA HasLeast ==
  ASSUME NEW T, T \subseteq Nat, T # {}
  PROVE  Min(T) \in T /\ \A y \in T : Min(T) <= y
<1> DEFINE R == {ss \in Nat \X Nat : ss[1] < ss[2]}
<1>1. IsWellFoundedOn(R, Nat)
  BY NatLessThanWellFounded DEF OpToRel
<1>2. PICK x \in T : \A y \in T : ~(<<y, x>> \in R)
  <2> HIDE DEF R
  <2> QED
    BY <1>1, WFMin
<1>3. \A y \in T : ~(y < x)
  BY <1>2
<1>4. \A y \in T : x <= y
  BY <1>3
<1> QED
  BY <1>4 DEF Min

\* What is known of a claim, of the addresses of a NIC, and of a grant.
IsClaim(c) ==
  /\ c = [f \in {"uid", "req", "grant"} |-> c[f]]
  /\ c.uid \in Claims /\ c.req \in Requests

AddressesOf(n) ==
  /\ addrs[n] \in Seq(Nat)
  /\ \A k \in DOMAIN addrs[n] :
       \/ addrs[n][k] = ForeignAddr
       \/ n \in node.nics /\ NicKind[n] \in {"rdma", "plain"} /\ addrs[n][k] = node.layout[n]

HasAddress(n, a) == \E k \in DOMAIN addrs[n] : addrs[n][k] = a

\* A grant on an IPv4 fabric is for an index at whose address the NIC is.
GrantOfIndex(n, i) ==
  /\ NicKind[n] # "vf" /\ i < MaxNics /\ ValidateVNIC(node.vnic)
  /\ claims[n].grant.host = ChildIPv4(node.vnic, i, node.childRange)
  /\ claims[n].grant.table \in {NoTable, SBRTableBase + i}
  /\ Contains(node.parentRange, ParentIPv4(node.vnic, i, node.parentRange))
  /\ HasAddress(n, ParentIPv4(node.vnic, i, node.parentRange))

GrantOfNumber(n) ==
  /\ NicKind[n] \in {"rdma", "vf"} /\ IndexSupported(NicIndex[n])
  /\ claims[n].grant.table \in {NoTable, TableIPv6(n)}

GrantOK(n) == IF node.v6 THEN GrantOfNumber(n) ELSE \E i \in Nat : GrantOfIndex(n, i)

\* The cached subnets are as new as their age says.
CacheOK ==
  /\ vnicCache \in [age : 0..MaxAge, seen : {"none", "failed", "clear", "conflict"}]
  /\ conflict \in [kind : {"none", "vnic", "route"}, age : 0..MaxAge]
  /\ vnicCache.seen = "none" => vnicCache.age = MaxAge
  /\ conflict.kind = "vnic" /\ vnicCache.age < conflict.age => vnicCache.seen # "clear"

OKEInv ==
  /\ node \in Nodes /\ present \subseteq node.nics
  /\ phase \in {"new", "polling", "running", "failed"}
  /\ addressFallback \in BOOLEAN /\ layoutValidated \in BOOLEAN
  /\ metadata \in [{"fabric", "vnic"} -> BOOLEAN]
  /\ CacheOK
  /\ advertised \in [Nics -> {"none", "guard", "ipvlan"}]
  /\ addrs = [n \in Nics |-> addrs[n]] /\ \A n \in Nics : AddressesOf(n)
  /\ v6addrs \in [Nics -> {{}} \union {s.addrs : s \in V6States}]
  /\ claims = [n \in Nics |-> claims[n]] /\ \A n \in Nics : claims[n] # NoClaim => IsClaim(claims[n])
  /\ \A n \in Grants : GrantOK(n)

LEMMA NoMetadataType == NoMetadata \in [{"fabric", "vnic"} -> BOOLEAN]
<1>1. NoMetadata = [f \in {"fabric", "vnic"} |-> NoMetadata[f]]
  BY DEF NoMetadata
<1>2. NoMetadata["fabric"] \in BOOLEAN /\ NoMetadata["vnic"] \in BOOLEAN
  BY DEF NoMetadata
<1>3. QED
  BY <1>1, <1>2

LEMMA OKEInit == Init => OKEInv
<1> SUFFICES ASSUME Init PROVE OKEInv
  OBVIOUS
<1>1. Grants = {}
  BY DEF Init, Grants
<1>2. CacheOK
  BY ProfileAssumption DEF Init, CacheOK, NoRead, NoConflict
<1>3. \A n \in Nics : AddressesOf(n)
  BY DEF Init, AddressesOf
<1>4. metadata \in [{"fabric", "vnic"} -> BOOLEAN]
  BY NoMetadataType DEF Init
<1>5. QED
  BY <1>1, <1>2, <1>3, <1>4, ProfileAssumption DEF Init, OKEInv

\* The grants stay what they are as long as the claims do and addresses only come.
LEMMA GrantsKept ==
  ASSUME OKEInv, UNCHANGED <<node, claims>>,
         \A n \in Nics : \A a : HasAddress(n, a) => HasAddress(n, a)'
  PROVE  \A n \in Grants' : GrantOK(n)'
<1> SUFFICES ASSUME NEW n \in Grants' PROVE GrantOK(n)'
  OBVIOUS
<1>1. n \in Nics /\ GrantOK(n)
  BY DEF OKEInv, Grants
<1>2. CASE node.v6
  BY <1>1, <1>2 DEF GrantOK, GrantOfNumber
<1>3. CASE ~node.v6
  <2>1. PICK i \in Nat : GrantOfIndex(n, i)
    BY <1>1, <1>3 DEF GrantOK
  <2>2. GrantOfIndex(n, i)'
    BY <1>1, <2>1 DEF GrantOfIndex
  <2>3. QED
    BY <1>3, <2>2 DEF GrantOK
<1>4. QED
  BY <1>2, <1>3

\* What a new grant needs to fit in.
LEMMA OneGrant ==
  ASSUME OKEInv, NEW n \in Nics, NEW g, claims[n] # NoClaim,
         claims' = [claims EXCEPT ![n].grant = g], UNCHANGED <<node, addrs>>
  PROVE  /\ claims' = [m \in Nics |-> claims'[m]] /\ IsClaim(claims'[n]) /\ claims'[n].grant = g
         /\ claims'[n].uid = claims[n].uid
         /\ \A m \in Nics \ {n} : claims'[m] = claims[m]
         /\ \A m \in Grants' \ {n} : GrantOK(m)'
<1>1. IsClaim(claims[n])
  BY DEF OKEInv
<1>2. claims' = [m \in Nics |-> claims'[m]] /\ \A m \in Nics \ {n} : claims'[m] = claims[m]
  BY DEF OKEInv
<1>3. claims'[n] = [claims[n] EXCEPT !.grant = g]
  BY DEF OKEInv
<1>4. IsClaim(claims'[n]) /\ claims'[n].grant = g /\ claims'[n].uid = claims[n].uid
  BY <1>1, <1>3 DEF IsClaim
<1>5. ASSUME NEW m \in Grants' \ {n} PROVE GrantOK(m)'
  <2>1. m \in Nics /\ claims'[m] = claims[m] /\ GrantOK(m)
    BY <1>2, <1>5 DEF OKEInv, Grants
  <2>2. CASE node.v6
    BY <2>1, <2>2 DEF GrantOK, GrantOfNumber
  <2>3. CASE ~node.v6
    <3>1. PICK i \in Nat : GrantOfIndex(m, i)
      BY <2>1, <2>3 DEF GrantOK
    <3>2. GrantOfIndex(m, i)'
      BY <2>1, <3>1 DEF GrantOfIndex, HasAddress
    <3>3. QED
      BY <2>3, <3>2 DEF GrantOK
  <2>4. QED
    BY <2>2, <2>3
<1>6. QED
  BY <1>2, <1>4, <1>5

\* The first address of a NIC in the OCA network is one of its addresses.
LEMMA FirstAddress ==
  ASSUME OKEInv, NEW n \in Nics, InRange(n) # {}
  PROVE  /\ AddressIn(n) \in Nat /\ HasAddress(n, AddressIn(n))
         /\ Contains(node.parentRange, AddressIn(n))
<1>1. addrs[n] \in Seq(Nat)
  BY DEF OKEInv, AddressesOf
<1>2. InRange(n) \subseteq Nat
  BY <1>1 DEF InRange
<1>3. Min(InRange(n)) \in InRange(n)
  BY <1>2, HasLeast
<1>4. PICK k \in DOMAIN addrs[n] : k = Min(InRange(n)) /\ Contains(node.parentRange, addrs[n][k])
  BY <1>3 DEF InRange
<1>5. addrs[n][k] \in Nat
  BY <1>1
<1>6. QED
  BY <1>4, <1>5 DEF AddressIn, HasAddress

\* The index of a NIC, from its name or its address, is a natural number.
LEMMA IndexType ==
  ASSUME OKEInv, NEW n \in Nics, HasIndex(n)
  PROVE  ResolveIndex(n) \in Nat
<1>1. CASE NicKind[n] \in NamedKinds
  BY <1>1, ProfileAssumption DEF ResolveIndex
<1>2. CASE NicKind[n] \notin NamedKinds
  <2>1. InRange(n) # {} /\ InvertsAddress(node.vnic, AddressIn(n), node.parentRange)
    BY <1>2 DEF HasIndex
  <2>2. node.vnic \in VNICs /\ node.parentRange \in Prefixes
    BY <2>1, ProfileAssumption DEF OKEInv, VNICs, InvertsAddress
  <2>3. NicIndexFromAddress(node.vnic, AddressIn(n), node.parentRange) \in Nat
    BY <2>1, <2>2, FirstAddress, DerivedFromIndexOfAddress
  <2>4. QED
    BY <1>2, <2>3 DEF ResolveIndex
<1>3. QED
  BY <1>1, <1>2

LEMMA CacheRead ==
  ASSUME CacheOK, NEW answer \in {"ok", "fails"}, conflict' = conflict, vnicCache' = ReadVNICSubnets(answer)
  PROVE  /\ CacheOK'
         /\ conflict.kind = "vnic" /\ conflict.age >= MaxAge => vnicCache'.seen # "clear"
         /\ vnicCache'.seen # "none"
<1>1. MaxAge \in Nat
  BY ProfileAssumption
<1>2. CASE vnicCache.age < MaxAge
  BY <1>1, <1>2 DEF CacheOK, ReadVNICSubnets
<1>3. CASE ~(vnicCache.age < MaxAge)
  BY <1>1, <1>3 DEF CacheOK, ReadVNICSubnets
<1>4. QED
  BY <1>2, <1>3

LEMMA IPv4Step ==
  ASSUME OKEInv, NEW n \in Nics, NEW vnics \in {"ok", "fails"}, NEW routes \in {"ok", "fails"},
         GetProfileConfigIPv4(n, vnics, routes)
  PROVE  /\ OKEInv'
         /\ conflict.kind = "vnic" /\ conflict.age >= MaxAge /\ Grants' # Grants => vnicCache'.seen = "failed"
<1> DEFINE index == ResolveIndex(n)
<1>1. /\ UNCHANGED <<hostVars, phase, addressFallback, metadata, advertised>>
      /\ vnicCache' = ReadVNICSubnets(vnics) /\ DerivesIPv4(n)
  BY DEF GetProfileConfigIPv4
<1>2. CacheOK' /\ (conflict.kind = "vnic" /\ conflict.age >= MaxAge => vnicCache'.seen # "clear")
      /\ vnicCache'.seen # "none"
  BY <1>1, CacheRead DEF OKEInv, hostVars
<1>3. CASE UNCHANGED <<layoutValidated, claims>>
  <2>1. \A m \in Grants' : GrantOK(m)'
    BY <1>1, <1>3, GrantsKept DEF hostVars, HasAddress
  <2>2. Grants' = Grants
    BY <1>3 DEF Grants
  <2>3. QED
    BY <1>1, <1>2, <1>3, <2>1, <2>2 DEF OKEInv, hostVars, AddressesOf
<1>4. ASSUME ChildRangeFree(ReadVNICSubnets(vnics), routes),
             CheckParentAddress(n, ParentIPv4(node.vnic, index, node.parentRange)),
             layoutValidated' = (layoutValidated \/ AddressMode = ""),
             Granted(n, "ipv4", ChildIPv4(node.vnic, index, node.childRange),
                     IF UserRouting(claims[n].req) THEN NoTable ELSE SBRTableBase + index, NoGateway)
      PROVE  /\ OKEInv'
             /\ conflict.kind = "vnic" /\ conflict.age >= MaxAge => vnicCache'.seen = "failed"
  <2>1. /\ HasIndex(n) /\ DerivesChild(node.vnic, index, node.parentRange, node.childRange)
        /\ claims[n] # NoClaim /\ ~node.v6 /\ ~IsRailVF(n)
    BY <1>1 DEF DerivesIPv4, ProfileApplies, Waiting
  <2>2. index \in Nat
    BY <2>1, IndexType
  <2>3. node.vnic \in VNICs /\ node.parentRange \in Prefixes /\ ValidateVNIC(node.vnic)
    BY <2>1, ProfileAssumption DEF OKEInv, VNICs, DerivesChild, DerivesParent
  <2>4. Contains(node.parentRange, ParentIPv4(node.vnic, index, node.parentRange))
    <3>1. OCAOffset(node.vnic, index) \in Nat /\ OCAOffset(node.vnic, index) < Size(node.parentRange)
      BY <2>1, <2>2, <2>3, OffsetType DEF DerivesChild, DerivesParent
    <3>2. node.parentRange.base \in Nat /\ Size(node.parentRange) \in Nat
      BY <2>3, SizeType
    <3>3. QED
      BY <3>1, <3>2 DEF ParentIPv4, Contains
  <2>5. PICK g : /\ g.host = ChildIPv4(node.vnic, index, node.childRange)
                 /\ g.table \in {NoTable, SBRTableBase + index}
                 /\ claims' = [claims EXCEPT ![n].grant = g]
    <3> DEFINE table == IF UserRouting(claims[n].req) THEN NoTable ELSE SBRTableBase + index
               g == [net |-> "ipv4", host |-> ChildIPv4(node.vnic, index, node.childRange),
                     table |-> table, gw |-> NoGateway]
    <3>1. g.host = ChildIPv4(node.vnic, index, node.childRange) /\ g.table = table
      OBVIOUS
    <3>2. table \in {NoTable, SBRTableBase + index}
      OBVIOUS
    <3>3. claims' = [claims EXCEPT ![n].grant = g]
      BY <1>4 DEF Granted
    <3>4. QED
      <4> HIDE DEF g, table
      <4> QED
        BY <3>1, <3>2, <3>3
  <2>6. /\ claims' = [m \in Nics |-> claims'[m]] /\ IsClaim(claims'[n]) /\ claims'[n].grant = g
        /\ \A m \in Nics \ {n} : claims'[m] = claims[m]
        /\ \A m \in Grants' \ {n} : GrantOK(m)'
    BY <1>1, <2>1, <2>5, OneGrant DEF hostVars
  <2>7. GrantOK(n)'
    <3>1. PICK i \in Nat : i = index
      BY <2>2
    <3>2. GrantOfIndex(n, i)'
      BY <1>1, <1>4, <2>1, <2>3, <2>4, <2>5, <2>6, <3>1
         DEF GrantOfIndex, HasAddress, CheckParentAddress, hostVars, IsRailVF, DerivesChild, IndexSupported
    <3>3. QED
      BY <1>1, <2>1, <3>2 DEF GrantOK, hostVars
  <2>8. layoutValidated' \in BOOLEAN
    BY <1>4 DEF OKEInv
  <2>9. \A m \in Nics : claims'[m] # NoClaim => IsClaim(claims'[m])
    BY <2>6 DEF OKEInv
  <2>10. OKEInv'
    BY <1>1, <1>2, <2>6, <2>7, <2>8, <2>9 DEF OKEInv, hostVars, AddressesOf
  <2>11. vnicCache'.seen # "conflict"
    BY <1>1, <1>4 DEF ChildRangeFree
  <2>12. QED
    BY <1>2, <2>10, <2>11 DEF CacheOK
<1>5. QED
  BY <1>3, <1>4 DEF GetProfileConfigIPv4

\* childIPv6Address: the child is free, whatever addresses the NIC has.
LEMMA ChildIsFree ==
  ASSUME OKEInv, NEW n \in Nics, NEW c \in Claims, NEW p \in UsablePrefixes(n)
  PROVE  /\ ChildIID(c, n, p) \notin ReservedIIDs
         /\ \A a \in v6addrs[n] : <<a.prefix, a.iid>> # <<p, ChildIID(c, n, p)>>
<1> DEFINE fits == {k \in 0..MaxCounter : /\ ~ReservedInterfaceID(Hash[c][n][k])
                                          /\ [prefix |-> p, iid |-> Hash[c][n][k]] \notin Taken(n)}
<1>1. PICK a \in v6addrs[n] : a.prefix = p
  BY DEF UsablePrefixes
<1>2. PICK s \in V6States : v6addrs[n] = s.addrs
  <2>1. v6addrs[n] \in {{}} \union {s.addrs : s \in V6States}
    BY DEF OKEInv
  <2>2. QED
    BY <1>1, <2>1
<1>3. PICK k \in 0..MaxCounter :
        /\ Hash[c][n][k] \notin ReservedIIDs
        /\ \A b \in v6addrs[n] : <<b.prefix, b.iid>> # <<p, Hash[c][n][k]>>
  BY <1>1, <1>2, HashAssumption
<1>4. k \in fits
  <2>1. ASSUME NEW b \in v6addrs[n] PROVE [prefix |-> b.prefix, iid |-> b.iid] # [prefix |-> p, iid |-> Hash[c][n][k]]
    BY <1>3, <2>1
  <2>2. QED
    BY <1>3, <2>1 DEF Taken, ReservedInterfaceID
<1>5. Min(fits) \in fits
  <2>1. fits \subseteq Nat /\ fits # {}
    BY <1>4, ProfileAssumption
  <2>2. QED
    <3> HIDE DEF fits
    <3> QED
      BY <2>1, HasLeast
<1>6. PICK m \in 0..MaxCounter : /\ m = Min(fits) /\ Hash[c][n][m] \notin ReservedIIDs
                                 /\ [prefix |-> p, iid |-> Hash[c][n][m]] \notin Taken(n)
  BY <1>5 DEF ReservedInterfaceID
<1>7. ChildIID(c, n, p) = Hash[c][n][m]
  BY <1>6 DEF ChildIID
<1>8. ASSUME NEW b \in v6addrs[n], b.prefix = p, b.iid = Hash[c][n][m] PROVE FALSE
  <2>1. [prefix |-> b.prefix, iid |-> b.iid] \in Taken(n)
    BY DEF Taken
  <2>2. QED
    BY <1>6, <1>8, <2>1
<1>9. QED
  BY <1>6, <1>7, <1>8

LEMMA IPv6Step ==
  ASSUME OKEInv, NEW n \in Nics, GetProfileConfigIPv6(n)
  PROVE  /\ OKEInv' /\ Grants' \ Grants \subseteq {n}
         /\ LET grant == claims'[n].grant
            IN /\ grant.host \notin ReservedIIDs
               /\ \A a \in v6addrs[n] : <<a.prefix, a.iid>> # <<grant.net, grant.host>>
               /\ \E a \in v6addrs[n] : a.usable /\ a.prefix = grant.net
<1>1. UNCHANGED <<hostVars, providerVars, advertised>> /\ DerivesIPv6(n)
  BY DEF GetProfileConfigIPv6
<1>2. PICK p : p = CHOOSE q \in UsablePrefixes(n) : TRUE
  OBVIOUS
<1>3. p \in UsablePrefixes(n)
  <2>1. UsablePrefixes(n) # {}
    <3>1. Cardinality(UsablePrefixes(n)) = 1
      BY <1>1 DEF DerivesIPv6
    <3>2. Cardinality({}) = 0
      BY FS_EmptySet
    <3>3. QED
      BY <3>1, <3>2
  <2>2. QED
    BY <1>2, <2>1
<1>4. claims[n] # NoClaim /\ claims[n].uid \in Claims
  BY <1>1 DEF DerivesIPv6, ProfileApplies, Waiting, OKEInv, IsClaim
<1>5. PICK g : /\ g.net = p /\ g.host = ChildIID(claims[n].uid, n, p)
               /\ g.table \in {NoTable, TableIPv6(n)}
               /\ claims' = [claims EXCEPT ![n].grant = g]
  <2> DEFINE child == ChildIID(claims[n].uid, n, p)
             g1 == [net |-> p, host |-> child, table |-> NoTable, gw |-> NoGateway]
             g2 == [net |-> p, host |-> child, table |-> TableIPv6(n), gw |-> ParentIPv6Router(n)]
  <2>1. claims' = [claims EXCEPT ![n].grant = g1] \/ claims' = [claims EXCEPT ![n].grant = g2]
    BY <1>2 DEF GetProfileConfigIPv6, Granted
  <2>2. /\ g1.net = p /\ g1.host = child /\ g1.table = NoTable
        /\ g2.net = p /\ g2.host = child /\ g2.table = TableIPv6(n)
    OBVIOUS
  <2>3. QED
    <3> HIDE DEF g1, g2
    <3> QED
      BY <2>1, <2>2
<1>6. /\ claims' = [m \in Nics |-> claims'[m]] /\ IsClaim(claims'[n]) /\ claims'[n].grant = g
      /\ \A m \in Nics \ {n} : claims'[m] = claims[m]
      /\ \A m \in Grants' \ {n} : GrantOK(m)'
  BY <1>1, <1>4, <1>5, OneGrant DEF hostVars
<1>7. GrantOK(n)'
  BY <1>1, <1>5, <1>6 DEF GrantOK, GrantOfNumber, DerivesIPv6, hostVars
<1>8. \A m \in Nics : claims'[m] # NoClaim => IsClaim(claims'[m])
  BY <1>6 DEF OKEInv
<1>9. OKEInv'
  BY <1>1, <1>6, <1>7, <1>8 DEF OKEInv, hostVars, providerVars, AddressesOf, CacheOK
<1>10. Grants' \ Grants \subseteq {n}
  BY <1>6 DEF Grants
<1>11. \E a \in v6addrs[n] : a.usable /\ a.prefix = p
  BY <1>3 DEF UsablePrefixes
<1>12. QED
  BY <1>3, <1>4, <1>5, <1>6, <1>9, <1>10, <1>11, ChildIsFree

LEMMA OKENext ==
  ASSUME OKEInv, Next \/ UNCHANGED okeVars
  PROVE  OKEInv'
<1>1. ASSUME UNCHANGED <<node, addrs, claims>> PROVE \A n \in Grants' : GrantOK(n)'
  BY <1>1, GrantsKept DEF HasAddress
<1>2. CASE Start \/ StartupWindowEnds \/ StartCancelled \/ Scan
  <2>1. \A n \in Grants' : GrantOK(n)'
    BY <1>1, <1>2 DEF Start, StartupWindowEnds, StartCancelled, Scan, hostVars
  <2>2. CASE Scan
    <3>1. advertised' \in [Nics -> {"none", "guard", "ipvlan"}]
      BY <2>2 DEF Scan, GetDeviceConfig
    <3>2. QED
      BY <2>1, <2>2, <3>1 DEF Scan, OKEInv, hostVars, providerVars, CacheOK, AddressesOf
  <2>3. CASE Start \/ StartupWindowEnds \/ StartCancelled
    <3>1. addressFallback' \in BOOLEAN
      BY <2>3 DEF Start, StartupWindowEnds, StartCancelled, OKEInv
    <3>2. phase' \in {"new", "polling", "running", "failed"}
      BY <2>3 DEF Start, StartupWindowEnds, StartCancelled
    <3>3. UNCHANGED <<hostVars, metadata, vnicCache, layoutValidated, advertised, claims>>
      BY <2>3 DEF Start, StartupWindowEnds, StartCancelled
    <3>4. QED
      BY <2>1, <3>1, <3>2, <3>3 DEF OKEInv, hostVars, CacheOK, AddressesOf
  <2>4. QED
    BY <1>2, <2>2, <2>3
<1>3. CASE Restart
  <2>1. \A n \in Grants' : GrantOK(n)'
    BY <1>1, <1>3 DEF Restart, hostVars
  <2>2. CacheOK'
    BY <1>3, ProfileAssumption DEF Restart, CacheOK, OKEInv, hostVars, NoRead
  <2>3. QED
    BY <1>3, <2>1, <2>2, NoMetadataType DEF Restart, OKEInv, hostVars, AddressesOf
<1>4. CASE Tick
  <2>1. \A n \in Grants' : GrantOK(n)'
    BY <1>1, <1>4 DEF Tick
  <2>2. CacheOK'
    BY <1>4, ProfileAssumption DEF Tick, CacheOK, OKEInv
  <2>3. QED
    BY <1>4, <2>1, <2>2 DEF Tick, OKEInv, AddressesOf
<1>5. ASSUME NEW a \in Answers, Refresh(a) PROVE OKEInv'
  <2>1. \A n \in Grants' : GrantOK(n)'
    BY <1>1, <1>5 DEF Refresh, hostVars
  <2>2. metadata' \in [{"fabric", "vnic"} -> BOOLEAN]
    <3>1. DOMAIN Snapshot(a) = {"fabric", "vnic"} /\ Snapshot(a).fabric \in BOOLEAN /\ Snapshot(a).vnic \in BOOLEAN
      BY DEF Snapshot, Answers
    <3>2. QED
      BY <1>5, <3>1 DEF Refresh, MergeMetadata, OKEInv
  <2>3. QED
    BY <1>5, <2>1, <2>2 DEF Refresh, OKEInv, hostVars, CacheOK, AddressesOf
<1>6. ASSUME NEW n \in Nics, (\E c \in Claims, r \in Requests : ClaimArrives(n, c, r)) \/ ClaimEnds(n)
      PROVE  OKEInv'
  <2>1. /\ UNCHANGED <<hostVars, providerVars, advertised>>
        /\ \/ claims' = [claims EXCEPT ![n] = NoClaim]
           \/ \E c \in Claims, r \in Requests : claims' = [claims EXCEPT ![n] = [uid |-> c, req |-> r, grant |-> NoGrant]]
    BY <1>6 DEF ClaimArrives, ClaimEnds
  <2>2. /\ claims' = [m \in Nics |-> claims'[m]] /\ \A m \in Nics \ {n} : claims'[m] = claims[m]
        /\ claims'[n] # NoClaim => IsClaim(claims'[n]) /\ claims'[n].grant = NoGrant
    BY <2>1 DEF OKEInv, IsClaim
  <2>3. ASSUME NEW m \in Grants' PROVE GrantOK(m)'
    <3>1. m \in Nics /\ m # n
      BY <2>2 DEF Grants
    <3>2. claims'[m] = claims[m] /\ GrantOK(m)
      BY <2>2, <3>1 DEF Grants, OKEInv
    <3>3. CASE node.v6
      BY <2>1, <3>2, <3>3 DEF GrantOK, GrantOfNumber, hostVars
    <3>4. CASE ~node.v6
      <4>1. PICK i \in Nat : GrantOfIndex(m, i)
        BY <3>2, <3>4 DEF GrantOK
      <4>2. GrantOfIndex(m, i)'
        BY <2>1, <3>2, <4>1 DEF GrantOfIndex, HasAddress, hostVars
      <4>3. QED
        BY <2>1, <3>4, <4>2 DEF GrantOK, hostVars
    <3>5. QED
      BY <3>3, <3>4
  <2>4. \A m \in Nics : claims'[m] # NoClaim => IsClaim(claims'[m])
    BY <2>2 DEF OKEInv
  <2>5. QED
    BY <2>1, <2>2, <2>3, <2>4 DEF OKEInv, hostVars, providerVars, CacheOK, AddressesOf
<1>7. ASSUME NEW n \in Nics, NicAppears(n) PROVE OKEInv'
  <2>1. \A m \in Grants' : GrantOK(m)'
    BY <1>1, <1>7 DEF NicAppears
  <2>2. QED
    BY <1>7, <2>1 DEF NicAppears, OKEInv, providerVars, CacheOK, AddressesOf
<1>8. ASSUME NEW n \in Nics, OCAAssigns(n) \/ ForeignAssigned(n) PROVE OKEInv'
  <2>1. PICK a : /\ AddAddress(n, a)
                 /\ a = ForeignAddr \/ (a = node.layout[n] /\ NicKind[n] \in {"rdma", "plain"})
    BY <1>8 DEF OCAAssigns, ForeignAssigned
  <2>2. n \in node.nics /\ a \in Nat /\ addrs[n] \in Seq(Nat)
    BY <2>1, ProfileAssumption DEF AddAddress, OKEInv, AddressesOf
  <2>3. addrs' = [addrs EXCEPT ![n] = Append(addrs[n], a)]
    BY <2>1 DEF AddAddress
  <2>4. addrs' = [m \in Nics |-> addrs'[m]] /\ addrs'[n] = Append(addrs[n], a) /\ \A m \in Nics \ {n} : addrs'[m] = addrs[m]
    BY <2>3 DEF OKEInv
  <2>5. /\ Append(addrs[n], a) \in Seq(Nat) /\ DOMAIN Append(addrs[n], a) = 1..(Len(addrs[n]) + 1)
        /\ DOMAIN addrs[n] = 1..Len(addrs[n]) /\ Len(addrs[n]) \in Nat
        /\ \A k \in 1..Len(addrs[n]) : Append(addrs[n], a)[k] = addrs[n][k]
        /\ Append(addrs[n], a)[Len(addrs[n]) + 1] = a
    BY <2>2
  <2>6. UNCHANGED <<node, claims>>
    BY <2>1 DEF AddAddress
  <2>7. \A m \in Nics : AddressesOf(m)'
    <3>1. AddressesOf(n)'
      <4>1. \A k \in DOMAIN addrs'[n] :
              (k \in DOMAIN addrs[n] /\ addrs'[n][k] = addrs[n][k]) \/ addrs'[n][k] = a
        BY <2>4, <2>5
      <4>2. QED
        BY <2>1, <2>2, <2>4, <2>5, <2>6, <4>1 DEF AddressesOf, OKEInv
    <3>2. ASSUME NEW m \in Nics, m # n PROVE AddressesOf(m)'
      <4>1. addrs'[m] = addrs[m] /\ AddressesOf(m)
        BY <2>4, <3>2 DEF OKEInv
      <4>2. QED
        BY <2>6, <4>1 DEF AddressesOf
    <3>3. QED
      BY <3>1, <3>2
  <2>8. ASSUME NEW m \in Nics, NEW b, HasAddress(m, b) PROVE HasAddress(m, b)'
    <3>1. PICK k \in DOMAIN addrs[m] : addrs[m][k] = b
      BY <2>8 DEF HasAddress
    <3>2. k \in DOMAIN addrs'[m] /\ addrs'[m][k] = b
      <4>1. CASE m = n
        BY <2>4, <2>5, <3>1, <4>1
      <4>2. CASE m # n
        BY <2>4, <3>1, <4>2
      <4>3. QED
        BY <4>1, <4>2
    <3>3. QED
      BY <3>2 DEF HasAddress
  <2>9. \A m \in Grants' : GrantOK(m)'
    BY <2>6, <2>8, GrantsKept
  <2>10. QED
    BY <2>1, <2>4, <2>7, <2>9 DEF AddAddress, OKEInv, providerVars, CacheOK
<1>9. ASSUME NEW n \in Nics, NEW s \in V6States, IPv6Changes(n, s) PROVE OKEInv'
  <2>1. \A m \in Grants' : GrantOK(m)'
    BY <1>1, <1>9 DEF IPv6Changes
  <2>2. QED
    BY <1>9, <2>1 DEF IPv6Changes, OKEInv, providerVars, CacheOK, AddressesOf
<1>10. ASSUME NEW kind \in {"none", "vnic", "route"}, ConflictChanges(kind) PROVE OKEInv'
  <2>1. \A m \in Grants' : GrantOK(m)'
    BY <1>1, <1>10 DEF ConflictChanges
  <2>2. CacheOK'
    BY <1>10, ProfileAssumption DEF ConflictChanges, CacheOK, OKEInv, providerVars
  <2>3. QED
    BY <1>10, <2>1, <2>2 DEF ConflictChanges, OKEInv, providerVars, AddressesOf
<1>11. CASE UNCHANGED okeVars
  <2>1. \A m \in Grants' : GrantOK(m)'
    BY <1>1, <1>11 DEF okeVars, hostVars
  <2>2. QED
    BY <1>11, <2>1 DEF okeVars, OKEInv, hostVars, providerVars, CacheOK, AddressesOf
<1>12. QED
  BY <1>2, <1>3, <1>4, <1>5, <1>6, <1>7, <1>8, <1>9, <1>10, <1>11, IPv4Step, IPv6Step DEF Next, ResolveIPv4

\* The provider and the node keep their types whatever IMDS answers and whatever
\* comes and goes on the host, and the routing table of a grant is one of those
\* the profile owns for that kind of NIC, so no profile routes into the table of
\* the other kind or into one of the host's.
THEOREM OKETypesCorrect == Spec => []OKETypeOK
<1>1. ASSUME OKEInv PROVE OKETypeOK
  <2>1. ASSUME NEW n \in Grants
        PROVE  LET base == IF NicKind[n] = "vf" THEN RailVFTableBase ELSE SBRTableBase
               IN claims[n].grant.table \in {NoTable} \cup (base .. (base + MaxNics - 1))
    <3>1. GrantOK(n) /\ n \in Nics /\ NicIndex[n] \in Nat
      BY <1>1, ProfileAssumption DEF OKEInv, Grants
    <3>2. MaxNics \in Nat
      BY OKEConstantsAssumption
    <3>3. CASE node.v6
      BY <3>1, <3>2, <3>3
         DEF GrantOK, GrantOfNumber, TableIPv6, IsRailVF, IndexSupported, RailVFTableBase, SBRTableBase
    <3>4. CASE ~node.v6
      BY <3>1, <3>2, <3>4 DEF GrantOK, GrantOfIndex, SBRTableBase
    <3>5. QED
      BY <3>3, <3>4
  <2>2. present \subseteq Nics
    BY <1>1, ProfileAssumption DEF OKEInv
  <2>3. QED
    BY <1>1, <2>1, <2>2 DEF OKEInv, OKETypeOK, CacheOK
<1>2. OKEInv /\ [Next]_okeVars => OKEInv'
  BY OKENext
<1>3. QED
  BY <1>1, <1>2, OKEInit, PTL DEF Spec

\* No two NICs of a node are granted one IPv4 child or one routing table, for any
\* OCA layout that gives two NICs two addresses: a NIC that OCA has put at the
\* address of another index is refused, not given that index's child.
THEOREM GrantsStayDistinct == Spec => []GrantsDistinct
<1>1. ASSUME OKEInv PROVE GrantsDistinct
  <2> SUFFICES ASSUME NEW n \in Grants, NEW m \in Grants, n # m
              PROVE  /\ ~node.v6 => claims[n].grant.host # claims[m].grant.host
                     /\ claims[n].grant.table # NoTable => claims[n].grant.table # claims[m].grant.table
    BY DEF GrantsDistinct
  <2>1. GrantOK(n) /\ GrantOK(m) /\ n \in Nics /\ m \in Nics /\ NicIndex[n] \in Nat /\ NicIndex[m] \in Nat
    BY <1>1, ProfileAssumption DEF OKEInv, Grants
  <2>2. MaxNics \in Nat
    BY OKEConstantsAssumption
  <2>3. CASE node.v6
    <3>1. GrantOfNumber(n) /\ GrantOfNumber(m)
      BY <2>1, <2>3 DEF GrantOK
    <3>2. TableIPv6(n) # TableIPv6(m)
      <4>1. CASE NicKind[n] = NicKind[m]
        <5>1. NicIndex[n] # NicIndex[m]
          BY <2>1, <3>1, <4>1, ProfileAssumption DEF GrantOfNumber
        <5>2. QED
          BY <2>1, <2>2, <4>1, <5>1 DEF TableIPv6, IsRailVF, RailVFTableBase, SBRTableBase
      <4>2. CASE NicKind[n] # NicKind[m]
        BY <2>1, <2>2, <3>1, <4>2 DEF GrantOfNumber, TableIPv6, IsRailVF, IndexSupported, RailVFTableBase, SBRTableBase
      <4>3. QED
        BY <4>1, <4>2
    <3>3. QED
      BY <2>3, <3>1, <3>2 DEF GrantOfNumber
  <2>4. CASE ~node.v6
    <3>1. PICK i \in Nat : GrantOfIndex(n, i)
      BY <2>1, <2>4 DEF GrantOK
    <3>2. PICK j \in Nat : GrantOfIndex(m, j)
      BY <2>1, <2>4 DEF GrantOK
    <3>3. i # j
      <4> SUFFICES ASSUME i = j PROVE FALSE
        OBVIOUS
      <4> DEFINE a == ParentIPv4(node.vnic, i, node.parentRange)
      <4>1. HasAddress(n, a) /\ HasAddress(m, a) /\ Contains(node.parentRange, a)
        BY <3>1, <3>2 DEF GrantOfIndex
      <4>2. a # ForeignAddr
        <5>1. ~Contains(node.parentRange, ForeignAddr)
          BY <1>1, ProfileAssumption DEF OKEInv
        <5>2. QED
          <6> HIDE DEF a
          <6> QED
            BY <4>1, <5>1
      <4>3. /\ n \in node.nics /\ NicKind[n] \in {"rdma", "plain"} /\ a = node.layout[n]
            /\ m \in node.nics /\ NicKind[m] \in {"rdma", "plain"} /\ a = node.layout[m]
        <5> HIDE DEF a
        <5> QED
          BY <1>1, <2>1, <4>1, <4>2 DEF OKEInv, AddressesOf, HasAddress
      <4>4. QED
        BY <1>1, <4>3, ProfileAssumption DEF OKEInv
    <3>4. claims[n].grant.host # claims[m].grant.host
      <4>1. node.vnic \in VNICs /\ node.childRange \in Prefixes
        BY <1>1, <3>1, ProfileAssumption DEF OKEInv, VNICs, GrantOfIndex
      <4>2. ChildIPv4(node.vnic, i, node.childRange) # ChildIPv4(node.vnic, j, node.childRange)
        BY <3>3, <4>1, ChildrenOfSubnetAreDistinct
      <4>3. QED
        BY <3>1, <3>2, <4>2 DEF GrantOfIndex
    <3>5. claims[n].grant.table # NoTable => claims[n].grant.table # claims[m].grant.table
      BY <3>1, <3>2, <3>3 DEF GrantOfIndex, SBRTableBase, NoTable
    <3>6. QED
      BY <3>4, <3>5
  <2>5. QED
    BY <2>3, <2>4
<1>2. OKEInv /\ [Next]_okeVars => OKEInv'
  BY OKENext
<1>3. QED
  BY <1>1, <1>2, OKEInit, PTL DEF Spec

\* Only GetProfileConfig makes a grant.
LEMMA NewGrants ==
  ASSUME OKEInv, Next \/ UNCHANGED okeVars, NEW n \in Grants' \ Grants
  PROVE  ResolveIPv4(n) \/ GetProfileConfigIPv6(n)
<1>1. claims' # claims /\ n \in Nics
  BY DEF Grants
<1>2. PICK m \in Nics : \/ \E c \in Claims, r \in Requests : ClaimArrives(m, c, r)
                        \/ ClaimEnds(m) \/ ResolveIPv4(m) \/ GetProfileConfigIPv6(m)
  <2>1. ~(UNCHANGED okeVars \/ Start \/ StartupWindowEnds \/ StartCancelled \/ Restart \/ Scan \/ Tick)
    BY <1>1 DEF okeVars, Start, StartupWindowEnds, StartCancelled, Restart, Scan, Tick
  <2>2. ~(\E a \in Answers : Refresh(a)) /\ ~(\E kind \in {"none", "vnic", "route"} : ConflictChanges(kind))
    BY <1>1 DEF Refresh, ConflictChanges
  <2>3. \A k \in Nics : ~NicAppears(k) /\ ~OCAAssigns(k) /\ ~ForeignAssigned(k) /\ ~\E s \in V6States : IPv6Changes(k, s)
    BY <1>1 DEF NicAppears, OCAAssigns, ForeignAssigned, AddAddress, IPv6Changes
  <2>4. QED
    BY <2>1, <2>2, <2>3 DEF Next
<1>3. \A k \in Nics \ {m} : claims'[k] = claims[k]
  BY <1>2 DEF ClaimArrives, ClaimEnds, ResolveIPv4, GetProfileConfigIPv4, GetProfileConfigIPv6, Granted, OKEInv
<1>4. n = m
  BY <1>1, <1>3 DEF Grants
<1>5. ~ClaimEnds(m)
  <2>1. ClaimEnds(m) => claims'[m] = NoClaim
    BY DEF ClaimEnds, OKEInv
  <2>2. QED
    BY <1>4, <2>1 DEF Grants
<1>6. ASSUME NEW c \in Claims, NEW r \in Requests, ClaimArrives(m, c, r) PROVE FALSE
  <2>1. claims'[m].grant = NoGrant
    BY <1>6 DEF ClaimArrives, OKEInv
  <2>2. QED
    BY <1>4, <2>1 DEF Grants
<1>7. QED
  BY <1>2, <1>4, <1>5, <1>6

\* The cached VNIC subnets hide a colliding pod VNIC for less than their maximal
\* age: once it has been attached that long, every grant comes from a read that
\* failed, never from an old one that was clear.
THEOREM ConflictIsSeenInTime == Spec => ConflictSeenInTime
<1>1. ASSUME OKEInv, [Next]_okeVars
      PROVE  [~node.v6 /\ (\E n \in Nics : n \in Grants' /\ n \notin Grants) =>
               ~(conflict.kind = "vnic" /\ conflict.age >= MaxAge /\ vnicCache'.seen # "failed")]_okeVars
  <2> SUFFICES ASSUME ~node.v6, NEW n \in Grants' \ Grants, conflict.kind = "vnic", conflict.age >= MaxAge
              PROVE  vnicCache'.seen = "failed"
    OBVIOUS
  <2>1. n \in Nics /\ ResolveIPv4(n)
    <3>1. ~GetProfileConfigIPv6(n)
      BY DEF GetProfileConfigIPv6, DerivesIPv6
    <3>2. QED
      BY <1>1, <3>1, NewGrants DEF Grants
  <2>2. QED
    BY <1>1, <2>1, IPv4Step DEF ResolveIPv4
<1>2. OKEInv /\ [Next]_okeVars => OKEInv'
  BY OKENext
<1>3. QED
  BY <1>1, <1>2, OKEInit, PTL DEF Spec, ConflictSeenInTime

\* childIPv6Address never hands out an address of the parent, deprecated ones
\* included, nor a reserved one, and stays in the prefix the parent uses.
THEOREM ChildAlwaysAvoidsParent == Spec => ChildAvoidsParent
<1>1. ASSUME OKEInv, [Next]_okeVars
      PROVE  [\A n \in Grants' \ Grants : node.v6 =>
               LET grant == claims'[n].grant
               IN /\ grant.host \notin ReservedIIDs
                  /\ \A a \in v6addrs[n] : <<a.prefix, a.iid>> # <<grant.net, grant.host>>
                  /\ \E a \in v6addrs[n] : a.usable /\ a.prefix = grant.net]_okeVars
  <2> SUFFICES ASSUME NEW n \in Grants' \ Grants, node.v6
              PROVE  LET grant == claims'[n].grant
                     IN /\ grant.host \notin ReservedIIDs
                        /\ \A a \in v6addrs[n] : <<a.prefix, a.iid>> # <<grant.net, grant.host>>
                        /\ \E a \in v6addrs[n] : a.usable /\ a.prefix = grant.net
    OBVIOUS
  <2>1. n \in Nics /\ GetProfileConfigIPv6(n)
    <3>1. ~ResolveIPv4(n)
      BY DEF ResolveIPv4, GetProfileConfigIPv4, DerivesIPv4
    <3>2. QED
      BY <1>1, <3>1, NewGrants DEF Grants
  <2>2. QED
    BY <1>1, <2>1, IPv6Step
<1>2. OKEInv /\ [Next]_okeVars => OKEInv'
  BY OKENext
<1>3. QED
  BY <1>1, <1>2, OKEInit, PTL DEF Spec, ChildAvoidsParent
=============================================================================

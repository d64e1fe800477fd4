-------------------------- MODULE DiscoveryProofs --------------------------
(***************************************************************************)
(* Discovery for any hardware, default routes, modes and bounds: the       *)
(* search for the node's own links finds all of them, and what two scans   *)
(* that overlap with each other and with the moves of pods make of the     *)
(* host keeps the node's uplink, the nature of devices and the slice.      *)
(***************************************************************************)
EXTENDS Discovery, FiniteSetTheorems, WellFoundedInduction, TLAPS

----------------------------------------------------------------------------
(* The search from the uplinks down.                                       *)

LEMMA SomeLeast ==
  ASSUME NEW T, T \subseteq Nat, T # {}
  PROVE  \E x \in T : \A y \in T : x <= y
<1> DEFINE R == {ss \in Nat \X Nat : ss[1] < ss[2]}
<1>1. IsWellFoundedOn(R, Nat)
  BY NatLessThanWellFounded DEF OpToRel
<1>2. PICK x \in T : \A y \in T : ~(<<y, x>> \in R)
  <2> HIDE DEF R
  <2> QED
    BY <1>1, WFMin
<1>3. \A y \in T : ~(y < x)
  BY <1>2
<1> QED
  BY <1>3

\* The number of links is a number.
LEMMA LinksCounted == Cardinality(Links) \in Nat
BY HardwareAssumption, FS_CardinalityType

\* The recursive function is what its definition says.
LEMMA ReachedSteps ==
  ASSUME NEW G
  PROVE
  /\ ReachedFrom(G)[0] = G
  /\ \A n \in 1 .. Cardinality(Links) :
       ReachedFrom(G)[n] = ReachedFrom(G)[n - 1] \union ChildrenOf(ReachedFrom(G)[n - 1])
<1> DEFINE Next(S) == S \union ChildrenOf(S)
           Solves(f, m) == f = [n \in 0 .. m |-> IF n = 0 THEN G ELSE Next(f[n - 1])]
           T == {m \in Nat : ~\E f : Solves(f, m)}
<1> HIDE DEF Next
<1>1. ASSUME NEW m \in T, \A k \in T : m <= k PROVE FALSE
  <2>1. CASE m = 0
    <3>1. Solves([n \in 0 .. 0 |-> G], 0)
      OBVIOUS
    <3> QED
      BY <2>1, <3>1, <1>1
  <2>2. CASE m # 0
    <3>1. m - 1 \in Nat /\ m - 1 \notin T
      <4>1. m \in Nat
        OBVIOUS
      <4> HIDE DEF T
      <4> QED
        BY <4>1, <2>2, <1>1
    <3>2. PICK f : Solves(f, m - 1)
      BY <3>1
    <3>3. \A n \in 0 .. (m - 1) : f[n] = IF n = 0 THEN G ELSE Next(f[n - 1])
      BY <3>2
    <3> DEFINE g == [n \in 0 .. m |-> IF n = m THEN Next(f[m - 1]) ELSE f[n]]
    <3>4. \A n \in 0 .. m : g[n] = IF n = 0 THEN G ELSE Next(g[n - 1])
      <4> SUFFICES ASSUME NEW n \in 0 .. m
                   PROVE  g[n] = IF n = 0 THEN G ELSE Next(g[n - 1])
        OBVIOUS
      <4>1. CASE n = m
        BY <4>1, <2>2
      <4>2. CASE n # m
        BY <4>2, <3>3
      <4> QED
        BY <4>1, <4>2
    <3>5. Solves(g, m)
      BY <3>4
    <3> QED
      BY <3>5
  <2> QED
    BY <2>1, <2>2
<1>2. T = {}
  <2> HIDE DEF T
  <2>1. T \subseteq Nat
    BY DEF T
  <2> QED
    BY <2>1, <1>1, SomeLeast
<1>3. \E f : Solves(f, Cardinality(Links))
  BY <1>2, LinksCounted
<1>4. Solves(ReachedFrom(G), Cardinality(Links))
  BY <1>3, Zenon DEF ReachedFrom, Next
<1>5. \A n \in 0 .. Cardinality(Links) :
        ReachedFrom(G)[n] = IF n = 0 THEN G ELSE Next(ReachedFrom(G)[n - 1])
  <2> HIDE DEF ReachedFrom
  <2> QED
    BY <1>4
<1>6. ReachedFrom(G)[0] = G
  BY <1>5, LinksCounted
<1>7. ASSUME NEW n \in 1 .. Cardinality(Links)
      PROVE  ReachedFrom(G)[n] = ReachedFrom(G)[n - 1] \union ChildrenOf(ReachedFrom(G)[n - 1])
  <2>1. n \in 0 .. Cardinality(Links) /\ n # 0
    BY LinksCounted
  <2>2. ReachedFrom(G)[n] = Next(ReachedFrom(G)[n - 1])
    BY <2>1, <1>5
  <2> QED
    BY <2>2 DEF Next
<1> QED
  BY <1>6, <1>7

Closed(S) == ChildrenOf(S) \subseteq S

\* Whatever one starts from, the search stays among the links of the node and
\* inside every closed set.
LEMMA ReachedBounds ==
  ASSUME NEW G, NEW S, G \subseteq S, Closed(S)
  PROVE  \A n \in 0 .. Cardinality(Links) :
           G \subseteq ReachedFrom(G)[n] /\ ReachedFrom(G)[n] \subseteq S
<1> DEFINE Good(n) == G \subseteq ReachedFrom(G)[n] /\ ReachedFrom(G)[n] \subseteq S
           T == {n \in 0 .. Cardinality(Links) : ~Good(n)}
<1>1. ASSUME NEW m \in T, \A k \in T : m <= k PROVE FALSE
  <2>1. CASE m = 0
    BY <2>1, <1>1, ReachedSteps
  <2>2. CASE m # 0
    <3>1. m - 1 \in 0 .. Cardinality(Links) /\ m \in 1 .. Cardinality(Links) /\ m - 1 \notin T
      BY <2>2, <1>1, LinksCounted
    <3>2. Good(m - 1)
      BY <3>1
    <3>3. ReachedFrom(G)[m] = ReachedFrom(G)[m - 1] \union ChildrenOf(ReachedFrom(G)[m - 1])
      BY <3>1, ReachedSteps
    <3>4. ChildrenOf(ReachedFrom(G)[m - 1]) \subseteq ChildrenOf(S)
      BY <3>2 DEF ChildrenOf
    <3> QED
      BY <3>2, <3>3, <3>4, <1>1 DEF Closed
  <2> QED
    BY <2>1, <2>2
<1>2. T = {}
  <2> HIDE DEF T
  <2>1. T \subseteq Nat
    BY LinksCounted DEF T
  <2> QED
    BY <2>1, <1>1, SomeLeast
<1> QED
  BY <1>2

\* A step that is not the last adds a link, so there are no more steps than links.
LEMMA ReachedGrows ==
  ASSUME NEW G, G \subseteq Links
  PROVE  \A n \in 0 .. Cardinality(Links) : Closed(ReachedFrom(G)[n]) \/ Cardinality(ReachedFrom(G)[n]) >= n
<1>1. Closed(Links)
  BY DEF Closed, ChildrenOf
<1>2. \A n \in 0 .. Cardinality(Links) : ReachedFrom(G)[n] \subseteq Links
  BY <1>1, LinksCounted, ReachedBounds
<1>3. \A n \in 0 .. Cardinality(Links) : IsFiniteSet(ReachedFrom(G)[n]) /\ Cardinality(ReachedFrom(G)[n]) \in Nat
  BY <1>2, HardwareAssumption, FS_Subset, FS_CardinalityType
<1> DEFINE Good(n) == Closed(ReachedFrom(G)[n]) \/ Cardinality(ReachedFrom(G)[n]) >= n
           T == {n \in 0 .. Cardinality(Links) : ~Good(n)}
<1>4. ASSUME NEW m \in T, \A k \in T : m <= k PROVE FALSE
  <2>1. CASE m = 0
    BY <2>1, <1>3, <1>4, LinksCounted
  <2>2. CASE m # 0
    <3>1. m - 1 \in 0 .. Cardinality(Links) /\ m \in 1 .. Cardinality(Links) /\ m - 1 \notin T
      BY <2>2, <1>4, LinksCounted
    <3>2. Good(m - 1)
      BY <3>1
    <3>3. ReachedFrom(G)[m] = ReachedFrom(G)[m - 1] \union ChildrenOf(ReachedFrom(G)[m - 1])
      BY <3>1, ReachedSteps
    <3>4. CASE Closed(ReachedFrom(G)[m - 1])
      <4>1. ReachedFrom(G)[m] = ReachedFrom(G)[m - 1]
        BY <3>3, <3>4 DEF Closed
      <4> QED
        BY <4>1, <3>4, <1>4
    <3>5. CASE ~Closed(ReachedFrom(G)[m - 1])
      <4>1. ReachedFrom(G)[m - 1] # ReachedFrom(G)[m] /\ ReachedFrom(G)[m - 1] \in SUBSET ReachedFrom(G)[m]
        BY <3>3, <3>5 DEF Closed
      <4>2. IsFiniteSet(ReachedFrom(G)[m]) /\ Cardinality(ReachedFrom(G)[m]) \in Nat /\ Cardinality(ReachedFrom(G)[m - 1]) \in Nat
        BY <3>1, <1>3
      <4>3. /\ Cardinality(ReachedFrom(G)[m - 1]) <= Cardinality(ReachedFrom(G)[m])
            /\ Cardinality(ReachedFrom(G)[m]) = Cardinality(ReachedFrom(G)[m - 1]) => ReachedFrom(G)[m] = ReachedFrom(G)[m - 1]
        BY <4>1, <4>2, FS_Subset
      <4>4. Cardinality(ReachedFrom(G)[m - 1]) < Cardinality(ReachedFrom(G)[m])
        BY <4>1, <4>2, <4>3
      <4>5. Cardinality(ReachedFrom(G)[m - 1]) >= m - 1
        BY <3>2, <3>5
      <4>6. Cardinality(ReachedFrom(G)[m]) >= m
        BY <4>2, <4>4, <4>5, <3>1
      <4> QED
        BY <4>6, <1>4
    <3> QED
      BY <3>4, <3>5
  <2> QED
    BY <2>1, <2>2
<1>5. T = {}
  <2> HIDE DEF T
  <2>1. T \subseteq Nat
    BY LinksCounted DEF T
  <2> QED
    BY <2>1, <1>4, SomeLeast
<1> QED
  BY <1>5

\* The search ends at the least set of links that has the uplinks and, with a
\* link, its children.
LEMMA ReachedAll ==
  ASSUME NEW G, G \subseteq Links
  PROVE  LET R == ReachedFrom(G)[Cardinality(Links)]
         IN  /\ R \subseteq Links /\ G \subseteq R /\ Closed(R)
             /\ \A S \in SUBSET Links : G \subseteq S /\ Closed(S) => R \subseteq S
<1> DEFINE N == Cardinality(Links)
           R == ReachedFrom(G)[N]
<1>1. N \in 0 .. N
  BY LinksCounted
<1>2. Closed(Links)
  BY DEF Closed, ChildrenOf
<1>3. R \subseteq Links /\ G \subseteq R
  BY <1>1, <1>2, ReachedBounds
<1>4. Closed(R)
  <2>1. CASE Cardinality(R) >= N
    <3>1. Cardinality(R) <= N /\ (N = Cardinality(R) => Links = R)
      BY <1>3, HardwareAssumption, FS_Subset
    <3>2. Cardinality(R) \in Nat
      BY <1>3, HardwareAssumption, FS_Subset, FS_CardinalityType
    <3>3. Links = R
      BY <3>1, <3>2, <2>1, LinksCounted
    <3> QED
      BY <3>3, <1>2
  <2> QED
    BY <2>1, <1>1, ReachedGrows
<1>5. ASSUME NEW S \in SUBSET Links, G \subseteq S, Closed(S) PROVE R \subseteq S
  BY <1>1, <1>5, ReachedBounds
<1> QED
  BY <1>3, <1>4, <1>5

\* What is excluded is links of the node, whatever could be read.
LEMMA ExcludedAreLinks ==
  ASSUME NEW routes, routes \subseteq DefaultRoutes, NEW ok \in BOOLEAN
  PROVE  GetExcludedUplinkInterfaces(routes, ok) \subseteq Links
<1>1. PICK G : G = GetDefaultGwInterfaces(routes)
  OBVIOUS
<1>2. G \subseteq Links
  BY <1>1, HardwareAssumption DEF GetDefaultGwInterfaces
<1>3. ReachedFrom(G)[Cardinality(Links)] \subseteq Links
  BY <1>2, ReachedAll
<1> QED
  BY <1>1, <1>2, <1>3 DEF GetExcludedUplinkInterfaces

\* When everything can be read, getExcludedUplinkInterfaces finds exactly the links
\* that carry the node's traffic, however deep the tree of masters.
THEOREM ExcludedAreNodeLinks == GetExcludedUplinkInterfaces(DefaultRoutes, TRUE) = NodeLinks
<1>1. PICK G : G = GetDefaultGwInterfaces(DefaultRoutes)
  OBVIOUS
<1>2. G \subseteq Links
  BY <1>1, HardwareAssumption DEF GetDefaultGwInterfaces
<1>3. PICK R : R = ReachedFrom(G)[Cardinality(Links)]
  OBVIOUS
<1>4. /\ R \subseteq Links /\ G \subseteq R /\ Closed(R)
      /\ \A S \in SUBSET Links : G \subseteq S /\ Closed(S) => R \subseteq S
  BY <1>2, <1>3, ReachedAll
<1>5. NodeLinks = R
  BY <1>1, <1>4 DEF NodeLinks, Closed
<1> QED
  BY <1>1, <1>3, <1>5 DEF GetExcludedUplinkInterfaces

----------------------------------------------------------------------------
(* The invariant.                                                          *)

\* What a scan finds on the buses.
OnBus(f) == (IsNetworkDevice(f) /\ IsAllocatableNetworkDevice(f)) \/ Function[f].rdma

\* What is known of a device at any stage of a scan: the link it has is one the
\* scan considers and is its own, and its attributes are those of its function.
DeviceOK(d) ==
  /\ d \in DeviceType
  /\ d.ifName # None => /\ Considered(d.ifName)
                        /\ d.name = d.ifName \/ d.name = Link[d.ifName].pci
  /\ d.name \in Links => d.ifName = d.name
  /\ d.name \in Functions => OnBus(d.name)
  /\ d.class # "" => /\ d.name \in Functions /\ d.class = Function[d.name].class
                     /\ d.rdma => Function[d.name].rdma

NamesOnce(S) == \A d, e \in S : d.name = e.name => d = e

\* When the bus could be read, the devices S have every function with a driver,
\* except for those in Gone.
BusRead(S, Gone) ==
  (\E d \in S : d.class # "") =>
    \A f \in Functions : IsNetworkDevice(f) /\ IsAllocatableNetworkDevice(f) /\ f \notin Gone =>
      \E e \in S : e.name = f

GoodDevices(S) == (\A d \in S : DeviceOK(d)) /\ NamesOnce(S) /\ BusRead(S, {})

\* A device of an uplink knows the uplink.
Homed(S) ==
  \A d \in S, l \in NodeLinks :
    Considered(l) /\ (d.name = l \/ d.name = Link[l].pci) => d.ifName = l

\* None of the names is one of an uplink's devices.
NoStrays(names) == \A l \in NodeLinks : Considered(l) => l \notin names /\ Link[l].pci \notin names

\* What passed the filter.
UplinkFunctions == {Link[l].pci : l \in gwInterfaces}

GoodStore(T) ==
  /\ \A d \in T : DeviceOK(d)
  /\ NamesOnce(T)
  /\ BusRead(T, UplinkFunctions)
  /\ rdmaShared => \A d \in T :
                     d.rdma /\ d.name \in Functions /\ Function[d.name].ethernet => d.ethernet

OnlyBuses(S) == \A d \in S : d.name \in Functions /\ d.ifName = None

ScanType == [stage : {"idle", "buses", "links", "interfaces", "rdma", "filtered"},
             devices : SUBSET DeviceType, links : SUBSET Links, early : BOOLEAN]
PrepareType == [pc : {"idle", "claimed", "lookup", "missed", "retry", "answered"},
                device : Functions \union Links \union {None}, answer : Links \union {None},
                early : BOOLEAN]

TypeInv ==
  /\ inPod \subseteq Links /\ rdmaInPod \subseteq Functions
  /\ rdmaShared => rdmaInPod = {}
  /\ running \in BOOLEAN /\ gwInterfaces \subseteq Links
  /\ unread \in BOOLEAN /\ misread \in BOOLEAN /\ early \in BOOLEAN
  /\ ~running => gwInterfaces = {} /\ ~unread
  /\ running /\ ~unread => gwInterfaces = NodeLinks
  /\ slice \subseteq Functions \union Links
  /\ scan \in [Scanners -> ScanType] /\ prepare \in PrepareType
  /\ moves \in 0 .. MaxMoves /\ faults \in 0 .. MaxFaults

\* A scan in progress.
ScanOK(x) ==
  /\ \A l \in x.links : Considered(l)
  /\ x.stage # "filtered" => GoodDevices(x.devices)
  /\ x.stage = "filtered" => GoodStore(x.devices)
  /\ x.stage \in {"buses", "links"} => OnlyBuses(x.devices)

ScanInv ==
  /\ scan["run"].stage # "idle" => running
  /\ \A s \in Scanners : ScanOK(scan[s])

\* Run has read the uplinks or will, and no scan was without the links.
Clean == ~unread /\ ~misread

\* Then a scan has the uplinks among its links and its devices, and Run takes them
\* out; whoever filters after Run has read the uplinks takes them out anyway.
UplinkScan(s, x) ==
  /\ x.stage = "filtered" /\ ~unread /\ ~x.early => \A d \in x.devices : d.ifName \notin NodeLinks
  /\ Clean /\ x.stage = "links" => \A l \in NodeLinks : Considered(l) => l \in x.links
  /\ Clean /\ x.stage \in {"interfaces", "rdma"} => Homed(x.devices)
  /\ Clean /\ s = "run" /\ x.stage = "filtered" => NoStrays({d.name : d \in x.devices})

UplinkStore ==
  /\ Clean => \A l \in NodeLinks : l \notin inPod
  /\ Clean => NoStrays(slice \union ({prepare.device} \ {None}))
  /\ ~unread /\ ~early => \A d \in deviceStore : d.ifName \notin NodeLinks
  /\ UplinkStays

UplinkInv == UplinkStore /\ \A s \in Scanners : UplinkScan(s, scan[s])

DiscInv == TypeInv /\ ScanInv /\ GoodStore(deviceStore) /\ UplinkInv

\* A function with a netdev other than IPoIB and an RDMA device is a network
\* controller, and its ports are Ethernet.
NetdevsAreEthernet ==
  \A l \in Links : LET f == Link[l].pci IN
    f # None /\ Link[l].kind # "ipoib" /\ Function[f].rdma =>
      Function[f].class = "network" /\ Function[f].ethernet

\* A network function has a netdev or an RDMA device exactly when a driver of the
\* kernel is bound to it.
DriversServe ==
  \A f \in Functions : IsNetworkDevice(f) => (IsAllocatableNetworkDevice(f) <=> Provides(f))

----------------------------------------------------------------------------
(* The stages of a scan.                                                   *)

LEMMA DeviceTyped ==
  ASSUME NEW name \in Functions \union Links, NEW ifName \in Links \union {None}, NEW rdma \in BOOLEAN
  PROVE  Device(name, ifName, rdma) \in DeviceType
BY DEF Device, DeviceType

\* The PCI bus and the RDMA devices.
LEMMA BusesGood ==
  ASSUME NEW ok \in BOOLEAN
  PROVE  LET S == AddPCIAttributes(DiscoverStandaloneRDMADevices(DiscoverPCIDevices(ok)), ok)
         IN  GoodDevices(S) /\ OnlyBuses(S) /\ S \subseteq DeviceType
<1> DEFINE P == DiscoverPCIDevices(ok)
           Q == DiscoverStandaloneRDMADevices(P)
           S == AddPCIAttributes(Q, ok)
           With(e) == [e EXCEPT !.class = IF ok THEN Function[e.name].class ELSE ""]
<1>1. \A d \in P : \E f \in Functions :
        d = Device(f, None, FALSE) /\ IsNetworkDevice(f) /\ IsAllocatableNetworkDevice(f)
  BY DEF DiscoverPCIDevices
<1>2. \A d \in Q : d \in P \/ \E f \in Functions :
        d = Device(f, None, TRUE) /\ Function[f].rdma /\ \A e \in P : e.name # f
  BY DEF DiscoverStandaloneRDMADevices
<1> HIDE DEF P, Q
<1>3. ASSUME NEW d \in Q
      PROVE  \E f \in Functions, r \in BOOLEAN :
               /\ d = Device(f, None, r)
               /\ r => Function[f].rdma
               /\ OnBus(f)
               /\ r = (d \notin P)
  <2>1. CASE d \in P
    BY <2>1, <1>1 DEF OnBus
  <2>2. CASE d \notin P
    <3>1. PICK f \in Functions : d = Device(f, None, TRUE) /\ Function[f].rdma
      BY <2>2, <1>2
    <3> QED
      BY <3>1, <2>2 DEF OnBus
  <2> QED
    BY <2>1, <2>2
<1>4. \A d \in S : \E e \in Q : d = With(e)
  BY DEF AddPCIAttributes
<1>5. ASSUME NEW e \in Q, NEW d, d = With(e)
      PROVE  /\ d \in DeviceType /\ d.name = e.name /\ d.name \in Functions /\ d.ifName = None
             /\ d.class = (IF ok THEN Function[d.name].class ELSE "")
             /\ d.rdma = e.rdma
             /\ d.rdma => Function[d.name].rdma
             /\ OnBus(d.name)
  <2>1. PICK f \in Functions, r \in BOOLEAN :
               /\ e = Device(f, None, r)
               /\ r => Function[f].rdma
               /\ OnBus(f)
    BY <1>3
  <2>2. e \in DeviceType /\ e.name = f /\ e.ifName = None /\ e.rdma = r
    BY <2>1, DeviceTyped DEF Device
  <2>3. Function[f].class \in {"network", "other"}
    BY HardwareAssumption
  <2>4. d \in DeviceType /\ d.name = f /\ d.ifName = None /\ d.rdma = r
    BY <2>2, <2>3, <1>5 DEF DeviceType
  <2>5. d.class = (IF ok THEN Function[f].class ELSE "")
    BY <2>2, <1>5 DEF DeviceType
  <2> QED
    BY <2>1, <2>2, <2>4, <2>5
<1> HIDE DEF With
<1>6. ASSUME NEW d \in Q, NEW e \in Q, d.name = e.name PROVE d = e
  <2>1. PICK f \in Functions, r \in BOOLEAN : d = Device(f, None, r) /\ r = (d \notin P)
    BY <1>3
  <2>2. PICK g \in Functions, q \in BOOLEAN : e = Device(g, None, q) /\ q = (e \notin P)
    BY <1>3
  <2>3. f = g
    <3>1. d = Device(f, None, r) /\ e = Device(g, None, q)
      BY <2>1, <2>2
    <3>2. d.name = f /\ e.name = g
      BY <3>1 DEF Device
    <3> QED
      BY <1>6, <3>2
  <2>4. ASSUME NEW x \in Q, x \notin P PROVE \A p \in P : p.name # x.name
    <3>1. PICK h \in Functions : x = Device(h, None, TRUE) /\ \A p \in P : p.name # h
      BY <1>2, <2>4
    <3>2. x.name = h
      BY <3>1 DEF Device
    <3> QED
      BY <3>1, <3>2
  <2>5. r = q
    BY <2>1, <2>2, <2>4, <1>6
  <2> QED
    BY <2>1, <2>2, <2>3, <2>5
<1> HIDE DEF S
<1>7. \A d \in S : DeviceOK(d) /\ d.name \in Functions /\ d.ifName = None
  <2> SUFFICES ASSUME NEW d \in S PROVE DeviceOK(d) /\ d.name \in Functions /\ d.ifName = None
    OBVIOUS
  <2>1. PICK e \in Q : d = With(e)
    BY <1>4
  <2> QED
    BY <2>1, <1>5, HardwareAssumption DEF DeviceOK
<1>8. NamesOnce(S)
  <2> SUFFICES ASSUME NEW d \in S, NEW e \in S, d.name = e.name PROVE d = e
    BY DEF NamesOnce
  <2>1. PICK p \in Q : d = With(p)
    BY <1>4
  <2>2. PICK q \in Q : e = With(q)
    BY <1>4
  <2>3. d.name = p.name /\ e.name = q.name
    BY <2>1, <2>2, <1>5
  <2>4. p = q
    BY <2>3, <1>6
  <2> QED
    BY <2>1, <2>2, <2>4
<1>9. BusRead(S, {})
  <2> SUFFICES ASSUME NEW c \in S, c.class # "", NEW f \in Functions,
                      IsNetworkDevice(f), IsAllocatableNetworkDevice(f)
               PROVE  \E e \in S : e.name = f
    BY DEF BusRead
  <2>1. ok
    BY <1>4, <1>5
  <2>2. Device(f, None, FALSE) \in Q
    BY <2>1 DEF P, Q, DiscoverPCIDevices, DiscoverStandaloneRDMADevices
  <2> DEFINE q == Device(f, None, FALSE)
             e == With(q)
  <2>3. e \in S
    BY <2>2 DEF S, AddPCIAttributes, With
  <2>4. e.name = f
    <3>1. q.name = f
      BY DEF Device
    <3>2. e.name = q.name
      BY <2>2, <1>5
    <3> QED
      BY <3>1, <3>2
  <2> QED
    BY <2>3, <2>4
<1> QED
  BY <1>7, <1>8, <1>9 DEF GoodDevices, OnlyBuses, DeviceOK, S, P, Q

\* The links: a function gets its own, and a link without a function, or one that
\* has gone meanwhile, becomes a device of its own.
LEMMA InterfacesGood ==
  ASSUME NEW S, GoodDevices(S), OnlyBuses(S), NEW L \in SUBSET Links, \A l \in L : Considered(l)
  PROVE  LET T == DiscoverNetworkInterfaces(S, L) IN GoodDevices(T) /\ T \subseteq DeviceType
<1> DEFINE Fits(d) == {l \in L : PciAddressForNetInterface(l) = d.name}
           Named(d) == [d EXCEPT !.ifName = CHOOSE l \in L : PciAddressForNetInterface(l) = d.name]
           For(d) == IF \E l \in L : PciAddressForNetInterface(l) = d.name THEN Named(d) ELSE d
           V == {Device(l, l, FALSE) : l \in {k \in L : PciAddressForNetInterface(k) = None}}
           T == DiscoverNetworkInterfaces(S, L)
<1>1. T = {For(d) : d \in S} \union V
  BY DEF DiscoverNetworkInterfaces
<1>2. ASSUME NEW d \in S
      PROVE  /\ For(d) \in DeviceType /\ For(d).name = d.name /\ For(d).rdma = d.rdma
             /\ For(d).class = d.class
             /\ For(d).ifName # None =>
                  For(d).ifName \in L /\ d.name = Link[For(d).ifName].pci
  <2>1. d \in DeviceType /\ d.name \in Functions /\ d.ifName = None
    BY DEF GoodDevices, OnlyBuses, DeviceOK
  <2>2. CASE \E l \in L : PciAddressForNetInterface(l) = d.name
    <3>1. PICK k : k = (CHOOSE l \in L : PciAddressForNetInterface(l) = d.name)
      OBVIOUS
    <3>2. k \in L /\ PciAddressForNetInterface(k) = d.name
      BY <2>2, <3>1, Zenon
    <3>3. For(d) = [d EXCEPT !.ifName = k]
      BY <2>2, <3>1
    <3>4. Link[k].pci = d.name
      BY <3>2, <2>1, HardwareAssumption DEF PciAddressForNetInterface
    <3> HIDE DEF For
    <3>5. k \in Links
      BY <3>2
    <3> QED
      BY <2>1, <3>2, <3>3, <3>4, <3>5 DEF DeviceType
  <2>3. CASE ~\E l \in L : PciAddressForNetInterface(l) = d.name
    <3>1. For(d) = d
      BY <2>3
    <3> HIDE DEF For
    <3> QED
      BY <3>1, <2>1
  <2> QED
    BY <2>2, <2>3
<1>3. ASSUME NEW d \in V
      PROVE  \E l \in L : /\ d = Device(l, l, FALSE) /\ d \in DeviceType /\ d.name = l /\ d.ifName = l
                          /\ d.rdma = FALSE /\ d.class = ""
  <2>1. PICK l \in L : d = Device(l, l, FALSE)
    OBVIOUS
  <2>2. d \in DeviceType
    BY <2>1, DeviceTyped
  <2>3. d.name = l /\ d.ifName = l /\ d.rdma = FALSE /\ d.class = ""
    BY <2>1 DEF Device
  <2> QED
    BY <2>1, <2>2, <2>3
<1> HIDE DEF For, V, T
<1>4. ASSUME NEW d \in T PROVE DeviceOK(d)
  <2>1. CASE d \in V
    <3>1. PICK l \in L : d \in DeviceType /\ d.name = l /\ d.ifName = l /\ d.class = ""
      BY <2>1, <1>3
    <3>2. l \in Links /\ l \notin Functions /\ Considered(l)
      BY HardwareAssumption
    <3> QED
      BY <3>1, <3>2 DEF DeviceOK
  <2>2. CASE \E e \in S : d = For(e)
    <3>1. PICK e \in S : d = For(e)
      BY <2>2
    <3>2. DeviceOK(e) /\ e.name \in Functions
      BY DEF GoodDevices, OnlyBuses
    <3>3. e.name \notin Links
      BY <3>2, HardwareAssumption
    <3> QED
      BY <3>1, <3>2, <3>3, <1>2 DEF DeviceOK
  <2> QED
    BY <2>1, <2>2, <1>1
<1>5. NamesOnce(T)
  <2> SUFFICES ASSUME NEW d \in T, NEW e \in T, d.name = e.name PROVE d = e
    BY DEF NamesOnce
  <2>1. CASE d \in V /\ e \in V
    <3>1. PICK l \in L : d = Device(l, l, FALSE) /\ d.name = l
      BY <2>1, <1>3
    <3>2. PICK k \in L : e = Device(k, k, FALSE) /\ e.name = k
      BY <2>1, <1>3
    <3> QED
      BY <3>1, <3>2
  <2>2. CASE d \notin V /\ e \notin V
    <3>1. PICK p \in S : d = For(p)
      BY <2>2, <1>1
    <3>2. PICK q \in S : e = For(q)
      BY <2>2, <1>1
    <3>3. p.name = q.name
      BY <3>1, <3>2, <1>2
    <3> QED
      BY <3>1, <3>2, <3>3 DEF GoodDevices, NamesOnce
  <2>3. \A x \in V : x.name \in Links
    BY <1>3
  <2>4. \A x \in T : x \notin V => x.name \in Functions
    BY <1>1, <1>2 DEF OnlyBuses
  <2> QED
    BY <2>1, <2>2, <2>3, <2>4, HardwareAssumption
<1>6. BusRead(T, {})
  <2> SUFFICES ASSUME NEW c \in T, c.class # "", NEW f \in Functions,
                      IsNetworkDevice(f), IsAllocatableNetworkDevice(f)
               PROVE  \E e \in T : e.name = f
    BY DEF BusRead
  <2>1. c \notin V
    BY <1>3
  <2>2. PICK b \in S : c = For(b)
    BY <2>1, <1>1
  <2>3. b.class # ""
    BY <2>2, <1>2
  <2>4. PICK e \in S : e.name = f
    BY <2>3 DEF GoodDevices, BusRead
  <2>5. For(e) \in T /\ For(e).name = f
    BY <2>4, <1>1, <1>2
  <2> QED
    BY <2>5
<1> QED
  BY <1>4, <1>5, <1>6 DEF GoodDevices, DeviceOK, T

\* A stage that changes the devices one by one and keeps name and class.
Becomes(S, W, T) ==
  /\ \A t \in T : \E d \in S : t = W[d]
  /\ \A d \in S : W[d] \in T
  /\ \A d \in S : /\ DeviceOK(W[d]) /\ W[d].name = d.name /\ W[d].class = d.class
                  /\ W[d].ifName = d.ifName

LEMMA SameNamesGood ==
  ASSUME NEW S, GoodDevices(S), NEW W, NEW T, Becomes(S, W, T)
  PROVE  GoodDevices(T) /\ T \subseteq DeviceType /\ (Homed(S) => Homed(T))
<1> USE DEF Becomes
<1>1. NamesOnce(T)
  <2> SUFFICES ASSUME NEW p \in S, NEW q \in S, W[p].name = W[q].name PROVE W[p] = W[q]
    BY DEF NamesOnce
  <2>1. p.name = q.name
    OBVIOUS
  <2>2. p = q
    BY <2>1 DEF GoodDevices, NamesOnce
  <2> QED
    BY <2>2
<1>2. BusRead(T, {})
  <2> SUFFICES ASSUME NEW c \in T, c.class # "", NEW f \in Functions,
                      IsNetworkDevice(f), IsAllocatableNetworkDevice(f)
               PROVE  \E e \in T : e.name = f
    BY DEF BusRead
  <2>1. PICK b \in S : b.class # ""
    OBVIOUS
  <2>2. PICK e \in S : e.name = f
    BY <2>1 DEF GoodDevices, BusRead
  <2> QED
    BY <2>2
<1>3. \A d \in T : DeviceOK(d)
  OBVIOUS
<1>4. Homed(S) => Homed(T)
  BY DEF Homed
<1> QED
  BY <1>1, <1>2, <1>3, <1>4 DEF GoodDevices, DeviceOK

\* RDMA of the link or of the function: a link that is there is the function's.
LEMMA RdmaGood ==
  ASSUME NEW S, GoodDevices(S)
  PROVE  /\ GoodDevices(AddRDMAAttributes(S)) /\ AddRDMAAttributes(S) \subseteq DeviceType
         /\ Homed(S) => Homed(AddRDMAAttributes(S))
<1> DEFINE W == [d \in S |-> [d EXCEPT !.rdma = RdmaOf(d)]]
<1>1. /\ \A t \in AddRDMAAttributes(S) : \E d \in S : t = W[d]
      /\ \A d \in S : W[d] \in AddRDMAAttributes(S)
  BY DEF AddRDMAAttributes
<1>2. ASSUME NEW d \in S
      PROVE  DeviceOK(W[d]) /\ W[d].name = d.name /\ W[d].class = d.class /\ W[d].ifName = d.ifName
  <2>1. DeviceOK(d)
    BY DEF GoodDevices
  <2>2. W[d] = [d EXCEPT !.rdma = RdmaOf(d)]
    OBVIOUS
  <2>3. RdmaOf(d) \in BOOLEAN
    BY <2>1, HardwareAssumption DEF RdmaOf, DeviceOK, DeviceType
  <2> HIDE DEF W
  <2>4. W[d] \in DeviceType /\ W[d].name = d.name /\ W[d].class = d.class /\ W[d].ifName = d.ifName
    BY <2>1, <2>2, <2>3 DEF DeviceOK, DeviceType
  <2>5. W[d].rdma = RdmaOf(d)
    BY <2>1, <2>2, <2>3 DEF DeviceOK, DeviceType
  <2>6. ASSUME d.class # "", RdmaOf(d) PROVE Function[d.name].rdma
    <3>1. d.name \in Functions /\ (d.rdma => Function[d.name].rdma)
      BY <2>1, <2>6 DEF DeviceOK
    <3>2. d.ifName # None => d.ifName \in Links /\ d.name = Link[d.ifName].pci
      BY <2>1, <3>1, HardwareAssumption DEF DeviceOK, DeviceType
    <3> QED
      BY <2>6, <3>1, <3>2 DEF RdmaOf
  <2> QED
    BY <2>1, <2>4, <2>5, <2>6 DEF DeviceOK
<1>3. \A d \in S : /\ DeviceOK(W[d]) /\ W[d].name = d.name /\ W[d].class = d.class
                  /\ W[d].ifName = d.ifName
  BY <1>2
<1> HIDE DEF W
<1>4. Becomes(S, W, AddRDMAAttributes(S))
  BY <1>1, <1>3 DEF Becomes
<1> QED
  BY <1>4, SameNamesGood

\* The link layers.
LEMMA LayersGood ==
  ASSUME NEW S, GoodDevices(S)
  PROVE  LET T == RdmaPortLinkLayers(S)
         IN  /\ GoodDevices(T) /\ T \subseteq DeviceType /\ (Homed(S) => Homed(T))
             /\ rdmaInPod = {} => \A d \in T :
                  d.rdma /\ d.name \in Functions /\ Function[d.name].ethernet => d.ethernet
<1> DEFINE Layer(d) == /\ d.rdma
                       /\ \E f \in Functions \ rdmaInPod :
                            /\ f = d.name \/ (d.ifName # None /\ Link[d.ifName].pci = f)
                            /\ Function[f].ethernet
           W == [d \in S |-> [d EXCEPT !.ethernet = Layer(d)]]
<1>1. /\ \A t \in RdmaPortLinkLayers(S) : \E d \in S : t = W[d]
      /\ \A d \in S : W[d] \in RdmaPortLinkLayers(S)
  BY DEF RdmaPortLinkLayers
<1>2. ASSUME NEW d \in S
      PROVE  /\ DeviceOK(W[d]) /\ W[d].name = d.name /\ W[d].class = d.class /\ W[d].ifName = d.ifName
             /\ rdmaInPod = {} /\ W[d].rdma /\ W[d].name \in Functions /\ Function[W[d].name].ethernet
                  => W[d].ethernet
  <2>1. DeviceOK(d)
    BY DEF GoodDevices
  <2>2. W[d] = [d EXCEPT !.ethernet = Layer(d)]
    OBVIOUS
  <2>3. Layer(d) \in BOOLEAN
    BY <2>1 DEF DeviceOK, DeviceType
  <2>4. rdmaInPod = {} /\ d.rdma /\ d.name \in Functions /\ Function[d.name].ethernet => Layer(d)
    OBVIOUS
  <2> HIDE DEF W, Layer
  <2>5. /\ W[d] \in DeviceType /\ W[d].name = d.name /\ W[d].class = d.class /\ W[d].ifName = d.ifName
        /\ W[d].rdma = d.rdma
    BY <2>1, <2>2, <2>3 DEF DeviceOK, DeviceType
  <2>6. W[d].ethernet = Layer(d)
    BY <2>1, <2>2, <2>3 DEF DeviceOK, DeviceType
  <2>7. DeviceOK(W[d])
    BY <2>1, <2>5 DEF DeviceOK
  <2> QED
    BY <2>4, <2>5, <2>6, <2>7
<1> HIDE DEF W
<1>3. \A d \in S : /\ DeviceOK(W[d]) /\ W[d].name = d.name /\ W[d].class = d.class
                  /\ W[d].ifName = d.ifName
  BY <1>2
<1>4. /\ GoodDevices(RdmaPortLinkLayers(S)) /\ RdmaPortLinkLayers(S) \subseteq DeviceType
      /\ Homed(S) => Homed(RdmaPortLinkLayers(S))
  <2>1. Becomes(S, W, RdmaPortLinkLayers(S))
    BY <1>1, <1>3 DEF Becomes
  <2> QED
    BY <2>1, SameNamesGood
<1> QED
  BY <1>1, <1>2, <1>4

\* The filter takes away only devices of the node's own links.
LEMMA FilteredGood ==
  ASSUME TypeInv, NEW S, GoodDevices(S)
  PROVE  LET T == Filtered(RdmaPortLinkLayers(S))
         IN  /\ GoodStore(T) /\ T \subseteq DeviceType
             /\ \A d \in T : d.ifName \notin gwInterfaces
             /\ Homed(S) => Homed(T)
<1> DEFINE R == RdmaPortLinkLayers(S)
           T == Filtered(R)
<1>1. GoodDevices(R) /\ R \subseteq DeviceType /\ (Homed(S) => Homed(R))
  BY LayersGood
<1>2. rdmaShared => \A d \in R :
        d.rdma /\ d.name \in Functions /\ Function[d.name].ethernet => d.ethernet
  BY LayersGood DEF TypeInv
<1> HIDE DEF R
<1>3. T = {d \in R : d.ifName \notin gwInterfaces}
  BY DEF Filtered
<1> HIDE DEF T
<1>4. \A d \in T : DeviceOK(d) /\ d.ifName \notin gwInterfaces
  BY <1>1, <1>3 DEF GoodDevices
<1>5. NamesOnce(T)
  BY <1>1, <1>3 DEF GoodDevices, NamesOnce
<1>6. BusRead(T, UplinkFunctions)
  <2> SUFFICES ASSUME NEW c \in T, c.class # "", NEW f \in Functions,
                      IsNetworkDevice(f), IsAllocatableNetworkDevice(f), f \notin UplinkFunctions
               PROVE  \E e \in T : e.name = f
    BY DEF BusRead
  <2>1. PICK e \in R : e.name = f
    BY <1>1, <1>3 DEF GoodDevices, BusRead
  <2>2. ASSUME e.ifName \in gwInterfaces PROVE FALSE
    <3>1. e.ifName \in Links
      BY <2>2 DEF TypeInv
    <3>2. e.name = e.ifName \/ e.name = Link[e.ifName].pci
      BY <1>1, <3>1, HardwareAssumption DEF GoodDevices, DeviceOK
    <3>3. e.name = Link[e.ifName].pci
      BY <2>1, <3>1, <3>2, HardwareAssumption
    <3> QED
      BY <2>1, <2>2, <3>3 DEF UplinkFunctions
  <2> QED
    BY <2>1, <2>2, <1>3
<1>7. Homed(S) => Homed(T)
  BY <1>1, <1>3 DEF Homed
<1>8. T \subseteq DeviceType
  BY <1>1, <1>3
<1>9. GoodStore(T)
  BY <1>2, <1>3, <1>4, <1>5, <1>6 DEF GoodStore
<1> QED
  BY <1>4, <1>7, <1>8, <1>9 DEF R, T

\* The devices of the uplinks know their links when the list had them.
LEMMA InterfacesHomed ==
  ASSUME NEW S, \A d \in S : d \in DeviceType /\ d.name \in Functions,
         NEW L \in SUBSET Links, \A l \in NodeLinks : Considered(l) => l \in L,
         \A l \in NodeLinks : l \notin inPod
  PROVE  Homed(DiscoverNetworkInterfaces(S, L))
<1> DEFINE Fits(d, l) == PciAddressForNetInterface(l) = d.name
           Named(d) == [d EXCEPT !.ifName = CHOOSE l \in L : Fits(d, l)]
           For(d) == IF \E l \in L : Fits(d, l) THEN Named(d) ELSE d
           V == {Device(l, l, FALSE) : l \in {k \in L : PciAddressForNetInterface(k) = None}}
<1>1. DiscoverNetworkInterfaces(S, L) = {For(d) : d \in S} \union V
  BY DEF DiscoverNetworkInterfaces
<1>2. \A l \in Links : PciAddressForNetInterface(l) # None => PciAddressForNetInterface(l) = Link[l].pci
  BY DEF PciAddressForNetInterface
<1>3. ASSUME NEW d \in S
      PROVE  /\ For(d).name = d.name
             /\ \A l \in NodeLinks : Considered(l) /\ Link[l].pci = d.name => For(d).ifName = l
  <2>1. d \in DeviceType /\ d.name \in Functions /\ d.name # None
    BY HardwareAssumption
  <2>2. CASE \E l \in L : Fits(d, l)
    <3>1. PICK k : k = (CHOOSE l \in L : Fits(d, l))
      OBVIOUS
    <3>2. k \in L /\ Fits(d, k)
      BY <2>2, <3>1, Zenon
    <3>3. For(d) = [d EXCEPT !.ifName = k]
      BY <2>2, <3>1
    <3>4. Link[k].pci = d.name
      BY <3>2, <2>1, <1>2
    <3>5. \A l \in L : Link[l].pci = d.name => l = k
      BY <3>2, <3>4, <2>1, HardwareAssumption
    <3> HIDE DEF For
    <3>6. For(d).name = d.name /\ For(d).ifName = k
      BY <2>1, <3>3 DEF DeviceType
    <3> QED
      BY <3>5, <3>6
  <2>3. CASE ~\E l \in L : Fits(d, l)
    <3>1. \A l \in NodeLinks : PciAddressForNetInterface(l) = Link[l].pci
      BY DEF PciAddressForNetInterface
    <3>2. \A l \in NodeLinks : Considered(l) => Link[l].pci # d.name
      BY <2>3, <3>1
    <3> QED
      BY <2>3, <3>2
  <2> QED
    BY <2>2, <2>3
<1>4. ASSUME NEW d \in V PROVE d.ifName = d.name /\ d.name \in Links
  <2>1. PICK l \in Links : d = Device(l, l, FALSE)
    OBVIOUS
  <2> QED
    BY <2>1 DEF Device
<1> HIDE DEF For, V
<1> SUFFICES ASSUME NEW e \in {For(d) : d \in S} \union V, NEW l \in NodeLinks, Considered(l),
                    e.name = l \/ e.name = Link[l].pci
             PROVE  e.ifName = l
  BY <1>1 DEF Homed
<1>5. l \in Links
  BY DEF NodeLinks
<1>6. CASE e \in V
  BY <1>4, <1>5, <1>6, HardwareAssumption
<1>7. CASE e \in {For(d) : d \in S}
  <2>1. PICK d \in S : e = For(d)
    BY <1>7
  <2>2. e.name = d.name /\ d.name \in Functions
    BY <2>1, <1>3
  <2>3. d.name = Link[l].pci
    BY <2>2, <1>5, HardwareAssumption
  <2> QED
    BY <2>1, <2>3, <1>3
<1> QED
  BY <1>6, <1>7

\* Whom the filter leaves is none of the uplinks' devices.
LEMMA HomedFiltered ==
  ASSUME NEW S, Homed(S), \A d \in S : d.ifName \notin NodeLinks
  PROVE  NoStrays({d.name : d \in S})
BY DEF Homed, NoStrays

----------------------------------------------------------------------------
(* The start: without a faulty scan before, the slice has no uplinks.      *)
LEMMA CompleteSlice ==
  ASSUME inPod = {}, NEW X
  PROVE  Complete(X) \subseteq Functions \union Links /\ (X = NodeLinks => NoStrays(Complete(X)))
<1> DEFINE Q == DiscoverStandaloneRDMADevices(DiscoverPCIDevices(TRUE))
           L == {l \in Links : Considered(l)}
           D == DiscoverNetworkInterfaces(Q, L)
<1>1. ASSUME NEW d \in Q PROVE d \in DeviceType /\ d.name \in Functions /\ d.ifName = None
  <2>1. PICK f \in Functions : d = Device(f, None, FALSE) \/ d = Device(f, None, TRUE)
    BY DEF DiscoverStandaloneRDMADevices, DiscoverPCIDevices
  <2>2. CASE d = Device(f, None, FALSE)
    BY <2>2, DeviceTyped DEF Device
  <2>3. CASE d = Device(f, None, TRUE)
    BY <2>3, DeviceTyped DEF Device
  <2> QED
    BY <2>1, <2>2, <2>3
<1> HIDE DEF Q
<1>2. Homed(D)
  <2>1. L \in SUBSET Links /\ \A l \in NodeLinks : Considered(l) => l \in L
    BY DEF NodeLinks
  <2> HIDE DEF L
  <2> QED
    BY <2>1, <1>1, InterfacesHomed
<1>3. ASSUME NEW e \in D PROVE e.name \in Functions \union Links
  <2> DEFINE Named(d) == [d EXCEPT !.ifName = CHOOSE l \in L : PciAddressForNetInterface(l) = d.name]
  <2>1. CASE e \in Q
    BY <2>1, <1>1
  <2>2. ASSUME NEW d \in Q, e = Named(d) PROVE e.name \in Functions \union Links
    <3>1. PICK k : e = [d EXCEPT !.ifName = k]
      BY <2>2
    <3> QED
      BY <3>1, <1>1 DEF DeviceType
  <2>3. ASSUME NEW l \in Links, e = Device(l, l, FALSE) PROVE e.name \in Functions \union Links
    BY <2>3 DEF Device
  <2> QED
    BY <2>1, <2>2, <2>3 DEF DiscoverNetworkInterfaces
<1>4. Complete(X) = {d.name : d \in {e \in D : e.ifName \notin X}}
  BY DEF Complete, Q
<1> HIDE DEF D
<1>5. Complete(X) \subseteq Functions \union Links
  BY <1>3, <1>4
<1>6. ASSUME X = NodeLinks PROVE NoStrays(Complete(X))
  <2>1. Homed({e \in D : e.ifName \notin X})
    BY <1>2 DEF Homed
  <2> QED
    BY <2>1, <1>4, <1>6, HomedFiltered
<1> QED
  BY <1>5, <1>6

LEMMA InitDisc == DiscoveryInit => DiscInv
<1> SUFFICES ASSUME DiscoveryInit PROVE DiscInv
  OBVIOUS
<1> USE DEF DiscoveryInit
<1>1. slice \subseteq Functions \union Links /\ (~misread => NoStrays(slice))
  BY CompleteSlice, ExcludedAreNodeLinks DEF Uplinks
<1>2. /\ NoScan \in ScanType /\ NoScan.devices = {} /\ NoScan.links = {} /\ NoScan.stage = "idle"
  BY DEF NoScan, ScanType
<1>3. NotPreparing \in PrepareType /\ NotPreparing.device = None /\ NotPreparing.answer = None
  BY DEF NotPreparing, PrepareType
<1>4. TypeInv
  <2>1. scan \in [Scanners -> ScanType]
    BY <1>2
  <2>2. moves \in 0 .. MaxMoves
    BY BoundAssumption
  <2>3. /\ running \in BOOLEAN /\ unread \in BOOLEAN /\ misread \in BOOLEAN /\ early \in BOOLEAN
        /\ gwInterfaces = {} /\ ~running /\ ~unread
    OBVIOUS
  <2> QED
    BY <1>1, <1>3, <2>1, <2>2, <2>3 DEF TypeInv
<1>5. ScanInv
  BY <1>2 DEF ScanInv, ScanOK, GoodDevices, NamesOnce, BusRead, OnlyBuses, Scanners
<1>6. GoodStore(deviceStore)
  BY DEF GoodStore, NamesOnce, BusRead
<1>7. UplinkStore
  <2>1. None \notin NodeLinks
    BY HardwareAssumption DEF NodeLinks
  <2>2. Clean => NoStrays(slice \union ({prepare.device} \ {None}))
    BY <1>1, <1>3 DEF Clean, NoStrays
  <2> QED
    BY <1>3, <2>1, <2>2 DEF UplinkStore, UplinkStays
<1>8. \A s \in Scanners : UplinkScan(s, scan[s])
  BY <1>2 DEF UplinkScan
<1> QED
  BY <1>4, <1>5, <1>6, <1>7, <1>8 DEF DiscInv, UplinkInv

----------------------------------------------------------------------------
(* The steps.                                                              *)

\* The devices of a scan depend on no variable but the mode.
LEMMA SameMode ==
  ASSUME moveIBInterfaces' = moveIBInterfaces
  PROVE  \A d : DeviceOK(d)' <=> DeviceOK(d)
BY DEF DeviceOK, Considered, OnBus, IsNetworkDevice, IsAllocatableNetworkDevice

LEMMA SameModeAll ==
  ASSUME moveIBInterfaces' = moveIBInterfaces, NEW S
  PROVE  GoodDevices(S)' <=> GoodDevices(S)
<1>1. (\A d \in S : DeviceOK(d))' <=> \A d \in S : DeviceOK(d)
  BY SameMode
<1>2. NamesOnce(S)' <=> NamesOnce(S)
  BY DEF NamesOnce
<1>3. BusRead(S, {})' <=> BusRead(S, {})
  BY DEF BusRead, IsNetworkDevice, IsAllocatableNetworkDevice
<1> QED
  BY <1>1, <1>2, <1>3 DEF GoodDevices

LEMMA GoodStoreFrame ==
  ASSUME UNCHANGED <<moveIBInterfaces, rdmaShared>>, gwInterfaces \subseteq gwInterfaces',
         NEW T, GoodStore(T)
  PROVE  GoodStore(T)'
<1>1. \A d \in T : DeviceOK(d)'
  BY SameMode DEF GoodStore
<1>2. BusRead(T, UplinkFunctions)'
  <2>1. UplinkFunctions \subseteq UplinkFunctions'
    BY DEF UplinkFunctions
  <2> QED
    BY <2>1 DEF GoodStore, BusRead, IsNetworkDevice, IsAllocatableNetworkDevice
<1> QED
  BY <1>1, <1>2 DEF GoodStore, NamesOnce

\* What is changed outside of a scan: the mode is not, the uplinks become known,
\* the histories only grow.
Around ==
  /\ UNCHANGED <<moveIBInterfaces, rdmaShared>>
  /\ gwInterfaces \subseteq gwInterfaces' /\ (running => running')
  /\ (unread => unread') /\ (misread => misread')

LEMMA ScanOKFrame ==
  ASSUME Around, NEW x, ScanOK(x)
  PROVE  ScanOK(x)'
<1> USE DEF Around
<1>1. x.stage # "filtered" => GoodDevices(x.devices)'
  BY SameModeAll DEF ScanOK
<1>2. x.stage = "filtered" => GoodStore(x.devices)'
  BY GoodStoreFrame DEF ScanOK
<1>3. \A l \in x.links : Considered(l)'
  BY DEF ScanOK, Considered
<1> QED
  BY <1>1, <1>2, <1>3 DEF ScanOK, OnlyBuses

LEMMA UplinkScanFrame ==
  ASSUME Around, NEW s, NEW x, UplinkScan(s, x)
  PROVE  UplinkScan(s, x)'
<1>1. Clean' => Clean
  BY DEF Clean, Around
<1>2. \A l : Considered(l)' <=> Considered(l)
  BY DEF Considered, Around
<1>3. \A S : Homed(S)' <=> Homed(S)
  BY <1>2 DEF Homed
<1>4. \A S : NoStrays(S)' <=> NoStrays(S)
  BY <1>2 DEF NoStrays
<1>5. x.stage = "filtered" /\ ~unread' /\ ~x.early => \A d \in x.devices : d.ifName \notin NodeLinks
  BY DEF UplinkScan, Around
<1>6. Clean' /\ x.stage = "links" => \A l \in NodeLinks : Considered(l)' => l \in x.links
  BY <1>1, <1>2 DEF UplinkScan
<1>7. Clean' /\ x.stage \in {"interfaces", "rdma"} => Homed(x.devices)'
  BY <1>1, <1>3 DEF UplinkScan
<1>8. Clean' /\ s = "run" /\ x.stage = "filtered" => NoStrays({d.name : d \in x.devices})'
  BY <1>1, <1>4 DEF UplinkScan
<1> QED
  BY <1>5, <1>6, <1>7, <1>8 DEF UplinkScan

\* A step that leaves the scans alone.
LEMMA ScansFrame ==
  ASSUME ScanInv, UplinkInv, Around, UNCHANGED scan
  PROVE  ScanInv' /\ \A s \in Scanners : UplinkScan(s, scan[s])'
<1>1. ASSUME NEW s \in Scanners PROVE ScanOK(scan[s])' /\ UplinkScan(s, scan[s])'
  <2>1. PICK x : x = scan[s]
    OBVIOUS
  <2>2. ScanOK(x)' /\ UplinkScan(s, x)'
    BY <2>1, ScanOKFrame, UplinkScanFrame DEF ScanInv, UplinkInv
  <2> QED
    BY <2>1, <2>2
<1> QED
  BY <1>1 DEF ScanInv, Around

LEMMA StoreFrame ==
  ASSUME GoodStore(deviceStore), Around, UNCHANGED deviceStore
  PROVE  GoodStore(deviceStore)'
<1>1. PICK T : T = deviceStore
  OBVIOUS
<1>2. GoodStore(T)'
  BY <1>1, GoodStoreFrame DEF Around
<1> QED
  BY <1>1, <1>2

LEMMA UplinkFrame ==
  ASSUME UplinkStore, Around, UNCHANGED <<inPod, slice, deviceStore, prepare, early>>
  PROVE  UplinkStore'
<1>1. Clean' => Clean
  BY DEF Clean, Around
<1>2. NoStrays(slice \union ({prepare.device} \ {None})) =>
        NoStrays(slice \union ({prepare.device} \ {None}))'
  BY DEF NoStrays, Considered, Around
<1>3. Clean' => \A l \in NodeLinks : l \notin inPod'
  BY <1>1 DEF UplinkStore
<1>4. Clean' => NoStrays(slice \union ({prepare.device} \ {None}))'
  BY <1>1, <1>2 DEF UplinkStore
<1>5. ~unread' /\ ~early' => \A d \in deviceStore' : d.ifName \notin NodeLinks
  BY DEF UplinkStore, Around
<1>6. UplinkStays'
  BY DEF UplinkStore, UplinkStays, Around
<1> QED
  BY <1>3, <1>4, <1>5, <1>6 DEF UplinkStore

\* A step of one scan.
LEMMA ScanStep ==
  ASSUME TypeInv, ScanInv, UplinkInv, Around,
         NEW s \in Scanners, NEW x \in ScanType, scan' = [scan EXCEPT ![s] = x],
         s = "run" /\ x.stage # "idle" => running,
         ScanOK(x)', UplinkScan(s, x)'
  PROVE  /\ ScanInv' /\ scan' \in [Scanners -> ScanType]
         /\ \A t \in Scanners : UplinkScan(t, scan[t])'
<1>1. scan' \in [Scanners -> ScanType] /\ scan'[s] = x /\ \A t \in Scanners : t # s => scan'[t] = scan[t]
  BY DEF TypeInv
<1>2. ASSUME NEW t \in Scanners
      PROVE  ScanOK(scan[t])' /\ UplinkScan(t, scan[t])'
  <2>1. CASE t = s
    BY <2>1, <1>1
  <2>2. CASE t # s
    <3>1. PICK y : y = scan[t]
      OBVIOUS
    <3>2. ScanOK(y)' /\ UplinkScan(t, y)'
      BY <3>1, ScanOKFrame, UplinkScanFrame DEF ScanInv, UplinkInv
    <3> QED
      BY <2>2, <3>1, <3>2, <1>1
  <2> QED
    BY <2>1, <2>2
<1>3. scan'["run"].stage # "idle" => running'
  BY <1>1 DEF ScanInv, Scanners, Around
<1> QED
  BY <1>1, <1>2, <1>3 DEF ScanInv

\* A step of the claim's preparation.
LEMMA PrepareStep ==
  ASSUME DiscInv, NEW p \in PrepareType, Prepares(p),
         p.device \in slice \union {prepare.device},
         p.answer \in NodeLinks => unread \/ (misread /\ p.early)
  PROVE  DiscInv'
<1> USE DEF Prepares, worldVars
<1>1. Around
  BY DEF Around
<1>2. TypeInv'
  BY DEF DiscInv, TypeInv
<1>3. ScanInv' /\ \A s \in Scanners : UplinkScan(s, scan[s])'
  BY <1>1, ScansFrame DEF DiscInv
<1>4. GoodStore(deviceStore)'
  BY <1>1, StoreFrame DEF DiscInv
<1>5. UplinkStore'
  <2>1. prepare' = p
    OBVIOUS
  <2>2. Clean' => NoStrays(slice \union ({prepare.device} \ {None}))'
    <3>1. NoStrays(slice \union ({prepare.device} \ {None})) =>
            NoStrays(slice \union ({p.device} \ {None}))
      BY DEF NoStrays
    <3>2. \A S : NoStrays(S)' <=> NoStrays(S)
      BY DEF NoStrays, Considered
    <3>3. Clean' <=> Clean
      BY DEF Clean
    <3>4. Clean => NoStrays(slice \union ({p.device} \ {None}))
      BY <3>1 DEF DiscInv, UplinkInv, UplinkStore
    <3>5. Clean' => NoStrays(slice \union ({p.device} \ {None}))'
      BY <3>2, <3>3, <3>4
    <3> QED
      BY <2>1, <3>5
  <2>3. Clean' => \A l \in NodeLinks : l \notin inPod'
    BY DEF DiscInv, UplinkInv, UplinkStore, Clean
  <2>4. ~unread' /\ ~early' => \A d \in deviceStore' : d.ifName \notin NodeLinks
    BY DEF DiscInv, UplinkInv, UplinkStore
  <2>5. UplinkStays'
    BY DEF UplinkStays
  <2> QED
    BY <2>2, <2>3, <2>4, <2>5 DEF UplinkStore
<1> QED
  BY <1>2, <1>3, <1>4, <1>5 DEF DiscInv, UplinkInv

\* A pod takes an uplink only if its claim was given one.
LEMMA MoveKeepsInv ==
  ASSUME DiscInv, (\E l \in Links : MoveLink(l)) \/ (\E f \in Functions : MoveRdma(f))
  PROVE  DiscInv'
<1>1. Moves
  BY DEF MoveLink, MoveRdma
<1>2. inPod' \subseteq Links /\ rdmaInPod' \subseteq Functions /\ (rdmaShared => rdmaInPod' = {})
  BY DEF DiscInv, TypeInv, MoveLink, MoveRdma, Moves
<1>3. moves' \in 0 .. MaxMoves
  BY <1>1, BoundAssumption DEF DiscInv, TypeInv, Moves
<1>4. TypeInv'
  BY <1>1, <1>2, <1>3 DEF DiscInv, TypeInv, Moves
<1>5. Around
  BY <1>1 DEF Around, Moves
<1>6. ScanInv' /\ \A s \in Scanners : UplinkScan(s, scan[s])'
  BY <1>1, <1>5, ScansFrame DEF DiscInv, Moves
<1>7. GoodStore(deviceStore)'
  BY <1>1, <1>5, StoreFrame DEF DiscInv, Moves
<1>8. UplinkStore'
  <2>1. Clean => \A l \in NodeLinks : l \notin inPod'
    <3> SUFFICES ASSUME Clean, NEW l \in NodeLinks, l \in inPod' PROVE FALSE
      OBVIOUS
    <3>1. l \notin inPod /\ l # prepare.answer
      BY DEF DiscInv, UplinkInv, UplinkStore, UplinkStays, Clean
    <3>2. l \in Uplinks
      BY ExcludedAreNodeLinks DEF Uplinks
    <3> QED
      BY <3>1, <3>2 DEF MoveLink, MoveRdma
  <2>2. Clean' <=> Clean
    BY <1>1 DEF Clean, Moves
  <2>3. NoStrays(slice \union ({prepare.device} \ {None}))' <=>
          NoStrays(slice \union ({prepare.device} \ {None}))
    BY <1>1 DEF NoStrays, Considered, Moves
  <2>4. /\ ~unread' /\ ~early' => \A d \in deviceStore' : d.ifName \notin NodeLinks
        /\ UplinkStays'
    BY <1>1 DEF DiscInv, UplinkInv, UplinkStore, UplinkStays, Moves
  <2> QED
    BY <2>1, <2>2, <2>3, <2>4 DEF DiscInv, UplinkInv, UplinkStore
<1> QED
  BY <1>4, <1>6, <1>7, <1>8 DEF DiscInv, UplinkInv

LEMMA FaultsCounted ==
  ASSUME TypeInv, NEW ok \in BOOLEAN, Reads(ok)
  PROVE  faults' \in 0 .. MaxFaults
BY BoundAssumption DEF TypeInv, Reads

LEMMA RunBeginsKeepsInv ==
  ASSUME DiscInv, NEW routes \in RouteReads, NEW ok \in BOOLEAN, RunBegins(routes, ok)
  PROVE  DiscInv'
<1> USE DEF RunBegins, worldVars
<1>1. routes \subseteq DefaultRoutes
  BY DEF RouteReads
<1>2. gwInterfaces' \subseteq Links /\ gwInterfaces = {} /\ ~unread
  BY <1>1, ExcludedAreLinks DEF DiscInv, TypeInv
<1>3. ~unread' => gwInterfaces' = NodeLinks
  BY ExcludedAreNodeLinks
<1>4. faults' \in 0 .. MaxFaults
  <2>1. (routes = DefaultRoutes /\ ok) \in BOOLEAN
    OBVIOUS
  <2> QED
    BY <2>1, FaultsCounted DEF DiscInv
<1>5. unread' \in BOOLEAN /\ running' = TRUE
  OBVIOUS
<1>6. TypeInv'
  BY <1>2, <1>3, <1>4, <1>5 DEF DiscInv, TypeInv
<1>7. Around
  BY <1>2 DEF Around
<1>8. ScanInv' /\ \A s \in Scanners : UplinkScan(s, scan[s])'
  BY <1>7, ScansFrame DEF DiscInv
<1>9. GoodStore(deviceStore)'
  BY <1>7, StoreFrame DEF DiscInv
<1>10. UplinkStore'
  BY <1>7, UplinkFrame DEF DiscInv, UplinkInv
<1> QED
  BY <1>6, <1>8, <1>9, <1>10 DEF DiscInv, UplinkInv

\* A step of a scan that ends before the update of the store.
LEMMA ReadKeepsInv ==
  ASSUME DiscInv, NEW s \in Scanners, NEW x \in ScanType, scan' = [scan EXCEPT ![s] = x],
         ScanChanges, faults' \in 0 .. MaxFaults, misread' \in BOOLEAN, misread => misread',
         s = "run" => running,
         ScanOK(x), UplinkScan(s, x)'
  PROVE  DiscInv'
<1>1. Around
  BY DEF Around, ScanChanges, worldVars
<1>2. ScanOK(x)'
  BY <1>1, ScanOKFrame
<1>3. /\ ScanInv' /\ scan' \in [Scanners -> ScanType]
      /\ \A t \in Scanners : UplinkScan(t, scan[t])'
  BY <1>1, <1>2, ScanStep DEF DiscInv
<1>4. TypeInv'
  BY <1>3 DEF DiscInv, TypeInv, ScanChanges, worldVars
<1>5. GoodStore(deviceStore)'
  BY <1>1, StoreFrame DEF DiscInv, ScanChanges, worldVars
<1>6. UplinkStore'
  BY <1>1, UplinkFrame DEF DiscInv, UplinkInv, ScanChanges, worldVars
<1> QED
  BY <1>3, <1>4, <1>5, <1>6 DEF DiscInv, UplinkInv

LEMMA BusesKeepsInv ==
  ASSUME DiscInv, NEW s \in Scanners, NEW ok \in BOOLEAN, ScanBuses(s, ok)
  PROVE  DiscInv'
<1>1. PICK D : D = AddPCIAttributes(DiscoverStandaloneRDMADevices(DiscoverPCIDevices(ok)), ok)
  OBVIOUS
<1>2. GoodDevices(D) /\ OnlyBuses(D) /\ D \subseteq DeviceType
  BY <1>1, BusesGood
<1>3. scan \in [Scanners -> ScanType]
  BY DEF DiscInv, TypeInv
<1>4. PICK x : x = [scan[s] EXCEPT !.stage = "buses", !.devices = D]
  OBVIOUS
<1>5. /\ x \in ScanType /\ x.devices = D /\ x.links = scan[s].links /\ x.stage = "buses"
      /\ scan' = [scan EXCEPT ![s] = x]
  BY <1>1, <1>2, <1>3, <1>4 DEF ScanType, ScanBuses
<1>6. ScanOK(x)
  BY <1>2, <1>5 DEF DiscInv, ScanInv, ScanOK
<1>7. s = "run" => running
  BY DEF ScanBuses, Due
<1>8. faults' \in 0 .. MaxFaults
  BY FaultsCounted DEF DiscInv, ScanBuses
<1>9. UplinkScan(s, x)'
  BY <1>5 DEF UplinkScan
<1>10. misread' \in BOOLEAN /\ (misread => misread')
  BY DEF DiscInv, TypeInv, ScanBuses
<1> QED
  BY <1>5, <1>6, <1>7, <1>8, <1>9, <1>10, ReadKeepsInv DEF ScanBuses

LEMMA LinksKeepsInv ==
  ASSUME DiscInv, NEW s \in Scanners, NEW ok \in BOOLEAN, ScanLinks(s, ok)
  PROVE  DiscInv'
<1>1. PICK L : L = IF ok THEN {l \in Links \ inPod : Considered(l)} ELSE {}
  OBVIOUS
<1>2. L \subseteq Links /\ \A l \in L : Considered(l)
  BY <1>1
<1>3. scan \in [Scanners -> ScanType]
  BY DEF DiscInv, TypeInv
<1>4. PICK x : x = [scan[s] EXCEPT !.stage = "links", !.links = L]
  OBVIOUS
<1>5. /\ x \in ScanType /\ x.devices = scan[s].devices /\ x.links = L /\ x.stage = "links"
      /\ scan' = [scan EXCEPT ![s] = x]
  BY <1>1, <1>2, <1>3, <1>4 DEF ScanType, ScanLinks
<1>6. ScanOK(x)
  BY <1>2, <1>5 DEF DiscInv, ScanInv, ScanOK, ScanLinks
<1>7. s = "run" => running
  BY DEF ScanLinks, DiscInv, ScanInv
<1>8. faults' \in 0 .. MaxFaults
  BY FaultsCounted DEF DiscInv, ScanLinks
<1>9. misread' \in BOOLEAN /\ (misread => misread') /\ (~misread' => ok)
  BY DEF DiscInv, TypeInv, ScanLinks
<1>10. ASSUME Clean', NEW l \in NodeLinks, Considered(l)' PROVE l \in L
  <2>1. Clean /\ ok
    BY <1>9, <1>10 DEF Clean, ScanLinks, ScanChanges
  <2>2. Considered(l) /\ l \in Links
    BY <1>10 DEF Considered, NodeLinks, ScanLinks, ScanChanges, worldVars
  <2> QED
    BY <1>1, <2>1, <2>2 DEF DiscInv, UplinkInv, UplinkStore
<1>11. UplinkScan(s, x)'
  BY <1>5, <1>10 DEF UplinkScan
<1> QED
  BY <1>5, <1>6, <1>7, <1>8, <1>9, <1>11, ReadKeepsInv DEF ScanLinks

LEMMA InterfacesKeepsInv ==
  ASSUME DiscInv, NEW s \in Scanners, ScanInterfaces(s)
  PROVE  DiscInv'
<1>1. PICK D : D = DiscoverNetworkInterfaces(scan[s].devices, scan[s].links)
  OBVIOUS
<1>2. scan \in [Scanners -> ScanType]
  BY DEF DiscInv, TypeInv
<1>3. PICK S : S = scan[s].devices
  OBVIOUS
<1>4. PICK L : L = scan[s].links
  OBVIOUS
<1>5. /\ GoodDevices(S) /\ OnlyBuses(S)
      /\ L \in SUBSET Links /\ \A l \in L : Considered(l)
  BY <1>2, <1>3, <1>4 DEF DiscInv, ScanInv, ScanOK, ScanInterfaces, ScanType
<1>6. GoodDevices(D) /\ D \subseteq DeviceType
  BY <1>1, <1>3, <1>4, <1>5, InterfacesGood
<1>7. PICK x : x = [scan[s] EXCEPT !.stage = "interfaces", !.links = {}, !.devices = D]
  OBVIOUS
<1>8. /\ x \in ScanType /\ x.devices = D /\ x.links = {} /\ x.stage = "interfaces"
      /\ scan' = [scan EXCEPT ![s] = x]
  BY <1>1, <1>2, <1>6, <1>7 DEF ScanType, ScanInterfaces
<1>9. s = "run" => running
  BY DEF ScanInterfaces, DiscInv, ScanInv
<1>10. faults' \in 0 .. MaxFaults
  BY DEF DiscInv, TypeInv, ScanInterfaces
<1>11. ScanOK(x)
  BY <1>6, <1>8 DEF ScanOK
<1>12. ASSUME Clean' PROVE Homed(D)'
  <2>1. Clean
    BY <1>12 DEF Clean, ScanInterfaces, ScanChanges
  <2>2. \A l \in NodeLinks : Considered(l) => l \in L
    BY <2>1, <1>4 DEF DiscInv, UplinkInv, UplinkScan, ScanInterfaces
  <2>3. \A l \in NodeLinks : l \notin inPod
    BY <2>1 DEF DiscInv, UplinkInv, UplinkStore
  <2>4. \A d \in S : d \in DeviceType /\ d.name \in Functions
    BY <1>5 DEF GoodDevices, DeviceOK, OnlyBuses
  <2>5. Homed(D)
    BY <1>1, <1>3, <1>4, <1>5, <2>2, <2>3, <2>4, InterfacesHomed
  <2> QED
    BY <2>5 DEF Homed, Considered, ScanInterfaces, ScanChanges, worldVars
<1>13. UplinkScan(s, x)'
  BY <1>8, <1>12 DEF UplinkScan
<1>14. misread' \in BOOLEAN /\ (misread => misread')
  BY DEF DiscInv, TypeInv, ScanInterfaces
<1> QED
  BY <1>8, <1>9, <1>10, <1>11, <1>13, <1>14, ReadKeepsInv DEF ScanInterfaces

LEMMA RdmaKeepsInv ==
  ASSUME DiscInv, NEW s \in Scanners, ScanRdma(s)
  PROVE  DiscInv'
<1>1. PICK S : S = scan[s].devices
  OBVIOUS
<1>2. PICK D : D = AddRDMAAttributes(S)
  OBVIOUS
<1>3. scan \in [Scanners -> ScanType]
  BY DEF DiscInv, TypeInv
<1>4. GoodDevices(S)
  BY <1>1 DEF DiscInv, ScanInv, ScanOK, ScanRdma
<1>5. GoodDevices(D) /\ D \subseteq DeviceType /\ (Homed(S) => Homed(D))
  BY <1>2, <1>4, RdmaGood
<1>6. PICK x : x = [scan[s] EXCEPT !.stage = "rdma", !.devices = D]
  OBVIOUS
<1>7. /\ x \in ScanType /\ x.devices = D /\ x.links = scan[s].links /\ x.stage = "rdma"
      /\ scan' = [scan EXCEPT ![s] = x]
  BY <1>1, <1>2, <1>3, <1>5, <1>6 DEF ScanType, ScanRdma
<1>8. ScanOK(x)
  BY <1>5, <1>7 DEF DiscInv, ScanInv, ScanOK
<1>9. s = "run" => running
  BY DEF ScanRdma, DiscInv, ScanInv
<1>10. faults' \in 0 .. MaxFaults
  BY DEF DiscInv, TypeInv, ScanRdma
<1>11. ASSUME Clean' PROVE Homed(D)'
  <2>1. Clean
    BY <1>11 DEF Clean, ScanRdma, ScanChanges
  <2>2. Homed(D)
    BY <2>1, <1>1, <1>5 DEF DiscInv, UplinkInv, UplinkScan, ScanRdma
  <2> QED
    BY <2>2 DEF Homed, Considered, ScanRdma, ScanChanges, worldVars
<1>12. UplinkScan(s, x)'
  BY <1>7, <1>11 DEF UplinkScan
<1>13. misread' \in BOOLEAN /\ (misread => misread')
  BY DEF DiscInv, TypeInv, ScanRdma
<1> QED
  BY <1>7, <1>8, <1>9, <1>10, <1>12, <1>13, ReadKeepsInv DEF ScanRdma

\* The filter.  Run has read the uplinks by then; a preparation may have to do
\* without.
LEMMA FiltersKeepsInv ==
  ASSUME DiscInv, NEW s \in Scanners, ScanFilters(s)
  PROVE  DiscInv'
<1>1. PICK S : S = scan[s].devices
  OBVIOUS
<1>2. PICK D : D = Filtered(RdmaPortLinkLayers(S))
  OBVIOUS
<1>3. scan \in [Scanners -> ScanType] /\ running \in BOOLEAN
  BY DEF DiscInv, TypeInv
<1>4. GoodDevices(S)
  BY <1>1 DEF DiscInv, ScanInv, ScanOK, ScanFilters
<1>5. /\ GoodStore(D) /\ D \subseteq DeviceType /\ (Homed(S) => Homed(D))
      /\ \A d \in D : d.ifName \notin gwInterfaces
  BY <1>2, <1>4, FilteredGood DEF DiscInv
<1>6. PICK x : x = [scan[s] EXCEPT !.stage = "filtered", !.early = ~running, !.devices = D]
  OBVIOUS
<1>7. /\ x \in ScanType /\ x.devices = D /\ x.links = scan[s].links /\ x.stage = "filtered"
      /\ scan' = [scan EXCEPT ![s] = x]
  BY <1>1, <1>2, <1>3, <1>5, <1>6 DEF ScanType, ScanFilters
<1>8. x.early = ~running
  BY <1>3, <1>6 DEF ScanType
<1>9. ScanOK(x)
  BY <1>5, <1>7 DEF DiscInv, ScanInv, ScanOK
<1>10. s = "run" => running
  BY DEF ScanFilters, DiscInv, ScanInv
<1>11. faults' \in 0 .. MaxFaults
  BY DEF DiscInv, TypeInv, ScanFilters
<1>12. ~unread /\ running => \A d \in D : d.ifName \notin NodeLinks
  BY <1>5 DEF DiscInv, TypeInv
<1>13. ASSUME Clean', s = "run" PROVE NoStrays({d.name : d \in D})'
  <2>1. Clean
    BY <1>13 DEF Clean, ScanFilters, ScanChanges
  <2>2. Homed(D)
    BY <2>1, <1>1, <1>5 DEF DiscInv, UplinkInv, UplinkScan, ScanFilters
  <2>3. NoStrays({d.name : d \in D})
    BY <2>1, <2>2, <1>10, <1>12, <1>13, HomedFiltered DEF Clean
  <2> QED
    BY <2>3 DEF NoStrays, Considered, ScanFilters, ScanChanges, worldVars
<1>14. unread' = unread
  BY DEF ScanFilters, ScanChanges
<1>15. UplinkScan(s, x)'
  BY <1>7, <1>8, <1>12, <1>13, <1>14 DEF UplinkScan
<1>16. misread' \in BOOLEAN /\ (misread => misread')
  BY DEF DiscInv, TypeInv, ScanFilters
<1> QED
  BY <1>7, <1>9, <1>10, <1>11, <1>15, <1>16, ReadKeepsInv DEF ScanFilters

\* The store changes, and with Run's scan the slice.
LEMMA UpdatesKeepsInv ==
  ASSUME DiscInv, NEW s \in Scanners, ScanUpdates(s)
  PROVE  DiscInv'
<1>1. PICK T : T = scan[s].devices
  OBVIOUS
<1>2. GoodStore(T)
  BY <1>1 DEF DiscInv, ScanInv, ScanOK, ScanUpdates
<1>3. /\ deviceStore' = T
      /\ slice' = IF s = "run" THEN {d.name : d \in T} ELSE slice
      /\ early' = scan[s].early
  BY <1>1 DEF ScanUpdates
<1>4. UNCHANGED <<inPod, rdmaInPod, rdmaShared, moveIBInterfaces, moves, gwInterfaces, running, faults,
                  unread, misread>>
  BY DEF ScanUpdates, worldVars
<1>5. /\ prepare' \in PrepareType /\ prepare'.device = prepare.device
      /\ prepare'.answer = prepare.answer /\ prepare'.early = prepare.early
  BY DEF ScanUpdates, DiscInv, TypeInv, PrepareType
<1>6. Around
  BY <1>4 DEF Around
<1>7. /\ ScanInv' /\ scan' \in [Scanners -> ScanType]
      /\ \A t \in Scanners : UplinkScan(t, scan[t])'
  <2>1. PICK x : x = NoScan
    OBVIOUS
  <2>2. x \in ScanType /\ x.devices = {} /\ x.links = {} /\ x.stage = "idle"
    BY <2>1 DEF NoScan, ScanType
  <2>3. ScanOK(x)
    BY <2>2 DEF ScanOK, GoodDevices, NamesOnce, BusRead
  <2>4. ScanOK(x)' /\ UplinkScan(s, x)'
    BY <2>2, <2>3, <1>6, ScanOKFrame DEF UplinkScan
  <2>5. scan' = [scan EXCEPT ![s] = x]
    BY <2>1 DEF ScanUpdates
  <2> QED
    BY <2>2, <2>4, <2>5, <1>6, ScanStep DEF DiscInv
<1>8. TypeInv'
  <2>1. \A d \in T : d.name \in Functions \union Links
    BY <1>2 DEF GoodStore, DeviceOK, DeviceType
  <2>2. slice' \subseteq Functions \union Links
    BY <1>3, <2>1 DEF DiscInv, TypeInv
  <2>3. early' \in BOOLEAN
    BY <1>3 DEF DiscInv, TypeInv, ScanType
  <2> QED
    BY <1>4, <1>5, <1>7, <2>2, <2>3 DEF DiscInv, TypeInv
<1>9. GoodStore(deviceStore)'
  <2>1. GoodStore(T)'
    BY <1>2, <1>4, GoodStoreFrame
  <2> QED
    BY <2>1, <1>3
<1>10. UplinkStore'
  <2>1. Clean' <=> Clean
    BY <1>4 DEF Clean
  <2>2. \A S : NoStrays(S)' <=> NoStrays(S)
    BY <1>4 DEF NoStrays, Considered
  <2>3. Clean => NoStrays(slice' \union ({prepare.device} \ {None}))
    <3>1. Clean => NoStrays(slice \union ({prepare.device} \ {None}))
      BY DEF DiscInv, UplinkInv, UplinkStore
    <3>2. CASE s = "run"
      <4>1. Clean => NoStrays({d.name : d \in T})
        BY <1>1, <3>2 DEF DiscInv, UplinkInv, UplinkScan, ScanUpdates
      <4> QED
        BY <3>1, <3>2, <4>1, <1>3 DEF NoStrays
    <3>3. CASE s # "run"
      BY <3>1, <3>3, <1>3
    <3> QED
      BY <3>2, <3>3
  <2>4. PICK N : N = slice' \union ({prepare.device} \ {None})
    OBVIOUS
  <2>5. Clean' => NoStrays(N)'
    BY <2>1, <2>2, <2>3, <2>4
  <2>6. Clean' => NoStrays(slice \union ({prepare.device} \ {None}))'
    BY <2>4, <2>5, <1>5
  <2>7. Clean' => \A l \in NodeLinks : l \notin inPod'
    BY <2>1, <1>4 DEF DiscInv, UplinkInv, UplinkStore
  <2>8. ~unread' /\ ~early' => \A d \in deviceStore' : d.ifName \notin NodeLinks
    <3>1. UplinkScan(s, scan[s]) /\ scan[s].stage = "filtered"
      BY DEF DiscInv, UplinkInv, ScanUpdates
    <3>2. ~unread /\ ~scan[s].early => \A d \in T : d.ifName \notin NodeLinks
      BY <1>1, <3>1 DEF UplinkScan
    <3> QED
      BY <3>2, <1>3, <1>4
  <2>9. UplinkStays'
    BY <1>4, <1>5 DEF DiscInv, UplinkInv, UplinkStore, UplinkStays
  <2> QED
    BY <2>6, <2>7, <2>8, <2>9 DEF UplinkStore
<1> QED
  BY <1>7, <1>8, <1>9, <1>10 DEF DiscInv, UplinkInv

\* What a lookup finds belongs to a device that the claim may have.
LEMMA LookupKeepsInv ==
  ASSUME DiscInv, Answers
  PROVE  DiscInv'
<1>1. PICK l \in NamesInStore(prepare.device) :
        Prepares([prepare EXCEPT !.pc = "answered", !.answer = l, !.early = early])
  BY DEF Answers
<1>2. PICK d \in deviceStore : d.name = prepare.device /\ d.ifName = l /\ l # None
  BY DEF NamesInStore, Stored
<1>3. l \in Links /\ d.name \in Functions \union Links
  BY <1>2 DEF DiscInv, GoodStore, DeviceOK, DeviceType
<1>4. l \in NodeLinks => unread \/ (misread /\ early)
  <2> SUFFICES ASSUME l \in NodeLinks, ~unread PROVE misread /\ early
    BY DEF DiscInv, TypeInv
  <2>1. early
    BY <1>2 DEF DiscInv, UplinkInv, UplinkStore, TypeInv
  <2>2. Considered(l) /\ (d.name = l \/ d.name = Link[l].pci)
    BY <1>2 DEF DiscInv, GoodStore, DeviceOK
  <2>3. d.name # None
    BY <1>3, HardwareAssumption
  <2>4. ~NoStrays(slice \union ({prepare.device} \ {None}))
    BY <1>2, <2>2, <2>3 DEF NoStrays
  <2>5. misread
    BY <2>4 DEF DiscInv, UplinkInv, UplinkStore, Clean, TypeInv
  <2> QED
    BY <2>1, <2>5
<1>5. PICK p : p = [prepare EXCEPT !.pc = "answered", !.answer = l, !.early = early]
  OBVIOUS
<1>6. p \in PrepareType /\ p.device = prepare.device /\ p.answer = l
  BY <1>3, <1>5 DEF DiscInv, TypeInv, PrepareType
<1>7. p.early = early
  BY <1>5 DEF DiscInv, TypeInv, PrepareType
<1> QED
  BY <1>1, <1>4, <1>5, <1>6, <1>7, PrepareStep

\* A step that only moves the preparation on.
LEMMA OnwardKeepsInv ==
  ASSUME DiscInv, NEW pc \in {"claimed", "lookup", "missed", "answered"},
         Prepares([prepare EXCEPT !.pc = pc])
  PROVE  DiscInv'
<1>1. PICK p : p = [prepare EXCEPT !.pc = pc]
  OBVIOUS
<1>2. /\ p \in PrepareType /\ p.device = prepare.device /\ p.answer = prepare.answer
      /\ p.early = prepare.early
  BY <1>1 DEF DiscInv, TypeInv, PrepareType
<1>3. p.answer \in NodeLinks => unread \/ (misread /\ p.early)
  BY <1>2 DEF DiscInv, UplinkInv, UplinkStore, UplinkStays
<1> QED
  BY <1>1, <1>2, <1>3, PrepareStep

LEMMA AllocateKeepsInv ==
  ASSUME DiscInv, NEW name \in slice, Allocate(name)
  PROVE  DiscInv'
<1>1. PICK p : p = [NotPreparing EXCEPT !.pc = "claimed", !.device = name]
  OBVIOUS
<1>2. name \in Functions \union Links
  BY DEF DiscInv, TypeInv
<1>3. p \in PrepareType /\ p.device = name /\ p.answer = None
  BY <1>1, <1>2 DEF NotPreparing, PrepareType
<1>4. None \notin NodeLinks
  BY HardwareAssumption DEF NodeLinks
<1> QED
  BY <1>1, <1>3, <1>4, PrepareStep DEF Allocate

LEMMA StepDisc == DiscInv /\ [DiscoveryNext]_discoveryVars => DiscInv'
<1> SUFFICES ASSUME DiscInv, [DiscoveryNext]_discoveryVars PROVE DiscInv'
  OBVIOUS
<1>1. CASE (\E l \in Links : MoveLink(l)) \/ (\E f \in Functions : MoveRdma(f))
  BY <1>1, MoveKeepsInv
<1>2. ASSUME NEW routes \in RouteReads, NEW ok \in BOOLEAN, RunBegins(routes, ok) PROVE DiscInv'
  BY <1>2, RunBeginsKeepsInv
<1>3. ASSUME NEW s \in Scanners, NEW ok \in BOOLEAN, ScanBuses(s, ok) \/ ScanLinks(s, ok) PROVE DiscInv'
  BY <1>3, BusesKeepsInv, LinksKeepsInv
<1>4. ASSUME NEW s \in Scanners,
             ScanInterfaces(s) \/ ScanRdma(s) \/ ScanFilters(s) \/ ScanUpdates(s)
      PROVE  DiscInv'
  BY <1>4, InterfacesKeepsInv, RdmaKeepsInv, FiltersKeepsInv, UpdatesKeepsInv
<1>5. ASSUME NEW name \in slice, Allocate(name) PROVE DiscInv'
  BY <1>5, AllocateKeepsInv
<1>6. CASE AskIBOnly
  BY <1>6, OnwardKeepsInv DEF AskIBOnly
<1>7. CASE FirstLookup
  BY <1>7, LookupKeepsInv, OnwardKeepsInv DEF FirstLookup
<1>8. CASE SecondLookup
  BY <1>8, LookupKeepsInv, OnwardKeepsInv DEF SecondLookup
<1>9. CASE UNCHANGED discoveryVars
  <2>1. TypeInv'
    BY <1>9 DEF DiscInv, TypeInv, discoveryVars
  <2>2. Around
    BY <1>9 DEF Around, discoveryVars
  <2>3. ScanInv' /\ \A s \in Scanners : UplinkScan(s, scan[s])'
    BY <1>9, <2>2, ScansFrame DEF DiscInv, discoveryVars
  <2>4. GoodStore(deviceStore)' /\ UplinkStore'
    BY <1>9, <2>2, StoreFrame, UplinkFrame DEF DiscInv, UplinkInv, discoveryVars
  <2> QED
    BY <2>1, <2>3, <2>4 DEF DiscInv, UplinkInv
<1> QED
  BY <1>1, <1>2, <1>3, <1>4, <1>5, <1>6, <1>7, <1>8, <1>9 DEF DiscoveryNext

\* The invariant of every behaviour.
LEMMA AlwaysDisc == DiscoverySpec => []DiscInv
BY InitDisc, StepDisc, PTL DEF DiscoverySpec

----------------------------------------------------------------------------
\* The variables keep their types, and no two stored devices share a name: a scan
\* names each function and each link once, whatever moves while it reads.
THEOREM DiscoveryTypesCorrect == DiscoverySpec => []DiscoveryTypeOK
<1>1. DiscInv => DiscoveryTypeOK
  <2> SUFFICES ASSUME DiscInv PROVE DiscoveryTypeOK
    OBVIOUS
  <2>1. gwInterfaces \subseteq Links
    BY DEF DiscInv, TypeInv, NodeLinks
  <2>2. prepare.device \in Functions \union Links \union {None} /\ prepare.answer \in Links \union {None}
    BY DEF DiscInv, TypeInv, PrepareType
  <2>3. \A s \in Scanners : scan[s].links \subseteq Links /\ scan[s].devices \subseteq DeviceType
    BY DEF DiscInv, TypeInv, ScanType
  <2>4. deviceStore \subseteq DeviceType /\ \A d, e \in deviceStore : d.name = e.name => d = e
    BY DEF DiscInv, GoodStore, DeviceOK, NamesOnce
  <2> QED
    BY <2>1, <2>2, <2>3, <2>4 DEF DiscoveryTypeOK, DiscInv, TypeInv
<1> QED
  BY <1>1, AlwaysDisc, PTL

\* No claim is given a link of the node's own traffic, also not one deep in the
\* tree under an uplink: unless Run could not read the routes or the links when it
\* began, or a scan without the links has published an uplink's function and the
\* claim on it is answered from a scan filtered before Run had read the uplinks.
THEOREM UplinkAlwaysStays == DiscoverySpec => []UplinkStays
<1>1. DiscInv => UplinkStays
  BY DEF DiscInv, UplinkInv, UplinkStore
<1> QED
  BY <1>1, AlwaysDisc, PTL

\* IsIBOnlyDevice never takes a function with an Ethernet netdev for an RDMA-only
\* device, wherever the netdev is.
THEOREM IBOnlyNeverHasNetdev == DiscoverySpec /\ NetdevsAreEthernet => []IBOnlyHasNoNetdev
<1> SUFFICES ASSUME NetdevsAreEthernet PROVE DiscoverySpec => []IBOnlyHasNoNetdev
  OBVIOUS
<1>1. DiscInv => IBOnlyHasNoNetdev
  <2> SUFFICES ASSUME DiscInv, rdmaShared, NEW d \in deviceStore, IsIBOnly(d), d.class # "",
                      NEW l \in Links, Link[l].pci = d.name, Link[l].kind # "ipoib"
               PROVE  FALSE
    BY DEF IBOnlyHasNoNetdev
  <2>1. /\ d.name \in Functions /\ d.class = Function[d.name].class /\ Function[d.name].rdma
        /\ Function[d.name].ethernet => d.ethernet
    BY DEF DiscInv, GoodStore, DeviceOK, IsIBOnly
  <2>2. Function[d.name].class = "network" /\ Function[d.name].ethernet
    BY <2>1, HardwareAssumption DEF NetdevsAreEthernet
  <2> QED
    BY <2>1, <2>2 DEF IsIBOnly
<1> QED
  BY <1>1, AlwaysDisc, PTL

\* A scan that read the bus has every function a pod can be given, whatever pods
\* hold at the time, and none it cannot; except for the links that Run excluded.
THEOREM AllocatableAlwaysPublished == DiscoverySpec /\ DriversServe => []AllocatableStaysPublished
<1> SUFFICES ASSUME DriversServe PROVE DiscoverySpec => []AllocatableStaysPublished
  OBVIOUS
<1>1. DiscInv => AllocatableStaysPublished
  <2> SUFFICES ASSUME DiscInv, \E d \in deviceStore : d.class # "" PROVE AllocatableStaysPublished
    BY DEF AllocatableStaysPublished
  <2>1. ASSUME NEW f \in Functions, IsNetworkDevice(f), Provides(f)
        PROVE  (\E e \in deviceStore : e.name = f) \/ \E l \in Excluded : Link[l].pci = f
    <3>1. IsAllocatableNetworkDevice(f)
      BY <2>1 DEF DriversServe
    <3>2. gwInterfaces \subseteq Excluded
      BY DEF DiscInv, TypeInv, Excluded
    <3>3. (\E e \in deviceStore : e.name = f) \/ f \in UplinkFunctions
      BY <2>1, <3>1 DEF DiscInv, GoodStore, BusRead
    <3> QED
      BY <3>2, <3>3 DEF UplinkFunctions
  <2>2. ASSUME NEW d \in deviceStore, d.name \in Functions PROVE Provides(d.name)
    <3>1. OnBus(d.name)
      BY <2>2 DEF DiscInv, GoodStore, DeviceOK
    <3> QED
      BY <2>2, <3>1 DEF OnBus, DriversServe, Provides
  <2> QED
    BY <2>1, <2>2 DEF AllocatableStaysPublished
<1> QED
  BY <1>1, AlwaysDisc, PTL
=============================================================================

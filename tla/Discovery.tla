----------------------------- MODULE Discovery -----------------------------
(***************************************************************************)
(* How a scan makes devices out of what the node shows (pkg/inventory:     *)
(* db.go, net.go, sysfs.go).  Inventory takes a scan to read the host at   *)
(* one moment; here it reads the PCI bus and the RDMA devices, then the    *)
(* list of links, then the sysfs of each link, then RDMA again, and pods   *)
(* take netdevs and RDMA devices away and give them back in between.       *)
(*                                                                         *)
(* The scan loop of Run and the rescan of a claim that is being prepared   *)
(* run beside each other from the start of the driver, when the kubelet    *)
(* may already know it and Run has not begun.  The slice that an earlier   *)
(* run of the driver published is still there, be it a faulty one.  The    *)
(* default routes are those of the start: Run reads them once.             *)
(*                                                                         *)
(* Names are left out: a device is named by the PCI function or, without   *)
(* one, by the link it stands for, and links keep their names.             *)
(***************************************************************************)
EXTENDS Naturals, FiniteSets

CONSTANTS
  Function,      \* PCI functions: class, driver, RDMA device, link layer of its ports
  Link,          \* links: function, kind, master
  DefaultRoutes, \* default routes of the main table: link, metric, family
  None,
  Modes,         \* how the RDMA subsystem and the driver may be set up
  \* Bounds: the devices that claims ask for, the moves of pods, the failing reads.
  Wanted, MaxMoves, MaxFaults

Functions == DOMAIN Function
Links == DOMAIN Link

ASSUME BoundAssumption == MaxMoves \in Nat /\ MaxFaults \in Nat

\* Two links of one PCI function would overwrite each other's attributes.
ASSUME HardwareAssumption ==
  /\ IsFiniteSet(Links)
  /\ None \notin Functions \union Links /\ Functions \intersect Links = {}
  /\ \A l \in Links : Link[l].pci \in Functions \union {None} /\ Link[l].master \in Links \union {None}
  /\ \A k, l \in Links : Link[k].pci = Link[l].pci /\ Link[k].pci # None => k = l
  /\ \A f \in Functions : /\ Function[f].class \in {"network", "other"}
                          /\ Function[f].rdma \in BOOLEAN /\ Function[f].ethernet \in BOOLEAN
  /\ \A r \in DefaultRoutes : r.link \in Links

VARIABLES
  inPod, rdmaInPod,  \* links and RDMA devices that are in the namespaces of pods
  rdmaShared,        \* the RDMA subsystem's mode: RDMA devices stay at the host
  moveIBInterfaces,
  gwInterfaces,
  running,           \* Run has begun
  scan,              \* the scans of Run and of the preparation
  deviceStore,
  slice,             \* names of the devices that are published
  prepare,           \* the preparation of one claim
  moves, faults,
  \* Histories: Run could not read all the routes and links when it began; a scan,
  \* of this or of an earlier run, did not read the links; the store comes from a
  \* scan that filtered before Run had read the uplinks.
  unread, misread, early

discoveryVars == <<inPod, rdmaInPod, rdmaShared, moveIBInterfaces, gwInterfaces, running, scan,
                   deviceStore, slice, prepare, moves, faults, unread, misread, early>>
worldVars == <<inPod, rdmaInPod, rdmaShared, moveIBInterfaces, moves>>

Scanners == {"run", "prepare"}
NoScan == [stage |-> "idle", devices |-> {}, links |-> {}, early |-> FALSE]
NotPreparing == [pc |-> "idle", device |-> None, answer |-> None, early |-> FALSE]

----------------------------------------------------------------------------
\* getDefaultGwInterfaces: the links of the best default routes of each family,
\* among the routes that could be read and whose link was found.
GetDefaultGwInterfaces(routes) ==
  {r.link : r \in {q \in routes : \A p \in routes : p.v6 = q.v6 => q.metric <= p.metric}}

\* All the default routes; none of them, when the list cannot be read; all but
\* those of a link whose lookup fails.
RouteReads ==
  {DefaultRoutes, {}} \union {{r \in DefaultRoutes : r.link # l} : l \in Links}

\* getExcludedUplinkInterfaces: from the uplinks down to whatever they master,
\* or only the uplinks when the links cannot be listed.
ChildrenOf(ls) == {l \in Links : Link[l].master \in ls}
ReachedFrom(gws) ==
  LET reached[n \in 0 .. Cardinality(Links)] ==
        IF n = 0 THEN gws ELSE reached[n - 1] \union ChildrenOf(reached[n - 1])
  IN  reached
GetExcludedUplinkInterfacesDirect(routes, ok) ==
  LET gws == GetDefaultGwInterfaces(routes) IN IF ok THEN gws \union ChildrenOf(gws) ELSE gws
GetExcludedUplinkInterfaces(routes, ok) ==
  LET gws == GetDefaultGwInterfaces(routes)
  IN  IF ok THEN ReachedFrom(gws)[Cardinality(Links)] ELSE gws

\* What there is to exclude.
Uplinks == GetExcludedUplinkInterfaces(DefaultRoutes, TRUE)

IsNetworkDevice(f) == Function[f].class = "network"

\* The driver tells, not the netdev, which may be in a pod.
IsAllocatableByNetdev(f) == \E l \in Links \ inPod : Link[l].pci = f
IsAllocatableNetworkDevice(f) == Function[f].driver \notin {"", "vfio-pci"}

----------------------------------------------------------------------------
\* The steps of a scan.  A device knows the link it has, its RDMA device, the PCI
\* class as far as the bus could be read, and whether a port's layer is Ethernet.
Device(name, ifName, rdma) ==
  [name |-> name, ifName |-> ifName, rdma |-> rdma, class |-> "", ethernet |-> FALSE]

DiscoverPCIDevices(ok) ==
  IF ok THEN {Device(f, None, FALSE) :
                f \in {g \in Functions : IsNetworkDevice(g) /\ IsAllocatableNetworkDevice(g)}}
  ELSE {}

DiscoverAllRDMADevices(devices) ==
  devices \union {Device(f, None, TRUE) : f \in {g \in Functions \ rdmaInPod : Function[g].rdma}}
DiscoverStandaloneRDMADevices(devices) ==
  devices \union {Device(f, None, TRUE) :
    f \in {g \in Functions \ rdmaInPod : Function[g].rdma /\ \A d \in devices : d.name # g}}

\* addPCIAttributes depends on nothing that changes meanwhile and is done at once.
AddPCIAttributes(devices, ok) ==
  {[d EXCEPT !.class = IF ok THEN Function[d.name].class ELSE ""] : d \in devices}

\* Loopback and the links of well-known plugins are ignored, and IPoIB links
\* unless they are to be moved.
Considered(l) == Link[l].kind # "ignored" /\ (Link[l].kind = "ipoib" => moveIBInterfaces)

\* discoverNetworkInterfaces, the sysfs of each listed link.  One that has gone
\* meanwhile has no PCI address and is taken to be virtual.
PciAddressForNetInterface(l) == IF l \in inPod THEN None ELSE Link[l].pci

DiscoverNetworkInterfaces(devices, links) ==
  {IF \E l \in links : PciAddressForNetInterface(l) = d.name
   THEN [d EXCEPT !.ifName = CHOOSE l \in links : PciAddressForNetInterface(l) = d.name]
   ELSE d : d \in devices}
  \union {Device(l, l, FALSE) : l \in {k \in links : PciAddressForNetInterface(k) = None}}

\* addRDMAAttributes: by the link where there is one, else by the function.
RdmaOf(d) ==
  \/ d.rdma
  \/ /\ d.ifName # None /\ d.ifName \notin inPod /\ Link[d.ifName].pci # None
     /\ Function[Link[d.ifName].pci].rdma /\ Link[d.ifName].pci \notin rdmaInPod
  \/ /\ d.ifName = None
     /\ Function[d.name].rdma /\ d.name \notin rdmaInPod

AddRDMAAttributes(devices) == {[d EXCEPT !.rdma = RdmaOf(d)] : d \in devices}

\* rdmaPortLinkLayers: nil when the RDMA device has gone meanwhile.
RdmaPortLinkLayers(devices) ==
  {[d EXCEPT !.ethernet = /\ d.rdma
                          /\ \E f \in Functions \ rdmaInPod :
                               /\ f = d.name \/ (d.ifName # None /\ Link[d.ifName].pci = f)
                               /\ Function[f].ethernet] : d \in devices}

Filtered(devices) == {d \in devices : d.ifName \notin gwInterfaces}

----------------------------------------------------------------------------
\* IsIBOnlyDevice and getNetInterfaceNameWithoutRescan, on the store.
IsIBOnlyByName(d) == d.rdma /\ d.ifName = None
IsIBOnly(d) == d.rdma /\ d.ifName = None /\ (d.class # "network" \/ ~d.ethernet)

Stored(name) == {d \in deviceStore : d.name = name}
NamesInStore(name) == {d.ifName : d \in Stored(name)} \ {None}

----------------------------------------------------------------------------
\* What a scan with nothing in pods and nothing failing finds.
Complete(excluded) ==
  LET devices == DiscoverNetworkInterfaces(DiscoverStandaloneRDMADevices(DiscoverPCIDevices(TRUE)),
                                           {l \in Links : Considered(l)})
  IN  {d.name : d \in {e \in devices : e.ifName \notin excluded}}

\* The driver starts.  Pods may hold devices that were published before; an
\* earlier run may have published the uplinks too, and claims may have been given
\* them.
DiscoveryInit ==
  /\ \E m \in Modes : rdmaShared = m.rdmaShared /\ moveIBInterfaces = m.moveIBInterfaces
  /\ inPod = {} /\ rdmaInPod = {}
  /\ gwInterfaces = {} /\ running = FALSE
  /\ scan = [s \in Scanners |-> NoScan]
  /\ deviceStore = {}
  /\ misread \in BOOLEAN /\ slice = Complete(IF misread THEN {} ELSE Uplinks)
  /\ prepare = NotPreparing
  /\ moves = 0 /\ faults \in 0 .. MaxFaults /\ faults = IF misread THEN 1 ELSE 0
  /\ unread = FALSE /\ early = FALSE

Moves ==
  /\ moves < MaxMoves
  /\ moves' = moves + 1
  /\ UNCHANGED <<rdmaShared, moveIBInterfaces, gwInterfaces, running, scan, deviceStore, slice, prepare,
                 faults, unread, misread, early>>

\* A pod takes a link that is not the node's own, or the one its claim was given,
\* or gives one back.
MoveLink(l) ==
  /\ l \notin Uplinks \/ l \in inPod \/ l = prepare.answer
  /\ Considered(l)
  /\ inPod' = IF l \in inPod THEN inPod \ {l} ELSE inPod \union {l}
  /\ UNCHANGED rdmaInPod
  /\ Moves

\* RunPodSandbox moves an RDMA device after its link; they return in any order.
MoveRdma(f) ==
  /\ ~rdmaShared /\ Function[f].rdma
  /\ f \in rdmaInPod \/ \A l \in Links : Link[l].pci = f /\ Considered(l) => l \in inPod
  /\ rdmaInPod' = IF f \in rdmaInPod THEN rdmaInPod \ {f} ELSE rdmaInPod \union {f}
  /\ UNCHANGED inPod
  /\ Moves

Reads(ok) ==
  /\ ok \/ faults < MaxFaults
  /\ faults' = IF ok THEN faults ELSE faults + 1

\* Run begins: after the plugin is registered with the kubelet.  What it reads of
\* the uplinks it never reads again.
RunBegins(routes, ok) ==
  /\ ~running
  /\ running' = TRUE
  /\ gwInterfaces' = GetExcludedUplinkInterfaces(routes, ok)
  /\ unread' = ~(routes = DefaultRoutes /\ ok)
  /\ Reads(routes = DefaultRoutes /\ ok)
  /\ UNCHANGED <<worldVars, scan, deviceStore, slice, prepare, misread, early>>

Due(s) == IF s = "run" THEN running ELSE prepare.pc = "missed"

ScanChanges ==
  UNCHANGED <<worldVars, gwInterfaces, running, deviceStore, slice, prepare, unread, early>>

\* ghw.PCI, which may fail, and the RDMA devices.
ScanBuses(s, ok) ==
  /\ scan[s].stage = "idle" /\ Due(s)
  /\ scan' = [scan EXCEPT ![s].stage = "buses",
                ![s].devices = AddPCIAttributes(DiscoverStandaloneRDMADevices(DiscoverPCIDevices(ok)), ok)]
  /\ Reads(ok)
  /\ ScanChanges /\ UNCHANGED misread

ScanLinks(s, ok) ==
  /\ scan[s].stage = "buses"
  /\ scan' = [scan EXCEPT ![s].stage = "links",
                ![s].links = IF ok THEN {l \in Links \ inPod : Considered(l)} ELSE {}]
  /\ Reads(ok)
  /\ misread' = (misread \/ ~ok)
  /\ ScanChanges

ScanInterfaces(s) ==
  /\ scan[s].stage = "links"
  /\ scan' = [scan EXCEPT ![s].stage = "interfaces", ![s].links = {},
                ![s].devices = DiscoverNetworkInterfaces(@, scan[s].links)]
  /\ ScanChanges /\ UNCHANGED <<faults, misread>>

ScanRdma(s) ==
  /\ scan[s].stage = "interfaces"
  /\ scan' = [scan EXCEPT ![s].stage = "rdma", ![s].devices = AddRDMAAttributes(@)]
  /\ ScanChanges /\ UNCHANGED <<faults, misread>>

\* The link layers and the filter, with the uplinks that are known by now.
ScanFilters(s) ==
  /\ scan[s].stage = "rdma"
  /\ scan' = [scan EXCEPT ![s].stage = "filtered", ![s].early = ~running,
                ![s].devices = Filtered(RdmaPortLinkLayers(@))]
  /\ ScanChanges /\ UNCHANGED <<faults, misread>>

\* updateDeviceStore, which has asked the provider about every device meanwhile;
\* Run publishes what it found.
ScanUpdates(s) ==
  /\ scan[s].stage = "filtered"
  /\ deviceStore' = scan[s].devices
  /\ early' = scan[s].early
  /\ slice' = IF s = "run" THEN {d.name : d \in scan[s].devices} ELSE slice
  /\ scan' = [scan EXCEPT ![s] = NoScan]
  /\ prepare' = IF s = "prepare" THEN [prepare EXCEPT !.pc = "retry"] ELSE prepare
  /\ UNCHANGED <<worldVars, gwInterfaces, running, faults, unread, misread>>

Prepares(p) ==
  /\ prepare' = p
  /\ UNCHANGED <<worldVars, gwInterfaces, running, scan, deviceStore, slice, faults,
                 unread, misread, early>>

\* A claim is given a device that is published; it is prepared some time later.
Allocate(name) ==
  /\ prepare.pc \in {"idle", "answered"} /\ name \in slice \intersect Wanted
  /\ Prepares([NotPreparing EXCEPT !.pc = "claimed", !.device = name])

\* prepareDevice asks IsIBOnlyDevice before it looks for a link.
AskIBOnly ==
  /\ prepare.pc = "claimed"
  /\ Prepares([prepare EXCEPT !.pc = IF \E d \in Stored(prepare.device) : IsIBOnly(d)
                                     THEN "answered" ELSE "lookup"])

Answers ==
  \E l \in NamesInStore(prepare.device) :
    Prepares([prepare EXCEPT !.pc = "answered", !.answer = l, !.early = early])

FirstLookup ==
  /\ prepare.pc = "lookup"
  /\ IF NamesInStore(prepare.device) = {} THEN Prepares([prepare EXCEPT !.pc = "missed"]) ELSE Answers

\* After the rescan: a name, or an error and the kubelet tries again.
SecondLookup ==
  /\ prepare.pc = "retry"
  /\ IF NamesInStore(prepare.device) = {} THEN Prepares([prepare EXCEPT !.pc = "claimed"]) ELSE Answers

DiscoveryNext ==
  \/ \E l \in Links : MoveLink(l)
  \/ \E f \in Functions : MoveRdma(f)
  \/ \E routes \in RouteReads, ok \in BOOLEAN : RunBegins(routes, ok)
  \/ \E s \in Scanners, ok \in BOOLEAN : ScanBuses(s, ok) \/ ScanLinks(s, ok)
  \/ \E s \in Scanners : ScanInterfaces(s) \/ ScanRdma(s) \/ ScanFilters(s) \/ ScanUpdates(s)
  \/ \E name \in slice : Allocate(name)
  \/ AskIBOnly \/ FirstLookup \/ SecondLookup

DiscoverySpec == DiscoveryInit /\ [][DiscoveryNext]_discoveryVars

----------------------------------------------------------------------------
DeviceType ==
  [name : Functions \union Links, ifName : Links \union {None}, rdma : BOOLEAN,
   class : {"network", "other", ""}, ethernet : BOOLEAN]

\* The types; and a scan names a device only once: the store is a map by name and
\* would keep one of two, while the list that is published would have both.
DiscoveryTypeOK ==
  /\ inPod \subseteq Links /\ rdmaInPod \subseteq Functions
  /\ gwInterfaces \subseteq Links
  /\ slice \subseteq Functions \union Links
  /\ prepare.device \in Functions \union Links \union {None}
  /\ prepare.answer \in Links \union {None}
  /\ \A s \in Scanners : scan[s].links \subseteq Links /\ scan[s].devices \subseteq DeviceType
  /\ deviceStore \subseteq DeviceType
  /\ \A d, e \in deviceStore : d.name = e.name => d = e
  /\ moves \in 0 .. MaxMoves /\ faults \in 0 .. MaxFaults

\* The links that carry the node's traffic: the links of the best default routes
\* and whatever is, however deep, a part of one.
NodeLinks ==
  {l \in Links : \A S \in SUBSET Links :
     GetDefaultGwInterfaces(DefaultRoutes) \subseteq S /\ ChildrenOf(S) \subseteq S => l \in S}

\* "the entire MasterIndex-linked subtree rooted at each uplink should be
\* excluded": no claim is given a link the node's own traffic needs, also not
\* before Run knows the uplinks, and not for an uplink's function that a scan
\* which could not read the links has published.  The code has two exceptions: Run
\* could not read the routes or the links when it began, which it never does
\* again; and a claim on a function so published that is answered from a scan
\* filtered before Run had read the uplinks.
UplinkStays ==
  prepare.answer \in NodeLinks => unread \/ (misread /\ prepare.early)

\* A function that has a netdev, wherever it is, is not taken for an RDMA-only
\* device, which would start a pod without it.  IPoIB is not covered: the class
\* and layer of an HCA do not tell, so with its IPoIB link in a pod it counts as
\* RDMA-only; nor is a scan that could not read the PCI bus, nor an RDMA device
\* that moves while its ports are read.
IBOnlyHasNoNetdev ==
  rdmaShared => \A d \in deviceStore : IsIBOnly(d) /\ d.class # "" =>
                  \A l \in Links : Link[l].pci = d.name => Link[l].kind = "ipoib"

\* The function has a link or an RDMA device, in some namespace.
Provides(f) == Function[f].rdma \/ \E l \in Links : Link[l].pci = f

\* What a scan leaves out.
Excluded == IF unread THEN gwInterfaces ELSE NodeLinks

\* "we must keep publishing the former so Cluster Autoscaler can size new nodes":
\* whatever pods hold, a scan that read the bus publishes every function a pod can
\* be given, and none it cannot.  Not those of the uplinks, or of what Run took for
\* the uplinks when it could not read them all.
AllocatableStaysPublished ==
  (\E d \in deviceStore : d.class # "") =>
    /\ \A f \in Functions : IsNetworkDevice(f) /\ Provides(f) =>
         (\E e \in deviceStore : e.name = f) \/ \E l \in Excluded : Link[l].pci = f
    /\ \A d \in deviceStore : d.name \in Functions => Provides(d.name)
=============================================================================

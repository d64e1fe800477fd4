# DRANET: a TLA+ verification project

DRANET is a Kubernetes DRA network driver. On every node it discovers network
and RDMA devices, publishes them in ResourceSlices, prepares the devices of
ResourceClaims when the kubelet asks, and moves them into and out of the network
namespaces of pods when the container runtime calls its NRI hooks. This project
models the parts that keep state and meet concurrency or failure, checks them
with TLC and proves the central invariants with TLAPS.

## 1. Inventory

| Component | Source | State | Operations | Hard because |
|---|---|---|---|---|
| Pod configuration store | `pkg/driver/pod_device_config*.go` | map pod -> device -> config in memory, bbolt checkpoint, netns and activity of pods | SetDeviceConfig, DeletePod, DeleteClaim, SetPodNetNs, UpdateLastNRIActivity, start from the checkpoint | two copies, writes that fail, crashes |
| DRA hooks | `pkg/driver/dra_hooks.go`, `dhcp.go` | local state of a call; addresses; DHCP leases | PrepareResourceClaims, UnprepareResourceClaims | many steps, each may fail; retries; crash in the middle |
| NRI hooks and device movement | `pkg/driver/nri_hooks.go`, `hostdevice.go`, `subinterfaces.go`, `rdmadevice.go` | where each netdev and RDMA link is, and its name | Synchronize, RunPodSandbox, CreateContainer, StopPodSandbox | local retries of the runtime, late and repeated stops, kernel clean-up |
| Inventory | `pkg/inventory/db.go` | device store, rescan token, hasDevices | Run, scan, RequestRescan, GetNetInterfaceName | scans race with the host and with one another |
| Publication | `dra_hooks.go` PublishResources | last published list | PublishResources, mergeDevices | slow, may fail, Run waits for it |
| Node-local IPAM | `pkg/ipam/local_ipam.go` | set of allocated addresses | Allocate, Reserve, Release | lock per range, random start, wrap-around |
| Profile providers | `pkg/cloudprovider/gce`, `alibaba` | their IPAM | GetProfileConfig, ReleaseProfileConfig | must give back exactly what they granted |
| Start and stop | `pkg/driver/driver.go`, `cmd/dranet/app.go` | phase, clock | Start, Stop | order of start; timing of stop |
| Configuration API | `pkg/apis` | none | validation, defaults, merge of three sources | the sources meet: each may be valid and their merge not |
| Device configuration | `dra_hooks.go` prepareDevice | the inventory's cached provider configurations | getDeviceNetworkConfig, DHCP, host routes, rules and neighbours | order of precedence; retries meet devices stored earlier; state shared between devices of a call |
| Configuration in the pod namespace | `pkg/driver/netnamespace.go`, `interface_sysctl.go`, `ethtool.go`, `ebpf.go`, `hostdevice.go`, `subinterfaces.go` | the kernel's | a sequence of requests per device | any request may fail; the kernel depends on their order; roll-back |
| Discovery of devices | `pkg/inventory/db.go`, `net.go`, `sysfs.go` | none of its own | the stages of a scan | the host changes between the stages; two scans at once; before Run has begun |
| OKE provider | `pkg/cloudprovider/oke` | metadata, cached VNIC subnets, validated layout | metadata loop, GetDeviceConfig, GetProfileConfig | no coordination between hosts; metadata, NICs and addresses arrive in any order |
| Other providers, webhook, SLAAC, filter, metrics, dranetctl | `pkg/cloudprovider/*`, `cmd/webhook-whereabouts`, `pkg/internal/slaac`, ... | mostly none | queries | I/O |

How they interact. The kubelet calls the DRA hooks through the kubelet plugin
helper, which serializes the calls. A prepare resolves the configuration (the
inventory's store, the profile provider and its IPAM, possibly DHCP) and ends
with a write to the pod configuration store. The runtime's NRI hooks read that
store and move devices; StopPodSandbox tells the inventory to rescan. Run scans
on link updates, rescan requests and a timer, and hands the list to the
publishing goroutine. A start opens the store, seeds the providers' IPAM from
it, and then starts the plugins; a graceful stop halts the DRA plugin first and
the NRI plugin last.

What makes the parts correct:

* store: what memory says is on disk; only deletions remove; nothing reappears
  except deletions that did not reach the disk;
* claims: the addresses in use are those of stored configurations; no two pods
  share one; what the kubelet believes prepared is on disk, what it believes
  unprepared is not, but for deletions that failed; unprepare succeeds in the end;
* sandboxes: an accepted sandbox has all its devices until it is stopped;
  devices come home, under their own name unless a hook left them behind;
  returned RDMA links are rediscovered;
* inventory: no wake-up is lost; the store and the ResourceSlice catch up, and
  an allocated device that a publication dropped comes back;
* IPAM: exclusive, exact, complete;
* stop: it ends, and not under a pod that is being started;
* configuration: the user wins; nothing is stored that could not be applied;
  what is copied from the host fits what the pod gets; a prepared claim stays
  prepared whatever is called again;
* pod namespace: no interface is up without its policy; a hook that succeeds has
  applied everything; one failure leaves nothing behind;
* discovery: the node keeps its uplink; a device is what it is taken for; what a
  pod can be given stays published;
* OKE: child addresses are in their range, apart from one another and from every
  parent on the fabric; what can be served is served.

The list of hazards, each at its line, is in `PROJECT.json`.

## 2. Modules

| Module | Models | Notes |
|---|---|---|
| `DurableStore` | abstract: a map that survives restarts | `residue` names the deletions that did not reach the disk |
| `PodConfigStore`, `MCPodConfigStore` | the store and its checkpoint | every method is one action: it runs under the mutex |
| `LocalIPAM`, `MCLocalIPAM` | the allocator and its concurrent callers | one step per critical section |
| `ClaimLifecycle`, `MCClaimLifecycle` | DRA hooks, kubelet, provider, process | EXTENDS `PodConfigStore`: its actions call the store's |
| `NetworkConfig` | merge, defaults and validation of `pkg/apis` | operators |
| `DeviceConfiguration`, `MCDeviceConfiguration` | what a preparation computes and stores | EXTENDS `NetworkConfig` |
| `SandboxLifecycle`, `MCSandboxLifecycle` | NRI hooks of one pod, kernel, runtime | one step per device and kind |
| `PodNetwork`, `MCPodNetwork` | the requests of RunPodSandbox to the kernel | one step per request |
| `Inventory` | Run, lookups, publisher, host | a scan is a read and a later write |
| `Discovery`, `MCDiscovery` | the stages of a scan | one step per read of the host |
| `OKEAddressing` | IPv4 derivation of OKE | operators |
| `OKEProfile`, `MCOKEProfile` | the OKE provider of one node | EXTENDS `OKEAddressing` |
| `GracefulStop`, `MCGracefulStop` | Stop, pods that start | discrete time |
| `PreparationProofs` | theorems about `LocalIPAM` and `DeviceConfiguration` | TLAPS |
| `ClaimLifecycleProofs` | theorems about `ClaimLifecycle` and `PodConfigStore` | TLAPS |
| other `...Proofs` | theorems about the module of that name: `SandboxLifecycle`, `PodNetwork`, `Inventory`, `Discovery`, `OKEProfile`, `GracefulStop` | TLAPS |

Two pairs look at the same code at two grains. `ClaimLifecycle` has the calls,
their failures, retries and crashes, and reduces a configuration to its
addresses; `DeviceConfiguration` has one call at a time and the whole
configuration. `SandboxLifecycle` has attempts, stops and discarded sandboxes,
and takes an attachment as one step; `PodNetwork` has the requests inside it.
`Inventory` and `Discovery` divide the scan in the same way.

The definitions that change a component the way a bug would
(`SetDeviceConfigNoAbort` and the like) stand before the definition they vary;
`PROJECT.json` says which property each of them violates.

### PodConfigStore

`configs`, `netNS`, `lastNRIActivity` are the fields of the map in memory,
`checkpoint` the buckets of the database, `up` says that the process runs. An
absent key is `NoConfig`. `SetDeviceConfig` has the outcome of the bbolt
transaction as a parameter and leaves memory alone when it failed; the deletions
forget the pod whatever the transaction did. `Crash` loses memory.
The refinement mapping shows readers' view (`View`: memory, or the checkpoint
while the process is down) and the `Residue` as a `DurableStore`.

Left out: the JSON encoding (all fields of DeviceConfig carry tags, so it loses
nothing), corrupt entries that GetOrCreate skips, the schema migration, and
the mode without a database.

### LocalIPAM

An address is a family and a number; `NoAddr` is the invalid `netip.Addr`.
`Iterated`, `Yields` and `FirstFree` are `ipIterator` and the loop of
`allocateForRange`: the start is `first + offset`, wrapped; the iteration ends
when it is back at the start or becomes invalid, which it does after the
all-ones address. `Offsets` is what `randomizedBounds` may draw, with
`MaxInt`/`MaxUint` for the 64-bit limits. A caller stands for a grant of a
provider; `Release` takes the lock per address, so two callers interleave
inside an Allocate.

### ClaimLifecycle

One call at a time, as the kubelet plugin helper serializes them (a call whose
context is cancelled is assumed not to run on behind a later one). `PrepareClaim`,
`ReuseDevice`, `ResolveDevice`, `GetDHCP`, `CommitDevice` follow prepareDevice;
`DeviceFails` is any of its error returns after the resolution, with the
deferred release; `ResolveFails` those before, and `MergedConfigInvalid` the one
that finds the merged configuration invalid and releases its addresses. `ProfileOutcomes` is
getDeviceNetworkConfig with GetProfileConfig of GCE and Alibaba, `Released` their
ReleaseProfileConfig. The allocator is used at what `LocalIPAM` establishes: any
free address, or failure when there is none. The kubelet retries, restarts,
loses replies; `DriverCrash` may come between any two steps. A claim that
reaches the driver is reserved for its pod (the kubelet checks that). The
checkpoint deletions of the pods in `Undeletable` may fail. The code then logs the
error, forgets the pod and reports success; the history variable `undeleted` has the
pods whose record is left so, and `NothingRevived` says that no start has read
one back.

### SandboxLifecycle

One pod with devices of three kinds: a netdev that is moved (with an RDMA
link), a parent of a subinterface, an RDMA-only device. A sandbox stands for
its namespace. `LinkByName` finds netdevs by name, which is what the code does,
so the model keeps names, and the netdev has another one in the pod. The runtime
may discard a failed sandbox without a stop, stop one twice or late, and send
no namespace (`NsSent`), in which case the path in the store is used; the kernel
destroys namespaces and returns what is in them under the name it has. Two history
variables name what the code does not handle: `abandoned` has the netdevs that a
hook ended without returning from a namespace, `misdirected` the sandboxes that a
stop of another one worked on.
Hooks are delivered one at a time; the driver restarts between hooks. Status
updates of claims, which nothing here reads, are left out.

### Inventory

`host` is the set of devices whose netdev is in the host namespace. `RunReads`
and `RunUpdates` are the two ends of a scan; lookups scan on their own. Devices
of `Pci` are reported also when their netdev is away. `links` are undelivered
netlink updates, `owed` a return whose RequestRescan is still to come. The
channels are what they are in the code: notifications and netlink updates
without buffer, one rescan token. A publication is two steps, `ReadSnapshots` and `Publish`, and a device
may be prepared or unprepared between them (`late`). A claim's device is published
and on the host when it is prepared, and back on the host when the claim is
unprepared. The devices of `Mobile` may also disappear from the host for other reasons,
claimed or not. A return announces itself by a rescan request or a link update; after a failed
RDMA detach it does not (`DeviceReturnsUnannounced`, `unannounced`), and is left to the
poll.

### GracefulStop

`now`, `base`, `tickAt` are Stop's clock values. The polling goroutine is not
late; pods of `Prompt` create containers less than a grace period apart (that is
what Stop is designed for), pods of `Restless` never stop, others do what they
like. A DRA call in progress when Stop begins may still store its pod.

### NetworkConfig and DeviceConfiguration

A configuration is a record; addresses, networks and gateways are names of the set
`Names`, and `V6` says which of them are IPv6. Four scalars stand for all the pointer fields of
InterfaceConfig (an ordinary one, one with a meaningful zero, the one
MergeNetworkConfig copies by hand, the Boolean of DHCP). `MergeNetworkConfig`
follows mergo: empty values override nothing, slices are appended and deduplicated
by key (`Kept` is what a slice has at some of its positions, in order). `Valid` has
the rules about combinations of fields; a string that does not parse is the flag `ok`
of an opaque configuration.
`CacheAfterMerge` is what a preparation leaves in the provider configuration whose
pointers it shares: the merges write through them, and Default writes the table it
derives for a VRF. `NoVRF` is the absence of a VRF; an empty `vrf` object is another
value, which `ValidVRF` rejects. Of an `ipvlan` object only the presence is modelled.

`call` is the running prepareResourceClaim: its position in the claim's devices
and the tables whose rules no device has taken yet. `Resolved` is getDeviceNetworkConfig,
`Completed` the rest of prepareDevice: DHCP or the host's addresses, routes,
`ClearStaleRouteSources`, rules by table, neighbours. Failures may come at every
stage, the lookup of the RDMA device and the write to the store included; a retry
meets the devices an earlier call stored.
Left out: ethtool's section and the names of CDI devices.

### PodNetwork

`Program(d)` is the list of requests for a device, as the code sends them: a
device that is moved, or a child of one that stays, then the move of the RDMA link
where the device has one and the RDMA namespaces are exclusive. `iface` is the pod's
interface as the kernel has it. The kernel's part: a link that joins a VRF loses
its IPv6 addresses unless keep_addr_on_down is set; a route with a gateway needs
one that is reachable (`AddRoute`); a VRF that exists under its name is used as it
is; below the smallest IPv6 MTU an interface has no IPv6 state, so neither sysctls
nor an address generation mode nor IPv6 addresses (`IPv6Missing`); destroying a
namespace returns what was moved there. `StepFails` fails any request, and `Rollback`
undoes one device; a failing move of the RDMA link is not rolled back. What only
logs an error (`DetachEBPF(all)`) does not fail the hook.

### Discovery

`Function` and `Link` are the node's hardware, `inPod` and `rdmaInPod` what is
in pods. `ReachedFrom` follows the MasterIndex chains from the default gateways round by
round, as getExcludedUplinkInterfaces does; `NodeLinks`, which the properties use, is
the least set that is closed under them. `RunBegins` reads the uplinks, once for the
process's life; the routes, the link of a route, or the list of links may be
unreadable then (`RouteReads`, `unread`). The default routes themselves are
constant: db.go:74 says that a change of gateway is not followed.
A scan reads the PCI bus and the RDMA devices, then the links, then the
sysfs entry of each, then RDMA again; it filters the uplinks (`ScanFilters`), asks
the provider, and stores the result (`ScanUpdates`). Each is an action, and pods move devices
between them. `Run` and a preparation scan beside each other, and the
preparation may come before `gwInterfaces` is set. A read that fails gives an
empty result, as in the code. A scan without the links (`misread`) publishes
an uplink's function too, and the slice a process starts with may hold one from an
earlier run; `early` marks results filtered before Run had read the uplinks.
`prepare` is the lookup of a claim's device, with its rescan and retry.

### OKEAddressing and OKEProfile

An IPv4 address is a number below `2^Width`, a prefix its base and length.
`DerivesChild` and `ChildIPv4` are deriveRDMAIPv4, `ParentIPv4` the address OCA
gives a NIC, `NicIndexFromAddress` the inverse. `OKEProfile` is the provider:
`Refresh` merges what IMDS answers into the snapshot, `GetDeviceConfig` is what a
scan advertises, `ResolveIPv4` and `GetProfileConfigIPv6` resolve a claim. The
node changes around it: NICs appear, OCA assigns addresses (or a foreign one is
added first), IPv6 prefixes and routers change, and networks that collide with
the child range come and go. A claim may name the profile for a NIC that is not
advertised with it; the address of the Kubernetes service may lie in the child range,
which refuses every claim; an InfiniBand NIC is the provider's when it has
an IPoIB netdev or the RDMA namespaces are exclusive. `ReadVNICSubnets` has the cache with its age. The hash
of the IPv6 interface identifier is a constant function with collisions. Left
out: the parsing of IMDS answers and OCA files, attributes of the instance.

## 3. Runs

| Run | Bounds | Shows |
|---|---|---|
| `store` | 2 pods, 2 devices, 2 claims (symmetric) | `MemoryIsDurable`, `PodStateOnlyForKnownPods`, refinement of `DurableStore` |
| `ipam` | 3 callers, one holding an address from before the restart; 8 addresses per family; tight, dual-stack, huge, reversed, invalid ranges | `NoDoubleHandOut`, `ExactAccounting`, `TakesFreeAddressOfRange`, `FailsOnlyWhenExhausted` |
| `claims` | 3 pods, one of them with deletions that may fail, 3 claims (dynamic on two devices, static on one of them, DHCP on a third), 2 addresses, 1 crash | `AddressesMatchStore`, `NoSharedAddress`, `AcknowledgedIsStored`, `UnpreparedIsForgotten`, `TerminatingPodsGo` |
| `sandbox` | 2 attempts, 3 devices, the netdev renamed in the pod, stops with and without their namespace, clean-up may fail | `ReadySandboxHasDevices`, `DevicesComeHome`, `ReturnedRdmaIsSeen` |
| `inventory` | 2 devices, one of which may disappear, 1 lookup, 3 changes of the host, publishing may fail, unannounced returns | `NoLostWakeup`, `AllocatedStaysPublished`, `PublishedCatchesUp`, `StoreCatchesUp` |
| `stop` | a prompt and a restless pod, 3 containers, grace 4, poll 2, fallback 10 | `PromptPodsServed`, `StopReturns` |
| `oke` | addresses of 6 bits; eleven nodes: NICs known by name or by address, swapped or foreign addresses, a child range that overlaps the parents' or holds the service, pod networks that come and go, InfiniBand NICs, an IPv6 node; 2 claims, hashes that collide | `GrantsDistinct`, `ConflictSeenInTime`, `ChildAvoidsParent`, `ServableClaimsResolve` |
| `config` | a claim of three devices, a dozen user configurations, 5 provider and 2 profile ones, a DHCP lease, host routes in several tables | `UserWins`, `CommittedApplies`, `CopiedSourcesAreLocal`, `RulesFollowRoutes`, `PreparedStaysPrepared` |
| `podnet` | an interface that is moved, with an RDMA link, a child, one too small for IPv6; 3 to 6 configurations each; 2 failing requests | `NeverUpWithoutPolicy`, `ReadyIsConfigured`, `FailsOnlyForCause`, `FailureLeavesNothing` |
| `discovery` | 5 functions, 6 links, two modes of RDMA; claims on the uplink's function and on an eRDMA function (`Wanted`); 2 moves of pods, 1 failing read, also at Run's begin | `UplinkStays`, `IBOnlyHasNoNetdev`, `AllocatableStaysPublished` |

`oke`, `podnet` and `discovery` check the type invariant of their module too. All invariants and
action properties are also proved for every instance (section 4), as is that the
children of OKE lie in their range.

The bounds let the interesting cases happen: two pods contend for one device
and for two addresses, one of which is asked for by name; a crash falls between
any two effects; an attempt to start follows a failed one;
a scan overlaps a change and another scan; a restless pod outlasts the fallback;
a request fails, and another one in the attempt after the roll-back, or in the
roll-back itself; a link leaves and returns within one scan; NICs of one host
and of one number collide if the derivation lets them.
Counters are bounded by `MaxCrashes`, `MaxChanges`, `MaxStart`/`MaxTime`,
`MaxFaults`, `MaxMoves`, `MaxClaims`.
`stop` switches the deadlock check off because the program ends.

### Where the code and its comments disagree

Each is a run that TLC ends with a counterexample.

* `claims_two_per_pod`: unpreparing one of two claims of a pod forgets the other,
  whose addresses stay allocated.
* `config_provider_mutated`: merging a claim's configuration writes through the
  pointers of the provider configuration that the inventory has cached
  (`CacheAfterMerge`), and the next claim of the device gets the values.

### What the properties except

These cases are in the runs, and the property that would fail on them names
them; without the exception TLC finds a counterexample.

* A checkpoint deletion that fails is not retried: the unprepare returned success,
  and a retry would find no such pod in memory, though DeletePod's comment counts on
  one. The record stays on disk, and the next start revives it with its addresses,
  which another pod may have by then (`UnpreparedIsForgotten` excepts
  `undeleted`; `AddressesMatchStore` and `NoSharedAddress` need `NothingRevived`).
* A stop without a namespace works on the namespace in the store, the latest
  attempt's, and strips that sandbox while it runs
  (`ReadySandboxHasDevices` excepts `misdirected`).
* A renamed netdev that a hook leaves in the pod comes home under its pod
  name (`DevicesComeHome` excepts `abandoned`): RunPodSandbox failed at the RDMA
  link, which is not rolled back (`FailureLeavesNothing` excepts it too), or
  at a later device, a detach failed, or the stop was misdirected.
* A device that is prepared between the read of the snapshots and the publication is
  missing from the slice for a while (`AllocatedStaysPublished`). It comes back with the
  scan its own move causes; one that nothing announces waits for the poll.
* When Run cannot read the routes or the links at its begin, it takes no uplink, or not
  all, out of the slice until the process ends; and a function that a scan without
  links has published can be claimed and found before Run has begun
  (`UplinkStays` excepts `unread`, and `misread` with `early`).
* An empty device list that could not be published is not sent again
  (`PublishedCatchesUp`).
* A user's explicit zero (`acceptRA: 0`, `forwarding: false`) does not override
  a provider's value (`OverridePointer`; `UserWins`).

The models also show the following, which no property is about:

* a DHCP lease taken by a preparation that fails later is recorded nowhere
  (`DeviceFails`);
* an older scan overwrites the rescan of a lookup (`Inventory`);
* a static subinterface address without a profile is not reserved with the
  allocator (`ProfileOutcomes`);
* releasing a configuration for which the provider granted nothing frees the
  address, whoever has it (`Released`);
* a range that ends at the all-ones address is not iterated past its end, and a
  huge one whose random offset leads past it is given up (`Advance`,
  `AddOffsetAddress`; hence the hypothesis `RangesClearOfTop`);
* a profile whose answer puts a device into a VRF, or makes it a subinterface, only
  when it is asked again leaves the routes of a device stored before without the
  rules that the first answer took (hence the hypothesis `ProfilesAgree`);
* a VRF that exists is used as it is: of two claims that give one VRF two tables,
  the second does not get its own (hence the hypothesis `VRFsAgree`);
* the drain of the unbuffered netlink channel drains nothing (`LinkUpdate`);
* RunPodSandbox does not count as activity for Stop (`RunPodSandbox` of
  `GracefulStop`);
* the forwarding that `types.go` documents is never applied
  (applyInterfaceForwarding of `netnamespace.go` has no caller);
* the sources of routes the user gives are not checked against the addresses
  (`CopiedSourcesAreLocal` is about the copied ones, and `CommittedApplies` not about
  sources), so RunPodSandbox may still refuse such a route;
* an interface set down for a move that fails stays down (`SetDown`); an EEXIST
  of a route is taken for success, also when the route is another interface's;
* an InfiniBand HCA whose IPoIB link is in a pod is taken for an RDMA-only device;
  a link that leaves between the list and its sysfs entry is published under
  its own name as a virtual device until the next scan (`PciAddressForNetInterface`).

### Fairness

* `ClaimLifecycle`: the goroutine of a call runs on (weak); the DaemonSet
  restarts a dead driver (weak); the kubelet retries unprepare for a terminating
  pod for ever (strong on `StartUnprepare`, because other calls may be running
  whenever it tries) and one of the answers arrives in time (strong on
  `FinishUnprepare`). Prepare is not assumed to succeed.
* `Inventory`: goroutines run and the poll timer fires (weak on `RunStep`),
  a lookup that began ends, StopPodSandbox reaches its RequestRescan, and
  publication does not fail for ever (strong on `Publish`).
* `GracefulStop`: time passes, Stop's goroutine runs, prompt pods act.
* `OKEProfile`: time passes, OCA configures the NICs it finds and the kubelet
  retries (weak); IMDS may fail any number of times, but not for ever (strong on
  `CompleteRefresh`).
* `DeviceConfiguration`, `PodNetwork` and `Discovery` state safety only.

## 4. Proofs

`ClaimLifecycleProofs`, the store, for all pods, devices, claims and configurations:
`StoreTypeCorrect`, `MemoryAlwaysDurable`, `NoOrphanPodState`, and
`StoreRefinesDurableStore` (`StoreSpec => ImplementsDurableStore`). The inductive
invariant is `StoreInv`. `MemoryIsDurable` alone is not inductive: a start copies
the checkpoint into a map that must be known to have been empty of pod-level
state, which is `DownIsEmpty`; and that every entry is `NoConfig` or a
configuration comes from the type. The refinement maps `SetDeviceConfig` to
`Set` when the write succeeded and to a stutter otherwise, the deletions to
`Delete` with the pods whose transaction committed as the durable ones, a crash
to `End` (the residue becomes visible again), and a start to `Start`, which changes
nothing a reader sees; the
lemmas about `View` and `Residue` carry it. It uses `MemoryIsDurable`.

`PreparationProofs`, the allocator, for all callers, ranges, offsets and limits:
`IPAMTypeCorrect`, `NeverDoubleHandOut` and `BooksStayExact`. The inductive invariant
`IPAMInv` joins exclusiveness with exact accounting, because an address outside
`allocatedIPs` is only known to be with nobody through `ExactAccounting`, and with
`IdleHasNothing`, because Reserve replaces what its caller holds. About the
iterator these need only that `FirstFree` returns `NoAddr` or an address that is not
allocated. What it visits is the subject of

* `AlwaysTakesFreeAddressOfRange`: the iterator never leaves the range
  (`IteratedStaysInRange`);
* `AlwaysFailsOnlyWhenExhausted`, for ranges that keep clear of the all-ones address
  (`RangesClearOfTop`): `IteratedCovers` gives the step at which each address is
  visited, and none before it ends the iteration.

The recursive function is shown to exist on every initial segment, and facts
about its steps follow by least counterexample (`SomeLeast`), since the library's
induction rules cannot be instantiated.

`PreparationProofs`, the configuration, for all claims, configurations, leases and
host states: `PreparedAlwaysStays`, `UserAlwaysWins`, `CommittedAlwaysApplies`,
`CopiedSourcesAlwaysLocal` and `RulesAlwaysFollowRoutes`. `Over(u, m)` says that m has
all u says; a merge puts the user's configuration under its result (`MergeIsOver`),
`Over` composes (`OverOver`) and survives the defaults (`DefaultIsOver`), so the
resolved configuration is over the claim's whatever the cache has become through
earlier merges. `CompletedParts` says what the host adds to it. The invariant
`ConfigInv` keeps, for each stored device, what follows from that at the moment it is
stored (`Wins`, `Applies`, `Sourced`), because the cache and the profile's answers
change afterwards.

`RulesFollowRoutes` needs more, since the rules of a table may be lost with a device that
fails and stored routes may wait for a later call. `RulesInv` names a carrier of each
table: a device of the claim that has the rules, or is not stored yet and will
take them (`Carries`). The tables a running call has given away have one among the
devices it has passed (`TakenInv`), so a carrier that finds them taken is relieved
by another; once a claim is acknowledged all its devices are stored
(`AckedInv`). That a device does not change its role between calls is `RoleInv` (the
values written through the cache do not) and the hypotheses `ProfilesAgree` and
`DevicesOnce` (a claim has a device once).

`ClaimLifecycleProofs`, the hooks, for all pods, claims, devices and addresses and any
number of crashes. `LifecycleInv` is the type, the store's `StoreInv`, the shape
of the local state of a call (`CallShape`), what the kubelet calls for and when
(`CallPhase`: a claim is of one live pod), and that a stored configuration is of
a claim of its pod (`StoredBelongs`). On it rest

* `LifecycleTypeCorrect`, and `UsesStoreAsSpecified` (`Spec => StoreSpec`): the
  hooks drive the store only through its operations, so the theorems about the
  store hold in the composition;
* `AcknowledgedAlwaysStored`, when the claims of a pod have different devices
  (`DevicesApart`). The invariant also says that a device the running call has
  passed without an error is stored; the lemma `WantedStays` says that no step
  deletes what is stored for a wanted pod;
* `UnpreparedAlwaysForgotten`, without a hypothesis. `ForgetInv` adds that memory and
  disk are equal but for the pods whose deletion failed and that the claims an
  unprepare has passed are gone;
* `AddressesAlwaysMatchStore` and `AddressesNeverShared`, for pods with one claim
  (`OneClaimPerPod`; the run `claims_two_per_pod` shows why), addresses from
  profiles (`AddressesFromProfile`). Deletions may fail; the books are exact until
  a restart revives what one left (`NothingRevived`). `AddressesMatchStore`
  says nothing of a running unprepare, so it is not inductive: `AddressInv` counts the
  addresses an unprepare has released one by one (`IsReleased`), says that a
  grant is free, that the deferred release gives back what was granted, that
  no two stored devices hold one address, also on disk, from where a start
  seeds the allocator, and that every stored subinterface is of a profile.

`SandboxLifecycleProofs`, for all devices and any number of attempts:
`SandboxTypeCorrect` and `ReturnedRdmaAlwaysSeen` (`SandboxInv`: a hook has a
namespace, a returned link is at the host, and a rescan that is owed is in the
hook that owes it); and, when the names of different devices differ
(`NamesApart`; LinkByName then finds the device it is asked for),
`DevicesAlwaysComeHome` and `ReadySandboxesKeepDevices`. `HomeInv`: a netdev is at the host,
or under its pod name in a namespace that exists, and then a sandbox or a hook still
answers for it (`Accounted`) or it is abandoned. `ReadyInv`: what a running hook has
attached stays, and a stop is in a sandbox that is ready only if it was sent for
another one. Devices may be renamed and stops may come without their namespace.

`InventoryProofs`, for all devices, lookups and changes: `InventoryTypeCorrect`,
`WakeupsAreNotLost`, and, with the feature gate of persistent attributes,
`AllocatedAlwaysComesBack`. For the wake-ups the invariant needs only that the
undelivered updates are not more than the changes. For the slice it follows a list
from the scan to the publication: what was sent is known to Run
(`SentIsKnown`), and an allocated device that the publication under way leaves out was
prepared too late for it and will be brought by a wake-up or a newer scan
(`LeftOutIsComing`).

`GracefulStopProofs`, for all pods, grace periods, intervals and fallbacks:
`StopTypeCorrect` and `PromptPodsAlwaysServed`. `PromptPodsServed` is about the end;
the invariant follows it back to the tick that decided (`DecisionStands`): a
prompt pod that still lacks containers has been active within the grace period
(`PromptArePrompt`, `ActivityIsProgress`, `ProgressBeforeStop`,
`InFlightSinceStop`), so the tick cannot have found the node quiet.

`PodNetworkProofs`, for all devices, configurations and numbers of failing requests:
`NetTypesCorrect`, `PolicyBeforeUp`, `ReadyPodIsConfigured` (when claims that name one
VRF agree on its table, `VRFsAgree`), `HookFailsOnlyForCause` and
`FailedHookLeavesNothing`. The proof has one invariant for each kind of state.
`TypeInv`: a hook is at a step of the program of its device. `InterfaceInv`: what the
interface of the running device has is what the steps before have asked for; in
particular it is up only after its policy. `NamespaceInv`: the same of
routes, rules and VRFs of the namespace, and for the devices that are done.
`FaultInv`: which routes are in the namespace in spite of those that could not be
added, that a hook that fails has a cause, and what the roll-back of a failed
device leaves, unless what failed is the move of the RDMA link.

`DiscoveryProofs`, for all hardware, moves and failing reads. `ExcludedAreNodeLinks` is
about the constants: when all can be read, the rounds of `ReachedFrom` end in the least
closed set, because each round that is not the last adds a link and there are as many
rounds as links.
`DiscInv` then follows the data of the two scans through their stages (`ScanInv`) into
the store (`GoodStore`). For the uplink it needs `UplinkInv`: as long as no scan was
without the links and Run has read the uplinks or will (`Clean`), nothing
of them is published, so no claim can ask for them; and when a scan was without
them, what was filtered after Run had read the uplinks has none of their
links, also when the scans overlap. On it rest `DiscoveryTypesCorrect`,
`UplinkAlwaysStays`, `IBOnlyNeverHasNetdev` (when functions with a netdev other than
IPoIB are network controllers with Ethernet ports, `NetdevsAreEthernet`) and
`AllocatableAlwaysPublished` (when the functions a driver is bound to are those that
have a netdev or an RDMA device, `DriversServe`).

`OKEProfileProofs`, the addresses, for all ranges, subnets, hosts and indices: a child
lies in its range and outside the parents' (`ChildStaysInItsRange`); two hosts are given
one child only if OCA gave them one parent (`ChildrenCollideOnlyWithParents`), which
within a subnet does not happen (`ChildrenOfSubnetAreDistinct`); and the two directions
of the index arithmetic invert each other (`IndexFromDerivedAddress`,
`DerivedFromIndexOfAddress`). The two-dimensional arithmetic of `index * size +
position` is a lemma about Euclidean division.

`OKEProfileProofs`, the provider, for all nodes, NICs and orders in which metadata,
addresses and claims arrive: `OKETypesCorrect`, `GrantsStayDistinct`,
`ConflictIsSeenInTime` (on an IPv4 fabric) and `ChildAlwaysAvoidsParent`. `OKEInv` adds to
the type that a grant is the one derived from the NIC's index, and the age of the
subnets it was checked against.

Assumptions: the named ASSUMEs of the modules (types of the constants,
`NoConfig`, `NoAddr`, `NoNetNS` outside the sets they mark absence from, disjoint
initial holdings), which TLC evaluates in the runs.

The hypotheses of single theorems (`DevicesApart` and the others) are formulas about
the constants, or the configurations of a pod, that the instances of the runs
satisfy.

Only model-checked: liveness (`TerminatingPodsGo`, `PublishedCatchesUp`,
`StoreCatchesUp`, `StopReturns`, `ServableClaimsResolve`), since fairness and ENABLED are
out of TLAPS' reach, and the two runs that end with a counterexample.

## 5. Not modelled

* Azure, AWS and CoreWeave: one metadata query at the start and a table of
  attributes. Nothing changes afterwards and nothing is granted. Provider discovery
  probes them in turn, sequentially.
* The range arithmetic of GCE and Alibaba (IPRangeFromCIDR, getIPv6Range): their
  grants are modelled over a given range.
* The webhook provider and webhook-whereabouts: both sides translate a call into
  another and keep no state; the reservations are in a CNI binary outside the
  repository.
* SLAAC: a library of packet formats that no other package uses yet.
* The CEL filter (taken to admit every device), metrics, dranetctl.
* migrateSchema of the checkpoint, and the restart loops around the NRI plugin and the
  inventory.
* Hooks that overlap: with KeepConnected a hook may go on after the runtime has
  given up on it. Hooks of several pods at once touch different devices.
* Names of devices, eBPF and SR-IOV attributes, the PCI database: lookups without
  state that only selectors read.

----------------------------- MODULE PodNetwork -----------------------------
(***************************************************************************)
(* How RunPodSandbox configures a pod's interfaces, kernel request by      *)
(* kernel request (pkg/driver: nri_hooks.go, hostdevice.go,                *)
(* subinterfaces.go, netnamespace.go, interface_sysctl.go, ethtool.go,     *)
(* ebpf.go).  SandboxLifecycle takes "attach the interface" as one step    *)
(* that succeeds, fails or strands the interface; here are the requests    *)
(* behind it, any of which may fail, the roll-back, and what the kernel    *)
(* makes of their order: a link is moved down, an address is lost when a   *)
(* link joins a VRF, a route needs a reachable gateway.                    *)
(*                                                                         *)
(* The devices are those of one pod.  A failed hook is followed by         *)
(* StopPodSandbox and the end of the namespace, and the runtime tries      *)
(* again with a new one.                                                   *)
(***************************************************************************)
EXTENDS Integers, Sequences, SequencesExt, FiniteSets, TLC

CONSTANTS
  Devices,
  Configs,       \* the configurations a device may be stored with
  HostMTU,       \* the MTU of each device on the host
  MinIPv6MTU,
  MaxFaults      \* requests that fail for no reason of their own, bound

VARIABLES
  config,        \* the stored configuration of each device
  location,      \* "host" or "pod": where the device itself is
  iface,         \* the pod's interface for the device: moved there, or its child
  hostUp,        \* the device is up on the host
  podVRFs, podRoutes, podRules, podNeighbors,  \* of the pod's namespace
  hook,          \* the running hook
  status,        \* the devices the claim's status says are ready
  faults

netVars == <<config, location, iface, hostUp, podVRFs, podRoutes, podRules, podNeighbors,
             hook, status, faults>>
nsVars == <<podVRFs, podRoutes, podRules, podNeighbors>>

Nil == -1
NoVRF == [name |-> "", table |-> 0]
LinkScope == 253
Absent == [present |-> FALSE, temporary |-> FALSE, up |-> FALSE, addrGenMode |-> FALSE,
           sysctls |-> {}, addrs |-> {}, features |-> FALSE, programs |-> TRUE, master |-> "",
           rdma |-> FALSE]

\* What a hook is at: the device, the step of its program, the devices to come.
\* Of the step that adds routes, those to come, and whether all before were added.
NoDevice == "none"
Waiting == [state |-> "waiting", device |-> NoDevice, pc |-> 0, todo |-> {},
            routes |-> {}, added |-> TRUE]

ASSUME PodAssumption ==
  /\ NoDevice \notin Devices
  /\ MaxFaults \in Nat
  /\ \A d \in Devices : \A c \in Configs[d] : \A i \in DOMAIN c.routes : c.routes[i].scope \in Int

----------------------------------------------------------------------------
\* The programs: the requests for one device, in the code's order.

\* setupNetdevInNS, and what addIPVlan does after the child is created.  The
\* policy of an interface is set before it comes up.
SetupStepsUpFirst == <<"up", "addrGenMode", "sysctls", "addresses">>
SetupSteps == <<"addrGenMode", "sysctls", "addresses", "up">>

\* configureNetdevInNS.
ConfigureSteps == <<"ethtool", "ebpf", "vrf", "routes", "rules", "neighbors">>

\* nsAttachNetdev and nsCreateSubinterface.
NetdevSteps == <<"check", "down", "move">> \o SetupSteps
SubinterfaceSteps == <<"check", "parentUp", "create", "rename">> \o SetupSteps

\* And, for a device of either kind, the move of its RDMA link.
Program(d) ==
  (IF config[d].sub THEN SubinterfaceSteps ELSE NetdevSteps) \o ConfigureSteps \o <<"rdma", "report">>

At(step) ==
  /\ hook.state = "running" /\ hook.device # NoDevice
  /\ Program(hook.device)[hook.pc] = step

Dev == hook.device
Conf == config[Dev]
Advance == hook' = [hook EXCEPT !.pc = @ + 1]
Fail == hook' = [hook EXCEPT !.state = "rollback"]

----------------------------------------------------------------------------
\* What the configuration asks of the kernel.

\* Without an MTU of its own the interface has the host's.
EffectiveMTU(d) == IF config[d].mtu # Nil THEN config[d].mtu ELSE HostMTU[d]

\* The checks made before a link is touched.
Feasible(d) ==
  /\ config[d].acceptRA # Nil /\ config[d].mtu = Nil => HostMTU[d] >= MinIPv6MTU
  /\ config[d].sub /\ config[d].mtu # Nil => config[d].mtu <= HostMTU[d]

KeepsIPv6AddressesInVRF(c) == c.vrf # NoVRF /\ \E a \in ToSet(c.addrs) : a.v6

\* applyInterfaceSysctlsWithSysctl.  An interface below the IPv6 minimum has no
\* IPv6 sysctls, and then only acceptRA: 0 is satisfied.
Sysctls(c) ==
  (IF c.arp THEN {"arp"} ELSE {}) \union (IF c.acceptRA # Nil THEN {"acceptRA"} ELSE {})
    \union (IF KeepsIPv6AddressesInVRF(c) THEN {"keepAddrOnDown"} ELSE {})
SysctlsExist(d) ==
  EffectiveMTU(d) < MinIPv6MTU =>
    config[d].acceptRA \in {Nil, 0} /\ ~KeepsIPv6AddressesInVRF(config[d])

\* Such an interface has no IPv6 state either that could have a way of making
\* addresses, or an address.
AddrGenModeExists(d) == EffectiveMTU(d) < MinIPv6MTU => ~config[d].addrGenMode
AddressesExist(d) == EffectiveMTU(d) < MinIPv6MTU => \A a \in ToSet(config[d].addrs) : ~a.v6

\* Joining a VRF takes the interface down and up: IPv6 addresses go, unless kept.
AddressesInVRF(i) ==
  IF "keepAddrOnDown" \in i.sysctls THEN i.addrs ELSE {a \in i.addrs : ~a.v6}

\* applyRoutingConfig sorts by scope, the link scope before the universe, and adds
\* the routes one by one, all into the VRF's table.  Routes of one scope are added
\* in whatever order the sort leaves them.
AnyOrder(i) == TRUE
SortedRoutes(i) == \A j \in hook.routes : Conf.routes[j].scope <= Conf.routes[i].scope

RouteTableOwn(c, r) == r.table
RouteTable(c, r) == IF c.vrf # NoVRF THEN c.vrf.table ELSE r.table

Installed(d, r) ==
  [device |-> d, dst |-> r.dst, gw |-> r.gw, scope |-> r.scope, table |-> RouteTable(config[d], r)]

\* The kernel takes a route whose gateway is on a network of the interface or
\* behind a link scope route that is already there.
Reachable(gw) ==
  \/ gw = ""
  \/ \E a \in iface[Dev].addrs : gw \in a.onLink
  \/ \E r \in podRoutes : r.device = Dev /\ r.scope = LinkScope /\ r.dst = gw

\* EEXIST: one route to a destination in a table, whoever has it.
RouteExists(r) == \E q \in podRoutes : q.dst = r.dst /\ q.table = RouteTable(Conf, r)
----------------------------------------------------------------------------
NetInit ==
  /\ config \in [Devices -> UNION {Configs[d] : d \in Devices}]
  /\ \A d \in Devices : config[d] \in Configs[d]
  /\ location = [d \in Devices |-> "host"]
  /\ iface = [d \in Devices |-> Absent]
  /\ hostUp = [d \in Devices |-> TRUE]
  /\ podVRFs = <<>> /\ podRoutes = {} /\ podRules = {} /\ podNeighbors = {}
  /\ hook = Waiting
  /\ status = {}
  /\ faults = 0

\* runPodSandbox, and its loop over a map of devices, in any order.
RunPodSandbox ==
  /\ hook = Waiting
  /\ hook' = [Waiting EXCEPT !.state = "running", !.todo = Devices]
  /\ UNCHANGED <<config, location, iface, hostUp, nsVars, status, faults>>

BeginDevice(d) ==
  /\ hook.state = "running" /\ hook.device = NoDevice
  /\ d \in hook.todo
  /\ hook' = [hook EXCEPT !.device = d, !.pc = 1, !.todo = @ \ {d},
                          !.routes = DOMAIN config[d].routes, !.added = TRUE]
  /\ UNCHANGED <<config, location, iface, hostUp, nsVars, status, faults>>

\* The steps that find the device on the host.
Check ==
  /\ At("check")
  /\ IF Feasible(Dev) /\ location[Dev] = "host" THEN Advance
     ELSE hook' = [hook EXCEPT !.state = "failed"]
  /\ UNCHANGED <<config, location, iface, hostUp, nsVars, status, faults>>

SetDown ==
  /\ At("down")
  /\ hostUp' = [hostUp EXCEPT ![Dev] = FALSE]
  /\ Advance
  /\ UNCHANGED <<config, location, iface, nsVars, status, faults>>

\* One request renames the link, sets its MTU and moves it.
Move ==
  /\ At("move")
  /\ location' = [location EXCEPT ![Dev] = "pod"]
  /\ iface' = [iface EXCEPT ![Dev] = [Absent EXCEPT !.present = TRUE]]
  /\ Advance
  /\ UNCHANGED <<config, hostUp, nsVars, status, faults>>

ParentUp ==
  /\ At("parentUp")
  /\ hostUp' = [hostUp EXCEPT ![Dev] = TRUE]
  /\ Advance
  /\ UNCHANGED <<config, location, iface, nsVars, status, faults>>

\* addIPVlan: the child is created in the pod's namespace under a random name.
CreateChild ==
  /\ At("create")
  /\ iface' = [iface EXCEPT ![Dev] = [Absent EXCEPT !.present = TRUE, !.temporary = TRUE]]
  /\ Advance
  /\ UNCHANGED <<config, location, hostUp, nsVars, status, faults>>

\* Changes the interface in the pod and nothing else.
Configures(i) ==
  /\ iface' = [iface EXCEPT ![Dev] = i]
  /\ Advance
  /\ UNCHANGED <<config, location, hostUp, nsVars, status, faults>>

Rename == At("rename") /\ Configures([iface[Dev] EXCEPT !.temporary = FALSE])

SetAddrGenMode ==
  /\ At("addrGenMode") /\ AddrGenModeExists(Dev)
  /\ Configures([iface[Dev] EXCEPT !.addrGenMode = Conf.addrGenMode])

\* applyInterfaceSysctlConfig, and for a child applyOffloadSizes before it.
ApplySysctls ==
  /\ At("sysctls") /\ SysctlsExist(Dev)
  /\ Configures([iface[Dev] EXCEPT !.sysctls = Sysctls(Conf)])

AddAddresses ==
  /\ At("addresses") /\ AddressesExist(Dev)
  /\ Configures([iface[Dev] EXCEPT !.addrs = ToSet(Conf.addrs)])

SetUp == At("up") /\ Configures([iface[Dev] EXCEPT !.up = TRUE])

ApplyEthtool == At("ethtool") /\ Configures([iface[Dev] EXCEPT !.features = Conf.ethtool])

\* A program that cannot be detached is logged, not reported.
DetachEBPF(all) ==
  /\ At("ebpf") /\ (all => Conf.ebpf)
  /\ Configures([iface[Dev] EXCEPT !.programs = ~all])

\* A VRF of that name is used as it is, else it is created with the table.
ApplyVRF ==
  /\ At("vrf") /\ Conf.vrf # NoVRF
  /\ podVRFs' = [name \in DOMAIN podVRFs \union {Conf.vrf.name} |->
                  IF name \in DOMAIN podVRFs THEN podVRFs[name] ELSE Conf.vrf.table]
  /\ iface' = [iface EXCEPT ![Dev].master = Conf.vrf.name, ![Dev].addrs = AddressesInVRF(iface[Dev])]
  /\ Advance
  /\ UNCHANGED <<config, location, hostUp, podRoutes, podRules, podNeighbors, status, faults>>

\* RouteAdd: EEXIST is as good as success, every other error is remembered and
\* the next route is tried.
AddRoute(i) ==
  LET r == Conf.routes[i] IN
  /\ At("routes") /\ i \in hook.routes /\ SortedRoutes(i)
  /\ podRoutes' = IF Reachable(r.gw) /\ ~RouteExists(r)
                  THEN podRoutes \union {Installed(Dev, r)} ELSE podRoutes
  /\ hook' = [hook EXCEPT !.routes = @ \ {i}, !.added = @ /\ Reachable(r.gw)]
  /\ UNCHANGED <<config, location, iface, hostUp, podVRFs, podRules, podNeighbors, status, faults>>

AddRouteFails(i) ==
  /\ At("routes") /\ i \in hook.routes /\ SortedRoutes(i)
  /\ faults < MaxFaults
  /\ faults' = faults + 1
  /\ hook' = [hook EXCEPT !.routes = @ \ {i}, !.added = FALSE]
  /\ UNCHANGED <<config, location, iface, hostUp, nsVars, status>>

\* The routes that could be added stay, whether or not all could.
ApplyRoutes ==
  /\ At("routes") /\ hook.routes = {}
  /\ IF hook.added THEN Advance ELSE Fail
  /\ UNCHANGED <<config, location, iface, hostUp, nsVars, status, faults>>

ApplyRules ==
  /\ At("rules") /\ Conf.vrf = NoVRF
  /\ podRules' = podRules \union ToSet(Conf.rules)
  /\ Advance
  /\ UNCHANGED <<config, location, iface, hostUp, podVRFs, podRoutes, podNeighbors, status, faults>>

ApplyNeighbors ==
  /\ At("neighbors")
  /\ podNeighbors' = podNeighbors \union {[device |-> Dev, dst |-> n] : n \in ToSet(Conf.neighbors)}
  /\ Advance
  /\ UNCHANGED <<config, location, iface, hostUp, podVRFs, podRoutes, podRules, status, faults>>

\* attachRdmaToNS, when the RDMA namespaces are exclusive and the device has an
\* RDMA link.  How the link comes home is SandboxLifecycle's.
MoveRDMA == At("rdma") /\ Configures([iface[Dev] EXCEPT !.rdma = Conf.rdma])

\* What a device does without: no VRF, no rules in a VRF.
Skip ==
  /\ \/ At("vrf") /\ Conf.vrf = NoVRF
     \/ At("rules") /\ Conf.vrf # NoVRF
  /\ Advance
  /\ UNCHANGED <<config, location, iface, hostUp, nsVars, status, faults>>

\* The conditions of a device are collected, and sent when every device is done.
ReportAtOnce ==
  /\ At("report")
  /\ status' = status \union {Dev}
  /\ hook' = [hook EXCEPT !.device = NoDevice]
  /\ UNCHANGED <<config, location, iface, hostUp, nsVars, faults>>
Report ==
  /\ At("report")
  /\ hook' = [hook EXCEPT !.device = NoDevice]
  /\ UNCHANGED <<config, location, iface, hostUp, nsVars, status, faults>>

\* The status is sent by a routine of its own, whose failure is logged.
RunSucceeds(sent) ==
  /\ hook.state = "running" /\ hook.device = NoDevice /\ hook.todo = {}
  /\ hook' = [hook EXCEPT !.state = "done"]
  /\ status' = IF sent THEN Devices ELSE status
  /\ UNCHANGED <<config, location, iface, hostUp, nsVars, faults>>

----------------------------------------------------------------------------
\* Failures.  Before the link is in the pod there is nothing to roll back.
Touched == iface[Dev].present

\* The request of the current step fails, or one it needs: a handle, a lookup,
\* which the routes need before the first of them.
\* What a failed step did in the namespace besides the interface (a VRF, some of
\* the rules) ends with the namespace and is left out.  When the RDMA link cannot
\* be moved, the hook leaves the interface where it is.
StepFails ==
  /\ hook.state = "running" /\ hook.device # NoDevice
  /\ ~At("report") /\ (At("routes") => hook.routes = DOMAIN Conf.routes)
  /\ At("rdma") => Conf.rdma
  /\ faults < MaxFaults
  /\ faults' = faults + 1
  /\ IF Touched /\ ~At("rdma") THEN Fail ELSE hook' = [hook EXCEPT !.state = "failed"]
  /\ UNCHANGED <<config, location, iface, hostUp, nsVars, status>>

\* What an interface below the IPv6 minimum does not have is an error too.
IPv6Missing ==
  /\ \/ At("addrGenMode") /\ ~AddrGenModeExists(Dev)
     \/ At("sysctls") /\ ~SysctlsExist(Dev)
     \/ At("addresses") /\ ~AddressesExist(Dev)
  /\ Fail
  /\ UNCHANGED <<config, location, iface, hostUp, nsVars, status, faults>>

\* The link is gone from the namespace, and its routes and neighbours with it.
Vanishes(d) ==
  /\ iface' = [iface EXCEPT ![d] = Absent]
  /\ podRoutes' = {r \in podRoutes : r.device # d}
  /\ podNeighbors' = {n \in podNeighbors : n.device # d}

\* nsDetachNetdevFromNS: down, to the host under its name there, and up.
ReturnNetdev(d) ==
  /\ location' = [location EXCEPT ![d] = "host"]
  /\ hostUp' = [hostUp EXCEPT ![d] = TRUE]
  /\ Vanishes(d)

\* The child is deleted by its index, whatever its name is by then.
FoundByName(d) == iface[d].temporary
FoundForRollback(d) == iface[d].present

DeleteChild(d) ==
  /\ IF FoundForRollback(d) THEN Vanishes(d) ELSE UNCHANGED <<iface, podRoutes, podNeighbors>>
  /\ UNCHANGED <<location, hostUp>>

Rollback ==
  /\ hook.state = "rollback"
  /\ IF Conf.sub THEN DeleteChild(Dev) ELSE ReturnNetdev(Dev)
  /\ hook' = [hook EXCEPT !.state = "failed"]
  /\ UNCHANGED <<config, podVRFs, podRules, status, faults>>

\* The roll-back fails: before or after it took the link down, or after the link
\* was moved and before it is up on the host.
RollbackFails(moved) ==
  /\ hook.state = "rollback"
  /\ faults < MaxFaults
  /\ faults' = faults + 1
  /\ moved => ~Conf.sub
  /\ IF moved
     THEN /\ Vanishes(Dev)
          /\ location' = [location EXCEPT ![Dev] = "host"]
     ELSE /\ \E up \in BOOLEAN : /\ (up = iface[Dev].up \/ (~Conf.sub /\ ~up))
                               /\ iface' = [iface EXCEPT ![Dev].up = up]
          /\ UNCHANGED <<location, podRoutes, podNeighbors>>
  /\ hook' = [hook EXCEPT !.state = "failed"]
  /\ UNCHANGED <<config, hostUp, podVRFs, podRules, status>>

\* StopPodSandbox for one device, the first time or again.
StopDevice(d) ==
  /\ hook.state \in {"failed", "done", "stopping"}
  /\ iface[d].present
  /\ IF config[d].sub
     THEN /\ Vanishes(d)
          /\ UNCHANGED <<location, hostUp>>
     ELSE ReturnNetdev(d)
  /\ hook' = [Waiting EXCEPT !.state = "stopping"]
  /\ UNCHANGED <<config, podVRFs, podRules, status, faults>>

\* The namespace ends: children end with it, and the kernel hands a device that
\* is still there to the host, down.  The runtime may start the pod again.
NetnsDestroyed ==
  /\ hook.state \in {"failed", "done", "stopping"}
  /\ hostUp' = [d \in Devices |-> hostUp[d] /\ location[d] = "host"]
  /\ location' = [d \in Devices |-> "host"]
  /\ iface' = [d \in Devices |-> Absent]
  /\ podVRFs' = <<>> /\ podRoutes' = {} /\ podRules' = {} /\ podNeighbors' = {}
  /\ hook' = Waiting
  /\ UNCHANGED <<config, status, faults>>

NetNext ==
  \/ RunPodSandbox \/ \E d \in Devices : BeginDevice(d)
  \/ Check \/ SetDown \/ Move \/ ParentUp \/ CreateChild \/ Rename
  \/ SetAddrGenMode \/ ApplySysctls \/ AddAddresses \/ SetUp
  \/ ApplyEthtool \/ \E all \in BOOLEAN : DetachEBPF(all)
  \/ ApplyVRF \/ ApplyRules \/ ApplyNeighbors
  \/ \E i \in hook.routes : AddRoute(i) \/ AddRouteFails(i)
  \/ ApplyRoutes
  \/ MoveRDMA \/ Skip \/ Report \/ \E sent \in BOOLEAN : RunSucceeds(sent)
  \/ StepFails \/ IPv6Missing \/ Rollback
  \/ \E moved \in BOOLEAN : RollbackFails(moved)
  \/ \E d \in Devices : StopDevice(d)
  \/ NetnsDestroyed

NetSpec == NetInit /\ [][NetNext]_netVars

----------------------------------------------------------------------------
\* The types; a hook that runs for a device is at a step of its program; the
\* claim's status never says that some of its devices are ready and others not.
NetTypeOK ==
  /\ location \in [Devices -> {"host", "pod"}]
  /\ hostUp \in [Devices -> BOOLEAN]
  /\ hook.state \in {"waiting", "running", "rollback", "failed", "done", "stopping"}
  /\ hook.device # NoDevice => hook.device \in Devices /\ hook.pc \in DOMAIN Program(hook.device)
  /\ status \in {{}, Devices}
  /\ \A d \in Devices : location[d] = "pod" => iface[d].present /\ ~config[d].sub
  /\ faults \in 0 .. MaxFaults

\* "Apply before the link comes up so it never answers ARP or accepts router
\* advertisements with the wrong policy": no interface of the pod is up, at any
\* moment of any attempt, without the policy its configuration asks for.
NeverUpWithoutPolicy ==
  \A d \in Devices : iface[d].present /\ iface[d].up =>
    /\ iface[d].addrGenMode = config[d].addrGenMode
    /\ Sysctls(config[d]) \subseteq iface[d].sysctls
    /\ ~iface[d].temporary

\* A pod that RunPodSandbox lets start has what its claims say: every address on
\* every interface, also the IPv6 ones of an interface that joined a VRF after it
\* got them; a route to every destination in its table, which in a VRF is the
\* VRF's; the rules of the interfaces outside VRFs; the neighbours and features;
\* its eBPF programs, unless they were to go; and its RDMA link.
ReadyIsConfigured ==
  hook.state = "done" => \A d \in Devices :
    LET c == config[d] i == iface[d] IN
    /\ i.present /\ i.up /\ i.addrs = ToSet(c.addrs)
    /\ i.features = c.ethtool /\ (~i.programs => c.ebpf) /\ (c.rdma => i.rdma)
    /\ c.vrf # NoVRF => i.master = c.vrf.name /\ podVRFs[i.master] = c.vrf.table
    /\ \A r \in ToSet(c.routes) : \E q \in podRoutes :
         q.dst = r.dst /\ q.table = (IF c.vrf # NoVRF THEN podVRFs[i.master] ELSE r.table)
    /\ c.vrf = NoVRF => ToSet(c.rules) \subseteq podRules
    /\ \A n \in ToSet(c.neighbors) : [device |-> d, dst |-> n] \in podNeighbors

\* A route the interface can have whatever comes first: its gateway is on a
\* network of the interface, or behind a link scope route of the same
\* configuration, which no other interface's route and no route that is added
\* earlier displaces.
OnLink(c, r) == r.gw = "" \/ \E a \in ToSet(c.addrs) : r.gw \in a.onLink
Displaces(e, p, d, q) ==
  /\ p.dst = q.dst /\ RouteTable(config[e], p) = RouteTable(config[d], q)
  /\ e # d \/ p.scope > q.scope
Routable(d, r) ==
  \/ OnLink(config[d], r)
  \/ \E q \in ToSet(config[d].routes) :
       /\ q.scope = LinkScope /\ q.dst = r.gw /\ OnLink(config[d], q)
       /\ r.scope < LinkScope
       /\ \A e \in Devices : \A p \in ToSet(config[e].routes) : ~Displaces(e, p, d, q)

\* A configuration this host cannot have.
Impossible(d) ==
  ~(/\ Feasible(d) /\ AddrGenModeExists(d) /\ SysctlsExist(d) /\ AddressesExist(d)
    /\ \A r \in ToSet(config[d].routes) : Routable(d, r))

\* The hook does not trip over its own order: when no request fails of itself, it
\* fails only for a configuration this host cannot have, whatever the order of
\* the devices and of the routes in the store.
FailsOnlyForCause ==
  hook.state = "failed" /\ faults = 0 => Impossible(Dev)

\* One failure of any request for an interface leaves nothing behind: the
\* interface that failed is not in the pod, under any name, nor are its routes;
\* and a device that had been moved is up on the host again ("so the next attempt
\* finds it there").  The one request this is not said of comes after them, the
\* move of the RDMA link: when that fails, the interface stays in the pod.
FailureLeavesNothing ==
  hook.state = "failed" /\ Program(Dev)[hook.pc] # "rdma"
    /\ faults <= (IF Impossible(Dev) THEN 0 ELSE 1) =>
    /\ ~iface[Dev].present /\ location[Dev] = "host"
    /\ \A r \in podRoutes : r.device # Dev
    /\ ~Conf.sub /\ hook.pc > Len(NetdevSteps) - Len(SetupSteps) => hostUp[Dev]
=============================================================================

-------------------------- MODULE SandboxLifecycle --------------------------
(***************************************************************************)
(* The NRI side of the driver: the sandboxes of one prepared pod, whose    *)
(* devices RunPodSandbox moves into the sandbox's network namespace and    *)
(* StopPodSandbox moves back.                                              *)
(*                                                                         *)
(* A pod has a new sandbox, with a new namespace, for every attempt of the *)
(* runtime to start it.  The runtime (external) delivers one hook at a     *)
(* time; it may discard a sandbox whose RunPodSandbox failed without a     *)
(* StopPodSandbox, and may stop a sandbox more than once, also late, when  *)
(* its garbage collector gets to it.  A namespace disappears some time     *)
(* after its sandbox is stopped or discarded; the kernel (external) then   *)
(* pushes the devices in it to the host.                                   *)
(***************************************************************************)
EXTENDS Naturals

CONSTANTS
  Sandboxes,     \* the attempts, each standing for its namespace too
  Devices,       \* the devices of the pod
  Netdev,        \* devices with a netdev that is moved into the pod
  Sub,           \* devices the pod gets a subinterface of
  Rdma,          \* devices with an RDMA link (in exclusive mode)
  HostName,      \* NetworkInterfaceConfigInHost.Interface.Name
  PodName,       \* NetworkInterfaceConfigInPod.Interface.Name
  Fallback,      \* the kernel's name for a returned device whose name is taken
  Host,          \* the host namespace
  NoDevice, NoNS,
  CleanupMayFail, \* whether the clean-up of a failed attach may fail as well
  NsSent         \* whether StopPodSandbox carries the namespace: a set of BOOLEANs

ASSUME DeviceKindsAssumption ==
  /\ Netdev \cup Sub \cup Rdma = Devices
  /\ Netdev \cap Sub = {}
  /\ Host \notin Sandboxes /\ NoNS \notin Sandboxes /\ NoDevice \notin Devices
  /\ CleanupMayFail \in BOOLEAN /\ NsSent \subseteq BOOLEAN
  /\ HostName = [d \in Devices |-> HostName[d]]

VARIABLES
  sandbox,       \* state of each sandbox at the runtime
  at, name,      \* namespace and name of each host netdev
  rdmaAt,        \* namespace of each RDMA link
  children,      \* <<sandbox, device>>: the subinterfaces that exist
  netNS,         \* PodConfig.NetNS
  hook,          \* the running hook: "none", "run", "stop"
  ns,            \* the namespace it works on
  left,          \* the devices it has not come to
  cur,           \* the device it is at, netdev block (run) or RDMA (stop) done
  rdmaDetached, needsRescan,  \* local variables of stopPodSandbox
  dirty,         \* a rescan of the inventory is due
  inventory,     \* devices whose RDMA link the last scan saw
  returned,      \* devices whose RDMA link a StopPodSandbox returned
  abandoned,     \* history: netdevs a hook ended without returning from a namespace
  misdirected    \* history: sandboxes that a stop of another sandbox worked on

netVars == <<at, name, rdmaAt, children>>
hookVars == <<hook, ns, left, cur, rdmaDetached, needsRescan>>
invVars == <<dirty, inventory, returned>>
histVars == <<abandoned, misdirected>>
vars == <<sandbox, netVars, netNS, hookVars, invVars, histVars>>

Init ==
  /\ sandbox = [s \in Sandboxes |-> "none"]
  /\ at = [d \in Devices |-> Host]
  /\ name = HostName
  /\ rdmaAt = [d \in Devices |-> Host]
  /\ children = {}
  /\ netNS = NoNS
  /\ hook = "none" /\ ns = NoNS /\ left = {} /\ cur = NoDevice
  /\ rdmaDetached = FALSE /\ needsRescan = FALSE
  /\ dirty = FALSE /\ inventory = Rdma /\ returned = {}
  /\ abandoned = {} /\ misdirected = {}

\* The namespace exists.
Exists(s) == s # NoNS /\ sandbox[s] \notin {"none", "removed"}

\* LinkByName in a namespace: the netdevs of that name, at most one.
LinkByName(s, n) == {d \in Netdev \cup Sub : at[d] = s /\ name[d] = n}

-----------------------------------------------------------------------------
(* RunPodSandbox.                                                          *)

RunPodSandbox(s) ==
  /\ hook = "none" /\ sandbox[s] = "none"
  /\ \A t \in Sandboxes : sandbox[t] # "ready"
  /\ sandbox' = [sandbox EXCEPT ![s] = "starting"]
  /\ netNS' = s
  /\ hook' = "run" /\ ns' = s /\ left' = Devices
  /\ UNCHANGED <<netVars, cur, rdmaDetached, needsRescan, invVars, histVars>>

\* What a failing hook has moved stays in the namespace.
RunReturns(result) ==
  /\ sandbox' = [sandbox EXCEPT ![ns] = result]
  /\ hook' = "none" /\ ns' = NoNS /\ left' = {} /\ cur' = NoDevice
  /\ abandoned' = abandoned \cup {d \in Netdev : result = "failed" /\ at'[d] = ns}
  /\ UNCHANGED <<netNS, rdmaDetached, needsRescan, misdirected>>

NetdevBlockDone(d) ==
  /\ left' = left \ {d}
  /\ cur' = d
  /\ UNCHANGED <<sandbox, netNS, hook, ns, rdmaDetached, needsRescan, misdirected>>

AtDevice(d) == hook = "run" /\ cur = NoDevice /\ d \in left

\* nsAttachNetdev and configureNetdevInNS succeed: the link is found under its
\* host name, moved, renamed, configured.
AttachNetdev(d) ==
  /\ AtDevice(d) /\ d \in Netdev
  /\ \E e \in LinkByName(Host, HostName[d]) :
       /\ at' = [at EXCEPT ![e] = ns]
       /\ name' = [name EXCEPT ![e] = PodName[d]]
       /\ abandoned' = abandoned \ {e}
  /\ NetdevBlockDone(d)
  /\ dirty' = TRUE
  /\ UNCHANGED <<rdmaAt, children, inventory, returned>>

\* A failure before the move, or one after it whose clean-up returned the
\* device under its host name.  It is also what a missing link leads to.
AttachNetdevFails(d) ==
  /\ AtDevice(d) /\ d \in Netdev
  /\ UNCHANGED <<netVars, invVars>>
  /\ RunReturns("failed")

\* A failure after the move whose clean-up failed as well.
AttachNetdevStrands(d) ==
  /\ AtDevice(d) /\ d \in Netdev /\ CleanupMayFail
  /\ \E e \in LinkByName(Host, HostName[d]) :
       /\ at' = [at EXCEPT ![e] = ns]
       /\ name' = [name EXCEPT ![e] = PodName[d]]
  /\ RunReturns("failed")
  /\ dirty' = TRUE
  /\ UNCHANGED <<rdmaAt, children, inventory, returned>>

\* createSubinterfaceInNS succeeds: the parent stays where it is.
CreateSubinterface(d) ==
  /\ AtDevice(d) /\ d \in Sub
  /\ LinkByName(Host, HostName[d]) # {}
  /\ children' = children \cup {<<ns, d>>}
  /\ NetdevBlockDone(d)
  /\ UNCHANGED <<at, name, rdmaAt, invVars, abandoned>>

\* It fails: the child is deleted again, or stays when that fails too.
CreateSubinterfaceFails(d) ==
  /\ AtDevice(d) /\ d \in Sub
  /\ children' \in {children, children \cup {<<ns, d>>}}
  /\ UNCHANGED <<at, name, rdmaAt, invVars>>
  /\ RunReturns("failed")

\* An IB-only device has no netdev block.
SkipNetdev(d) ==
  /\ AtDevice(d) /\ d \notin Netdev \cup Sub
  /\ NetdevBlockDone(d)
  /\ UNCHANGED <<netVars, invVars, abandoned>>

\* An RDMA block that does not stop the hook when the move fails.
AttachRdmaLenient ==
  /\ hook = "run" /\ cur # NoDevice
  /\ rdmaAt' \in {rdmaAt, [rdmaAt EXCEPT ![cur] = ns]}
  /\ returned' = returned \ {cur}
  /\ cur' = NoDevice
  /\ UNCHANGED <<sandbox, at, name, children, netNS, hook, ns, left, rdmaDetached,
                 needsRescan, dirty, inventory, histVars>>

\* attachRdmaToNS, or nothing for a device without RDMA.
AttachRdma ==
  /\ hook = "run" /\ cur # NoDevice
  /\ cur \in Rdma => rdmaAt[cur] = Host
  /\ rdmaAt' = IF cur \in Rdma THEN [rdmaAt EXCEPT ![cur] = ns] ELSE rdmaAt
  /\ returned' = returned \ {cur}
  /\ cur' = NoDevice
  /\ UNCHANGED <<sandbox, at, name, children, netNS, hook, ns, left, rdmaDetached,
                 needsRescan, dirty, inventory, histVars>>

\* The hook returns at once; what it has attached so far stays attached.
AttachRdmaFails ==
  /\ hook = "run" /\ cur \in Rdma
  /\ UNCHANGED <<netVars, invVars>>
  /\ RunReturns("failed")

RunSucceeds ==
  /\ hook = "run" /\ cur = NoDevice /\ left = {}
  /\ UNCHANGED <<netVars, invVars>>
  /\ RunReturns("ready")

-----------------------------------------------------------------------------
(* StopPodSandbox.                                                         *)

\* With the namespace of the hook or, when the runtime sends none, the one in
\* the store, which may be that of another sandbox; without either the hook does
\* nothing.
StopPodSandbox(s, sent) ==
  LET target == IF sent THEN s ELSE netNS
  IN  /\ hook = "none" /\ sandbox[s] \notin {"none", "starting"}
      /\ sandbox' = IF sandbox[s] = "ready" THEN [sandbox EXCEPT ![s] = "stopped"]
                                            ELSE sandbox
      /\ IF target = NoNS
           THEN UNCHANGED <<hook, ns, left>>
           ELSE hook' = "stop" /\ ns' = target /\ left' = Devices
      /\ needsRescan' = FALSE
      /\ misdirected' = misdirected \cup ({target} \ {s, NoNS})
      /\ abandoned' = abandoned \cup {d \in Netdev : target # s /\ at[d] = s}
      /\ UNCHANGED <<netVars, netNS, cur, rdmaDetached, invVars>>

\* nsDetachRdmadev succeeds; it comes before the netdev.
DetachRdma(d) ==
  /\ hook = "stop" /\ cur = NoDevice /\ d \in left
  /\ d \in Rdma /\ Exists(ns) /\ rdmaAt[d] = ns
  /\ rdmaAt' = [rdmaAt EXCEPT ![d] = Host]
  /\ returned' = returned \cup {d}
  /\ rdmaDetached' = TRUE
  /\ left' = left \ {d} /\ cur' = d
  /\ UNCHANGED <<sandbox, at, name, children, netNS, hook, ns, needsRescan, dirty, inventory,
                 histVars>>

\* It fails, or there is no RDMA link.
DetachRdmaFails(d) ==
  /\ hook = "stop" /\ cur = NoDevice /\ d \in left
  /\ rdmaDetached' = FALSE
  /\ left' = left \ {d} /\ cur' = d
  /\ UNCHANGED <<sandbox, netVars, netNS, hook, ns, needsRescan, invVars, histVars>>

\* A rescan that is asked for only when everything came back.
NeedsRescanAfterDetachBoth(rdma, netdev) == rdma /\ netdev

NeedsRescanAfterDetach(rdma, netdev) == rdma /\ ~netdev

DeviceStopped(netdevDetached) ==
  /\ needsRescan' = (needsRescan \/ NeedsRescanAfterDetach(rdmaDetached, netdevDetached))
  /\ cur' = NoDevice
  /\ UNCHANGED <<sandbox, rdmaAt, netNS, hook, ns, left, rdmaDetached, inventory, returned,
                 misdirected>>

\* A detach that brings the netdev back under another name.
DetachNetdevAlias ==
  /\ hook = "stop" /\ cur \in Netdev /\ Exists(ns)
  /\ LinkByName(Host, HostName[cur]) = {}
  /\ \E e \in LinkByName(ns, PodName[cur]) :
       /\ at' = [at EXCEPT ![e] = Host]
       /\ name' = [name EXCEPT ![e] = Fallback[cur]]
       /\ abandoned' = abandoned \ {e}
  /\ dirty' = TRUE
  /\ DeviceStopped(TRUE)
  /\ UNCHANGED children

\* nsDetachNetdev succeeds: found under its pod name, moved, given back its
\* host name, set up, which the inventory hears of.
DetachNetdev ==
  /\ hook = "stop" /\ cur \in Netdev /\ Exists(ns)
  /\ LinkByName(Host, HostName[cur]) = {}
  /\ \E e \in LinkByName(ns, PodName[cur]) :
       /\ at' = [at EXCEPT ![e] = Host]
       /\ name' = [name EXCEPT ![e] = HostName[cur]]
       /\ abandoned' = abandoned \ {e}
  /\ dirty' = TRUE
  /\ DeviceStopped(TRUE)
  /\ UNCHANGED children

\* nsDetachNetdev fails, before the move or between it and LinkSetUp.
DetachNetdevFails ==
  /\ hook = "stop" /\ cur \in Netdev
  /\ \/ /\ abandoned' = abandoned \cup {d \in {cur} : at[d] = ns}
        /\ UNCHANGED <<at, name>>
     \/ /\ Exists(ns) /\ LinkByName(Host, HostName[cur]) = {}
        /\ \E e \in LinkByName(ns, PodName[cur]) :
             /\ at' = [at EXCEPT ![e] = Host]
             /\ name' = [name EXCEPT ![e] = HostName[cur]]
             /\ abandoned' = abandoned \ {e}
  /\ DeviceStopped(FALSE)
  /\ UNCHANGED <<children, dirty>>

\* nsDeleteSubinterface, which may fail; nothing for an IB-only device.
DeleteSubinterface ==
  /\ hook = "stop" /\ cur \in Devices \ Netdev
  /\ children' \in {children, children \ {<<ns, cur>>}}
  /\ DeviceStopped(FALSE)
  /\ UNCHANGED <<at, name, dirty, abandoned>>

\* RequestRescan at the end of the hook.
StopReturns ==
  /\ hook = "stop" /\ cur = NoDevice /\ left = {}
  /\ dirty' = (dirty \/ needsRescan)
  /\ hook' = "none" /\ ns' = NoNS
  /\ UNCHANGED <<sandbox, netVars, netNS, left, cur, rdmaDetached, needsRescan,
                 inventory, returned, histVars>>

-----------------------------------------------------------------------------
(* The kernel, the inventory and restarts of the driver.                   *)

\* The kernel destroys a namespace: netdevs go to the host with the name they
\* have, unless it is taken; RDMA links too; subinterfaces are deleted.
NetnsDestroyed(s) ==
  /\ sandbox[s] \in {"failed", "stopped"} /\ ns # s
  /\ sandbox' = [sandbox EXCEPT ![s] = "removed"]
  /\ at' = [d \in Devices |-> IF at[d] = s THEN Host ELSE at[d]]
  /\ name' = [d \in Devices |->
                IF at[d] = s /\ LinkByName(Host, name[d]) # {} THEN Fallback[d] ELSE name[d]]
  /\ rdmaAt' = [d \in Devices |-> IF rdmaAt[d] = s THEN Host ELSE rdmaAt[d]]
  /\ children' = {x \in children : x[1] # s}
  /\ dirty' = (dirty \/ \E d \in Netdev : at[d] = s)
  /\ UNCHANGED <<netNS, hookVars, inventory, returned, histVars>>

\* A scan of the inventory sees the RDMA links of the host.
Scan ==
  /\ dirty
  /\ inventory' = {d \in Rdma : rdmaAt[d] = Host}
  /\ dirty' = FALSE
  /\ UNCHANGED <<sandbox, netVars, netNS, hookVars, returned, histVars>>

\* The driver restarts between hooks: the namespace path is lost, the first
\* scan is due, and Synchronize sets the path from the list of the runtime,
\* whose last sandbox of the pod wins.
Synchronize ==
  /\ hook = "none"
  /\ netNS' \in IF \E s \in Sandboxes : Exists(s) THEN {s \in Sandboxes : Exists(s)}
                                                  ELSE {NoNS}
  /\ dirty' = TRUE
  /\ UNCHANGED <<sandbox, netVars, hookVars, inventory, returned, histVars>>

Next ==
  \/ \E s \in Sandboxes : RunPodSandbox(s) \/ NetnsDestroyed(s)
  \/ \E s \in Sandboxes, sent \in NsSent : StopPodSandbox(s, sent)
  \/ \E d \in Devices :
       \/ AttachNetdev(d) \/ AttachNetdevFails(d) \/ AttachNetdevStrands(d)
       \/ CreateSubinterface(d) \/ CreateSubinterfaceFails(d) \/ SkipNetdev(d)
       \/ DetachRdma(d) \/ DetachRdmaFails(d)
  \/ AttachRdma \/ AttachRdmaFails \/ RunSucceeds
  \/ DetachNetdev \/ DetachNetdevFails \/ DeleteSubinterface \/ StopReturns
  \/ Scan
  \/ Synchronize

Spec == Init /\ [][Next]_vars

-----------------------------------------------------------------------------
(* Properties.                                                             *)

Names == {HostName[d] : d \in Devices} \cup {PodName[d] : d \in Devices}
           \cup {Fallback[d] : d \in Devices}

\* Type invariant of the sandbox lifecycle.
SandboxTypeOK ==
  /\ sandbox \in [Sandboxes -> {"none", "starting", "ready", "failed", "stopped", "removed"}]
  /\ at \in [Devices -> Sandboxes \cup {Host}]
  /\ name \in [Devices -> Names]
  /\ rdmaAt \in [Devices -> Sandboxes \cup {Host}]
  /\ children \subseteq Sandboxes \X Sub
  /\ netNS \in Sandboxes \cup {NoNS}
  /\ hook \in {"none", "run", "stop"} /\ ns \in Sandboxes \cup {NoNS}
  /\ left \subseteq Devices /\ cur \in Devices \cup {NoDevice}
  /\ rdmaDetached \in BOOLEAN /\ needsRescan \in BOOLEAN
  /\ dirty \in BOOLEAN /\ inventory \subseteq Rdma /\ returned \subseteq Rdma
  /\ abandoned \subseteq Netdev /\ misdirected \subseteq Sandboxes

\* A sandbox that RunPodSandbox accepted has every device of the pod, netdev,
\* subinterface and RDMA link, and keeps them until it is stopped: neither an
\* earlier attempt nor its late clean-up takes one away.  The exception is a
\* sandbox that the stop of another one was turned on: a stop that the runtime
\* sends without a namespace works on the namespace in the store, which is that
\* of the latest attempt, and strips it while it runs.
ReadySandboxHasDevices ==
  \A s \in Sandboxes : sandbox[s] = "ready" /\ s \notin misdirected =>
    /\ \A d \in Netdev : at[d] = s /\ name[d] = PodName[d]
    /\ \A d \in Sub : <<s, d>> \in children
    /\ \A d \in Rdma : rdmaAt[d] = s

\* Once no namespace of the pod is left, every netdev is at the host under its
\* host name, where the next attempt or the next pod looks for it.  The exception
\* is a netdev that a hook ended without returning: a RunPodSandbox that failed at
\* a later device or at the RDMA link, a failed detach, or a stop that worked on
\* another namespace or on none.  The kernel brings that one home under the name
\* it had in the pod, and under no other.
DevicesComeHome ==
  (\A s \in Sandboxes : ~Exists(s)) =>
    \A d \in Netdev :
      /\ at[d] = Host
      /\ name[d] = HostName[d] \/ (d \in abandoned /\ name[d] = PodName[d])

\* An RDMA link that StopPodSandbox returned is known to the inventory, or a
\* scan that will see it is due (RDMA before netdev; needsRescanAfterDetach).
ReturnedRdmaIsSeen ==
  hook = "none" /\ ~dirty => returned \subseteq inventory
=============================================================================

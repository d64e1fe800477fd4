----------------------------- MODULE Inventory -----------------------------
(***************************************************************************)
(* The inventory of the node's devices: the loop of DB.Run, which scans    *)
(* the host when something may have changed, the lookup of PrepareResource *)
(* Claims, which scans on its own when it misses a device, and the         *)
(* goroutine that publishes what Run finds.                                *)
(*                                                                         *)
(* A scan is not atomic: it reads the host and later replaces the device   *)
(* store.  Devices come and go with the namespaces of pods.                *)
(***************************************************************************)
EXTENDS Integers, FiniteSets

CONSTANTS
  Devices,
  Lookups,      \* concurrent calls of GetNetInterfaceName: a set of callers
  Pci,          \* devices a scan finds on the PCI bus, without the attributes
                \* of a netdev, when their netdev is in a pod
  PersistentAttributes, \* the feature gate PersistentResourceSliceAttributes
  Mobile,       \* bound: the devices that are given to pods, leave and return
  MaxChanges    \* bound on the number of changes of the host

ASSUME ChangesAssumption ==
  /\ MaxChanges \in Nat
  /\ Pci \subseteq Devices /\ Mobile \subseteq Devices
  /\ PersistentAttributes \in BOOLEAN

VARIABLES
  host,          \* devices with a netdev in the host namespace
  allocated,     \* devices with a snapshot in the pod configuration store
  changes,
  links,         \* link updates the subscription has not delivered yet
  owed,          \* a change without a link update, whose StopPodSandbox has not
                 \* called RequestRescan yet
  rescanCh,      \* a token is in the channel of capacity one
  deviceStore,   \* the devices it has an interface name for
  hasDevices,
  runPc, found,  \* the Run loop and the result of its scan
  lookup,        \* where each lookup is
  device, seen,  \* its device and the result of its scan
  pubPc, live,   \* the publishing goroutine and what it received
  merged,        \* that with the snapshots it read
  published,     \* the devices in the ResourceSlice with the attributes of
                 \* their netdev
  refused,       \* the last publication failed
  late,          \* history: devices prepared or unprepared since the publisher
                 \* last read the snapshots
  unannounced    \* history: devices back since Run's last scan of which nothing
                 \* tells the inventory

worldVars == <<host, allocated, changes, links, owed, late>>
runVars == <<runPc, found, hasDevices, unannounced>>
lookupVars == <<lookup, device, seen>>
pubVars == <<pubPc, live, merged, published, refused>>
vars == <<worldVars, rescanCh, deviceStore, runVars, lookupVars, pubVars>>

Init ==
  /\ host \in SUBSET Devices
  /\ allocated = {}
  /\ changes = 0 /\ links = 0 /\ owed = FALSE
  /\ rescanCh = FALSE
  /\ deviceStore = {} /\ hasDevices = FALSE
  /\ runPc = "wait" /\ found = {}
  /\ lookup = [l \in Lookups |-> "idle"]
  /\ device \in [Lookups -> Devices]
  /\ seen = [l \in Lookups |-> {}]
  /\ pubPc = "receive" /\ live = {} /\ merged = {} /\ published = {} /\ refused = FALSE
  /\ late = {} /\ unannounced = {}

-----------------------------------------------------------------------------
(* The host: devices move into pods and back.                              *)

Changed(newHost) ==
  /\ changes < MaxChanges
  /\ changes' = changes + 1
  /\ host' = newHost
  /\ UNCHANGED <<rescanCh, deviceStore, runPc, found, hasDevices, lookupVars, pubVars, late>>

\* The claim of a pod that was given a published device is prepared.
Allocated(d) ==
  /\ d \in published \cap host \cap Mobile
  /\ allocated' = allocated \cup {d}
  /\ late' = late \cup ({d} \ allocated)
  /\ UNCHANGED <<host, changes, links, owed, rescanCh, deviceStore, runVars, lookupVars, pubVars>>

\* A device moves into the pod it is prepared for, or is removed; DELLINK.
DeviceLeaves(d) ==
  /\ d \in host \cap Mobile
  /\ Changed(host \ {d})
  /\ links' = links + 1
  /\ UNCHANGED <<allocated, owed, unannounced>>

\* nsDetachNetdev returns it; NEWLINK.
DeviceReturns(d) ==
  /\ d \in Mobile \ host
  /\ Changed(host \cup {d})
  /\ links' = links + 1
  /\ UNCHANGED <<allocated, owed, unannounced>>

\* It returns (or an RDMA device does) without a link update the inventory hears
\* of, and the hook asks for a rescan.
DeviceReturnsSilently(d) ==
  /\ d \in Mobile \ host
  /\ Changed(host \cup {d})
  /\ owed' = TRUE
  /\ UNCHANGED <<allocated, links, unannounced>>

\* Its detach failed, and it comes back with its namespace: left to the poll.
DeviceReturnsUnannounced(d) ==
  /\ d \in Mobile \ host
  /\ Changed(host \cup {d})
  /\ unannounced' = unannounced \cup {d}
  /\ UNCHANGED <<allocated, links, owed>>

\* The claim is unprepared, after the device has come back.
Unallocated(d) ==
  /\ d \in allocated \cap host
  /\ allocated' = allocated \ {d}
  /\ late' = late \cup {d}
  /\ UNCHANGED <<host, changes, links, owed, rescanCh, deviceStore, runVars, lookupVars, pubVars>>

RequestRescan ==
  /\ owed
  /\ owed' = FALSE
  /\ rescanCh' = TRUE
  /\ UNCHANGED <<host, allocated, changes, links, late, deviceStore, runVars, lookupVars, pubVars>>

-----------------------------------------------------------------------------
(* Run.                                                                    *)

\* The rate limiter lets the loop go on and the scan reads the host.
RunReads ==
  /\ runPc = "wait"
  /\ found' = host
  /\ unannounced' = {}
  /\ runPc' = "scanned"
  /\ UNCHANGED <<worldVars, rescanCh, deviceStore, hasDevices, lookupVars, pubVars>>

\* What a scan that found these netdevs reports is not empty.
Reported(netdevs) == netdevs \cup Pci # {}

\* An update that also takes a waiting rescan request for served.
RunUpdatesDraining ==
  /\ runPc = "scanned"
  /\ deviceStore' = found
  /\ rescanCh' = FALSE
  /\ hasDevices' = Reported(found)
  /\ runPc' = IF Reported(found) \/ hasDevices THEN "send" ELSE "select"
  /\ UNCHANGED <<worldVars, found, unannounced, lookupVars, pubVars>>

\* A loop that only reports a non-empty inventory.
RunUpdatesNonEmpty ==
  /\ runPc = "scanned"
  /\ deviceStore' = found
  /\ runPc' = IF found # {} THEN "send" ELSE "select"
  /\ UNCHANGED <<worldVars, rescanCh, found, hasDevices, unannounced, lookupVars, pubVars>>

\* A loop that leaves the store to the lookups once it has notified.
RunUpdatesOnce ==
  /\ runPc = "scanned"
  /\ deviceStore' = IF hasDevices THEN deviceStore ELSE found
  /\ hasDevices' = Reported(found)
  /\ runPc' = IF Reported(found) \/ hasDevices THEN "send" ELSE "select"
  /\ UNCHANGED <<worldVars, rescanCh, found, unannounced, lookupVars, pubVars>>

\* updateDeviceStore, and the decision to notify: also once when the last
\* device is gone.
RunUpdates ==
  /\ runPc = "scanned"
  /\ deviceStore' = found
  /\ hasDevices' = Reported(found)
  /\ runPc' = IF Reported(found) \/ hasDevices THEN "send" ELSE "select"
  /\ UNCHANGED <<worldVars, rescanCh, found, unannounced, lookupVars, pubVars>>

\* The notification channel has no buffer: Run waits for the publisher.
Notify ==
  /\ runPc = "send" /\ pubPc = "receive"
  /\ live' = found
  /\ pubPc' = "publish"
  /\ runPc' = "select"
  /\ UNCHANGED <<worldVars, rescanCh, deviceStore, found, hasDevices, unannounced, lookupVars, merged,
                 published, refused>>

\* A link update wakes the loop.  The channel has no buffer either, so the loop
\* that drains it finds its length to be zero and takes nothing.
LinkUpdate ==
  /\ runPc = "select" /\ links > 0
  /\ links' = links - 1
  /\ runPc' = "wait"
  /\ UNCHANGED <<host, allocated, changes, owed, late, rescanCh, deviceStore, found, hasDevices,
                 unannounced, lookupVars, pubVars>>

Rescan ==
  /\ runPc = "select" /\ rescanCh
  /\ rescanCh' = FALSE
  /\ runPc' = "wait"
  /\ UNCHANGED <<worldVars, deviceStore, found, hasDevices, unannounced, lookupVars, pubVars>>

\* maxPollInterval has passed.
Poll ==
  /\ runPc = "select"
  /\ runPc' = "wait"
  /\ UNCHANGED <<worldVars, rescanCh, deviceStore, found, hasDevices, unannounced, lookupVars, pubVars>>

-----------------------------------------------------------------------------
(* PublishResources.                                                       *)

PublisherStep(next) ==
  /\ pubPc' = next
  /\ UNCHANGED <<host, allocated, changes, links, owed, rescanCh, deviceStore, runVars, lookupVars>>

\* A publisher that forgets the devices that are in pods.
ReadSnapshotsLiveOnly ==
  /\ pubPc = "publish"
  /\ merged' = live
  /\ late' = {}
  /\ PublisherStep("merged")
  /\ UNCHANGED <<live, published, refused>>

Snapshots == IF PersistentAttributes THEN allocated ELSE {}

\* GetAllocatedDeviceSnapshots and mergeDevices: the live devices and the
\* snapshots of the allocated ones.
ReadSnapshots ==
  /\ pubPc = "publish"
  /\ merged' = live \cup Snapshots
  /\ late' = {}
  /\ PublisherStep("merged")
  /\ UNCHANGED <<live, published, refused>>

Publish ==
  /\ pubPc = "merged"
  /\ published' = merged
  /\ refused' = FALSE
  /\ live' = {} /\ merged' = {}
  /\ PublisherStep("receive")
  /\ UNCHANGED late

\* The error is logged.
PublishFails ==
  /\ pubPc = "merged"
  /\ refused' = TRUE
  /\ live' = {} /\ merged' = {}
  /\ PublisherStep("receive")
  /\ UNCHANGED <<published, late>>

-----------------------------------------------------------------------------
(* GetNetInterfaceName.                                                    *)

LookupStep(l, next) ==
  /\ lookup' = [lookup EXCEPT ![l] = next]
  /\ UNCHANGED <<worldVars, rescanCh, runVars, device, pubVars>>

\* getNetInterfaceNameWithoutRescan.
FirstLookup(l) ==
  /\ lookup[l] = "idle"
  /\ LookupStep(l, IF device[l] \in deviceStore THEN "hit" ELSE "missed")
  /\ UNCHANGED <<deviceStore, seen>>

LookupReads(l) ==
  /\ lookup[l] = "missed"
  /\ LookupStep(l, "scanned")
  /\ seen' = [seen EXCEPT ![l] = host]
  /\ UNCHANGED deviceStore

LookupUpdates(l) ==
  /\ lookup[l] = "scanned"
  /\ LookupStep(l, "retry")
  /\ deviceStore' = seen[l]
  /\ seen' = [seen EXCEPT ![l] = {}]

SecondLookup(l) ==
  /\ lookup[l] = "retry"
  /\ LookupStep(l, IF device[l] \in deviceStore THEN "hit" ELSE "error")
  /\ UNCHANGED <<deviceStore, seen>>

\* The caller has its answer; the kubelet may call again.
LookupReturns(l) ==
  /\ lookup[l] \in {"hit", "error"}
  /\ LookupStep(l, "idle")
  /\ UNCHANGED <<deviceStore, seen>>

WorldStep ==
  \/ \E d \in Devices : \/ Allocated(d) \/ DeviceLeaves(d) \/ DeviceReturns(d)
                        \/ DeviceReturnsSilently(d) \/ DeviceReturnsUnannounced(d)
                        \/ Unallocated(d)
  \/ RequestRescan

RunStep == RunReads \/ RunUpdates \/ Notify \/ LinkUpdate \/ Rescan \/ Poll

PublishStep == ReadSnapshots \/ Publish \/ PublishFails

LookupAction(l) ==
  FirstLookup(l) \/ LookupReads(l) \/ LookupUpdates(l) \/ SecondLookup(l) \/ LookupReturns(l)

Next ==
  \/ WorldStep
  \/ RunStep
  \/ PublishStep
  \/ \E l \in Lookups : LookupAction(l)

\* The goroutines run, the poll timer fires, hooks finish, a lookup that has
\* begun ends, and publishing does not fail for ever.
Fairness ==
  /\ WF_vars(RunStep)
  /\ SF_vars(Publish) /\ WF_vars(PublishStep)
  /\ WF_vars(RequestRescan)
  /\ \A l \in Lookups :
       WF_vars(LookupReads(l) \/ LookupUpdates(l) \/ SecondLookup(l) \/ LookupReturns(l))

Spec == Init /\ [][Next]_vars /\ Fairness

-----------------------------------------------------------------------------
(* Properties.                                                             *)

\* Type invariant of the inventory.
InventoryTypeOK ==
  /\ host \subseteq Devices /\ allocated \subseteq Devices
  /\ changes \in 0..MaxChanges /\ links \in 0..MaxChanges
  /\ owed \in BOOLEAN /\ rescanCh \in BOOLEAN /\ hasDevices \in BOOLEAN
  /\ deviceStore \subseteq Devices /\ found \subseteq Devices
  /\ runPc \in {"wait", "scanned", "send", "select"}
  /\ lookup \in [Lookups -> {"idle", "missed", "scanned", "retry", "hit", "error"}]
  /\ device \in [Lookups -> Devices]
  /\ seen \in [Lookups -> SUBSET Devices]
  /\ pubPc \in {"receive", "publish", "merged"}
  /\ live \subseteq Devices /\ merged \subseteq Devices
  /\ late \subseteq Devices /\ unannounced \subseteq Devices
  /\ published \subseteq Devices /\ refused \in BOOLEAN

\* Run will scan without waiting for the poll.
Woken == links > 0 \/ rescanCh \/ owed \/ runPc = "wait"

\* Whatever Run's last scan missed, something is there to make it scan again
\* without waiting for the poll: no link update and no RequestRescan that
\* arrives while Run is scanning or waiting for the publisher is lost.  The
\* exception is a device whose return nothing announces, after a failed RDMA
\* detach.
NoLostWakeup ==
  found \ unannounced # host \ unannounced => Woken

\* With PersistentResourceSliceAttributes, a device that is prepared for a pod
\* is in the ResourceSlice, although no scan sees it, or a publication with it is
\* on its way or was refused.  The exception is a device that was prepared after
\* the publisher had read the snapshots: the publication drops it, but then Run
\* is already to scan again, or holds a newer scan, so that it comes back without
\* waiting for the poll; unless nothing announced the device, or a scan found
\* nothing at all, which Run reports only once.
AllocatedStaysPublished ==
  PersistentAttributes =>
    \A d \in allocated \ published :
      \/ refused
      \/ pubPc = "publish" \/ (pubPc = "merged" /\ d \in merged)
      \/ /\ d \in late
         /\ Woken \/ runPc # "select" \/ d \in unannounced \/ ~Reported(found)

\* When the host has come to rest, the ResourceSlice comes to show exactly the
\* devices of the host (and with snapshots those of the pods), also when there
\* are none left.  The exceptions are those of an empty host, which Run reports
\* once: an empty list that the API server refused is not sent again, and claims
\* prepared or unprepared since the snapshots were read for it do not show.
PublishedCatchesUp ==
  <>[](\/ published = host \cup Snapshots
       \/ ~Reported(host) /\ (refused \/ published \ late = Snapshots \ late))

\* When the host has come to rest, the device store comes to agree with it,
\* whatever older scan overwrote a newer one.
StoreCatchesUp ==
  <>[](deviceStore = host)
=============================================================================

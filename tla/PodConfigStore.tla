--------------------------- MODULE PodConfigStore ---------------------------
(***************************************************************************)
(* The store of prepared device configurations: a map in memory, guarded   *)
(* by a mutex, and a bbolt checkpoint that is written through.             *)
(*                                                                         *)
(* Every operation runs under the mutex, so each is one action.  A         *)
(* checkpoint write is one bbolt transaction: it happens completely or,    *)
(* when it reports an error, not at all.  The process may die between any  *)
(* two operations; the disk survives.                                      *)
(*                                                                         *)
(* A map entry is NoConfig when the key is absent.  A pod is in the map    *)
(* exactly when one of its devices is: SetDeviceConfig creates the entry   *)
(* together with a device and the deletions remove whole pods.             *)
(***************************************************************************)
EXTENDS Naturals

CONSTANTS
  Pods,           \* pod UIDs
  Devices,        \* device names
  Claims,         \* namespaced names of ResourceClaims
  DeviceConfigs,  \* records with at least the fields claim, subinterface
                  \* and addresses
  NoConfig,       \* an absent map entry
  NetNSPaths,     \* network namespace paths
  NoNetNS,        \* the empty path
  MaxTime         \* bound on the timestamps of NRI activity; 0 is the zero time

ASSUME DeviceConfigsAssumption ==
  /\ \A c \in DeviceConfigs : c.claim \in Claims
  /\ NoConfig \notin DeviceConfigs

ASSUME NetNSAssumption == NoNetNS \notin NetNSPaths

ASSUME TimeAssumption == MaxTime \in Nat

VARIABLES
  configs,          \* DeviceConfigs of each pod, in memory
  netNS,            \* NetNS of each pod, in memory
  lastNRIActivity,  \* LastNRIActivity of each pod, in memory
  checkpoint,       \* the device configs in the bbolt database
  up                \* the process runs

storeVars == <<configs, netNS, lastNRIActivity, checkpoint, up>>

NoDevices == [d \in Devices |-> NoConfig]

NoPods == [p \in Pods |-> NoDevices]

DeviceMap == [Devices -> DeviceConfigs \cup {NoConfig}]

\* ListPods: the pods the store has an entry for.
ListPods == {p \in Pods : \E d \in Devices : configs[p][d] # NoConfig}

Known(p) == \E d \in Devices : configs[p][d] # NoConfig

StoreInit ==
  /\ configs = NoPods
  /\ netNS = [p \in Pods |-> NoNetNS]
  /\ lastNRIActivity = [p \in Pods |-> 0]
  /\ checkpoint = NoPods
  /\ up = TRUE

-----------------------------------------------------------------------------
(* Readers.                                                                *)

GetDeviceConfig(p, d) == configs[p][d]

\* The addresses the node-local IPAM is seeded with.
InUseSubinterfaceIPs(m) ==
  UNION {m[x[1]][x[2]].addresses :
           x \in {y \in Pods \X Devices :
                    /\ m[y[1]][y[2]] # NoConfig
                    /\ m[y[1]][y[2]].subinterface}}

-----------------------------------------------------------------------------
(* Writers.                                                                *)

\* boltCheckpointer.Store and DeletePod, when the transaction commits.
Store(db, p, d, c) == [db EXCEPT ![p][d] = c]

DeleteBuckets(db, P) == [p \in Pods |-> IF p \in P THEN NoDevices ELSE db[p]]

\* A store that updated memory although the checkpoint write failed.
SetDeviceConfigNoAbort(p, d, c, written) ==
  /\ up
  /\ configs' = [configs EXCEPT ![p][d] = c]
  /\ checkpoint' = IF written THEN Store(checkpoint, p, d, c) ELSE checkpoint
  /\ UNCHANGED <<netNS, lastNRIActivity, up>>

\* The checkpoint is written first; when that fails the call returns the
\* error and memory keeps what it had.
SetDeviceConfig(p, d, c, written) ==
  /\ up
  /\ IF written
       THEN /\ checkpoint' = Store(checkpoint, p, d, c)
            /\ configs' = [configs EXCEPT ![p][d] = c]
       ELSE UNCHANGED <<checkpoint, configs>>
  /\ UNCHANGED <<netNS, lastNRIActivity, up>>

\* Remove the pods of P from memory whatever becomes of the checkpoint, whose
\* transactions fail for the pods of `failed`.
Forget(P, failed) ==
  /\ configs' = [p \in Pods |-> IF p \in P THEN NoDevices ELSE configs[p]]
  /\ netNS' = [p \in Pods |-> IF p \in P THEN NoNetNS ELSE netNS[p]]
  /\ lastNRIActivity' = [p \in Pods |-> IF p \in P THEN 0 ELSE lastNRIActivity[p]]
  /\ checkpoint' = DeleteBuckets(checkpoint, P \ failed)
  /\ UNCHANGED up

DeletePod(p, failed) ==
  /\ up
  /\ Forget({p}, failed)

\* The pods that hold a device of the claim.
PodsOfClaim(claim) ==
  {p \in Pods : \E d \in Devices :
     configs[p][d] # NoConfig /\ configs[p][d].claim = claim}

\* DeleteClaim removes every pod that holds a device of the claim, with all
\* the devices of that pod.
DeleteClaim(claim, failed) ==
  /\ up
  /\ Forget(PodsOfClaim(claim), failed)

\* A setter that stores the path of a pod the store does not know.
SetPodNetNsUnchecked(p, ns) ==
  /\ up
  /\ netNS' = [netNS EXCEPT ![p] = ns]
  /\ UNCHANGED <<configs, lastNRIActivity, checkpoint, up>>

SetPodNetNs(p, ns) ==
  /\ up
  /\ netNS' = IF Known(p) THEN [netNS EXCEPT ![p] = ns] ELSE netNS
  /\ UNCHANGED <<configs, lastNRIActivity, checkpoint, up>>

UpdateLastNRIActivity(p, t) ==
  /\ up
  /\ lastNRIActivity' = IF Known(p) THEN [lastNRIActivity EXCEPT ![p] = t]
                                    ELSE lastNRIActivity
  /\ UNCHANGED <<configs, netNS, checkpoint, up>>

\* The process dies: memory is lost, the database file is not.
Crash ==
  /\ up
  /\ up' = FALSE
  /\ configs' = NoPods
  /\ netNS' = [p \in Pods |-> NoNetNS]
  /\ lastNRIActivity' = [p \in Pods |-> 0]
  /\ UNCHANGED checkpoint

\* GetOrCreate: every device of every pod bucket; a pod without devices is
\* skipped, which is what an entry of NoConfigs says.  The JSON encoding of a
\* DeviceConfig loses nothing (all its fields carry tags), so what is read is
\* what was stored.
GetOrCreate == checkpoint

\* A start that finds an empty map.
NewPodConfigStoreEmpty ==
  /\ ~up
  /\ up' = TRUE
  /\ UNCHANGED <<configs, netNS, lastNRIActivity, checkpoint>>

\* NewPodConfigStore: the device configs come from the checkpoint, the
\* pod-level fields start empty.
NewPodConfigStore ==
  /\ ~up
  /\ up' = TRUE
  /\ configs' = GetOrCreate
  /\ UNCHANGED <<netNS, lastNRIActivity, checkpoint>>

StoreNext ==
  \/ \E p \in Pods, d \in Devices, c \in DeviceConfigs, written \in BOOLEAN :
       SetDeviceConfig(p, d, c, written)
  \/ \E p \in Pods : \E failed \in SUBSET {p} : DeletePod(p, failed)
  \/ \E claim \in Claims : \E failed \in SUBSET PodsOfClaim(claim) :
       DeleteClaim(claim, failed)
  \/ \E p \in Pods, ns \in NetNSPaths : SetPodNetNs(p, ns)
  \/ \E p \in Pods, t \in 1..MaxTime : UpdateLastNRIActivity(p, t)
  \/ Crash
  \/ NewPodConfigStore

StoreSpec == StoreInit /\ [][StoreNext]_storeVars

-----------------------------------------------------------------------------
(* Properties.                                                             *)

\* Type invariant of the store.
StoreTypeOK ==
  /\ configs \in [Pods -> DeviceMap]
  /\ checkpoint \in [Pods -> DeviceMap]
  /\ netNS \in [Pods -> NetNSPaths \cup {NoNetNS}]
  /\ lastNRIActivity \in [Pods -> 0..MaxTime]
  /\ up \in BOOLEAN

\* Whatever memory says of a device, the checkpoint says too: a crash at any
\* moment loses no configuration that GetDeviceConfig has returned (the reason
\* SetDeviceConfig aborts when its checkpoint write fails).
MemoryIsDurable ==
  \A p \in Pods, d \in Devices :
    configs[p][d] # NoConfig => checkpoint[p][d] = configs[p][d]

\* Pod-level runtime state (the namespace path StopPodSandbox falls back to,
\* the activity Stop waits for) exists only for pods the store still knows: a
\* late SetPodNetNs or UpdateLastNRIActivity after the claim was unprepared
\* does not bring a pod back to life.
PodStateOnlyForKnownPods ==
  \A p \in Pods : ~Known(p) => netNS[p] = NoNetNS /\ lastNRIActivity[p] = 0

\* A process that is down holds nothing.
DownIsEmpty ==
  ~up => /\ configs = NoPods
         /\ netNS = [p \in Pods |-> NoNetNS]
         /\ lastNRIActivity = [p \in Pods |-> 0]

\* The inductive invariant of the store.
StoreInv ==
  /\ StoreTypeOK
  /\ MemoryIsDurable
  /\ PodStateOnlyForKnownPods
  /\ DownIsEmpty

\* What a reader sees, or would see after the next start.
View == IF up THEN configs ELSE checkpoint

\* What the checkpoint has and memory lacks: deletions that did not reach it.
Residue ==
  IF up THEN [p \in Pods |-> [d \in Devices |->
                IF configs[p][d] = NoConfig THEN checkpoint[p][d] ELSE NoConfig]]
        ELSE NoPods

Durable == INSTANCE DurableStore WITH view <- View, residue <- Residue, running <- up

\* Refinement: every behaviour of the write-through store, crashes and failed
\* checkpoint writes included, is a behaviour of the durable map.
ImplementsDurableStore == Durable!Spec
=============================================================================

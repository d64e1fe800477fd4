------------------------ MODULE ClaimLifecycleProofs ------------------------
(***************************************************************************)
(* The DRA hooks, for any pods, claims, devices and addresses, any number  *)
(* of crashes and retries: the calls use the store as its specification    *)
(* says; what the kubelet was told is what the disk says; and the books of *)
(* the addresses are exact.  The store itself comes first: it keeps its    *)
(* invariant and implements DurableStore.                                  *)
(***************************************************************************)
EXTENDS ClaimLifecycle, TLAPS

----------------------------------------------------------------------------
(* The store, on its own: every set of pods, devices, claims and           *)
(* configurations.                                                         *)


\* The invariant holds in the empty store of a first start.
LEMMA InitInv == StoreInit => StoreInv
  BY DeviceConfigsAssumption, NetNSAssumption, TimeAssumption
  DEF StoreInit, StoreInv, StoreTypeOK, MemoryIsDurable, PodStateOnlyForKnownPods,
      DownIsEmpty, NoPods, NoDevices, DeviceMap, Known

\* Forgetting a set of pods keeps the invariant, whichever of the checkpoint
\* deletions failed (the common part of DeletePod and DeleteClaim).
LEMMA ForgetKeepsInv ==
  ASSUME StoreInv, up, NEW P, NEW lost, Forget(P, lost)
  PROVE  StoreInv'
<1> USE DEF Forget, DeleteBuckets, StoreInv
<1>1. StoreTypeOK'
  BY TimeAssumption DEF StoreTypeOK, DeviceMap, NoDevices
<1>2. MemoryIsDurable'
  BY DEF MemoryIsDurable, StoreTypeOK, NoDevices
<1>3. PodStateOnlyForKnownPods'
  <2> SUFFICES ASSUME NEW p \in Pods, ~Known(p)'
               PROVE  netNS'[p] = NoNetNS /\ lastNRIActivity'[p] = 0
    BY DEF PodStateOnlyForKnownPods
  <2>1. CASE p \in P
    BY <2>1
  <2>2. CASE p \notin P
    <3>1. ~Known(p)
      BY <2>2 DEF Known, StoreTypeOK
    <3>2. QED
      BY <2>2, <3>1 DEF PodStateOnlyForKnownPods
  <2>3. QED
    BY <2>1, <2>2
<1>4. DownIsEmpty'
  BY DEF DownIsEmpty
<1>5. QED
  BY <1>1, <1>2, <1>3, <1>4

\* Every step of the store keeps the invariant.
LEMMA NextKeepsInv == StoreInv /\ [StoreNext]_storeVars => StoreInv'
<1> SUFFICES ASSUME StoreInv, [StoreNext]_storeVars
             PROVE  StoreInv'
  OBVIOUS
<1> USE DEF StoreInv
<1>1. ASSUME NEW p \in Pods, NEW d \in Devices, NEW c \in DeviceConfigs,
             NEW written \in BOOLEAN, SetDeviceConfig(p, d, c, written)
      PROVE  StoreInv'
  <2> USE <1>1 DEF SetDeviceConfig, Store
  <2>1. StoreTypeOK'
    <3>1. CASE written
      <4>1. [configs EXCEPT ![p][d] = c] \in [Pods -> DeviceMap]
        BY DEF StoreTypeOK, DeviceMap
      <4>2. [checkpoint EXCEPT ![p][d] = c] \in [Pods -> DeviceMap]
        BY DEF StoreTypeOK, DeviceMap
      <4>3. QED
        BY <3>1, <4>1, <4>2 DEF StoreTypeOK
    <3>2. CASE ~written
      BY <3>2 DEF StoreTypeOK
    <3>3. QED
      BY <3>1, <3>2
  <2>2. MemoryIsDurable'
    <3> SUFFICES ASSUME NEW q \in Pods, NEW e \in Devices, configs'[q][e] # NoConfig
                 PROVE  checkpoint'[q][e] = configs'[q][e]
      BY DEF MemoryIsDurable
    <3>1. CASE written /\ q = p /\ e = d
      BY <3>1 DEF StoreTypeOK, DeviceMap
    <3>2. CASE ~(written /\ q = p /\ e = d)
      <4>1. configs'[q][e] = configs[q][e] /\ checkpoint'[q][e] = checkpoint[q][e]
        BY <3>2 DEF StoreTypeOK, DeviceMap
      <4>2. QED
        BY <4>1 DEF MemoryIsDurable
    <3>3. QED
      BY <3>1, <3>2
  <2>3. PodStateOnlyForKnownPods'
    <3> SUFFICES ASSUME NEW q \in Pods, ~Known(q)'
                 PROVE  netNS'[q] = NoNetNS /\ lastNRIActivity'[q] = 0
      BY DEF PodStateOnlyForKnownPods
    <3>1. ~Known(q)
      BY DeviceConfigsAssumption DEF Known, StoreTypeOK, DeviceMap
    <3>2. QED
      BY <3>1 DEF PodStateOnlyForKnownPods
  <2>4. DownIsEmpty'
    BY DEF DownIsEmpty
  <2>5. QED
    BY <2>1, <2>2, <2>3, <2>4
<1>2. ASSUME NEW p \in Pods, NEW lost \in SUBSET {p}, DeletePod(p, lost)
      PROVE  StoreInv'
  BY <1>2, ForgetKeepsInv DEF DeletePod
<1>3. ASSUME NEW k \in Claims, NEW lost \in SUBSET PodsOfClaim(k),
             DeleteClaim(k, lost)
      PROVE  StoreInv'
  BY <1>3, ForgetKeepsInv DEF DeleteClaim
<1>4. ASSUME NEW p \in Pods, NEW ns \in NetNSPaths, SetPodNetNs(p, ns)
      PROVE  StoreInv'
  <2> USE <1>4 DEF SetPodNetNs
  <2>1. StoreTypeOK'
    BY DEF StoreTypeOK
  <2>2. MemoryIsDurable'
    BY DEF MemoryIsDurable
  <2>3. PodStateOnlyForKnownPods'
    BY DEF PodStateOnlyForKnownPods, StoreTypeOK, Known
  <2>4. QED
    BY <2>1, <2>2, <2>3 DEF DownIsEmpty
<1>5. ASSUME NEW p \in Pods, NEW t \in 1..MaxTime, UpdateLastNRIActivity(p, t)
      PROVE  StoreInv'
  <2> USE <1>5 DEF UpdateLastNRIActivity
  <2>1. StoreTypeOK'
    BY TimeAssumption DEF StoreTypeOK
  <2>2. MemoryIsDurable'
    BY DEF MemoryIsDurable
  <2>3. PodStateOnlyForKnownPods'
    BY DEF PodStateOnlyForKnownPods, StoreTypeOK, Known
  <2>4. QED
    BY <2>1, <2>2, <2>3 DEF DownIsEmpty
<1>6. CASE Crash
  <2> USE <1>6 DEF Crash, NoPods, NoDevices
  <2>1. StoreTypeOK'
    <3>1. NoPods \in [Pods -> DeviceMap]
      BY DEF DeviceMap
    <3>2. /\ [p \in Pods |-> NoNetNS] \in [Pods -> NetNSPaths \cup {NoNetNS}]
          /\ [p \in Pods |-> 0] \in [Pods -> 0..MaxTime]
      BY TimeAssumption
    <3>3. /\ configs' = NoPods /\ checkpoint' = checkpoint /\ up' = FALSE
          /\ netNS' = [p \in Pods |-> NoNetNS]
          /\ lastNRIActivity' = [p \in Pods |-> 0]
      OBVIOUS
    <3>4. QED
      BY ONLY StoreTypeOK, <3>1, <3>2, <3>3 DEF StoreTypeOK
  <2>2. MemoryIsDurable'
    BY DEF MemoryIsDurable
  <2>3. PodStateOnlyForKnownPods' /\ DownIsEmpty'
    BY DEF PodStateOnlyForKnownPods, DownIsEmpty
  <2>4. QED
    BY <2>1, <2>2, <2>3
<1>7. CASE NewPodConfigStore
  <2> USE <1>7 DEF NewPodConfigStore, GetOrCreate
  <2>1. StoreTypeOK' /\ MemoryIsDurable'
    BY DEF StoreTypeOK, MemoryIsDurable
  <2>2. PodStateOnlyForKnownPods' /\ DownIsEmpty'
    BY DEF PodStateOnlyForKnownPods, DownIsEmpty
  <2>3. QED
    BY <2>1, <2>2
<1>8. CASE UNCHANGED storeVars
  BY <1>8
  DEF storeVars, StoreTypeOK, MemoryIsDurable, PodStateOnlyForKnownPods,
      DownIsEmpty, Known
<1>9. QED
  BY <1>1, <1>2, <1>3, <1>4, <1>5, <1>6, <1>7, <1>8 DEF StoreNext

\* In every reachable state of the store the inductive invariant holds.
THEOREM StoreInvariant == StoreSpec => []StoreInv
  BY InitInv, NextKeepsInv, PTL DEF StoreSpec

\* Type correctness of the store.
THEOREM StoreTypeCorrect == StoreSpec => []StoreTypeOK
<1>1. StoreInv => StoreTypeOK
  BY DEF StoreInv
<1>2. QED
  BY StoreInvariant, <1>1, PTL

\* No crash loses a configuration that the store has shown to a reader: what
\* SetDeviceConfig puts in memory is on disk first.
THEOREM MemoryAlwaysDurable == StoreSpec => []MemoryIsDurable
<1>1. StoreInv => MemoryIsDurable
  BY DEF StoreInv
<1>2. QED
  BY StoreInvariant, <1>1, PTL

\* No late NRI event leaves pod-level state behind for a pod whose claims were
\* unprepared.
THEOREM NoOrphanPodState == StoreSpec => []PodStateOnlyForKnownPods
<1>1. StoreInv => PodStateOnlyForKnownPods
  BY DEF StoreInv
<1>2. QED
  BY StoreInvariant, <1>1, PTL

-----------------------------------------------------------------------------
(* Refinement.                                                             *)

\* An empty store is an empty durable map.
LEMMA InitRefines == StoreInit => Durable!Init
  BY DEF StoreInit, Durable!Init, Durable!Empty, Durable!NoDevices, View, Residue,
         NoPods, NoDevices

\* A successful SetDeviceConfig is a Set; an aborted one changes nothing.
LEMMA SetRefines ==
  ASSUME StoreInv, NEW p \in Pods, NEW d \in Devices, NEW c \in DeviceConfigs,
         NEW written \in BOOLEAN, SetDeviceConfig(p, d, c, written)
  PROVE  Durable!Set(p, d, c) \/ UNCHANGED <<View, Residue, up>>
<1> USE DEF SetDeviceConfig, StoreInv
<1>1. CASE written
  <2>1. View' = [View EXCEPT ![p][d] = c]
    BY <1>1 DEF View
  <2>2. Residue' = [Residue EXCEPT ![p][d] = NoConfig]
    <3>1. /\ configs' = [configs EXCEPT ![p][d] = c]
          /\ checkpoint' = [checkpoint EXCEPT ![p][d] = c]
          /\ up /\ up'
          /\ c # NoConfig
      BY <1>1, DeviceConfigsAssumption DEF Store
    <3>2. /\ configs \in [Pods -> [Devices -> DeviceConfigs \cup {NoConfig}]]
          /\ checkpoint \in [Pods -> [Devices -> DeviceConfigs \cup {NoConfig}]]
      BY DEF StoreTypeOK, DeviceMap
    <3> DEFINE R(m, n) == [q \in Pods |-> [e \in Devices |->
                             IF m[q][e] = NoConfig THEN n[q][e] ELSE NoConfig]]
    <3>3. Residue = R(configs, checkpoint) /\ Residue' = R(configs', checkpoint')
      BY <3>1 DEF Residue
    <3>4. \A q \in Pods : \A e \in Devices :
            R(configs', checkpoint')[q][e]
              = [R(configs, checkpoint) EXCEPT ![p][d] = NoConfig][q][e]
      BY ONLY <3>1, <3>2, p \in Pods, d \in Devices
    <3>5. R(configs', checkpoint') = [R(configs, checkpoint) EXCEPT ![p][d] = NoConfig]
      BY ONLY <3>4, p \in Pods, d \in Devices
    <3>6. QED
      BY <3>3, <3>5
  <2>3. QED
    BY <1>1, <2>1, <2>2 DEF Durable!Set
<1>2. CASE ~written
  BY <1>2 DEF View, Residue
<1>3. QED
  BY <1>1, <1>2

\* Forgetting pods is a Delete that is durable for the pods whose checkpoint
\* transaction succeeded; the others become residue.
LEMMA ForgetRefines ==
  ASSUME StoreInv, up, NEW P \in SUBSET Pods, NEW lost, Forget(P, lost)
  PROVE  Durable!Delete(P, P \ lost)
<1> USE DEF Forget, StoreInv
<1>1. View' = [q \in Pods |-> IF q \in P THEN Durable!NoDevices ELSE View[q]]
  BY DEF View, Durable!NoDevices, NoDevices
<1>2. Residue' = [q \in Pods |->
                    IF q \in P \ lost THEN Durable!NoDevices
                    ELSE IF q \in P THEN Durable!Overlay(View[q], Residue[q])
                    ELSE Residue[q]]
  <2>1. ASSUME NEW q \in Pods, q \in P \ lost
        PROVE  Residue'[q] = Durable!NoDevices
    BY <2>1 DEF Residue, DeleteBuckets, NoDevices, Durable!NoDevices
  <2>2. ASSUME NEW q \in Pods, q \in P, q \in lost
        PROVE  Residue'[q] = Durable!Overlay(View[q], Residue[q])
    <3>1. Residue'[q] = [e \in Devices |-> checkpoint[q][e]]
      BY <2>2 DEF Residue, DeleteBuckets, NoDevices
    <3>2. \A e \in Devices :
             checkpoint[q][e] = IF configs[q][e] # NoConfig THEN configs[q][e]
                                ELSE Residue[q][e]
      BY DEF Residue, MemoryIsDurable
    <3>3. QED
      BY <3>1, <3>2 DEF Durable!Overlay, View
  <2>3. ASSUME NEW q \in Pods, q \notin P
        PROVE  Residue'[q] = Residue[q]
    BY <2>3 DEF Residue, DeleteBuckets
  <2>4. Residue' = [q \in Pods |-> Residue'[q]]
    BY DEF Residue, NoPods
  <2>5. QED
    BY <2>1, <2>2, <2>3, <2>4
<1>3. QED
  BY <1>1, <1>2 DEF Durable!Delete

\* Dying is the End of the abstract map: the residue surfaces.
LEMMA CrashRefines ==
  ASSUME StoreInv, Crash
  PROVE  Durable!End
<1> USE DEF Crash, StoreInv
<1>1. View' = [q \in Pods |-> Durable!Overlay(View[q], Residue[q])]
  <2>1. ASSUME NEW q \in Pods
        PROVE  checkpoint[q] = Durable!Overlay(View[q], Residue[q])
    <3>1. checkpoint[q] = [e \in Devices |-> checkpoint[q][e]]
      BY DEF StoreTypeOK, DeviceMap
    <3>2. \A e \in Devices :
             checkpoint[q][e] = IF configs[q][e] # NoConfig THEN configs[q][e]
                                ELSE Residue[q][e]
      BY DEF Residue, MemoryIsDurable
    <3>3. QED
      BY <3>1, <3>2 DEF Durable!Overlay, View
  <2>2. View' = checkpoint /\ checkpoint = [q \in Pods |-> checkpoint[q]]
    BY DEF View, StoreTypeOK
  <2>3. QED
    BY <2>1, <2>2
<1>2. Residue' = Durable!Empty
  BY DEF Residue, Durable!Empty, Durable!NoDevices, NoPods, NoDevices
<1>3. QED
  BY <1>1, <1>2 DEF Durable!End

\* A start reads what the checkpoint has, which is what was already visible.
LEMMA StartRefines ==
  ASSUME StoreInv, NewPodConfigStore
  PROVE  Durable!Start
<1> USE DEF NewPodConfigStore, GetOrCreate, StoreInv
<1>1. View' = View
  BY DEF View
<1>2. Residue' = NoPods /\ Residue = NoPods
  BY DEF Residue, NoPods, NoDevices
<1>3. QED
  BY <1>1, <1>2 DEF Durable!Start

\* The write-through store implements the durable map, for every set of pods,
\* devices and configurations and every pattern of crashes and failed
\* checkpoint transactions.
THEOREM StoreRefinesDurableStore == StoreSpec => ImplementsDurableStore
<1>1. StoreInv /\ [StoreNext]_storeVars => [Durable!Next]_<<View, Residue, up>>
  <2> SUFFICES ASSUME StoreInv, [StoreNext]_storeVars
               PROVE  Durable!Next \/ UNCHANGED <<View, Residue, up>>
    OBVIOUS
  <2>1. ASSUME NEW p \in Pods, NEW d \in Devices, NEW c \in DeviceConfigs,
               NEW written \in BOOLEAN, SetDeviceConfig(p, d, c, written)
        PROVE  Durable!Next \/ UNCHANGED <<View, Residue, up>>
    BY <2>1, SetRefines DEF Durable!Next
  <2>2. ASSUME NEW p \in Pods, NEW lost \in SUBSET {p}, DeletePod(p, lost)
        PROVE  Durable!Next
    <3>1. Durable!Delete({p}, {p} \ lost)
      BY <2>2, ForgetRefines DEF DeletePod
    <3>2. QED
      BY <3>1 DEF Durable!Next
  <2>3. ASSUME NEW k \in Claims, NEW lost \in SUBSET PodsOfClaim(k),
               DeleteClaim(k, lost)
        PROVE  Durable!Next
    <3>1. PodsOfClaim(k) \in SUBSET Pods
      BY DEF PodsOfClaim
    <3>2. Durable!Delete(PodsOfClaim(k), PodsOfClaim(k) \ lost)
      BY <2>3, <3>1, ForgetRefines DEF DeleteClaim
    <3>3. QED
      BY <3>1, <3>2 DEF Durable!Next
  <2>4. ASSUME NEW p \in Pods, NEW ns \in NetNSPaths, SetPodNetNs(p, ns)
        PROVE  UNCHANGED <<View, Residue, up>>
    BY <2>4 DEF SetPodNetNs, View, Residue
  <2>5. ASSUME NEW p \in Pods, NEW t \in 1..MaxTime, UpdateLastNRIActivity(p, t)
        PROVE  UNCHANGED <<View, Residue, up>>
    BY <2>5 DEF UpdateLastNRIActivity, View, Residue
  <2>6. CASE Crash
    BY <2>6, CrashRefines DEF Durable!Next
  <2>7. CASE NewPodConfigStore
    BY <2>7, StartRefines DEF Durable!Next
  <2>8. CASE UNCHANGED storeVars
    BY <2>8 DEF storeVars, View, Residue
  <2>9. QED
    BY <2>1, <2>2, <2>3, <2>4, <2>5, <2>6, <2>7, <2>8 DEF StoreNext
<1>2. QED
  BY InitRefines, <1>1, StoreInvariant, PTL
  DEF StoreSpec, ImplementsDurableStore, Durable!Spec

----------------------------------------------------------------------------
(* The hooks that use it.                                                  *)

\* What the local state of a running call looks like.
CallShape ==
  /\ op = "idle" => pod = NoPod /\ claim = NoClaim
  /\ op # "idle" => /\ up /\ pod \in Pods
                    /\ todo \subseteq PodClaims[pod] /\ failed \subseteq PodClaims[pod]
                    /\ claim # NoClaim => claim \in PodClaims[pod]
  /\ claim = NoClaim => devs = {} /\ dev = NoDevice
  /\ op = "prepare" => devs \subseteq Devices
  /\ op = "prepare" /\ claim # NoClaim => devs \cup ({dev} \ {NoDevice}) \subseteq Results[claim]
  /\ op = "unprepare" => devs \subseteq StoredDevices(claim) /\ dev = NoDevice
  /\ dev = NoDevice => grant = {} /\ stage = "none"
  /\ dev # NoDevice => configs[pod][dev] = NoConfig

\* A call is made for a pod in the phase for it, for claims the kubelet has
\* marked; claims belong to one live pod at a time.
CallPhase ==
  /\ op = "prepare" =>
       /\ podPhase[pod] = "wanted"
       /\ \A c \in todo \cup ({claim} \ {NoClaim}) : claimPhase[c] = "attempted"
  /\ op = "unprepare" =>
       /\ podPhase[pod] = "terminating"
       /\ \E c \in PodClaims[pod] : claimPhase[c] # "free"
  /\ \A p, q \in Pods : Live(p) /\ Live(q) /\ p # q => PodClaims[p] \cap PodClaims[q] = {}
  /\ \A c \in Claims : claimPhase[c] # "free" => \E p \in Pods : Live(p) /\ c \in PodClaims[p]

\* A stored configuration is of a claim of its pod that has the device.
StoredBelongs ==
  \A p \in Pods, d \in Devices : checkpoint[p][d] # NoConfig =>
    /\ checkpoint[p][d].claim \in PodClaims[p]
    /\ d \in Results[checkpoint[p][d].claim]

LifecycleInv ==
  /\ LifecycleTypeOK
  /\ StoreInv
  /\ CallShape
  /\ CallPhase
  /\ StoredBelongs

LEMMA InitLifecycleInv == Init => LifecycleInv
<1> SUFFICES ASSUME Init PROVE LifecycleInv
  OBVIOUS
<1> USE LifecycleAssumption
<1>1. StoreInv
  BY InitInv DEF Init
<1>2. podPhase \in [Pods -> {"pending", "wanted", "terminating", "gone"}]
  BY DEF Init
<1>3. claimPhase \in [Claims -> {"free", "attempted", "prepared"}]
  BY DEF Init
<1>4. crashes \in 0..MaxCrashes /\ undeleted \subseteq Pods
  BY DEF Init
<1>5. LifecycleTypeOK
  BY <1>1, <1>2, <1>3, <1>4, Zenon DEF Init, CallInit, LifecycleTypeOK, StoreInv
<1>6. CallShape /\ CallPhase
  BY DEF Init, CallInit, CallShape, CallPhase, Live
<1>7. StoredBelongs
  BY DEF Init, StoreInit, NoPods, NoDevices, StoredBelongs
<1>8. QED
  BY <1>1, <1>5, <1>6, <1>7 DEF LifecycleInv

\* Steps that leave the store alone.
LEMMA StoreUnchangedKeeps ==
  ASSUME LifecycleInv, UNCHANGED storeVars
  PROVE  StoreInv' /\ StoredBelongs'
<1>1. StoreInv'
  BY NextKeepsInv DEF LifecycleInv
<1>2. StoredBelongs'
  BY DEF LifecycleInv, StoredBelongs, storeVars
<1>3. QED
  BY <1>1, <1>2

\* The kubelet's steps outside a call.
LEMMA PodStepsKeep ==
  ASSUME LifecycleInv,
         \/ \E p \in Pods : PodArrives(p) \/ PodDeleted(p) \/ PodGone(p)
         \/ KubeletRestart
  PROVE  LifecycleInv'
<1> USE LifecycleAssumption DEF LifecycleInv
<1>1. UNCHANGED <<storeVars, callVars, claimVars, devVars, allocatedIPs, leases, crashes, undeleted>>
  BY DEF PodArrives, PodDeleted, PodGone, KubeletRestart
<1>2. StoreInv' /\ StoredBelongs'
  BY <1>1, StoreUnchangedKeeps
<1>3. CallShape'
  BY <1>1 DEF CallShape, StoredDevices, storeVars, callVars, claimVars, devVars
<1>4. ASSUME podPhase' \in [Pods -> {"pending", "wanted", "terminating", "gone"}],
             claimPhase' \in [Claims -> {"free", "attempted", "prepared"}]
      PROVE  LifecycleTypeOK'
  BY <1>1, <1>2, <1>4, Zenon DEF LifecycleTypeOK, StoreInv, callVars, claimVars, devVars
<1>5. ASSUME NEW p \in Pods, PodArrives(p)
      PROVE  LifecycleInv'
  <2>1. /\ podPhase' = [podPhase EXCEPT ![p] = "wanted"] /\ UNCHANGED claimPhase
        /\ podPhase[p] = "pending"
        /\ \A q \in Pods : Live(q) => PodClaims[q] \cap PodClaims[p] = {}
    BY <1>5 DEF PodArrives
  <2>2. LifecycleTypeOK'
    BY <1>4, <2>1 DEF LifecycleTypeOK
  <2>3. \A q \in Pods : Live(q)' <=> (q = p \/ Live(q))
    BY <2>1 DEF Live, LifecycleTypeOK
  <2>4. CallPhase'
    BY <1>1, <2>1, <2>3 DEF CallPhase, CallShape, LifecycleTypeOK, callVars, claimVars
  <2>5. QED
    BY <1>2, <1>3, <2>2, <2>4
<1>6. ASSUME NEW p \in Pods, PodDeleted(p)
      PROVE  LifecycleInv'
  <2>1. /\ podPhase' = [podPhase EXCEPT ![p] = "terminating"] /\ UNCHANGED claimPhase
        /\ podPhase[p] = "wanted" /\ pod # p
    BY <1>6 DEF PodDeleted
  <2>2. LifecycleTypeOK'
    BY <1>4, <2>1 DEF LifecycleTypeOK
  <2>3. \A q \in Pods : Live(q)' <=> Live(q)
    BY <2>1 DEF Live, LifecycleTypeOK
  <2>4. CallPhase'
    BY <1>1, <2>1, <2>3 DEF CallPhase, CallShape, LifecycleTypeOK, callVars, claimVars
  <2>5. QED
    BY <1>2, <1>3, <2>2, <2>4
<1>7. ASSUME NEW p \in Pods, PodGone(p)
      PROVE  LifecycleInv'
  <2>1. /\ podPhase' = [podPhase EXCEPT ![p] = "gone"] /\ UNCHANGED claimPhase
        /\ podPhase[p] = "terminating" /\ \A c \in PodClaims[p] : claimPhase[c] = "free"
    BY <1>7 DEF PodGone
  <2>2. LifecycleTypeOK'
    BY <1>4, <2>1 DEF LifecycleTypeOK
  <2>3. \A q \in Pods : Live(q)' <=> (q # p /\ Live(q))
    BY <2>1 DEF Live, LifecycleTypeOK
  <2>4. CallPhase'
    BY <1>1, <2>1, <2>3 DEF CallPhase, CallShape, LifecycleTypeOK, callVars, claimVars
  <2>5. QED
    BY <1>2, <1>3, <2>2, <2>4
<1>8. ASSUME KubeletRestart
      PROVE  LifecycleInv'
  <2>1. /\ op = "idle" /\ UNCHANGED podPhase
        /\ claimPhase' = [c \in Claims |-> IF claimPhase[c] = "prepared" THEN "attempted" ELSE claimPhase[c]]
    BY <1>8 DEF KubeletRestart
  <2>2. claimPhase' \in [Claims -> {"free", "attempted", "prepared"}]
    BY <2>1 DEF LifecycleTypeOK
  <2>3. LifecycleTypeOK'
    BY <1>4, <2>1, <2>2 DEF LifecycleTypeOK
  <2>4. CallPhase'
    BY <1>1, <2>1 DEF CallPhase, Live, LifecycleTypeOK, callVars, claimVars
  <2>5. QED
    BY <1>2, <1>3, <2>3, <2>4
<1>9. QED
  BY <1>5, <1>6, <1>7, <1>8

\* Calls begin and end.
LEMMA CallStepsKeep ==
  ASSUME LifecycleInv,
         \/ \E p \in Pods : StartPrepare(p) \/ StartUnprepare(p)
         \/ FinishPrepare \/ FinishUnprepare \/ ReplyLost
  PROVE  LifecycleInv'
<1> USE LifecycleAssumption DEF LifecycleInv
<1>1. UNCHANGED <<storeVars, podPhase, claimVars, devVars, allocatedIPs, leases, crashes, undeleted>>
  BY DEF StartPrepare, StartUnprepare, FinishPrepare, FinishUnprepare, ReplyLost, CallStarts, CallEnds
<1>2. StoreInv' /\ StoredBelongs'
  BY <1>1, StoreUnchangedKeeps
<1>3. ASSUME op' \in {"idle", "prepare", "unprepare"}, pod' \in Pods \cup {NoPod},
             todo' \subseteq Claims, failed' = {},
             claimPhase' \in [Claims -> {"free", "attempted", "prepared"}]
      PROVE  LifecycleTypeOK'
  BY <1>1, <1>2, <1>3, Zenon DEF LifecycleTypeOK, StoreInv, claimVars, devVars
<1>4. ASSUME NEW p \in Pods, StartPrepare(p)
      PROVE  LifecycleInv'
  <2> DEFINE cs == {c \in PodClaims[p] : claimPhase[c] # "prepared"}
  <2>1. /\ up /\ op = "idle" /\ op' = "prepare" /\ pod' = p /\ todo' = cs /\ failed' = {}
        /\ podPhase[p] = "wanted"
        /\ claimPhase' = [c \in Claims |-> IF c \in cs THEN "attempted" ELSE claimPhase[c]]
    BY <1>4 DEF StartPrepare, CallStarts
  <2>2. cs \subseteq Claims /\ cs \subseteq PodClaims[p]
    OBVIOUS
  <2>3. LifecycleTypeOK'
    BY <1>3, <2>1, <2>2 DEF LifecycleTypeOK
  <2>4. CallShape'
    BY <1>1, <2>1, <2>2 DEF CallShape, storeVars, claimVars, devVars, LifecycleTypeOK
  <2>5. \A c \in Claims : claimPhase'[c] # "free" => claimPhase[c] # "free" \/ c \in PodClaims[p]
    BY <2>1, <2>2
  <2>6. \A q \in Pods : Live(q)' <=> Live(q)
    BY <1>1 DEF Live
  <2>7. Live(p)
    BY <2>1 DEF Live
  <2>8. CallPhase'
    BY <1>1, <2>1, <2>2, <2>5, <2>6, <2>7 DEF CallPhase, CallShape, claimVars
  <2>9. QED
    BY <1>2, <2>3, <2>4, <2>8
<1>5. ASSUME NEW p \in Pods, StartUnprepare(p)
      PROVE  LifecycleInv'
  <2> DEFINE cs == {c \in PodClaims[p] : claimPhase[c] # "free"}
  <2>1. /\ up /\ op = "idle" /\ op' = "unprepare" /\ pod' = p /\ todo' = cs /\ failed' = {} /\ cs # {}
        /\ podPhase[p] = "terminating" /\ UNCHANGED claimPhase
    BY <1>5 DEF StartUnprepare, CallStarts
  <2>2. cs \subseteq Claims /\ cs \subseteq PodClaims[p]
    OBVIOUS
  <2>3. LifecycleTypeOK'
    BY <1>3, <2>1, <2>2 DEF LifecycleTypeOK
  <2>4. CallShape'
    BY <1>1, <2>1, <2>2 DEF CallShape, storeVars, claimVars, devVars, LifecycleTypeOK
  <2>5. CallPhase'
    BY <1>1, <2>1 DEF CallPhase, CallShape, Live, claimVars
  <2>6. QED
    BY <1>2, <2>3, <2>4, <2>5
<1>6. ASSUME FinishPrepare \/ FinishUnprepare \/ ReplyLost
      PROVE  LifecycleInv'
  <2>1. /\ op # "idle" /\ todo = {} /\ claim = NoClaim
        /\ op' = "idle" /\ pod' = NoPod /\ todo' = {} /\ failed' = {}
    BY <1>6 DEF FinishPrepare, FinishUnprepare, ReplyLost, CallEnds, BatchDone
  <2>2. claimPhase' \in [Claims -> {"free", "attempted", "prepared"}]
    BY <1>6 DEF FinishPrepare, FinishUnprepare, ReplyLost, LifecycleTypeOK
  <2>3. LifecycleTypeOK'
    BY <1>3, <2>1, <2>2
  <2>4. CallShape'
    BY <1>1, <2>1 DEF CallShape, storeVars, claimVars, devVars
  <2>5. \A c \in Claims : claimPhase'[c] # "free" =>
          claimPhase[c] # "free" \/ (op = "prepare" /\ c \in PodClaims[pod])
    BY <1>6 DEF FinishPrepare, FinishUnprepare, ReplyLost, LifecycleTypeOK
  <2>6. op = "prepare" => pod \in Pods /\ Live(pod)
    BY DEF CallShape, CallPhase, Live
  <2>7. \A q \in Pods : Live(q)' <=> Live(q)
    BY <1>1 DEF Live
  <2>8. CallPhase'
    BY <2>1, <2>5, <2>6, <2>7 DEF CallPhase
  <2>9. QED
    BY <1>2, <2>3, <2>4, <2>8
<1>7. QED
  BY <1>4, <1>5, <1>6

\* A step of a call leaves the phases alone.
LEMMA PhaseKept ==
  ASSUME CallPhase, UNCHANGED <<kubeletVars, op, pod>>,
         todo' \cup ({claim'} \ {NoClaim}) \subseteq todo \cup ({claim} \ {NoClaim})
  PROVE  CallPhase'
BY DEF CallPhase, Live, kubeletVars

\* What ProfileOutcomes returns and ReleaseProfileConfig leaves are addresses.
LEMMA AddressesStayTyped ==
  ASSUME LifecycleInv
  PROVE  /\ \A c \in Claims, d \in Devices : \A o \in ProfileOutcomes(c, d) :
              o[1] \subseteq Addrs /\ o[2] \subseteq Addrs
         /\ \A r, A : Released(r, A) \subseteq allocatedIPs
<1>1. allocatedIPs \subseteq Addrs
  BY DEF LifecycleInv, LifecycleTypeOK
<1>2. ASSUME NEW c \in Claims, NEW d \in Devices, NEW o \in ProfileOutcomes(c, d)
      PROVE  o[1] \subseteq Addrs /\ o[2] \subseteq Addrs
  BY <1>1, <1>2, LifecycleAssumption DEF ProfileOutcomes
<1>3. QED
  BY <1>2 DEF Released

LEMMA PrepareStepsKeep ==
  ASSUME LifecycleInv, PrepareStep
  PROVE  LifecycleInv'
<1> USE LifecycleAssumption DEF LifecycleInv
<1>1. ASSUME NEW c \in Claims, RejectClaim(c)
      PROVE  LifecycleInv'
  <2>1. /\ op = "prepare" /\ claim = NoClaim /\ c \in todo
        /\ todo' = todo \ {c} /\ failed' = failed \cup {c}
        /\ UNCHANGED <<storeVars, kubeletVars, op, pod, claimVars, devVars, allocatedIPs, leases, crashes, undeleted>>
    BY <1>1 DEF RejectClaim
  <2>2. StoreInv' /\ StoredBelongs'
    BY <2>1, StoreUnchangedKeeps
  <2>3. LifecycleTypeOK'
    BY <2>1, <2>2 DEF LifecycleTypeOK, StoreInv, kubeletVars, claimVars, devVars
  <2>4. CallShape'
    BY <2>1 DEF CallShape, storeVars, claimVars, devVars
  <2>5. CallPhase'
    BY <2>1, PhaseKept DEF claimVars
  <2>6. QED
    BY <2>2, <2>3, <2>4, <2>5
<1>2. ASSUME NEW c \in Claims, PrepareClaim(c)
      PROVE  LifecycleInv'
  <2>1. /\ op = "prepare" /\ claim = NoClaim /\ c \in todo
        /\ todo' = todo \ {c} /\ claim' = c /\ devs' = Results[c]
        /\ UNCHANGED <<storeVars, kubeletVars, op, pod, failed, devVars, allocatedIPs, leases, crashes, undeleted>>
    BY <1>2 DEF PrepareClaim
  <2>2. StoreInv' /\ StoredBelongs'
    BY <2>1, StoreUnchangedKeeps
  <2>3. LifecycleTypeOK'
    BY <2>1, <2>2 DEF LifecycleTypeOK, StoreInv, kubeletVars, devVars
  <2>4. CallShape'
    BY <2>1 DEF CallShape, storeVars, devVars
  <2>5. CallPhase'
    BY <2>1, PhaseKept
  <2>6. QED
    BY <2>2, <2>3, <2>4, <2>5
<1>3. ASSUME ClaimPrepared
      PROVE  LifecycleInv'
  <2>1. /\ op = "prepare" /\ devs = {} /\ dev = NoDevice /\ claim' = NoClaim
        /\ UNCHANGED <<storeVars, kubeletVars, callVars, devs, devVars, allocatedIPs, leases, crashes, undeleted>>
    BY <1>3 DEF ClaimPrepared
  <2>2. StoreInv' /\ StoredBelongs'
    BY <2>1, StoreUnchangedKeeps
  <2>3. LifecycleTypeOK'
    BY <2>1, <2>2 DEF LifecycleTypeOK, StoreInv, kubeletVars, callVars, devVars
  <2>4. CallShape'
    BY <2>1 DEF CallShape, storeVars, callVars, devVars
  <2>5. CallPhase'
    BY <2>1, PhaseKept DEF callVars
  <2>6. QED
    BY <2>2, <2>3, <2>4, <2>5
<1>4. ASSUME NEW d \in Devices, ReuseDevice(d) \/ ResolveFails(d) \/ MergedConfigInvalid(d)
      PROVE  LifecycleInv'
  <2>1. /\ op = "prepare" /\ d \in devs /\ dev = NoDevice /\ devs' = devs \ {d}
        /\ failed' \in {failed, failed \cup {claim}}
        /\ UNCHANGED <<storeVars, kubeletVars, op, pod, todo, claim, devVars, leases, crashes, undeleted>>
    BY <1>4 DEF ReuseDevice, ResolveFails, MergedConfigInvalid, NextDevice, callVars
  <2>2. claim \in Claims /\ claim # NoClaim /\ claim \in PodClaims[pod]
    BY <2>1 DEF CallShape, LifecycleTypeOK
  <2>8. allocatedIPs' \subseteq Addrs
    BY <1>4, <2>2, AddressesStayTyped DEF ReuseDevice, ResolveFails, MergedConfigInvalid, LifecycleTypeOK
  <2>3. StoreInv' /\ StoredBelongs'
    BY <2>1, StoreUnchangedKeeps
  <2>4. LifecycleTypeOK'
    BY <2>1, <2>2, <2>3, <2>8 DEF LifecycleTypeOK, StoreInv, kubeletVars, devVars
  <2>5. CallShape'
    BY <2>1, <2>2 DEF CallShape, storeVars, devVars
  <2>6. CallPhase'
    BY <2>1, PhaseKept
  <2>7. QED
    BY <2>3, <2>4, <2>5, <2>6
<1>5. ASSUME NEW d \in Devices, ResolveDevice(d)
      PROVE  LifecycleInv'
  <2>1. /\ op = "prepare" /\ d \in devs /\ dev = NoDevice /\ devs' = devs \ {d}
        /\ dev' = d /\ stage' = "resolved" /\ configs[pod][d] = NoConfig
        /\ UNCHANGED <<storeVars, kubeletVars, callVars, claim, leases, crashes, undeleted>>
    BY <1>5 DEF ResolveDevice, NextDevice, GetDeviceConfig
  <2>2. claim \in Claims /\ claim # NoClaim
    BY <2>1 DEF CallShape, LifecycleTypeOK
  <2>3. StoreInv' /\ StoredBelongs'
    BY <2>1, StoreUnchangedKeeps
  <2>4. grant' \subseteq Addrs /\ allocatedIPs' \subseteq Addrs
    BY <1>5, <2>2, AddressesStayTyped DEF ResolveDevice, LifecycleTypeOK
  <2>5. LifecycleTypeOK'
    BY <2>1, <2>3, <2>4 DEF LifecycleTypeOK, StoreInv, kubeletVars, callVars
  <2>6. CallShape'
    BY <2>1, <2>2 DEF CallShape, storeVars, callVars
  <2>7. CallPhase'
    BY <2>1, PhaseKept DEF callVars
  <2>8. QED
    BY <2>3, <2>5, <2>6, <2>7
<1>6. ASSUME DeviceFails
      PROVE  LifecycleInv'
  <2>1. /\ op = "prepare" /\ dev # NoDevice /\ failed' = failed \cup {claim}
        /\ dev' = NoDevice /\ stage' = "none" /\ grant' = {}
        /\ UNCHANGED <<storeVars, kubeletVars, op, pod, todo, claimVars, leases, crashes, undeleted>>
    BY <1>6 DEF DeviceFails, NoDevInProcess
  <2>2. claim \in Claims /\ claim # NoClaim /\ claim \in PodClaims[pod]
    BY <2>1 DEF CallShape, LifecycleTypeOK
  <2>3. StoreInv' /\ StoredBelongs'
    BY <2>1, StoreUnchangedKeeps
  <2>4. allocatedIPs' \subseteq Addrs
    BY <1>6, AddressesStayTyped DEF DeviceFails, LifecycleTypeOK
  <2>5. LifecycleTypeOK'
    BY <2>1, <2>2, <2>3, <2>4 DEF LifecycleTypeOK, StoreInv, kubeletVars, claimVars
  <2>6. CallShape'
    BY <2>1, <2>2 DEF CallShape, storeVars, claimVars
  <2>7. CallPhase'
    BY <2>1, PhaseKept DEF claimVars
  <2>8. QED
    BY <2>3, <2>5, <2>6, <2>7
<1>7. ASSUME GetDHCP
      PROVE  LifecycleInv'
  <2>1. /\ op = "prepare" /\ dev # NoDevice /\ stage' = "leased" /\ leases' = leases \cup {dev}
        /\ UNCHANGED <<storeVars, kubeletVars, callVars, claimVars, dev, grant, allocatedIPs, crashes, undeleted>>
    BY <1>7 DEF GetDHCP
  <2>2. StoreInv' /\ StoredBelongs'
    BY <2>1, StoreUnchangedKeeps
  <2>3. LifecycleTypeOK'
    BY <2>1, <2>2 DEF LifecycleTypeOK, StoreInv, kubeletVars, callVars, claimVars
  <2>4. CallShape'
    BY <2>1 DEF CallShape, storeVars, callVars, claimVars
  <2>5. CallPhase'
    BY <2>1, PhaseKept DEF callVars, claimVars
  <2>6. QED
    BY <2>2, <2>3, <2>4, <2>5
<1>8. ASSUME NEW written \in BOOLEAN, CommitDevice(written)
      PROVE  LifecycleInv'
  <2>1. /\ op = "prepare" /\ dev # NoDevice /\ SetDeviceConfig(pod, dev, CommittedConfig, written)
        /\ failed' \in {failed, failed \cup {claim}}
        /\ dev' = NoDevice /\ stage' = "none" /\ grant' = {}
        /\ UNCHANGED <<kubeletVars, op, pod, todo, claimVars, leases, crashes, undeleted>>
    BY <1>8 DEF CommitDevice, ReadyToCommit, NoDevInProcess
  <2>2. /\ claim \in Claims /\ claim # NoClaim /\ claim \in PodClaims[pod]
        /\ pod \in Pods /\ dev \in Devices /\ dev \in Results[claim]
    BY <2>1 DEF CallShape, LifecycleTypeOK
  <2>3. CommittedConfig \in DeviceConfigs /\ CommittedConfig.claim = claim
    <3>1. /\ Request[claim].subinterface \in BOOLEAN /\ Request[claim].profile \in BOOLEAN
          /\ grant \in SUBSET Addrs
      BY <2>2 DEF LifecycleTypeOK
    <3>2. (stage = "leased") \in BOOLEAN
      OBVIOUS
    <3>3. QED
      BY <2>2, <3>1, <3>2 DEF CommittedConfig
  <2>4. StoreInv'
    BY <2>1, <2>2, <2>3, NextKeepsInv DEF StoreNext
  <2>5. StoredBelongs'
    <3>1. ASSUME NEW p \in Pods, NEW d \in Devices
          PROVE  \/ checkpoint'[p][d] = checkpoint[p][d]
                 \/ p = pod /\ d = dev /\ checkpoint'[p][d] = CommittedConfig
      <4> HIDE DEF LifecycleInv
      <4>1. checkpoint \in [Pods -> [Devices -> DeviceConfigs \cup {NoConfig}]]
        BY DEF LifecycleInv, StoreInv, StoreTypeOK, DeviceMap
      <4>2. checkpoint' = checkpoint \/ checkpoint' = [checkpoint EXCEPT ![pod][dev] = CommittedConfig]
        BY <2>1 DEF SetDeviceConfig, Store
      <4>3. QED
        BY <2>2, <4>1, <4>2
    <3>2. QED
      BY <2>2, <2>3, <3>1 DEF StoredBelongs
  <2>6. allocatedIPs' \subseteq Addrs
    BY <1>8, AddressesStayTyped DEF CommitDevice, LifecycleTypeOK
  <2>7. LifecycleTypeOK'
    BY <2>1, <2>2, <2>4, <2>6 DEF LifecycleTypeOK, StoreInv, kubeletVars, claimVars
  <2>8. up'
    BY <2>1 DEF SetDeviceConfig
  <2>9. CallShape'
    BY <2>1, <2>2, <2>8 DEF CallShape, claimVars
  <2>10. CallPhase'
    BY <2>1, PhaseKept DEF claimVars
  <2>11. QED
    BY <2>4, <2>5, <2>7, <2>9, <2>10
<1>9. QED
  BY <1>1, <1>2, <1>3, <1>4, <1>5, <1>6, <1>7, <1>8 DEF PrepareStep

LEMMA UnprepareStepsKeep ==
  ASSUME LifecycleInv, UnprepareStep
  PROVE  LifecycleInv'
<1> USE LifecycleAssumption DEF LifecycleInv
<1>1. ASSUME NEW c \in Claims, UnprepareClaim(c)
      PROVE  LifecycleInv'
  <2>1. /\ op = "unprepare" /\ claim = NoClaim /\ c \in todo
        /\ todo' = todo \ {c} /\ claim' = c /\ devs' = StoredDevices(c)
        /\ UNCHANGED <<storeVars, kubeletVars, op, pod, failed, devVars, allocatedIPs, leases, crashes, undeleted>>
    BY <1>1 DEF UnprepareClaim
  <2>2. StoreInv' /\ StoredBelongs'
    BY <2>1, StoreUnchangedKeeps
  <2>3. StoredDevices(c) \subseteq Pods \X Devices
    BY DEF StoredDevices
  <2>4. LifecycleTypeOK'
    BY <2>1, <2>2, <2>3 DEF LifecycleTypeOK, StoreInv, kubeletVars, devVars
  <2>5. devs' \subseteq StoredDevices(claim)'
    BY <2>1 DEF StoredDevices, storeVars
  <2>6. CallShape'
    BY <2>1, <2>5 DEF CallShape, storeVars, devVars
  <2>7. CallPhase'
    BY <2>1, PhaseKept
  <2>8. QED
    BY <2>2, <2>4, <2>6, <2>7
<1>2. ASSUME NEW x \in Pods \X Devices, UnprepareDevice(x)
      PROVE  LifecycleInv'
  <2>1. /\ op = "unprepare" /\ x \in devs /\ devs' = devs \ {x}
        /\ leases' \subseteq leases
        /\ UNCHANGED <<storeVars, kubeletVars, callVars, claim, devVars, crashes, undeleted>>
    BY <1>2 DEF UnprepareDevice
  <2>2. StoreInv' /\ StoredBelongs'
    BY <2>1, StoreUnchangedKeeps
  <2>3. allocatedIPs' \subseteq Addrs
    BY <1>2, AddressesStayTyped DEF UnprepareDevice, LifecycleTypeOK
  <2>4. LifecycleTypeOK'
    BY <2>1, <2>2, <2>3 DEF LifecycleTypeOK, StoreInv, kubeletVars, callVars, devVars
  <2>5. devs' \subseteq StoredDevices(claim)'
    BY <2>1 DEF StoredDevices, storeVars, CallShape
  <2>6. CallShape'
    BY <2>1, <2>5 DEF CallShape, storeVars, callVars, devVars
  <2>7. CallPhase'
    BY <2>1, PhaseKept DEF callVars
  <2>8. QED
    BY <2>2, <2>4, <2>6, <2>7
<1>3. ASSUME ForgetClaim
      PROVE  LifecycleInv'
  <2>1. /\ op = "unprepare" /\ devs = {} /\ claim \in Claims /\ claim' = NoClaim
        /\ UNCHANGED <<kubeletVars, callVars, devs, devVars, allocatedIPs, leases, crashes>>
    BY <1>3 DEF ForgetClaim, LifecycleTypeOK
  <2>2. PICK f \in SUBSET PodsOfClaim(claim) : DeleteClaim(claim, f) /\ undeleted' = undeleted \cup f
    BY <1>3 DEF ForgetClaim
  <2>3. StoreInv'
    BY <2>1, <2>2, NextKeepsInv DEF StoreNext
  <2>4. StoredBelongs'
    BY <2>2 DEF DeleteClaim, Forget, DeleteBuckets, NoDevices, StoredBelongs
  <2>5. LifecycleTypeOK'
    BY <2>1, <2>2, <2>3 DEF LifecycleTypeOK, StoreInv, PodsOfClaim, kubeletVars, callVars, devVars
  <2>6. up'
    BY <2>2 DEF DeleteClaim, Forget
  <2>7. CallShape'
    BY <2>1, <2>6 DEF CallShape, callVars, devVars
  <2>8. CallPhase'
    BY <2>1, PhaseKept DEF callVars
  <2>9. QED
    BY <2>3, <2>4, <2>5, <2>7, <2>8
<1>4. QED
  BY <1>1, <1>2, <1>3 DEF UnprepareStep

LEMMA ProcessStepsKeep ==
  ASSUME LifecycleInv, DriverCrash \/ DriverStart
  PROVE  LifecycleInv'
<1> USE LifecycleAssumption DEF LifecycleInv
<1>1. ASSUME DriverCrash
      PROVE  LifecycleInv'
  <2>1. /\ Crash /\ crashes < MaxCrashes /\ crashes' = crashes + 1
        /\ op' = "idle" /\ pod' = NoPod /\ todo' = {} /\ failed' = {}
        /\ claim' = NoClaim /\ devs' = {} /\ dev' = NoDevice /\ stage' = "none" /\ grant' = {}
        /\ allocatedIPs' = {} /\ UNCHANGED <<kubeletVars, leases, undeleted>>
    BY <1>1 DEF DriverCrash, NoDevInProcess
  <2>2. StoreInv'
    BY <2>1, NextKeepsInv DEF StoreNext
  <2>3. StoredBelongs'
    BY <2>1 DEF Crash, StoredBelongs
  <2>4. crashes' \in 0..MaxCrashes
    BY <2>1 DEF LifecycleTypeOK
  <2>5. LifecycleTypeOK'
    BY <2>1, <2>2, <2>4, Zenon DEF LifecycleTypeOK, StoreInv, kubeletVars
  <2>6. CallShape' /\ CallPhase'
    BY <2>1 DEF CallShape, CallPhase, Live, kubeletVars
  <2>7. QED
    BY <2>2, <2>3, <2>5, <2>6
<1>2. ASSUME DriverStart
      PROVE  LifecycleInv'
  <2>1. /\ NewPodConfigStore /\ allocatedIPs' = InUseSubinterfaceIPs(checkpoint)
        /\ UNCHANGED <<kubeletVars, callVars, claimVars, devVars, leases, crashes, undeleted>>
    BY <1>2 DEF DriverStart, GetOrCreate
  <2>2. StoreInv'
    BY <2>1, NextKeepsInv DEF StoreNext
  <2>3. StoredBelongs'
    BY <2>1 DEF NewPodConfigStore, StoredBelongs
  <2>4. allocatedIPs' \subseteq Addrs
    BY <2>1 DEF InUseSubinterfaceIPs, StoreInv, StoreTypeOK, DeviceMap
  <2>5. LifecycleTypeOK'
    BY <2>1, <2>2, <2>4 DEF LifecycleTypeOK, StoreInv, kubeletVars, callVars, claimVars, devVars
  <2>6. op = "idle"
    BY <2>1 DEF NewPodConfigStore, CallShape
  <2>7. CallShape'
    BY <2>1, <2>6 DEF CallShape, callVars, claimVars, devVars
  <2>8. CallPhase'
    BY <2>1, PhaseKept DEF callVars, claimVars
  <2>9. QED
    BY <2>2, <2>3, <2>5, <2>7, <2>8
<1>3. QED
  BY <1>1, <1>2

LEMMA NextKeepsLifecycle == LifecycleInv /\ [Next]_vars => LifecycleInv'
<1> SUFFICES ASSUME LifecycleInv, [Next]_vars PROVE LifecycleInv'
  OBVIOUS
<1>1. CASE UNCHANGED vars
  BY <1>1, StoreUnchangedKeeps
  DEF LifecycleInv, LifecycleTypeOK, StoreInv, CallShape, CallPhase, StoredDevices, Live,
      vars, storeVars, kubeletVars, callVars, claimVars, devVars
<1>2. QED
  BY <1>1, PodStepsKeep, CallStepsKeep, PrepareStepsKeep, UnprepareStepsKeep, ProcessStepsKeep
  DEF Next, KubeletStep, ReplyStep, AllGone

\* The invariant holds in every behaviour.
THEOREM LifecycleInvariant == Spec => []LifecycleInv
BY InitLifecycleInv, NextKeepsLifecycle, PTL DEF Spec

\* The calls, the allocator and the kubelet keep the types of their state.
THEOREM LifecycleTypeCorrect == Spec => []LifecycleTypeOK
<1>1. LifecycleInv => LifecycleTypeOK
  BY DEF LifecycleInv
<1>2. QED
  BY LifecycleInvariant, <1>1, PTL

\* The composition uses the store only through its operations and with pods,
\* devices and configurations it is specified for.
THEOREM UsesStoreAsSpecified == Spec => StoreSpec
<1>1. Init => StoreInit
  BY DEF Init
<1>2. LifecycleInv /\ [Next]_vars => [StoreNext]_storeVars
  <2> SUFFICES ASSUME LifecycleInv, [Next]_vars PROVE [StoreNext]_storeVars
    OBVIOUS
  <2>1. CASE KubeletStep \/ ReplyStep
    BY <2>1 DEF KubeletStep, ReplyStep, PodArrives, PodDeleted, PodGone, KubeletRestart, StartPrepare,
                StartUnprepare, FinishPrepare, FinishUnprepare, ReplyLost, CallStarts, CallEnds
  <2>2. ASSUME NEW written \in BOOLEAN, CommitDevice(written)
        PROVE  StoreNext
    <3>1. /\ SetDeviceConfig(pod, dev, CommittedConfig, written)
          /\ pod \in Pods /\ dev \in Devices /\ claim \in Claims
      BY <2>2 DEF CommitDevice, ReadyToCommit, LifecycleInv, LifecycleTypeOK, CallShape
    <3>2. CommittedConfig \in DeviceConfigs
      <4>1. /\ Request[claim].subinterface \in BOOLEAN /\ Request[claim].profile \in BOOLEAN
            /\ grant \in SUBSET Addrs
        BY <3>1, LifecycleAssumption DEF LifecycleInv, LifecycleTypeOK
      <4>2. (stage = "leased") \in BOOLEAN
        OBVIOUS
      <4>3. QED
        BY <3>1, <4>1, <4>2, LifecycleAssumption DEF CommittedConfig
    <3>3. QED
      BY <3>1, <3>2 DEF StoreNext
  <2>3. CASE PrepareStep
    BY <2>2, <2>3 DEF PrepareStep, RejectClaim, PrepareClaim, ClaimPrepared, ReuseDevice, ResolveDevice,
                      ResolveFails, MergedConfigInvalid, DeviceFails, GetDHCP
  <2>4. CASE UnprepareStep
    BY <2>4 DEF UnprepareStep, UnprepareClaim, UnprepareDevice, ForgetClaim, StoreNext,
                LifecycleInv, LifecycleTypeOK
  <2>5. CASE DriverCrash \/ DriverStart
    BY <2>5 DEF DriverCrash, DriverStart, StoreNext
  <2>6. CASE AllGone \/ UNCHANGED vars
    BY <2>6 DEF AllGone, vars
  <2>7. QED
    BY <2>1, <2>3, <2>4, <2>5, <2>6 DEF Next
<1>3. QED
  BY <1>1, <1>2, LifecycleInvariant, PTL DEF Spec, StoreSpec

-----------------------------------------------------------------------------
\* No two claims of a pod have a device in common.
DevicesApart ==
  \A p \in Pods : \A c, e \in PodClaims[p] : c # e => Results[c] \cap Results[e] = {}

Has(p, d, c) == checkpoint[p][d] # NoConfig /\ checkpoint[p][d].claim = c

\* The devices a preparation has passed without an error are stored.
PassedIsStored ==
  op = "prepare" =>
    \A c \in PodClaims[pod] \ (todo \cup failed) :
      \A d \in Results[c] : (c = claim /\ (d \in devs \/ d = dev)) \/ Has(pod, d, c)

\* What is stored for a pod that is wanted stays, whatever is unprepared.
LEMMA WantedStays ==
  ASSUME LifecycleInv, DevicesApart, [Next]_vars,
         NEW p \in Pods, podPhase[p] = "wanted", NEW d \in Devices, NEW c \in PodClaims[p],
         Has(p, d, c)
  PROVE  Has(p, d, c)'
<1> USE LifecycleAssumption
<1>1. CASE UNCHANGED checkpoint
  BY <1>1 DEF Has
<1>2. ASSUME NEW written \in BOOLEAN, CommitDevice(written)
      PROVE  Has(p, d, c)'
  <2>1. /\ checkpoint' = checkpoint \/ checkpoint' = [checkpoint EXCEPT ![pod][dev] = CommittedConfig]
        /\ op = "prepare" /\ dev # NoDevice
    BY <1>2 DEF CommitDevice, ReadyToCommit, SetDeviceConfig, Store
  <2>2. pod \in Pods /\ dev \in Results[claim] /\ claim \in PodClaims[pod] /\ dev \in Devices
    BY <2>1 DEF LifecycleInv, LifecycleTypeOK, CallShape
  <2>3. CommittedConfig.claim = claim /\ CommittedConfig # NoConfig
    <3>1. CommittedConfig.claim = claim
      BY DEF CommittedConfig
    <3>2. CommittedConfig \in DeviceConfigs
      <4>1. /\ Request[claim].subinterface \in BOOLEAN /\ Request[claim].profile \in BOOLEAN
            /\ grant \in SUBSET Addrs /\ claim \in Claims
        BY <2>2 DEF LifecycleInv, LifecycleTypeOK
      <4>2. (stage = "leased") \in BOOLEAN
        OBVIOUS
      <4>3. QED
        BY <4>1, <4>2 DEF CommittedConfig
    <3>3. QED
      BY <3>1, <3>2, DeviceConfigsAssumption
  <2>4. checkpoint \in [Pods -> [Devices -> DeviceConfigs \cup {NoConfig}]]
    BY DEF LifecycleInv, StoreInv, StoreTypeOK, DeviceMap
  <2>5. checkpoint'[p][d] = checkpoint[p][d] \/ (p = pod /\ d = dev /\ checkpoint'[p][d] = CommittedConfig)
    BY <2>1, <2>2, <2>4
  <2>6. p = pod /\ d = dev => c = claim
    BY <2>2 DEF LifecycleInv, StoredBelongs, Has, DevicesApart
  <2>7. QED
    BY <2>3, <2>5, <2>6 DEF Has
<1>3. ASSUME ForgetClaim
      PROVE  Has(p, d, c)'
  <2>1. PICK f \in SUBSET PodsOfClaim(claim) : DeleteClaim(claim, f)
    BY <1>3 DEF ForgetClaim
  <2>2. op = "unprepare" /\ pod \in Pods /\ claim \in PodClaims[pod] /\ podPhase[pod] = "terminating"
    BY <1>3 DEF ForgetClaim, LifecycleInv, CallShape, CallPhase
  <2>3. p \notin PodsOfClaim(claim)
    <3> SUFFICES ASSUME NEW e \in Devices, configs[p][e] # NoConfig, configs[p][e].claim = claim
                 PROVE  FALSE
      BY DEF PodsOfClaim
    <3>1. claim \in PodClaims[p]
      BY DEF LifecycleInv, StoreInv, MemoryIsDurable, StoredBelongs
    <3>2. QED
      BY <2>2, <3>1 DEF LifecycleInv, CallPhase, Live
  <2>4. checkpoint'[p] = checkpoint[p]
    BY <2>1, <2>3 DEF DeleteClaim, Forget, DeleteBuckets
  <2>5. QED
    BY <2>4 DEF Has
<1>4. UNCHANGED checkpoint \/ ForgetClaim \/ \E written \in BOOLEAN : CommitDevice(written)
  <2>1. CASE UNCHANGED vars \/ AllGone
    BY <2>1 DEF AllGone, vars, storeVars
  <2>2. CASE KubeletStep \/ ReplyStep
    BY <2>2 DEF KubeletStep, ReplyStep, PodArrives, PodDeleted, PodGone, KubeletRestart, StartPrepare,
                StartUnprepare, FinishPrepare, FinishUnprepare, ReplyLost, CallStarts, CallEnds, storeVars
  <2>3. CASE PrepareStep
    BY <2>3 DEF PrepareStep, RejectClaim, PrepareClaim, ClaimPrepared, ReuseDevice, ResolveDevice,
                ResolveFails, MergedConfigInvalid, DeviceFails, GetDHCP, storeVars
  <2>4. CASE UnprepareStep
    BY <2>4 DEF UnprepareStep, UnprepareClaim, UnprepareDevice, storeVars
  <2>5. CASE DriverCrash \/ DriverStart
    BY <2>5 DEF DriverCrash, DriverStart, Crash, NewPodConfigStore
  <2>6. QED
    BY <2>1, <2>2, <2>3, <2>4, <2>5 DEF Next
<1>5. QED
  BY <1>1, <1>2, <1>3, <1>4

AckInv == PassedIsStored /\ AcknowledgedIsStored

\* Steps that tell the kubelet nothing new.
LEMMA AcknowledgedStays ==
  ASSUME LifecycleInv, DevicesApart, AckInv, [Next]_vars, UNCHANGED kubeletVars
  PROVE  AcknowledgedIsStored'
<1> SUFFICES ASSUME NEW p \in Pods, podPhase[p] = "wanted", NEW c \in PodClaims[p],
                    claimPhase[c] = "prepared", NEW d \in Results[c]
             PROVE  Has(p, d, c)'
  BY DEF AcknowledgedIsStored, Has, kubeletVars
<1>1. d \in Devices /\ Has(p, d, c)
  BY LifecycleAssumption DEF AckInv, AcknowledgedIsStored, Has
<1>2. QED
  BY <1>1, WantedStays

LEMMA AckKeptByKubelet ==
  ASSUME LifecycleInv, DevicesApart, AckInv, KubeletStep \/ ReplyStep
  PROVE  AckInv'
<1> USE LifecycleAssumption
<1>1. UNCHANGED storeVars
  BY DEF KubeletStep, ReplyStep, PodArrives, PodDeleted, PodGone, KubeletRestart, StartPrepare,
         StartUnprepare, FinishPrepare, FinishUnprepare, ReplyLost, CallStarts, CallEnds
<1>2. \A p \in Pods, d \in Devices, c \in Claims : Has(p, d, c)' <=> Has(p, d, c)
  BY <1>1 DEF Has, storeVars
<1>3. ASSUME NEW p \in Pods, PodArrives(p)
      PROVE  AckInv'
  <2>1. \A c \in PodClaims[p] : claimPhase[c] = "free"
    BY <1>3 DEF PodArrives, LifecycleInv, CallPhase
  <2>2. \A q \in Pods : podPhase'[q] = "wanted" => q = p \/ podPhase[q] = "wanted"
    BY <1>3 DEF PodArrives, LifecycleInv, LifecycleTypeOK
  <2>3. AcknowledgedIsStored'
    BY <1>1, <1>3, <2>1, <2>2 DEF PodArrives, AckInv, AcknowledgedIsStored, storeVars
  <2>4. PassedIsStored'
    BY <1>3 DEF PodArrives, AckInv, PassedIsStored, Has, storeVars, callVars, claimVars, devVars
  <2>5. QED
    BY <2>3, <2>4 DEF AckInv
<1>4. ASSUME NEW p \in Pods, PodDeleted(p) \/ PodGone(p)
      PROVE  AckInv'
  <2>1. \A q \in Pods : podPhase'[q] = "wanted" => podPhase[q] = "wanted"
    BY <1>4 DEF PodDeleted, PodGone, LifecycleInv, LifecycleTypeOK
  <2>2. AcknowledgedIsStored'
    BY <1>4, <2>1 DEF PodDeleted, PodGone, AckInv, AcknowledgedIsStored, storeVars
  <2>3. PassedIsStored'
    BY <1>4 DEF PodDeleted, PodGone, AckInv, PassedIsStored, Has, storeVars, callVars, claimVars, devVars
  <2>4. QED
    BY <2>2, <2>3 DEF AckInv
<1>5. ASSUME KubeletRestart
      PROVE  AckInv'
  <2>1. \A c \in Claims : claimPhase'[c] # "prepared"
    BY <1>5 DEF KubeletRestart
  <2>2. AcknowledgedIsStored'
    BY <2>1 DEF AcknowledgedIsStored
  <2>3. PassedIsStored'
    BY <1>5 DEF KubeletRestart, PassedIsStored, callVars
  <2>4. QED
    BY <2>2, <2>3 DEF AckInv
<1>6. ASSUME NEW p \in Pods, StartPrepare(p)
      PROVE  AckInv'
  <2>1. /\ podPhase[p] = "wanted" /\ pod' = p /\ op' = "prepare" /\ UNCHANGED podPhase
        /\ todo' = {c \in PodClaims[p] : claimPhase[c] # "prepared"}
    BY <1>6 DEF StartPrepare, CallStarts
  <2>2. \A c \in Claims : claimPhase'[c] = "prepared" => claimPhase[c] = "prepared"
    BY <1>6 DEF StartPrepare, CallStarts
  <2>3. AcknowledgedIsStored'
    BY <1>1, <2>1, <2>2 DEF AckInv, AcknowledgedIsStored, storeVars
  <2>4. \A c \in PodClaims[p] \ todo' : \A d \in Results[c] : Has(p, d, c)
    BY <2>1 DEF AckInv, AcknowledgedIsStored, Has
  <2>5. PassedIsStored'
    BY <1>2, <2>1, <2>4 DEF PassedIsStored
  <2>6. QED
    BY <2>3, <2>5 DEF AckInv
<1>7. ASSUME NEW p \in Pods, StartUnprepare(p)
      PROVE  AckInv'
  BY <1>7 DEF StartUnprepare, CallStarts, AckInv, PassedIsStored, AcknowledgedIsStored, storeVars
<1>8. CASE FinishPrepare
  <2>1. /\ op = "prepare" /\ todo = {} /\ claim = NoClaim /\ op' = "idle" /\ UNCHANGED podPhase
        /\ claimPhase' = [c \in Claims |-> IF c \in PodClaims[pod] \ failed THEN "prepared" ELSE claimPhase[c]]
    BY <1>8 DEF FinishPrepare, BatchDone, CallEnds
  <2>2. pod \in Pods /\ podPhase[pod] = "wanted"
    BY <2>1 DEF LifecycleInv, CallShape, CallPhase
  <2>3. ASSUME NEW p \in Pods, podPhase[p] = "wanted", NEW c \in PodClaims[p],
               claimPhase'[c] = "prepared", NEW d \in Results[c]
        PROVE  Has(p, d, c)
    <3>1. c \in Claims /\ c # NoClaim
      OBVIOUS
    <3>2. CASE c \in PodClaims[pod] \ failed
      <4>1. p = pod
        BY <2>2, <2>3, <3>2 DEF LifecycleInv, CallPhase, Live
      <4>2. QED
        BY <2>1, <3>1, <3>2, <4>1 DEF AckInv, PassedIsStored
    <3>3. CASE c \notin PodClaims[pod] \ failed
      BY <2>1, <2>3, <3>1, <3>3 DEF AckInv, AcknowledgedIsStored, Has
    <3>4. QED
      BY <3>2, <3>3
  <2>4. AcknowledgedIsStored'
    <3>1. UNCHANGED <<podPhase, checkpoint>>
      BY <1>1, <2>1 DEF storeVars
    <3>2. SUFFICES ASSUME NEW p \in Pods, podPhase[p] = "wanted", NEW c \in PodClaims[p],
                          claimPhase'[c] = "prepared", NEW d \in Results[c]
                   PROVE  checkpoint[p][d] # NoConfig /\ checkpoint[p][d].claim = c
      BY <3>1 DEF AcknowledgedIsStored
    <3>3. QED
      BY <2>3, <3>2 DEF Has
  <2>5. QED
    BY <2>1, <2>4 DEF AckInv, PassedIsStored
<1>9. CASE FinishUnprepare \/ ReplyLost
  <2>1. op' = "idle" /\ UNCHANGED podPhase
    BY <1>9 DEF FinishUnprepare, ReplyLost, CallEnds
  <2>2. \A c \in Claims : claimPhase'[c] = "prepared" => claimPhase[c] = "prepared"
    BY <1>9 DEF FinishUnprepare, ReplyLost
  <2>3. AcknowledgedIsStored'
    BY <1>1, <2>1, <2>2 DEF AckInv, AcknowledgedIsStored, storeVars
  <2>4. QED
    BY <2>1, <2>3 DEF AckInv, PassedIsStored
<1>10. QED
  BY <1>3, <1>4, <1>5, <1>6, <1>7, <1>8, <1>9 DEF KubeletStep, ReplyStep

LEMMA AckKeptByPrepare ==
  ASSUME LifecycleInv, DevicesApart, AckInv, PrepareStep
  PROVE  AckInv'
<1> USE LifecycleAssumption
<1>1. op = "prepare" /\ UNCHANGED <<kubeletVars, op, pod>>
  BY DEF PrepareStep, RejectClaim, PrepareClaim, ClaimPrepared, ReuseDevice, ResolveDevice, ResolveFails,
         MergedConfigInvalid, NextDevice, DeviceFails, GetDHCP, CommitDevice, ReadyToCommit, callVars
<1>2. AcknowledgedIsStored'
  BY <1>1, AcknowledgedStays DEF Next
<1>3. pod \in Pods /\ podPhase[pod] = "wanted"
  BY <1>1 DEF LifecycleInv, CallShape, CallPhase
<1>4. \A c \in PodClaims[pod], d \in Devices : Has(pod, d, c) => Has(pod, d, c)'
  <2> SUFFICES ASSUME NEW c \in PodClaims[pod], NEW d \in Devices, Has(pod, d, c)
               PROVE  checkpoint'[pod][d] # NoConfig /\ checkpoint'[pod][d].claim = c
    BY <1>1 DEF Has
  <2>1. \A p \in Pods : p = pod => checkpoint'[p][d] # NoConfig /\ checkpoint'[p][d].claim = c
    BY <1>3, WantedStays DEF Has, Next
  <2>2. QED
    BY <1>3, <2>1
<1>5. ASSUME \A c \in PodClaims[pod] \ (todo' \cup failed') : \A d \in Results[c] :
               \/ c = claim' /\ (d \in devs' \/ d = dev')
               \/ Has(pod, d, c)'
               \/ /\ c \notin todo \cup failed
                  /\ ~(c = claim /\ (d \in devs \/ d = dev))
      PROVE  AckInv'
  BY <1>1, <1>2, <1>3, <1>4, <1>5 DEF AckInv, PassedIsStored
<1>6. ASSUME NEW c \in Claims, RejectClaim(c) \/ PrepareClaim(c)
      PROVE  AckInv'
  <2>1. claim = NoClaim /\ c \in todo /\ todo' = todo \ {c} /\ UNCHANGED dev
    BY <1>6 DEF RejectClaim, PrepareClaim, devVars
  <2>2. CASE RejectClaim(c)
    BY <1>5, <2>1, <2>2 DEF RejectClaim, claimVars
  <2>3. CASE PrepareClaim(c)
    <3>1. claim' = c /\ devs' = Results[c] /\ UNCHANGED failed
      BY <2>3 DEF PrepareClaim
    <3>2. \A e \in PodClaims[pod] : e # claim
      BY <1>3, <2>1
    <3>3. QED
      BY <1>5, <2>1, <3>1, <3>2
  <2>4. QED
    BY <1>6, <2>2, <2>3
<1>7. CASE ClaimPrepared
  <2>1. \A c \in PodClaims[pod] : \A d \in Results[c] : d # NoDevice
    BY <1>3
  <2>2. devs = {} /\ dev = NoDevice /\ UNCHANGED <<todo, failed>>
    BY <1>7 DEF ClaimPrepared, callVars
  <2>3. QED
    BY <1>5, <2>1, <2>2
<1>8. ASSUME NEW d \in Devices, ReuseDevice(d)
      PROVE  AckInv'
  <2>1. /\ d \in devs /\ configs[pod][d] # NoConfig /\ devs' = devs \ {d}
        /\ UNCHANGED <<storeVars, todo, failed, claim, dev>>
    BY <1>8 DEF ReuseDevice, NextDevice, GetDeviceConfig, callVars, devVars
  <2>2. claim \in PodClaims[pod] /\ d \in Results[claim]
    BY <1>1, <2>1 DEF LifecycleInv, CallShape
  <2>3. Has(pod, d, claim)
    BY <1>3, <2>1, <2>2 DEF LifecycleInv, StoreInv, MemoryIsDurable, StoredBelongs, DevicesApart, Has
  <2>4. Has(pod, d, claim)'
    BY <1>1, <2>1, <2>3 DEF Has, storeVars
  <2>5. QED
    BY <1>5, <2>1, <2>4
<1>9. ASSUME NEW d \in Devices, ResolveDevice(d) \/ ResolveFails(d) \/ MergedConfigInvalid(d)
      PROVE  AckInv'
  BY <1>5, <1>9 DEF ResolveDevice, ResolveFails, MergedConfigInvalid, NextDevice, callVars, devVars, LifecycleInv, CallShape
<1>10. CASE DeviceFails \/ GetDHCP
  BY <1>5, <1>10 DEF DeviceFails, GetDHCP, NoDevInProcess, callVars, claimVars
<1>11. ASSUME NEW written \in BOOLEAN, CommitDevice(written)
       PROVE  AckInv'
  <2>1. /\ dev # NoDevice /\ dev' = NoDevice /\ UNCHANGED <<todo, claim, devs>>
        /\ failed' = IF written THEN failed ELSE failed \cup {claim}
        /\ SetDeviceConfig(pod, dev, CommittedConfig, written)
    BY <1>11 DEF CommitDevice, ReadyToCommit, NoDevInProcess, claimVars
  <2>2. claim \in PodClaims[pod] /\ dev \in Devices /\ claim \in Claims
    BY <1>1, <2>1 DEF LifecycleInv, LifecycleTypeOK, CallShape
  <2>3. CommittedConfig # NoConfig /\ CommittedConfig.claim = claim
    <3>1. /\ Request[claim].subinterface \in BOOLEAN /\ Request[claim].profile \in BOOLEAN
          /\ grant \in SUBSET Addrs
      BY <2>2 DEF LifecycleInv, LifecycleTypeOK
    <3>2. (stage = "leased") \in BOOLEAN
      OBVIOUS
    <3>3. CommittedConfig \in DeviceConfigs
      BY <2>2, <3>1, <3>2 DEF CommittedConfig
    <3>4. QED
      BY <3>3, DeviceConfigsAssumption DEF CommittedConfig
  <2>4. ASSUME written, NEW c \in Claims, NEW d \in Devices, c = claim, d = dev
        PROVE  Has(pod, d, c)'
    <3>1. checkpoint \in [Pods -> [Devices -> DeviceConfigs \cup {NoConfig}]]
      BY DEF LifecycleInv, StoreInv, StoreTypeOK, DeviceMap
    <3>2. checkpoint'[pod][d] = CommittedConfig
      BY <1>3, <2>1, <2>2, <2>4, <3>1 DEF SetDeviceConfig, Store
    <3>3. QED
      BY <1>1, <2>3, <2>4, <3>2 DEF Has
  <2>5. \A c \in PodClaims[pod] : c \in Claims /\ \A d \in Results[c] : d \in Devices
    BY <1>3
  <2>6. QED
    BY <1>5, <2>1, <2>4, <2>5
<1>12. QED
  BY <1>6, <1>7, <1>8, <1>9, <1>10, <1>11 DEF PrepareStep

\* When no two claims of a pod have a device in common, what the kubelet was told
\* is prepared is on disk while the pod is wanted, whatever crashes, lost replies,
\* retries and failed deletions there are.
THEOREM AcknowledgedAlwaysStored ==
  ASSUME DevicesApart
  PROVE  Spec => []AcknowledgedIsStored
<1>1. Init => AckInv
  BY DEF Init, CallInit, AckInv, PassedIsStored, AcknowledgedIsStored
<1>2. LifecycleInv /\ AckInv /\ [Next]_vars => AckInv'
  <2> SUFFICES ASSUME LifecycleInv, AckInv, [Next]_vars PROVE AckInv'
    OBVIOUS
  <2>1. CASE KubeletStep \/ ReplyStep
    BY <2>1, AckKeptByKubelet
  <2>2. CASE PrepareStep
    BY <2>2, AckKeptByPrepare
  <2>3. CASE UnprepareStep \/ DriverCrash \/ DriverStart
    <3>1. UNCHANGED kubeletVars
      BY <2>3 DEF UnprepareStep, UnprepareClaim, UnprepareDevice, ForgetClaim, DriverCrash, DriverStart
    <3>2. op' # "prepare"
      BY <2>3 DEF UnprepareStep, UnprepareClaim, UnprepareDevice, ForgetClaim, DriverCrash, DriverStart,
                  NewPodConfigStore, callVars, LifecycleInv, CallShape
    <3>3. QED
      BY <3>1, <3>2, AcknowledgedStays DEF AckInv, PassedIsStored
  <2>4. CASE AllGone \/ UNCHANGED vars
    BY <2>4 DEF AllGone, vars, storeVars, kubeletVars, callVars, claimVars, devVars,
                AckInv, PassedIsStored, AcknowledgedIsStored, Has
  <2>5. QED
    BY <2>1, <2>2, <2>3, <2>4 DEF Next
<1>3. AckInv => AcknowledgedIsStored
  BY DEF AckInv
<1>4. QED
  BY <1>1, <1>2, <1>3, LifecycleInvariant, PTL DEF Spec

-----------------------------------------------------------------------------
\* Memory and disk differ only for the pods a deletion has failed for.
NoResidue == up => \A p \in Pods : p \notin undeleted => configs[p] = checkpoint[p]

\* What may be left of a claim that is to be forgotten: the record of such a
\* pod, and that in memory only after a restart.
InMemory(p, d, c) == configs[p][d] # NoConfig /\ configs[p][d].claim = c

Forgotten(c) ==
  \A p \in Pods, d \in Devices :
    /\ Has(p, d, c) => p \in undeleted
    /\ InMemory(p, d, c) => p \in undeleted /\ crashes > 0

\* The claims an unprepare has passed are forgotten.
PassedIsForgotten ==
  op = "unprepare" =>
    \A c \in PodClaims[pod] \ (todo \cup {claim}) : Forgotten(c)

\* So are those the kubelet takes for unprepared.
NothingOfFree ==
  \A c \in Claims : claimPhase[c] = "free" => Forgotten(c)

\* The process has died before it is down.
DownAfterCrash == ~up => crashes > 0

ForgetInv == NoResidue /\ PassedIsForgotten /\ NothingOfFree /\ DownAfterCrash

LEMMA ForgetKeptByKubelet ==
  ASSUME LifecycleInv, ForgetInv, KubeletStep \/ ReplyStep
  PROVE  ForgetInv'
<1> USE LifecycleAssumption
<1>1. UNCHANGED <<storeVars, crashes, undeleted>>
  BY DEF KubeletStep, ReplyStep, PodArrives, PodDeleted, PodGone, KubeletRestart, StartPrepare,
         StartUnprepare, FinishPrepare, FinishUnprepare, ReplyLost, CallStarts, CallEnds
<1>2. NoResidue' /\ DownAfterCrash'
  BY <1>1 DEF ForgetInv, NoResidue, DownAfterCrash, storeVars
<1>3. \A c \in Claims : Forgotten(c)' <=> Forgotten(c)
  BY <1>1 DEF Forgotten, Has, InMemory, storeVars
<1>4. ASSUME NEW p \in Pods, PodArrives(p) \/ PodDeleted(p) \/ PodGone(p)
      PROVE  ForgetInv'
  <2>1. UNCHANGED <<claimPhase, op, pod, todo, claim>>
    BY <1>4 DEF PodArrives, PodDeleted, PodGone, callVars, claimVars
  <2>2. NothingOfFree'
    BY <1>3, <2>1 DEF ForgetInv, NothingOfFree
  <2>3. PassedIsForgotten'
    BY <1>3, <2>1 DEF ForgetInv, PassedIsForgotten, LifecycleInv, CallShape
  <2>4. QED
    BY <1>2, <2>2, <2>3 DEF ForgetInv
<1>5. ASSUME NEW p \in Pods, StartUnprepare(p)
      PROVE  ForgetInv'
  <2>1. /\ op' = "unprepare" /\ pod' = p /\ todo' = {c \in PodClaims[p] : claimPhase[c] # "free"}
        /\ UNCHANGED claimPhase
    BY <1>5 DEF StartUnprepare, CallStarts
  <2>2. NothingOfFree'
    BY <1>3, <2>1 DEF ForgetInv, NothingOfFree
  <2>3. \A c \in PodClaims[p] \ todo' : c \in Claims /\ claimPhase[c] = "free"
    BY <2>1
  <2>4. PassedIsForgotten'
    BY <1>3, <2>1, <2>3 DEF ForgetInv, NothingOfFree, PassedIsForgotten
  <2>5. QED
    BY <1>2, <2>2, <2>4 DEF ForgetInv
<1>6. ASSUME NEW p \in Pods, StartPrepare(p)
      PROVE  ForgetInv'
  <2>1. op' = "prepare"
    BY <1>6 DEF StartPrepare, CallStarts
  <2>2. \A c \in Claims : claimPhase'[c] = "free" => claimPhase[c] = "free"
    BY <1>6 DEF StartPrepare
  <2>3. QED
    BY <1>2, <1>3, <2>1, <2>2 DEF ForgetInv, NothingOfFree, PassedIsForgotten
<1>7. CASE KubeletRestart \/ FinishPrepare \/ ReplyLost
  <2>1. op' = "idle"
    BY <1>7 DEF KubeletRestart, FinishPrepare, ReplyLost, CallEnds, callVars
  <2>2. \A c \in Claims : claimPhase'[c] = "free" => claimPhase[c] = "free"
    BY <1>7 DEF KubeletRestart, FinishPrepare, ReplyLost
  <2>3. QED
    BY <1>2, <1>3, <2>1, <2>2 DEF ForgetInv, NothingOfFree, PassedIsForgotten
<1>8. CASE FinishUnprepare
  <2>1. op = "unprepare" /\ todo = {} /\ claim = NoClaim /\ op' = "idle"
    BY <1>8 DEF FinishUnprepare, BatchDone, CallEnds
  <2>2. \A c \in Claims : claimPhase'[c] = "free" => claimPhase[c] = "free" \/ c \in PodClaims[pod]
    BY <1>8 DEF FinishUnprepare
  <2>3. \A c \in PodClaims[pod] : c \in Claims => Forgotten(c)
    BY <2>1 DEF ForgetInv, PassedIsForgotten
  <2>4. NothingOfFree'
    BY <1>3, <2>2, <2>3 DEF ForgetInv, NothingOfFree
  <2>5. QED
    BY <1>2, <2>1, <2>4 DEF ForgetInv, PassedIsForgotten
<1>9. QED
  BY <1>4, <1>5, <1>6, <1>7, <1>8 DEF KubeletStep, ReplyStep

LEMMA ForgetKeptByPrepare ==
  ASSUME LifecycleInv, ForgetInv, PrepareStep
  PROVE  ForgetInv'
<1> USE LifecycleAssumption
<1>1. op = "prepare" /\ UNCHANGED <<kubeletVars, op, pod, crashes, undeleted>>
  BY DEF PrepareStep, RejectClaim, PrepareClaim, ClaimPrepared, ReuseDevice, ResolveDevice, ResolveFails,
         MergedConfigInvalid, NextDevice, DeviceFails, GetDHCP, CommitDevice, ReadyToCommit, callVars
<1>2. PassedIsForgotten'
  BY <1>1 DEF PassedIsForgotten
<1>3. CASE UNCHANGED storeVars
  <2>1. \A c \in Claims : Forgotten(c)' <=> Forgotten(c)
    BY <1>1, <1>3 DEF Forgotten, Has, InMemory, storeVars
  <2>2. QED
    BY <1>1, <1>2, <1>3, <2>1 DEF ForgetInv, NoResidue, NothingOfFree, DownAfterCrash, storeVars, kubeletVars
<1>4. ASSUME NEW written \in BOOLEAN, CommitDevice(written)
      PROVE  ForgetInv'
  <2>1. /\ SetDeviceConfig(pod, dev, CommittedConfig, written)
        /\ pod \in Pods /\ dev \in Devices /\ claim # NoClaim
    BY <1>1, <1>4 DEF CommitDevice, ReadyToCommit, LifecycleInv, LifecycleTypeOK, CallShape
  <2>2. claimPhase[claim] = "attempted"
    BY <1>1, <2>1 DEF LifecycleInv, CallPhase
  <2>3. /\ checkpoint \in [Pods -> [Devices -> DeviceConfigs \cup {NoConfig}]]
        /\ configs \in [Pods -> [Devices -> DeviceConfigs \cup {NoConfig}]]
    BY DEF LifecycleInv, StoreInv, StoreTypeOK, DeviceMap
  <2>4. up /\ up'
    BY <2>1 DEF SetDeviceConfig
  <2>5. CommittedConfig.claim = claim
    BY DEF CommittedConfig
  <2>6. NoResidue'
    <3>1. ASSUME NEW p \in Pods, p \notin undeleted
          PROVE  configs'[p] = checkpoint'[p]
      <4>1. configs[p] = checkpoint[p]
        BY <2>4, <3>1 DEF ForgetInv, NoResidue
      <4>2. CASE written
        <5>1. /\ checkpoint' = [checkpoint EXCEPT ![pod] = [@ EXCEPT ![dev] = CommittedConfig]]
              /\ configs' = [configs EXCEPT ![pod] = [@ EXCEPT ![dev] = CommittedConfig]]
          BY <2>1, <4>2 DEF SetDeviceConfig, Store
        <5>2. /\ checkpoint'[p] = IF p = pod THEN [checkpoint[p] EXCEPT ![dev] = CommittedConfig] ELSE checkpoint[p]
              /\ configs'[p] = IF p = pod THEN [configs[p] EXCEPT ![dev] = CommittedConfig] ELSE configs[p]
          BY <2>3, <5>1
        <5>3. QED
          BY <4>1, <5>2
      <4>3. CASE ~written
        BY <2>1, <4>1, <4>3 DEF SetDeviceConfig
      <4>4. QED
        BY <4>2, <4>3
    <3>2. QED
      BY <1>1, <3>1 DEF NoResidue
  <2>7. \A p \in Pods, d \in Devices :
          /\ checkpoint'[p][d] = checkpoint[p][d] \/ checkpoint'[p][d] = CommittedConfig
          /\ configs'[p][d] = configs[p][d] \/ configs'[p][d] = CommittedConfig
    BY <2>1, <2>3 DEF SetDeviceConfig, Store
  <2>8. ASSUME NEW c \in Claims, c # claim, Forgotten(c)
        PROVE  Forgotten(c)'
    BY <1>1, <2>5, <2>7, <2>8 DEF Forgotten, Has, InMemory
  <2>9. NothingOfFree'
    BY <1>1, <2>2, <2>8 DEF ForgetInv, NothingOfFree, kubeletVars
  <2>10. QED
    BY <1>2, <2>4, <2>6, <2>9 DEF ForgetInv, DownAfterCrash
<1>5. QED
  BY <1>3, <1>4 DEF PrepareStep, RejectClaim, PrepareClaim, ClaimPrepared, ReuseDevice, ResolveDevice,
                    ResolveFails, MergedConfigInvalid, DeviceFails, GetDHCP

LEMMA ForgetKeptByUnprepare ==
  ASSUME LifecycleInv, ForgetInv, UnprepareStep
  PROVE  ForgetInv'
<1> USE LifecycleAssumption
<1>1. op = "unprepare" /\ UNCHANGED <<kubeletVars, op, pod, crashes>>
  BY DEF UnprepareStep, UnprepareClaim, UnprepareDevice, ForgetClaim, callVars
<1>2. pod \in Pods /\ up
  BY <1>1 DEF LifecycleInv, CallShape
<1>3. CASE \/ \E c \in Claims : UnprepareClaim(c)
           \/ \E x \in Pods \X Devices : UnprepareDevice(x)
  <2>1. UNCHANGED <<storeVars, undeleted>>
    BY <1>3 DEF UnprepareClaim, UnprepareDevice
  <2>2. todo \cup {claim} \subseteq todo' \cup {claim', NoClaim}
    BY <1>3 DEF UnprepareClaim, UnprepareDevice, callVars
  <2>3. \A c \in Claims : Forgotten(c)' <=> Forgotten(c)
    BY <1>1, <2>1 DEF Forgotten, Has, InMemory, storeVars
  <2>4. NoResidue' /\ NothingOfFree' /\ DownAfterCrash'
    BY <1>1, <2>1, <2>3 DEF ForgetInv, NoResidue, NothingOfFree, DownAfterCrash, storeVars, kubeletVars
  <2>5. \A c \in PodClaims[pod] : c # NoClaim /\ c \in Claims
    BY <1>2
  <2>6. PassedIsForgotten'
    BY <1>1, <2>2, <2>3, <2>5 DEF ForgetInv, PassedIsForgotten
  <2>7. QED
    BY <2>4, <2>6 DEF ForgetInv
<1>4. CASE ForgetClaim
  <2>1. claim # NoClaim /\ claim' = NoClaim /\ UNCHANGED todo
    BY <1>4 DEF ForgetClaim, callVars
  <2>2. PICK f \in SUBSET PodsOfClaim(claim) : DeleteClaim(claim, f) /\ undeleted' = undeleted \cup f
    BY <1>4 DEF ForgetClaim
  <2>3. /\ configs' = [p \in Pods |-> IF p \in PodsOfClaim(claim) THEN NoDevices ELSE configs[p]]
        /\ checkpoint' = [p \in Pods |-> IF p \in PodsOfClaim(claim) \ f THEN NoDevices ELSE checkpoint[p]]
        /\ up'
    BY <2>2 DEF DeleteClaim, Forget, DeleteBuckets
  <2>4. NoResidue'
    BY <1>2, <2>2, <2>3 DEF ForgetInv, NoResidue
  <2>5. \A p \in Pods, d \in Devices : \A c :
          /\ Has(p, d, c)' => Has(p, d, c) /\ p \notin PodsOfClaim(claim) \ f
          /\ InMemory(p, d, c)' => InMemory(p, d, c) /\ p \notin PodsOfClaim(claim)
    BY <2>3 DEF Has, InMemory, NoDevices
  <2>6. \A c \in Claims : Forgotten(c) => Forgotten(c)'
    BY <1>1, <2>2, <2>5 DEF Forgotten
  <2>7. PICK k : k = claim /\ Forgotten(k)'
    <3>1. \A p \in Pods, d \in Devices : InMemory(p, d, claim) => p \in PodsOfClaim(claim)
      BY DEF InMemory, PodsOfClaim
    <3>2. \A p \in Pods, d \in Devices : Has(p, d, claim) => p \in undeleted \/ InMemory(p, d, claim)
      BY <1>2 DEF ForgetInv, NoResidue, Has, InMemory
    <3>3. PICK k : k = claim
      OBVIOUS
    <3>4. Forgotten(k)'
      BY <2>2, <2>5, <3>1, <3>2, <3>3 DEF Forgotten
    <3>5. QED
      BY <3>3, <3>4
  <2>8. NothingOfFree' /\ DownAfterCrash'
    BY <1>1, <2>3, <2>6 DEF ForgetInv, NothingOfFree, DownAfterCrash, kubeletVars
  <2>9. PassedIsForgotten'
    <3>1. \A c \in PodClaims[pod] : c \in Claims
      BY <1>2
    <3>2. \A c \in PodClaims[pod] \ todo : c = k \/ Forgotten(c)
      BY <1>1, <2>7 DEF ForgetInv, PassedIsForgotten
    <3>3. QED
      BY <1>1, <2>1, <2>6, <2>7, <3>1, <3>2 DEF PassedIsForgotten
  <2>10. QED
    BY <2>4, <2>8, <2>9 DEF ForgetInv
<1>5. QED
  BY <1>3, <1>4 DEF UnprepareStep

LEMMA ForgetInvariant == Spec => []ForgetInv
<1>1. Init => ForgetInv
  BY DEF Init, CallInit, StoreInit, ForgetInv, NoResidue, PassedIsForgotten, NothingOfFree, DownAfterCrash,
         Forgotten, Has, InMemory, NoPods, NoDevices
<1>2. LifecycleInv /\ ForgetInv /\ [Next]_vars => ForgetInv'
  <2> SUFFICES ASSUME LifecycleInv, ForgetInv, [Next]_vars PROVE ForgetInv'
    OBVIOUS
  <2>1. CASE DriverCrash
    <3>1. /\ UNCHANGED <<kubeletVars, checkpoint, undeleted>> /\ ~up' /\ op' = "idle"
          /\ configs' = NoPods /\ crashes' = crashes + 1
      BY <2>1 DEF DriverCrash, Crash
    <3>2. crashes' > 0
      BY <3>1, LifecycleAssumption DEF LifecycleInv, LifecycleTypeOK
    <3>3. \A c \in Claims : Forgotten(c) => Forgotten(c)'
      BY <3>1 DEF Forgotten, Has, InMemory, NoPods, NoDevices
    <3>4. QED
      BY <3>1, <3>2, <3>3 DEF ForgetInv, NoResidue, PassedIsForgotten, NothingOfFree, DownAfterCrash, kubeletVars
  <2>2. CASE DriverStart
    <3>1. /\ UNCHANGED <<kubeletVars, checkpoint, undeleted, crashes, callVars>> /\ ~up /\ up'
          /\ configs' = checkpoint
      BY <2>2 DEF DriverStart, NewPodConfigStore, GetOrCreate
    <3>2. op' = "idle"
      BY <3>1 DEF callVars, LifecycleInv, CallShape
    <3>3. crashes > 0
      BY <3>1 DEF ForgetInv, DownAfterCrash
    <3>4. \A c \in Claims : Forgotten(c) => Forgotten(c)'
      BY <3>1, <3>3 DEF Forgotten, Has, InMemory
    <3>5. QED
      BY <3>1, <3>2, <3>3, <3>4 DEF ForgetInv, NoResidue, PassedIsForgotten, NothingOfFree, DownAfterCrash,
                                    kubeletVars
  <2>3. CASE AllGone \/ UNCHANGED vars
    <3>1. UNCHANGED <<configs, checkpoint, up, claimPhase, op, pod, todo, claim, crashes, undeleted>>
      BY <2>3 DEF AllGone, vars, storeVars, kubeletVars, callVars, claimVars
    <3>2. \A c : Forgotten(c)' <=> Forgotten(c)
      BY <3>1 DEF Forgotten, Has, InMemory
    <3>3. QED
      BY <3>1, <3>2 DEF ForgetInv, NoResidue, PassedIsForgotten, NothingOfFree, DownAfterCrash
  <2>4. QED
    BY <2>1, <2>2, <2>3, ForgetKeptByKubelet, ForgetKeptByPrepare, ForgetKeptByUnprepare DEF Next
<1>3. QED
  BY <1>1, <1>2, LifecycleInvariant, PTL DEF Spec

\* Of a claim that the kubelet was told is unprepared, nothing is left in memory
\* and nothing on disk but what a failed deletion left there, which a restart
\* brings back; also when a pod has several claims.
THEOREM UnpreparedAlwaysForgotten == Spec => []UnpreparedIsForgotten
<1>1. ForgetInv => UnpreparedIsForgotten
  <2> SUFFICES ASSUME ForgetInv, NEW c \in Claims, claimPhase[c] = "free"
               PROVE  /\ \A x \in Stored(checkpoint) :
                           checkpoint[x[1]][x[2]].claim = c => x[1] \in undeleted
                      /\ \A x \in Stored(configs) :
                           configs[x[1]][x[2]].claim = c => x[1] \in undeleted /\ crashes > 0
    BY DEF UnpreparedIsForgotten
  <2>1. Forgotten(c)
    BY DEF ForgetInv, NothingOfFree
  <2>2. QED
    BY <2>1 DEF Forgotten, Has, InMemory, Stored
<1>2. QED
  BY <1>1, ForgetInvariant, PTL

-----------------------------------------------------------------------------
(* The addresses.                                                          *)

\* DeleteClaim forgets all of a pod, so exact books need pods with one claim.
OneClaimPerPod ==
  \A p \in Pods : \A c, e \in PodClaims[p] : c = e

\* Static addresses are those of subinterfaces that a profile hands out.
AddressesFromProfile ==
  \A c \in Claims : Request[c].static # {} =>
    Request[c].profile /\ Request[c].subinterface /\ Results[c] \subseteq Managed

\* The configuration of a pod's device is of a subinterface with the address.
Holds(m, p, d, a) ==
  m[p][d] # NoConfig /\ m[p][d].subinterface /\ a \in m[p][d].addresses

\* The running unprepare has released the addresses of the device.
IsReleased(p, d) ==
  op = "unprepare" /\ configs[p][d].claim = claim /\ <<p, d>> \notin devs

\* The addresses in use are those of the device in process and of the stored
\* configurations that a running unprepare has not released.
InUseIsHeld ==
  up => \A a \in Addrs :
          a \in allocatedIPs <=> \/ a \in grant
                                 \/ \E p \in Pods, d \in Devices :
                                      Holds(configs, p, d, a) /\ ~IsReleased(p, d)

\* No stored subinterface has an address of the device in process.
GrantIsFree ==
  \A a \in grant : \A p \in Pods, d \in Devices : ~Holds(configs, p, d, a)

\* What the device in process holds, its deferred release gives back.
GrantFromProfile ==
  grant # {} => Request[claim].profile /\ Request[claim].subinterface

\* An address is of one stored device; on disk, when the process is down.
HeldOnce ==
  \A p, q \in Pods, d, e \in Devices, a \in Addrs :
    Holds(View, p, d, a) /\ Holds(View, q, e, a) => p = q /\ d = e

\* ReleaseProfileConfig releases the addresses of every stored subinterface.
SubinterfaceHasProfile ==
  \A p \in Pods, d \in Devices :
    checkpoint[p][d] # NoConfig /\ checkpoint[p][d].subinterface => checkpoint[p][d].profile

AddressBooks ==
  /\ InUseIsHeld
  /\ GrantIsFree
  /\ GrantFromProfile
  /\ HeldOnce
  /\ SubinterfaceHasProfile

\* The books are exact until a restart revives what a failed deletion left.
AddressInv == NothingRevived => AddressBooks

LEMMA InUseIsHolding ==
  ASSUME NEW m, NEW a
  PROVE  a \in InUseSubinterfaceIPs(m) <=> \E p \in Pods, d \in Devices : Holds(m, p, d, a)
<1>1. ASSUME NEW p \in Pods, NEW d \in Devices, Holds(m, p, d, a)
      PROVE  a \in InUseSubinterfaceIPs(m)
  <2>1. <<p, d>> \in {y \in Pods \X Devices : m[y[1]][y[2]] # NoConfig /\ m[y[1]][y[2]].subinterface}
    BY <1>1 DEF Holds
  <2>2. a \in m[<<p, d>>[1]][<<p, d>>[2]].addresses
    BY <1>1 DEF Holds
  <2>3. QED
    BY <2>1, <2>2 DEF InUseSubinterfaceIPs
<1>2. ASSUME a \in InUseSubinterfaceIPs(m)
      PROVE  \E p \in Pods, d \in Devices : Holds(m, p, d, a)
  <2>1. PICK x \in Pods \X Devices :
          m[x[1]][x[2]] # NoConfig /\ m[x[1]][x[2]].subinterface /\ a \in m[x[1]][x[2]].addresses
    BY <1>2 DEF InUseSubinterfaceIPs
  <2>2. x[1] \in Pods /\ x[2] \in Devices
    OBVIOUS
  <2>3. QED
    BY <2>1, <2>2 DEF Holds
<1>3. QED
  BY <1>1, <1>2

\* Nothing is released before the unprepare has come to a claim.
LEMMA NothingReleasedYet ==
  ASSUME LifecycleInv, claim = NoClaim, NEW p \in Pods, NEW d \in Devices, configs[p][d] # NoConfig
  PROVE  ~IsReleased(p, d)
<1>1. configs[p][d] \in DeviceConfigs
  BY DEF LifecycleInv, StoreInv, StoreTypeOK, DeviceMap
<1>2. QED
  BY <1>1, DeviceConfigsAssumption, LifecycleAssumption DEF IsReleased

\* What GetProfileConfig grants was free and is recorded; addresses without a
\* profile there are none.
LEMMA ProfileGrants ==
  ASSUME AddressesFromProfile, NEW c \in Claims, NEW d \in Results[c], NEW o \in ProfileOutcomes(c, d)
  PROVE  /\ o[1] = o[2] /\ o[1] \cap allocatedIPs = {}
         /\ o[1] # {} => Request[c].profile /\ Request[c].subinterface
<1> DEFINE r == Request[c]
<1>1. CASE ~r.profile \/ ~r.subinterface \/ d \notin Managed
  <2>1. o = <<r.static, {}>>
    BY <1>1 DEF ProfileOutcomes
  <2>2. r.static = {}
    BY <1>1 DEF AddressesFromProfile
  <2>3. QED
    BY <2>1, <2>2
<1>2. CASE ~(~r.profile \/ ~r.subinterface \/ d \notin Managed) /\ r.static # {}
  <2>1. o = <<r.static, r.static>> /\ r.static \cap allocatedIPs = {}
    BY <1>2 DEF ProfileOutcomes
  <2>2. QED
    BY <1>2, <2>1
<1>3. CASE ~(~r.profile \/ ~r.subinterface \/ d \notin Managed) /\ r.static = {}
  <2>1. \E a \in Addrs \ allocatedIPs : o = <<{a}, {a}>>
    BY <1>3 DEF ProfileOutcomes
  <2>2. QED
    BY <1>3, <2>1
<1>4. QED
  BY <1>1, <1>2, <1>3

\* Releasing the device in process takes back exactly what it was granted.
LEMMA RollbackIsExact ==
  ASSUME GrantFromProfile
  PROVE  Released(Request[claim], grant) = allocatedIPs \ grant
BY DEF GrantFromProfile, Released

LEMMA AddressesKeptByKubelet ==
  ASSUME LifecycleInv, AddressBooks, KubeletStep \/ ReplyStep
  PROVE  AddressBooks'
<1>1. UNCHANGED <<storeVars, claimVars, devVars, allocatedIPs>>
  BY DEF KubeletStep, ReplyStep, PodArrives, PodDeleted, PodGone, KubeletRestart, StartPrepare,
         StartUnprepare, FinishPrepare, FinishUnprepare, ReplyLost, CallStarts, CallEnds
<1>2. claim = NoClaim \/ UNCHANGED op
  BY DEF KubeletStep, ReplyStep, PodArrives, PodDeleted, PodGone, KubeletRestart, StartPrepare,
         StartUnprepare, FinishPrepare, FinishUnprepare, ReplyLost, CallStarts, CallEnds, BatchDone,
         callVars, LifecycleInv, CallShape
<1>3. \A p \in Pods, d \in Devices : \A a : Holds(configs, p, d, a)' <=> Holds(configs, p, d, a)
  BY <1>1 DEF Holds, storeVars
<1>4. ASSUME NEW p \in Pods, NEW d \in Devices, configs[p][d] # NoConfig
      PROVE  IsReleased(p, d)' <=> IsReleased(p, d)
  <2>1. CASE UNCHANGED op
    BY <1>1, <2>1 DEF IsReleased, storeVars, claimVars
  <2>2. CASE claim = NoClaim
    <3>1. configs[p][d] \in DeviceConfigs
      BY <1>4 DEF LifecycleInv, StoreInv, StoreTypeOK, DeviceMap
    <3>2. configs[p][d].claim # NoClaim
      BY <3>1, DeviceConfigsAssumption, LifecycleAssumption
    <3>3. QED
      BY <1>1, <2>2, <3>2 DEF IsReleased, storeVars, claimVars
  <2>3. QED
    BY <1>2, <2>1, <2>2
<1>5. InUseIsHeld'
  BY <1>1, <1>3, <1>4 DEF AddressBooks, InUseIsHeld, Holds, storeVars, devVars
<1>6. GrantIsFree'
  BY <1>1, <1>3 DEF AddressBooks, GrantIsFree, devVars
<1>7. GrantFromProfile' /\ HeldOnce' /\ SubinterfaceHasProfile'
  BY <1>1 DEF AddressBooks, GrantFromProfile, HeldOnce, SubinterfaceHasProfile, View, Holds, storeVars, claimVars, devVars
<1>8. QED
  BY <1>5, <1>6, <1>7 DEF AddressBooks

LEMMA AddressesKeptByPrepare ==
  ASSUME LifecycleInv, AddressBooks, AddressesFromProfile, PrepareStep
  PROVE  AddressBooks'
<1> USE LifecycleAssumption
<1>1. op = "prepare" /\ UNCHANGED <<op, pod>>
  BY DEF PrepareStep, RejectClaim, PrepareClaim, ClaimPrepared, ReuseDevice, ResolveDevice, ResolveFails,
         MergedConfigInvalid, NextDevice, DeviceFails, GetDHCP, CommitDevice, ReadyToCommit, callVars
<1>2. up /\ pod \in Pods /\ grant \subseteq Addrs /\ allocatedIPs \subseteq Addrs
  BY <1>1 DEF LifecycleInv, CallShape, LifecycleTypeOK
<1>3. \A a \in Addrs : a \in allocatedIPs <=>
        a \in grant \/ \E p \in Pods, d \in Devices : Holds(configs, p, d, a)
  BY <1>1, <1>2 DEF AddressBooks, InUseIsHeld, IsReleased
<1>4. ASSUME \A a \in Addrs : a \in allocatedIPs' <=>
               a \in grant' \/ \E p \in Pods, d \in Devices : Holds(configs, p, d, a)'
      PROVE  InUseIsHeld'
  BY <1>1, <1>4 DEF InUseIsHeld, IsReleased
<1>5. ASSUME UNCHANGED storeVars
      PROVE  /\ HeldOnce' /\ SubinterfaceHasProfile'
             /\ \A p \in Pods, d \in Devices : \A a : Holds(configs, p, d, a)' <=> Holds(configs, p, d, a)
  BY <1>5 DEF AddressBooks, HeldOnce, SubinterfaceHasProfile, View, Holds, storeVars
<1>6. ASSUME UNCHANGED <<storeVars, grant, allocatedIPs>>, grant = {} \/ UNCHANGED claim
      PROVE  AddressBooks'
  <2>1. InUseIsHeld' /\ GrantIsFree'
    BY <1>3, <1>4, <1>5, <1>6 DEF AddressBooks, GrantIsFree
  <2>2. GrantFromProfile'
    BY <1>6 DEF AddressBooks, GrantFromProfile
  <2>3. QED
    BY <1>5, <1>6, <2>1, <2>2 DEF AddressBooks
<1>7. ASSUME UNCHANGED storeVars, allocatedIPs' = allocatedIPs \ grant, grant' = {}
      PROVE  AddressBooks'
  <2>1. InUseIsHeld' /\ GrantIsFree'
    BY <1>2, <1>3, <1>4, <1>5, <1>7 DEF AddressBooks, GrantIsFree
  <2>2. GrantFromProfile'
    BY <1>7 DEF GrantFromProfile
  <2>3. QED
    BY <1>5, <1>7, <2>1, <2>2 DEF AddressBooks
<1>8. ASSUME NEW c \in Claims, RejectClaim(c) \/ PrepareClaim(c)
      PROVE  AddressBooks'
  BY <1>6, <1>8 DEF RejectClaim, PrepareClaim, devVars, LifecycleInv, CallShape
<1>9. CASE ClaimPrepared
  BY <1>6, <1>9 DEF ClaimPrepared, devVars, LifecycleInv, CallShape
<1>10. ASSUME NEW d \in Devices, ReuseDevice(d) \/ ResolveFails(d)
       PROVE  AddressBooks'
  BY <1>6, <1>10 DEF ReuseDevice, ResolveFails, NextDevice, devVars
<1>16. ASSUME NEW d \in Devices, MergedConfigInvalid(d)
       PROVE  AddressBooks'
  <2>1. d \in devs /\ UNCHANGED <<storeVars, claim, grant>>
    BY <1>16 DEF MergedConfigInvalid, NextDevice, devVars
  <2>2. claim \in Claims /\ d \in Results[claim]
    BY <1>1, <2>1 DEF LifecycleInv, LifecycleTypeOK, CallShape
  <2>3. PICK o \in ProfileOutcomes(claim, d) :
          allocatedIPs' = IF Request[claim].profile /\ Request[claim].subinterface
                            THEN (allocatedIPs \cup o[2]) \ o[1] ELSE allocatedIPs
    BY <1>16 DEF MergedConfigInvalid
  <2>4. o[1] = o[2] /\ o[1] \cap allocatedIPs = {}
    BY <2>2, ProfileGrants
  <2>5. UNCHANGED allocatedIPs
    BY <2>3, <2>4
  <2>6. QED
    BY <1>6, <2>1, <2>5
<1>11. CASE GetDHCP
  BY <1>6, <1>11 DEF GetDHCP, claimVars
<1>12. CASE DeviceFails
  BY <1>7, <1>12, RollbackIsExact DEF DeviceFails, NoDevInProcess, AddressBooks
<1>13. ASSUME NEW d \in Devices, ResolveDevice(d)
       PROVE  AddressBooks'
  <2>1. /\ d \in devs /\ dev = NoDevice /\ UNCHANGED <<storeVars, claim>>
    BY <1>13 DEF ResolveDevice, NextDevice
  <2>2. claim \in Claims /\ d \in Results[claim] /\ grant = {}
    BY <1>1, <2>1 DEF LifecycleInv, LifecycleTypeOK, CallShape
  <2>3. PICK o \in ProfileOutcomes(claim, d) : grant' = o[1] /\ allocatedIPs' = allocatedIPs \cup o[2]
    BY <1>13 DEF ResolveDevice
  <2>4. /\ allocatedIPs' = allocatedIPs \cup grant' /\ grant' \cap allocatedIPs = {}
        /\ grant' # {} => Request[claim].profile /\ Request[claim].subinterface
    BY <2>2, <2>3, ProfileGrants
  <2>5. grant' \subseteq Addrs
    BY <2>2, <2>3, AddressesStayTyped
  <2>6. InUseIsHeld'
    BY <1>3, <1>4, <1>5, <2>1, <2>2, <2>4
  <2>7. GrantIsFree'
    BY <1>3, <1>5, <2>1, <2>4, <2>5 DEF GrantIsFree
  <2>8. GrantFromProfile'
    BY <2>1, <2>4 DEF GrantFromProfile
  <2>9. QED
    BY <1>5, <2>1, <2>6, <2>7, <2>8 DEF AddressBooks
<1>14. ASSUME NEW written \in BOOLEAN, CommitDevice(written)
       PROVE  AddressBooks'
  <2>1. CASE ~written
    <3>1. UNCHANGED storeVars /\ allocatedIPs' = Released(Request[claim], grant) /\ grant' = {}
      BY <1>14, <2>1 DEF CommitDevice, SetDeviceConfig, NoDevInProcess, storeVars
    <3>2. QED
      BY <1>7, <3>1, RollbackIsExact DEF AddressBooks
  <2>2. CASE written
    <3>1. /\ configs' = [configs EXCEPT ![pod][dev] = CommittedConfig]
          /\ checkpoint' = [checkpoint EXCEPT ![pod][dev] = CommittedConfig]
          /\ UNCHANGED <<allocatedIPs, up>> /\ grant' = {} /\ dev # NoDevice
          /\ Request[claim].subinterface => grant # {}
      BY <1>14, <2>2 DEF CommitDevice, SetDeviceConfig, Store, NoDevInProcess, ReadyToCommit
    <3>2. View = configs /\ View' = configs'
      BY <1>2, <3>1 DEF View
    <3>3. dev \in Devices /\ claim \in Claims /\ configs[pod][dev] = NoConfig
      BY <1>1, <3>1 DEF LifecycleInv, LifecycleTypeOK, CallShape
    <3>4. /\ CommittedConfig # NoConfig
          /\ CommittedConfig.subinterface = Request[claim].subinterface
          /\ CommittedConfig.profile = Request[claim].profile
          /\ CommittedConfig.addresses = grant
      <4>1. /\ Request[claim].subinterface \in BOOLEAN /\ Request[claim].profile \in BOOLEAN
            /\ grant \in SUBSET Addrs
        BY <1>2, <3>3
      <4>2. (stage = "leased") \in BOOLEAN
        OBVIOUS
      <4>3. CommittedConfig \in DeviceConfigs
        BY <3>3, <4>1, <4>2 DEF CommittedConfig
      <4>4. QED
        BY <4>3, DeviceConfigsAssumption DEF CommittedConfig
    <3>5. configs \in [Pods -> [Devices -> DeviceConfigs \cup {NoConfig}]]
      BY DEF LifecycleInv, StoreInv, StoreTypeOK, DeviceMap
    <3>6. \A p \in Pods, d \in Devices :
            configs'[p][d] = IF p = pod /\ d = dev THEN CommittedConfig ELSE configs[p][d]
      BY <1>2, <3>1, <3>3, <3>5
    <3>7. grant # {} => Request[claim].subinterface /\ Request[claim].profile
      BY DEF AddressBooks, GrantFromProfile
    <3>8. ASSUME NEW p \in Pods, NEW d \in Devices, NEW a
          PROVE  Holds(configs, p, d, a)' <=> \/ Holds(configs, p, d, a)
                                              \/ p = pod /\ d = dev /\ a \in grant
      <4>1. CASE p = pod /\ d = dev
        BY <3>3, <3>4, <3>6, <3>7, <4>1 DEF Holds
      <4>2. CASE ~(p = pod /\ d = dev)
        BY <3>6, <4>2 DEF Holds
      <4>3. QED
        BY <4>1, <4>2
    <3>9. InUseIsHeld'
      BY <1>2, <1>3, <1>4, <3>1, <3>3, <3>8
    <3>10. GrantIsFree' /\ GrantFromProfile'
      BY <3>1 DEF GrantIsFree, GrantFromProfile
    <3>11. HeldOnce'
      <4> SUFFICES ASSUME NEW p \in Pods, NEW q \in Pods, NEW d \in Devices, NEW e \in Devices,
                          NEW a \in Addrs, Holds(configs, p, d, a)', Holds(configs, q, e, a)'
                   PROVE  p = q /\ d = e
        BY <3>2 DEF HeldOnce, Holds
      <4>1. a \in grant => \A q1 \in Pods, e1 \in Devices : ~Holds(configs, q1, e1, a)
        BY DEF AddressBooks, GrantIsFree
      <4>2. Holds(configs, p, d, a) /\ Holds(configs, q, e, a) => p = q /\ d = e
        BY <3>2 DEF AddressBooks, HeldOnce
      <4>3. QED
        BY <3>8, <4>1, <4>2
    <3>12. SubinterfaceHasProfile'
      <4>1. checkpoint \in [Pods -> [Devices -> DeviceConfigs \cup {NoConfig}]]
        BY DEF LifecycleInv, StoreInv, StoreTypeOK, DeviceMap
      <4>2. \A p \in Pods, d \in Devices :
              checkpoint'[p][d] = IF p = pod /\ d = dev THEN CommittedConfig ELSE checkpoint[p][d]
        BY <1>2, <3>1, <3>3, <4>1
      <4>3. QED
        BY <3>1, <3>4, <3>7, <4>2 DEF AddressBooks, SubinterfaceHasProfile
    <3>13. QED
      BY <3>9, <3>10, <3>11, <3>12 DEF AddressBooks
  <2>3. QED
    BY <2>1, <2>2
<1>15. QED
  BY <1>8, <1>9, <1>10, <1>11, <1>12, <1>13, <1>14, <1>16 DEF PrepareStep

LEMMA AddressesKeptByUnprepare ==
  ASSUME LifecycleInv, AddressBooks, OneClaimPerPod, UnprepareStep
  PROVE  AddressBooks'
<1> USE LifecycleAssumption
<1>1. op = "unprepare" /\ UNCHANGED <<op, devVars>>
  BY DEF UnprepareStep, UnprepareClaim, UnprepareDevice, ForgetClaim, callVars
<1>2. up /\ pod \in Pods /\ grant = {} /\ grant' = {}
  BY <1>1 DEF LifecycleInv, CallShape, devVars
<1>3. /\ View = configs
      /\ \A p \in Pods, d \in Devices : configs[p][d] # NoConfig => checkpoint[p][d] = configs[p][d]
  BY <1>2 DEF View, LifecycleInv, StoreInv, MemoryIsDurable
<1>4. GrantIsFree' /\ GrantFromProfile'
  BY <1>2 DEF GrantIsFree, GrantFromProfile
<1>5. \A a \in Addrs : a \in allocatedIPs <=>
        \E p \in Pods, d \in Devices : Holds(configs, p, d, a) /\ ~IsReleased(p, d)
  BY <1>2 DEF AddressBooks, InUseIsHeld
<1>6. ASSUME UNCHANGED storeVars
      PROVE  /\ HeldOnce' /\ SubinterfaceHasProfile'
             /\ \A p \in Pods, d \in Devices : \A a : Holds(configs, p, d, a)' <=> Holds(configs, p, d, a)
  BY <1>6 DEF AddressBooks, HeldOnce, SubinterfaceHasProfile, View, Holds, storeVars
<1>7. ASSUME NEW c \in Claims, UnprepareClaim(c)
      PROVE  AddressBooks'
  <2>1. /\ claim = NoClaim /\ claim' = c /\ devs' = StoredDevices(c)
        /\ UNCHANGED <<storeVars, allocatedIPs>>
    BY <1>7 DEF UnprepareClaim
  <2>2. ASSUME NEW p \in Pods, NEW d \in Devices, configs[p][d] # NoConfig
        PROVE  ~IsReleased(p, d) /\ ~IsReleased(p, d)'
    <3>1. ~IsReleased(p, d)
      BY <2>1, <2>2, NothingReleasedYet
    <3>2. configs[p][d].claim = c => <<p, d>> \in StoredDevices(c)
      BY <2>2 DEF StoredDevices
    <3>3. ~IsReleased(p, d)'
      BY <2>1, <3>2 DEF IsReleased, storeVars
    <3>4. QED
      BY <3>1, <3>3
  <2>3. InUseIsHeld'
    BY <1>2, <1>5, <1>6, <2>1, <2>2 DEF InUseIsHeld, Holds
  <2>4. QED
    BY <1>4, <1>6, <2>1, <2>3 DEF AddressBooks
<1>8. ASSUME NEW x \in Pods \X Devices, UnprepareDevice(x)
      PROVE  AddressBooks'
  <2>1. PICK p1 \in Pods, d1 \in Devices : x = <<p1, d1>>
    OBVIOUS
  <2>2. /\ x \in devs /\ devs' = devs \ {x} /\ UNCHANGED <<storeVars, claim>>
        /\ allocatedIPs' = Released(configs[p1][d1], configs[p1][d1].addresses)
    BY <1>8, <2>1 DEF UnprepareDevice
  <2>3. configs[p1][d1] # NoConfig /\ configs[p1][d1].claim = claim
    BY <1>1, <2>1, <2>2 DEF LifecycleInv, CallShape, StoredDevices
  <2>4. \A p \in Pods, d \in Devices :
          IsReleased(p, d)' <=> IsReleased(p, d) \/ (p = p1 /\ d = d1)
    BY <1>1, <2>1, <2>2, <2>3 DEF IsReleased, storeVars
  <2>5. configs[p1][d1].subinterface => configs[p1][d1].profile
    BY <1>3, <2>3 DEF AddressBooks, SubinterfaceHasProfile
  <2>6. \A a \in Addrs : a \in allocatedIPs' <=> a \in allocatedIPs /\ ~Holds(configs, p1, d1, a)
    BY <2>2, <2>3, <2>5 DEF Released, Holds
  <2>7. \A p \in Pods, d \in Devices, a \in Addrs :
          Holds(configs, p, d, a) /\ Holds(configs, p1, d1, a) => p = p1 /\ d = d1
    BY <1>3 DEF AddressBooks, HeldOnce
  <2>8. ASSUME NEW a \in Addrs
        PROVE  a \in allocatedIPs' <=>
                 \E p \in Pods, d \in Devices : Holds(configs, p, d, a)' /\ ~IsReleased(p, d)'
    <3>1. \A p \in Pods, d \in Devices :
            Holds(configs, p, d, a)' /\ ~IsReleased(p, d)' <=>
              Holds(configs, p, d, a) /\ ~IsReleased(p, d) /\ ~(p = p1 /\ d = d1)
      BY <1>6, <2>2, <2>4
    <3>2. CASE Holds(configs, p1, d1, a)
      BY <2>6, <2>7, <3>1, <3>2
    <3>3. CASE ~Holds(configs, p1, d1, a)
      BY <1>5, <2>6, <3>1, <3>3
    <3>4. QED
      BY <3>2, <3>3
  <2>9. InUseIsHeld'
    BY <1>2, <2>8 DEF InUseIsHeld
  <2>10. QED
    BY <1>4, <1>6, <2>2, <2>9 DEF AddressBooks
<1>9. CASE ForgetClaim
  <2>1. claim # NoClaim /\ devs = {} /\ claim' = NoClaim /\ devs' = {} /\ UNCHANGED allocatedIPs
    BY <1>9 DEF ForgetClaim
  <2>2. /\ configs' = [p \in Pods |-> IF p \in PodsOfClaim(claim) THEN NoDevices ELSE configs[p]]
        /\ \A p \in Pods : checkpoint'[p] = NoDevices \/ checkpoint'[p] = checkpoint[p]
        /\ up'
    BY <1>9 DEF ForgetClaim, DeleteClaim, Forget, DeleteBuckets
  <2>3. claim \in Claims
    BY <2>1 DEF LifecycleInv, LifecycleTypeOK
  <2>4. ASSUME NEW p \in Pods, NEW d \in Devices, configs[p][d] # NoConfig
        PROVE  p \in PodsOfClaim(claim) <=> configs[p][d].claim = claim
    <3>1. \A e \in Devices : configs[p][e] # NoConfig => configs[p][e].claim \in PodClaims[p]
      BY <1>3 DEF LifecycleInv, StoredBelongs
    <3>2. \A c, e \in PodClaims[p] : c = e
      BY DEF OneClaimPerPod
    <3>3. QED
      BY <2>4, <3>1, <3>2 DEF PodsOfClaim
  <2>5. ASSUME NEW p \in Pods, NEW d \in Devices
        PROVE  /\ configs'[p][d] # NoConfig => configs[p][d] # NoConfig /\ configs'[p][d] = configs[p][d]
               /\ configs'[p][d] # NoConfig <=>
                    configs[p][d] # NoConfig /\ p \notin PodsOfClaim(claim)
    BY <2>2 DEF NoDevices
  <2>6. ASSUME NEW p \in Pods, NEW d \in Devices, NEW a
        PROVE  Holds(configs, p, d, a)' <=> Holds(configs, p, d, a) /\ ~IsReleased(p, d)
    BY <1>1, <2>1, <2>4, <2>5 DEF Holds, IsReleased
  <2>7. ASSUME NEW p \in Pods, NEW d \in Devices, configs'[p][d] # NoConfig
        PROVE  ~IsReleased(p, d)'
    <3>1. configs[p][d] \in DeviceConfigs /\ configs'[p][d] = configs[p][d]
      BY <2>5, <2>7 DEF LifecycleInv, StoreInv, StoreTypeOK, DeviceMap
    <3>2. configs'[p][d].claim # NoClaim
      BY <3>1
    <3>3. QED
      BY <2>1, <3>2 DEF IsReleased
  <2>8. InUseIsHeld'
    BY <1>2, <1>5, <2>1, <2>6, <2>7 DEF InUseIsHeld, Holds
  <2>9. View' = configs'
    BY <2>2 DEF View
  <2>10. HeldOnce'
    BY <1>3, <2>6, <2>9 DEF AddressBooks, HeldOnce, Holds
  <2>11. SubinterfaceHasProfile'
    BY <2>2 DEF AddressBooks, SubinterfaceHasProfile, NoDevices
  <2>12. QED
    BY <1>4, <2>8, <2>10, <2>11 DEF AddressBooks
<1>10. QED
  BY <1>7, <1>8, <1>9 DEF UnprepareStep

\* Neither a crash nor a failed deletion is undone.
LEMMA RevivedStays ==
  ASSUME LifecycleInv, [Next]_vars, NothingRevived'
  PROVE  NothingRevived
<1>1. undeleted \subseteq undeleted' /\ (crashes' = crashes \/ crashes' = crashes + 1)
  <2>1. CASE KubeletStep \/ ReplyStep
    BY <2>1 DEF KubeletStep, ReplyStep, PodArrives, PodDeleted, PodGone, KubeletRestart, StartPrepare,
                StartUnprepare, FinishPrepare, FinishUnprepare, ReplyLost, CallStarts, CallEnds
  <2>2. CASE PrepareStep
    BY <2>2 DEF PrepareStep, RejectClaim, PrepareClaim, ClaimPrepared, ReuseDevice, ResolveDevice,
                ResolveFails, MergedConfigInvalid, DeviceFails, GetDHCP, CommitDevice
  <2>3. CASE UnprepareStep
    BY <2>3 DEF UnprepareStep, UnprepareClaim, UnprepareDevice, ForgetClaim
  <2>4. CASE DriverCrash \/ DriverStart
    BY <2>4 DEF DriverCrash, DriverStart
  <2>5. CASE AllGone \/ UNCHANGED vars
    BY <2>5 DEF AllGone, vars
  <2>6. QED
    BY <2>1, <2>2, <2>3, <2>4, <2>5 DEF Next
<1>2. QED
  BY <1>1, LifecycleAssumption DEF NothingRevived, LifecycleInv, LifecycleTypeOK

LEMMA AddressInvariant ==
  ASSUME OneClaimPerPod, AddressesFromProfile
  PROVE  Spec => []AddressInv
<1>1. Init => AddressInv
  BY DEF Init, CallInit, StoreInit, AddressInv, AddressBooks, View, InUseIsHeld, GrantIsFree, GrantFromProfile, HeldOnce,
         SubinterfaceHasProfile, Holds, NoPods, NoDevices
<1>2. LifecycleInv /\ ForgetInv /\ AddressInv /\ [Next]_vars => AddressInv'
  <2> SUFFICES ASSUME LifecycleInv, ForgetInv, AddressInv, [Next]_vars, NothingRevived'
               PROVE  AddressBooks'
    BY DEF AddressInv
  <2>6. NothingRevived /\ AddressBooks
    BY RevivedStays DEF AddressInv
  <2>1. CASE DriverCrash
    <3>1. up /\ ~up' /\ UNCHANGED <<checkpoint, undeleted>> /\ grant' = {} /\ crashes' = crashes + 1
      BY <2>1 DEF DriverCrash, Crash, NoDevInProcess
    <3>2. undeleted = {}
      BY <3>1, LifecycleAssumption DEF NothingRevived, LifecycleInv, LifecycleTypeOK
    <3>3. \A p \in Pods : configs[p] = checkpoint[p]
      BY <3>1, <3>2 DEF ForgetInv, NoResidue
    <3>4. \A p \in Pods, d \in Devices : \A a : Holds(View, p, d, a)' <=> Holds(View, p, d, a)
      BY <3>1, <3>3 DEF View, Holds
    <3>5. HeldOnce'
      BY <2>6, <3>4 DEF AddressBooks, HeldOnce
    <3>6. QED
      BY <2>6, <3>1, <3>5 DEF AddressBooks, InUseIsHeld, GrantIsFree, GrantFromProfile, SubinterfaceHasProfile
  <2>2. CASE DriverStart
    <3>1. /\ ~up /\ configs' = checkpoint /\ UNCHANGED <<checkpoint, callVars, claimVars, devVars>>
          /\ allocatedIPs' = InUseSubinterfaceIPs(checkpoint)
      BY <2>2 DEF DriverStart, NewPodConfigStore, GetOrCreate
    <3>2. op = "idle" /\ op' = "idle" /\ grant' = {}
      BY <3>1 DEF LifecycleInv, CallShape, callVars, devVars
    <3>3. InUseIsHeld'
      <4>1. \A a : a \in allocatedIPs' <=> \E p \in Pods, d \in Devices : Holds(checkpoint, p, d, a)
        BY <3>1, InUseIsHolding
      <4>2. \A p \in Pods, d \in Devices : \A a : Holds(configs, p, d, a)' <=> Holds(checkpoint, p, d, a)
        BY <3>1 DEF Holds
      <4>3. QED
        BY <3>2, <4>1, <4>2 DEF InUseIsHeld, IsReleased
    <3>4. View = checkpoint /\ View' = checkpoint
      BY <2>2 DEF View, DriverStart, NewPodConfigStore, GetOrCreate
    <3>5. HeldOnce' /\ SubinterfaceHasProfile'
      BY <2>6, <3>1, <3>4 DEF AddressBooks, HeldOnce, SubinterfaceHasProfile, Holds
    <3>6. QED
      BY <3>2, <3>3, <3>5 DEF AddressBooks, GrantIsFree, GrantFromProfile
  <2>3. CASE AllGone \/ UNCHANGED vars
    <3>1. UNCHANGED vars
      BY <2>3 DEF AllGone
    <3>2. UNCHANGED <<configs, checkpoint, up, op, claim, devs, grant, allocatedIPs>>
      BY <3>1 DEF vars, storeVars, callVars, claimVars, devVars
    <3>3. \A p \in Pods, d \in Devices : /\ IsReleased(p, d)' <=> IsReleased(p, d)
                                         /\ \A a : Holds(configs, p, d, a)' <=> Holds(configs, p, d, a)
      BY <3>2 DEF IsReleased, Holds
    <3>4. InUseIsHeld' /\ GrantIsFree'
      BY <2>6, <3>2, <3>3 DEF AddressBooks, InUseIsHeld, GrantIsFree
    <3>5. GrantFromProfile' /\ HeldOnce' /\ SubinterfaceHasProfile'
      BY <2>6, <3>2 DEF AddressBooks, GrantFromProfile, HeldOnce, SubinterfaceHasProfile, View, Holds
    <3>6. QED
      BY <3>4, <3>5 DEF AddressBooks
  <2>4. QED
    BY <2>1, <2>2, <2>3, <2>6, AddressesKeptByKubelet, AddressesKeptByPrepare, AddressesKeptByUnprepare DEF Next
<1>3. QED
  BY <1>1, <1>2, LifecycleInvariant, ForgetInvariant, PTL DEF Spec

\* When pods have one claim and addresses come from profiles, the addresses marked
\* as in use are, outside an unprepare, exactly those of the stored subinterfaces
\* and of the device being prepared: whatever fails, is retried or crashes,
\* prepareDevice's deferred release and unprepareResourceClaim leak no address and
\* free none in use, until a restart revives what a failed deletion left on disk.
THEOREM AddressesAlwaysMatchStore ==
  ASSUME OneClaimPerPod, AddressesFromProfile
  PROVE  Spec => []AddressesMatchStore
<1>1. LifecycleInv /\ AddressInv => AddressesMatchStore
  <2> SUFFICES ASSUME LifecycleInv, AddressBooks, up, op # "unprepare"
               PROVE  allocatedIPs = InUseSubinterfaceIPs(configs) \cup grant
    BY DEF AddressesMatchStore, AddressInv
  <2>1. \A a \in Addrs : a \in allocatedIPs <=> a \in grant \/ a \in InUseSubinterfaceIPs(configs)
    <3> TAKE a \in Addrs
    <3>1. a \in InUseSubinterfaceIPs(configs) <=> \E p \in Pods, d \in Devices : Holds(configs, p, d, a)
      BY InUseIsHolding
    <3>2. QED
      BY <3>1 DEF AddressBooks, InUseIsHeld, IsReleased
  <2>2. allocatedIPs \subseteq Addrs /\ grant \subseteq Addrs
    BY DEF LifecycleInv, LifecycleTypeOK
  <2>3. InUseSubinterfaceIPs(configs) \subseteq Addrs
    <3> SUFFICES ASSUME NEW a \in InUseSubinterfaceIPs(configs) PROVE a \in Addrs
      OBVIOUS
    <3>1. PICK p \in Pods, d \in Devices : Holds(configs, p, d, a)
      BY InUseIsHolding
    <3>2. configs[p][d] \in DeviceConfigs
      BY <3>1 DEF Holds, LifecycleInv, StoreInv, StoreTypeOK, DeviceMap
    <3>3. QED
      BY <3>1, <3>2, LifecycleAssumption DEF Holds
  <2>4. QED
    BY <2>1, <2>2, <2>3
<1>2. QED
  BY <1>1, AddressInvariant, LifecycleInvariant, PTL

\* Under the same conditions no two configured subinterfaces ever have the same
\* address, crashes and restarts of the driver included.
THEOREM AddressesNeverShared ==
  ASSUME OneClaimPerPod, AddressesFromProfile
  PROVE  Spec => []NoSharedAddress
<1>1. LifecycleInv /\ AddressInv => NoSharedAddress
  <2> SUFFICES ASSUME LifecycleInv, AddressBooks, NEW x \in Stored(configs), NEW y \in Stored(configs),
                      configs[x[1]][x[2]].subinterface, configs[y[1]][y[2]].subinterface,
                      NEW a \in configs[x[1]][x[2]].addresses, a \in configs[y[1]][y[2]].addresses
               PROVE  x = y
    BY DEF NoSharedAddress, AddressInv
  <2>1. PICK p \in Pods, d \in Devices : x = <<p, d>>
    BY DEF Stored
  <2>2. PICK q \in Pods, e \in Devices : y = <<q, e>>
    BY DEF Stored
  <2>3. Holds(configs, p, d, a) /\ Holds(configs, q, e, a)
    BY <2>1, <2>2 DEF Stored, Holds
  <2>4. configs[p][d] \in DeviceConfigs
    BY <2>3 DEF Holds, LifecycleInv, StoreInv, StoreTypeOK, DeviceMap
  <2>5. a \in Addrs
    BY <2>3, <2>4, LifecycleAssumption DEF Holds
  <2>6. Holds(View, p, d, a) /\ Holds(View, q, e, a)
    BY <2>3 DEF View, Holds, LifecycleInv, StoreInv, MemoryIsDurable
  <2>7. p = q /\ d = e
    BY <2>5, <2>6 DEF AddressBooks, HeldOnce
  <2>8. QED
    BY <2>1, <2>2, <2>7
<1>2. QED
  BY <1>1, AddressInvariant, LifecycleInvariant, PTL
=============================================================================

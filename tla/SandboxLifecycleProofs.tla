----------------------- MODULE SandboxLifecycleProofs -----------------------
(***************************************************************************)
(* The NRI hooks of a pod, for any number of attempts and any devices:     *)
(* returned RDMA links are seen; and when the names of different devices   *)
(* differ, netdevs come home and an accepted sandbox has all its devices,  *)
(* but for the exceptions that the properties name.                        *)
(***************************************************************************)
EXTENDS SandboxLifecycle, TLAPS

\* A running hook works on a sandbox; RunPodSandbox works on the one that is
\* starting, while none is ready.
HookHasNamespace ==
  /\ hook # "none" => ns \in Sandboxes
  /\ hook = "run" =>
       /\ sandbox[ns] = "starting"
       /\ \A s \in Sandboxes : sandbox[s] # "ready"

\* A link that StopPodSandbox returned stays at the host until it is attached.
ReturnedAtHost ==
  \A d \in returned : rdmaAt[d] = Host

\* What keeps a returned link from being forgotten: the last scan saw it, a scan
\* is due, or the hook will ask for one, now or when it is done with the device.
RescanIsOwed ==
  \A d \in returned :
    \/ d \in inventory \/ dirty
    \/ hook = "stop" /\ (needsRescan \/ (rdmaDetached /\ cur = d))

SandboxInv ==
  /\ SandboxTypeOK
  /\ HookHasNamespace
  /\ ReturnedAtHost
  /\ RescanIsOwed

LEMMA InitSandboxInv == Init => SandboxInv
<1> SUFFICES ASSUME Init PROVE SandboxInv
  OBVIOUS
<1>1. sandbox \in [Sandboxes -> {"none", "starting", "ready", "failed", "stopped", "removed"}]
  BY DEF Init
<1>2. name \in [Devices -> Names]
  BY DeviceKindsAssumption DEF Init, Names
<1>3. at \in [Devices -> Sandboxes \cup {Host}] /\ rdmaAt \in [Devices -> Sandboxes \cup {Host}]
  BY DEF Init
<1>4. SandboxTypeOK
  BY <1>1, <1>2, <1>3, Zenon DEF Init, SandboxTypeOK
<1>5. HookHasNamespace /\ ReturnedAtHost /\ RescanIsOwed
  BY DEF Init, HookHasNamespace, ReturnedAtHost, RescanIsOwed
<1>6. QED
  BY <1>4, <1>5 DEF SandboxInv

\* The steps of RunPodSandbox.
LEMMA RunStepsKeep ==
  ASSUME SandboxInv,
         \/ \E s \in Sandboxes : RunPodSandbox(s)
         \/ \E d \in Devices : \/ AttachNetdev(d) \/ AttachNetdevFails(d) \/ AttachNetdevStrands(d)
                               \/ CreateSubinterface(d) \/ CreateSubinterfaceFails(d) \/ SkipNetdev(d)
         \/ AttachRdma \/ AttachRdmaFails \/ RunSucceeds
  PROVE  SandboxInv'
<1> USE DeviceKindsAssumption DEF SandboxInv
<1>1. ASSUME NEW s \in Sandboxes, RunPodSandbox(s)
      PROVE  SandboxInv'
  <2>1. SandboxTypeOK'
    BY <1>1 DEF RunPodSandbox, SandboxTypeOK, netVars, invVars, histVars
  <2>2. HookHasNamespace' /\ ReturnedAtHost' /\ RescanIsOwed'
    BY <1>1 DEF RunPodSandbox, SandboxTypeOK, HookHasNamespace, ReturnedAtHost, RescanIsOwed, netVars, invVars
  <2>3. QED
    BY <2>1, <2>2
<1>2. ASSUME NEW d \in Devices, AttachNetdev(d)
      PROVE  SandboxInv'
  <2>1. PICK e \in LinkByName(Host, HostName[d]) :
          /\ at' = [at EXCEPT ![e] = ns] /\ name' = [name EXCEPT ![e] = PodName[d]]
          /\ abandoned' = abandoned \ {e}
    BY <1>2 DEF AttachNetdev
  <2>2. /\ hook = "run" /\ ns \in Sandboxes /\ left' = left \ {d} /\ cur' = d /\ dirty' = TRUE
        /\ UNCHANGED <<sandbox, rdmaAt, children, netNS, hook, ns, rdmaDetached, needsRescan, inventory, returned,
                       misdirected>>
    BY <1>2 DEF AttachNetdev, AtDevice, NetdevBlockDone, HookHasNamespace
  <2>3. at' \in [Devices -> Sandboxes \cup {Host}] /\ name' \in [Devices -> Names]
    BY <2>1, <2>2 DEF SandboxTypeOK, Names
  <2>4. SandboxTypeOK'
    BY <2>1, <2>2, <2>3, Zenon DEF SandboxTypeOK
  <2>5. HookHasNamespace' /\ ReturnedAtHost' /\ RescanIsOwed'
    BY <2>2 DEF HookHasNamespace, ReturnedAtHost, RescanIsOwed
  <2>6. QED
    BY <2>4, <2>5
<1>3. ASSUME NEW d \in Devices, AttachNetdevStrands(d)
      PROVE  SandboxInv'
  <2>1. PICK e \in LinkByName(Host, HostName[d]) :
          at' = [at EXCEPT ![e] = ns] /\ name' = [name EXCEPT ![e] = PodName[d]]
    BY <1>3 DEF AttachNetdevStrands
  <2>2. /\ hook = "run" /\ ns \in Sandboxes /\ sandbox' = [sandbox EXCEPT ![ns] = "failed"]
        /\ hook' = "none" /\ ns' = NoNS /\ left' = {} /\ cur' = NoDevice /\ dirty' = TRUE
        /\ abandoned' \subseteq abandoned \cup Netdev
        /\ UNCHANGED <<rdmaAt, children, netNS, rdmaDetached, needsRescan, inventory, returned, misdirected>>
    BY <1>3 DEF AttachNetdevStrands, AtDevice, RunReturns, HookHasNamespace
  <2>3. at' \in [Devices -> Sandboxes \cup {Host}] /\ name' \in [Devices -> Names]
    BY <2>1, <2>2 DEF SandboxTypeOK, Names
  <2>4. sandbox' \in [Sandboxes -> {"none", "starting", "ready", "failed", "stopped", "removed"}]
    BY <2>2 DEF SandboxTypeOK
  <2>5. SandboxTypeOK'
    BY <2>2, <2>3, <2>4, Zenon DEF SandboxTypeOK
  <2>6. HookHasNamespace' /\ ReturnedAtHost' /\ RescanIsOwed'
    BY <2>2 DEF HookHasNamespace, ReturnedAtHost, RescanIsOwed
  <2>7. QED
    BY <2>5, <2>6
<1>4. ASSUME NEW result \in {"failed", "ready"}, RunReturns(result), hook = "run",
             UNCHANGED <<at, name, rdmaAt, invVars>>, children' \subseteq Sandboxes \X Sub
      PROVE  SandboxInv'
  <2>1. /\ ns \in Sandboxes /\ sandbox' = [sandbox EXCEPT ![ns] = result]
        /\ hook' = "none" /\ ns' = NoNS /\ left' = {} /\ cur' = NoDevice
        /\ abandoned' \subseteq abandoned \cup Netdev
        /\ UNCHANGED <<netNS, rdmaDetached, needsRescan, dirty, inventory, returned, misdirected>>
    BY <1>4 DEF RunReturns, HookHasNamespace, invVars
  <2>2. sandbox' \in [Sandboxes -> {"none", "starting", "ready", "failed", "stopped", "removed"}]
    BY <2>1, <1>4 DEF SandboxTypeOK
  <2>3. SandboxTypeOK'
    BY <1>4, <2>1, <2>2, Zenon DEF SandboxTypeOK
  <2>4. HookHasNamespace' /\ ReturnedAtHost' /\ RescanIsOwed'
    BY <1>4, <2>1 DEF HookHasNamespace, ReturnedAtHost, RescanIsOwed
  <2>5. QED
    BY <2>3, <2>4
<1>5. ASSUME NEW d \in Devices, AttachNetdevFails(d) \/ CreateSubinterfaceFails(d)
      PROVE  SandboxInv'
  <2>1. hook = "run" /\ RunReturns("failed") /\ UNCHANGED <<at, name, rdmaAt, invVars>>
    BY <1>5 DEF AttachNetdevFails, CreateSubinterfaceFails, AtDevice, netVars
  <2>2. children' \subseteq Sandboxes \X Sub
    BY <1>5, <2>1 DEF AttachNetdevFails, CreateSubinterfaceFails, netVars, SandboxTypeOK, HookHasNamespace
  <2>3. QED
    BY <1>4, <2>1, <2>2
<1>6. ASSUME NEW d \in Devices, CreateSubinterface(d) \/ SkipNetdev(d)
      PROVE  SandboxInv'
  <2>1. /\ hook = "run" /\ ns \in Sandboxes /\ left' = left \ {d} /\ cur' = d
        /\ UNCHANGED <<sandbox, at, name, rdmaAt, netNS, hook, ns, rdmaDetached, needsRescan,
                       dirty, inventory, returned, abandoned, misdirected>>
    BY <1>6 DEF CreateSubinterface, SkipNetdev, AtDevice, NetdevBlockDone, HookHasNamespace, netVars, invVars
  <2>2. children' \subseteq Sandboxes \X Sub
    BY <1>6, <2>1 DEF CreateSubinterface, SkipNetdev, netVars, SandboxTypeOK
  <2>3. SandboxTypeOK'
    BY <2>1, <2>2, Zenon DEF SandboxTypeOK
  <2>4. HookHasNamespace' /\ ReturnedAtHost' /\ RescanIsOwed'
    BY <2>1 DEF HookHasNamespace, ReturnedAtHost, RescanIsOwed
  <2>5. QED
    BY <2>3, <2>4
<1>7. CASE AttachRdma
  <2>1. /\ hook = "run" /\ ns \in Sandboxes /\ cur \in Devices /\ cur' = NoDevice
        /\ rdmaAt' = IF cur \in Rdma THEN [rdmaAt EXCEPT ![cur] = ns] ELSE rdmaAt
        /\ returned' = returned \ {cur}
        /\ UNCHANGED <<sandbox, at, name, children, netNS, hook, ns, left, rdmaDetached,
                       needsRescan, dirty, inventory, abandoned, misdirected>>
    BY <1>7 DEF AttachRdma, histVars, HookHasNamespace, SandboxTypeOK
  <2>2. rdmaAt' \in [Devices -> Sandboxes \cup {Host}]
    BY <2>1 DEF SandboxTypeOK
  <2>3. SandboxTypeOK'
    BY <2>1, <2>2, Zenon DEF SandboxTypeOK
  <2>4. HookHasNamespace' /\ RescanIsOwed'
    BY <2>1 DEF HookHasNamespace, RescanIsOwed
  <2>5. ReturnedAtHost'
    BY <2>1 DEF ReturnedAtHost, SandboxTypeOK
  <2>6. QED
    BY <2>3, <2>4, <2>5
<1>8. CASE AttachRdmaFails
  BY <1>4, <1>8 DEF AttachRdmaFails, netVars, SandboxTypeOK
<1>9. CASE RunSucceeds
  BY <1>4, <1>9 DEF RunSucceeds, netVars, SandboxTypeOK
<1>10. QED
  BY <1>1, <1>2, <1>3, <1>5, <1>6, <1>7, <1>8, <1>9

\* The steps of StopPodSandbox.
LEMMA StopStepsKeep ==
  ASSUME SandboxInv,
         \/ \E s \in Sandboxes, sent \in NsSent : StopPodSandbox(s, sent)
         \/ \E d \in Devices : DetachRdma(d) \/ DetachRdmaFails(d)
         \/ DetachNetdev \/ DetachNetdevFails \/ DeleteSubinterface \/ StopReturns
  PROVE  SandboxInv'
<1> USE DeviceKindsAssumption DEF SandboxInv
<1>1. ASSUME NEW s \in Sandboxes, NEW sent \in NsSent, StopPodSandbox(s, sent)
      PROVE  SandboxInv'
  <2> DEFINE target == IF sent THEN s ELSE netNS
  <2>1. /\ hook = "none" /\ needsRescan' = FALSE
        /\ sandbox' = IF sandbox[s] = "ready" THEN [sandbox EXCEPT ![s] = "stopped"] ELSE sandbox
        /\ IF target = NoNS THEN UNCHANGED <<hook, ns, left>>
                            ELSE hook' = "stop" /\ ns' = target /\ left' = Devices
        /\ misdirected' = misdirected \cup ({target} \ {s, NoNS})
        /\ abandoned' = abandoned \cup {d \in Netdev : target # s /\ at[d] = s}
        /\ UNCHANGED <<at, name, rdmaAt, children, netNS, cur, rdmaDetached, dirty, inventory, returned>>
    BY <1>1, Zenon DEF StopPodSandbox, netVars, invVars
  <2>2. target \in Sandboxes \cup {NoNS}
    BY DEF SandboxTypeOK
  <2>3. sandbox' \in [Sandboxes -> {"none", "starting", "ready", "failed", "stopped", "removed"}]
    BY <2>1 DEF SandboxTypeOK
  <2>4. /\ hook' \in {"none", "stop"} /\ ns' \in Sandboxes \cup {NoNS} /\ left' \subseteq Devices
        /\ hook' # "none" => ns' \in Sandboxes
        /\ abandoned' \subseteq Netdev /\ misdirected' \subseteq Sandboxes
    BY <2>1, <2>2 DEF SandboxTypeOK
  <2>5. SandboxTypeOK'
    BY <2>1, <2>3, <2>4, Zenon DEF SandboxTypeOK
  <2>6. HookHasNamespace' /\ ReturnedAtHost' /\ RescanIsOwed'
    BY <2>1, <2>4 DEF HookHasNamespace, ReturnedAtHost, RescanIsOwed
  <2>7. QED
    BY <2>5, <2>6
<1>2. ASSUME NEW d \in Devices, DetachRdma(d)
      PROVE  SandboxInv'
  <2>1. /\ hook = "stop" /\ cur = NoDevice /\ d \in Rdma
        /\ rdmaAt' = [rdmaAt EXCEPT ![d] = Host] /\ returned' = returned \cup {d}
        /\ rdmaDetached' = TRUE /\ left' = left \ {d} /\ cur' = d
        /\ UNCHANGED <<sandbox, at, name, children, netNS, hook, ns, needsRescan, dirty, inventory,
                       abandoned, misdirected>>
    BY <1>2 DEF DetachRdma, histVars
  <2>2. rdmaAt' \in [Devices -> Sandboxes \cup {Host}]
    BY <2>1 DEF SandboxTypeOK
  <2>3. SandboxTypeOK'
    BY <2>1, <2>2, Zenon DEF SandboxTypeOK
  <2>4. HookHasNamespace'
    BY <2>1 DEF HookHasNamespace
  <2>5. ReturnedAtHost' /\ RescanIsOwed'
    BY <2>1 DEF ReturnedAtHost, RescanIsOwed, SandboxTypeOK
  <2>6. QED
    BY <2>3, <2>4, <2>5
<1>3. ASSUME NEW d \in Devices, DetachRdmaFails(d)
      PROVE  SandboxInv'
  <2>1. /\ hook = "stop" /\ cur = NoDevice
        /\ rdmaDetached' = FALSE /\ left' = left \ {d} /\ cur' = d
        /\ UNCHANGED <<sandbox, at, name, rdmaAt, children, netNS, hook, ns, needsRescan, dirty, inventory, returned,
                       abandoned, misdirected>>
    BY <1>3 DEF DetachRdmaFails, netVars, invVars, histVars
  <2>2. SandboxTypeOK'
    BY <2>1, Zenon DEF SandboxTypeOK
  <2>3. HookHasNamespace' /\ ReturnedAtHost'
    BY <2>1 DEF HookHasNamespace, ReturnedAtHost
  <2>4. RescanIsOwed'
    BY <2>1 DEF RescanIsOwed, SandboxTypeOK
  <2>5. QED
    BY <2>2, <2>3, <2>4
<1>4. ASSUME NEW detached \in BOOLEAN, DeviceStopped(detached), hook = "stop",
             at' \in [Devices -> Sandboxes \cup {Host}], name' \in [Devices -> Names],
             children' \subseteq Sandboxes \X Sub, abandoned' \subseteq Netdev,
             dirty' = (dirty \/ detached)
      PROVE  SandboxInv'
  <2>1. /\ needsRescan' = (needsRescan \/ (rdmaDetached /\ ~detached)) /\ cur' = NoDevice
        /\ UNCHANGED <<sandbox, rdmaAt, netNS, hook, ns, left, rdmaDetached, inventory, returned,
                       misdirected>>
    BY <1>4 DEF DeviceStopped, NeedsRescanAfterDetach
  <2>2. needsRescan' \in BOOLEAN /\ dirty' \in BOOLEAN
    BY <2>1, <1>4, Zenon
  <2>3. SandboxTypeOK'
    BY <1>4, <2>1, <2>2, Zenon DEF SandboxTypeOK
  <2>4. HookHasNamespace' /\ ReturnedAtHost'
    BY <2>1 DEF HookHasNamespace, ReturnedAtHost
  <2>5. RescanIsOwed'
    BY <1>4, <2>1 DEF RescanIsOwed
  <2>6. QED
    BY <2>3, <2>4, <2>5
<1>5. ASSUME NEW e \in Netdev \cup Sub, cur \in Devices,
             at' = [at EXCEPT ![e] = Host], name' = [name EXCEPT ![e] = HostName[cur]]
      PROVE  at' \in [Devices -> Sandboxes \cup {Host}] /\ name' \in [Devices -> Names]
  BY <1>5 DEF SandboxTypeOK, Names
<1>6. CASE DetachNetdev
  <2>1. at' \in [Devices -> Sandboxes \cup {Host}] /\ name' \in [Devices -> Names]
    BY <1>5, <1>6 DEF DetachNetdev, LinkByName
  <2>a. abandoned' \subseteq Netdev
    BY <1>6 DEF DetachNetdev, SandboxTypeOK
  <2>2. dirty' = (dirty \/ TRUE) /\ DeviceStopped(TRUE) /\ hook = "stop" /\ UNCHANGED children
    BY <1>6, Zenon DEF DetachNetdev
  <2>3. QED
    BY <1>4, <2>1, <2>2, <2>a DEF SandboxTypeOK
<1>7. CASE DetachNetdevFails
  <2>1. at' \in [Devices -> Sandboxes \cup {Host}] /\ name' \in [Devices -> Names]
    BY <1>5, <1>7 DEF DetachNetdevFails, LinkByName, SandboxTypeOK
  <2>a. abandoned' \subseteq Netdev
    BY <1>7 DEF DetachNetdevFails, SandboxTypeOK
  <2>2. dirty' = (dirty \/ FALSE) /\ DeviceStopped(FALSE) /\ hook = "stop" /\ UNCHANGED children
    BY <1>7, Zenon DEF DetachNetdevFails, SandboxTypeOK
  <2>3. QED
    BY <1>4, <2>1, <2>2, <2>a DEF SandboxTypeOK
<1>8. CASE DeleteSubinterface
  <2>1. dirty' = (dirty \/ FALSE) /\ DeviceStopped(FALSE) /\ hook = "stop" /\ UNCHANGED <<at, name, abandoned>>
    BY <1>8, Zenon DEF DeleteSubinterface, SandboxTypeOK
  <2>2. children' \subseteq Sandboxes \X Sub
    BY <1>8 DEF DeleteSubinterface, SandboxTypeOK
  <2>3. QED
    BY <1>4, <2>1, <2>2 DEF SandboxTypeOK
<1>9. CASE StopReturns
  <2>1. /\ hook = "stop" /\ cur = NoDevice /\ dirty' = (dirty \/ needsRescan)
        /\ hook' = "none" /\ ns' = NoNS
        /\ UNCHANGED <<sandbox, at, name, rdmaAt, children, netNS, left, cur, rdmaDetached, needsRescan,
                       inventory, returned, abandoned, misdirected>>
    BY <1>9 DEF StopReturns, netVars, histVars
  <2>2. SandboxTypeOK'
    BY <2>1, Zenon DEF SandboxTypeOK
  <2>3. HookHasNamespace' /\ ReturnedAtHost'
    BY <2>1 DEF HookHasNamespace, ReturnedAtHost
  <2>4. RescanIsOwed'
    BY <2>1 DEF RescanIsOwed, SandboxTypeOK
  <2>5. QED
    BY <2>2, <2>3, <2>4
<1>10. QED
  BY <1>1, <1>2, <1>3, <1>6, <1>7, <1>8, <1>9

\* The kernel, the inventory and restarts.
LEMMA WorldStepsKeep ==
  ASSUME SandboxInv,
         (\E s \in Sandboxes : NetnsDestroyed(s)) \/ Scan \/ Synchronize
  PROVE  SandboxInv'
<1> USE DeviceKindsAssumption DEF SandboxInv
<1>1. ASSUME NEW s \in Sandboxes, NetnsDestroyed(s)
      PROVE  SandboxInv'
  <2>1. /\ sandbox[s] \in {"failed", "stopped"} /\ ns # s
        /\ sandbox' = [sandbox EXCEPT ![s] = "removed"]
        /\ at' = [d \in Devices |-> IF at[d] = s THEN Host ELSE at[d]]
        /\ rdmaAt' = [d \in Devices |-> IF rdmaAt[d] = s THEN Host ELSE rdmaAt[d]]
        /\ children' \subseteq children
        /\ dirty' = (dirty \/ \E d \in Netdev : at[d] = s)
        /\ UNCHANGED <<netNS, hook, ns, left, cur, rdmaDetached, needsRescan, inventory, returned,
                       abandoned, misdirected>>
    BY <1>1 DEF NetnsDestroyed, hookVars, histVars
  <2>2. at' \in [Devices -> Sandboxes \cup {Host}] /\ rdmaAt' \in [Devices -> Sandboxes \cup {Host}]
    BY <2>1 DEF SandboxTypeOK
  <2>3. name' \in [Devices -> Names]
    BY <1>1 DEF NetnsDestroyed, SandboxTypeOK, Names
  <2>4. sandbox' \in [Sandboxes -> {"none", "starting", "ready", "failed", "stopped", "removed"}]
    BY <2>1 DEF SandboxTypeOK
  <2>5. SandboxTypeOK'
    BY <2>1, <2>2, <2>3, <2>4, Zenon DEF SandboxTypeOK
  <2>6. HookHasNamespace'
    BY <2>1 DEF HookHasNamespace, SandboxTypeOK
  <2>7. ReturnedAtHost'
    BY <2>1 DEF ReturnedAtHost, SandboxTypeOK
  <2>8. RescanIsOwed'
    BY <2>1 DEF RescanIsOwed
  <2>9. QED
    BY <2>5, <2>6, <2>7, <2>8
<1>2. CASE Scan
  BY <1>2 DEF Scan, SandboxTypeOK, HookHasNamespace, ReturnedAtHost, RescanIsOwed, netVars, hookVars, histVars
<1>3. CASE Synchronize
  <2>1. netNS' \in Sandboxes \cup {NoNS}
    BY <1>3 DEF Synchronize
  <2>2. SandboxTypeOK'
    BY <1>3, <2>1 DEF Synchronize, SandboxTypeOK, netVars, hookVars, histVars
  <2>3. HookHasNamespace' /\ ReturnedAtHost' /\ RescanIsOwed'
    BY <1>3 DEF Synchronize, HookHasNamespace, ReturnedAtHost, RescanIsOwed, netVars, hookVars
  <2>4. QED
    BY <2>2, <2>3
<1>4. QED
  BY <1>1, <1>2, <1>3

\* The invariant holds in every behaviour.
THEOREM SandboxInvariant == Spec => []SandboxInv
<1>1. SandboxInv /\ UNCHANGED vars => SandboxInv'
  BY DEF SandboxInv, SandboxTypeOK, HookHasNamespace, ReturnedAtHost, RescanIsOwed,
         vars, netVars, hookVars, invVars, histVars
<1>2. SandboxInv /\ [Next]_vars => SandboxInv'
  BY <1>1, RunStepsKeep, StopStepsKeep, WorldStepsKeep DEF Next
<1>3. QED
  BY InitSandboxInv, <1>2, PTL DEF Spec

\* The hooks keep the types of their state and of the kernel's.
THEOREM SandboxTypeCorrect == Spec => []SandboxTypeOK
<1>1. SandboxInv => SandboxTypeOK
  BY DEF SandboxInv
<1>2. QED
  BY SandboxInvariant, <1>1, PTL

\* A scan of the inventory sees every RDMA link that StopPodSandbox returned, or
\* is due, whichever of the netdev detach and the links' moves failed.
THEOREM ReturnedRdmaAlwaysSeen == Spec => []ReturnedRdmaIsSeen
<1>1. SandboxInv => ReturnedRdmaIsSeen
  BY DEF SandboxInv, RescanIsOwed, ReturnedRdmaIsSeen
<1>2. QED
  BY SandboxInvariant, <1>1, PTL

-----------------------------------------------------------------------------
(* Where the devices are, when no two of them can have the same name.      *)

NamesOf(d) == {HostName[d], PodName[d], Fallback[d]}

\* The host, pod and fallback names of different devices differ.
NamesApart ==
  \A d, e \in Netdev \cup Sub : NamesOf(d) \cap NamesOf(e) # {} => d = e

\* At the host, under the host name or, once abandoned, the pod's.
AtHome(d) ==
  /\ at[d] = Host
  /\ name[d] = HostName[d] \/ (d \in abandoned /\ name[d] = PodName[d])

\* Why a netdev is in a namespace: its sandbox is starting or runs, a hook left
\* it there, or StopPodSandbox is about to return it.
Accounted(d) ==
  \/ sandbox[at[d]] \in {"starting", "ready"}
  \/ d \in abandoned
  \/ hook = "stop" /\ ns = at[d] /\ (d \in left \/ d = cur)

InPod(d) ==
  /\ at[d] \in Sandboxes /\ Exists(at[d]) /\ name[d] = PodName[d]
  /\ Accounted(d)

\* Parents of subinterfaces never move; netdevs are at home or in a pod.
HomeInv ==
  /\ \A d \in Sub : at[d] = Host /\ name[d] = HostName[d]
  /\ \A d \in Netdev : AtHome(d) \/ InPod(d)

\* LinkByName finds the device it is asked for, and no other.
LEMMA LinkIsTheDevice ==
  ASSUME NamesApart, SandboxInv, HomeInv,
         NEW d \in Netdev \cup Sub, NEW n \in NamesOf(d), NEW s, NEW e \in LinkByName(s, n)
  PROVE  e = d /\ at[d] = s
<1>1. e \in Netdev \cup Sub /\ at[e] = s /\ name[e] = n
  BY DEF LinkByName
<1>2. name[e] \in NamesOf(e)
  BY <1>1 DEF HomeInv, AtHome, InPod, NamesOf
<1>3. QED
  BY <1>1, <1>2 DEF NamesApart

\* A step that moves no netdev keeps the invariant when every netdev in a
\* namespace stays accounted for.
LEMMA HomeKeptInPlace ==
  ASSUME SandboxInv, HomeInv, UNCHANGED <<at, name>>, abandoned \subseteq abandoned',
         \A s \in Sandboxes : Exists(s) => Exists(s)',
         \A d \in Netdev : InPod(d) => Accounted(d)'
  PROVE  HomeInv'
<1>1. ASSUME NEW d \in Netdev PROVE AtHome(d)' \/ InPod(d)'
  <2>1. CASE AtHome(d)
    BY <2>1 DEF AtHome
  <2>2. CASE InPod(d)
    <3>1. Accounted(d)' /\ at'[d] \in Sandboxes /\ name'[d] = PodName[d] /\ Exists(at[d])'
      BY <2>2 DEF InPod
    <3>2. QED
      BY <3>1 DEF InPod, Exists
  <2>3. QED
    BY <2>1, <2>2 DEF HomeInv
<1>2. QED
  BY <1>1 DEF HomeInv

\* The steps of RunPodSandbox.
LEMMA HomeKeptByRun ==
  ASSUME NamesApart, SandboxInv, HomeInv,
         \/ \E s \in Sandboxes : RunPodSandbox(s)
         \/ \E d \in Devices : \/ AttachNetdev(d) \/ AttachNetdevFails(d) \/ AttachNetdevStrands(d)
                               \/ CreateSubinterface(d) \/ CreateSubinterfaceFails(d) \/ SkipNetdev(d)
         \/ AttachRdma \/ AttachRdmaFails \/ RunSucceeds
  PROVE  HomeInv'
<1> USE DeviceKindsAssumption DEF SandboxInv, HookHasNamespace, SandboxTypeOK
<1>1. ASSUME NEW s \in Sandboxes, RunPodSandbox(s) PROVE HomeInv'
  <2>1. /\ sandbox[s] = "none" /\ hook = "none" /\ sandbox' = [sandbox EXCEPT ![s] = "starting"]
        /\ UNCHANGED <<at, name, abandoned>>
    BY <1>1 DEF RunPodSandbox, netVars, histVars
  <2>2. \A t \in Sandboxes : Exists(t) => Exists(t)'
    BY <2>1 DEF Exists
  <2>3. \A d \in Netdev : InPod(d) => Accounted(d)'
    BY <2>1 DEF InPod, Accounted, Exists
  <2>4. QED
    BY <2>1, <2>2, <2>3, HomeKeptInPlace
<1>2. ASSUME NEW d \in Netdev, hook = "run", NEW e \in LinkByName(Host, HostName[d]),
             at' = [at EXCEPT ![e] = ns], name' = [name EXCEPT ![e] = PodName[d]],
             \/ UNCHANGED sandbox /\ abandoned' = abandoned \ {e}
             \/ RunReturns("failed")
      PROVE  HomeInv'
  <2>1. e = d /\ at[d] = Host
    BY LinkIsTheDevice DEF NamesOf
  <2>2. ns \in Sandboxes /\ ns # NoNS /\ ns # Host /\ sandbox[ns] = "starting"
    BY <1>2
  <2>3. \A f \in Devices : /\ at'[f] = IF f = d THEN ns ELSE at[f]
                           /\ name'[f] = IF f = d THEN PodName[d] ELSE name[f]
    BY <1>2, <2>1
  <2>4. \A t \in Sandboxes : /\ t # ns => sandbox'[t] = sandbox[t]
                             /\ t = ns => sandbox'[t] \in {"starting", "failed"}
    BY <1>2, <2>2 DEF RunReturns
  <2>5. \A f \in Netdev : at'[f] = ns => sandbox'[ns] = "starting" \/ f \in abandoned'
    BY <1>2, <2>2 DEF RunReturns
  <2>6. \A f \in Netdev : f # d /\ f \in abandoned => f \in abandoned'
    BY <1>2, <2>1 DEF RunReturns
  <2>7. ASSUME NEW f \in Netdev, f # d PROVE AtHome(f)' \/ InPod(f)'
    <3>1. at'[f] = at[f] /\ name'[f] = name[f] /\ (f \in abandoned => f \in abandoned')
      BY <2>3, <2>6, <2>7
    <3>2. CASE AtHome(f)
      BY <3>1, <3>2 DEF AtHome
    <3>3. CASE InPod(f) /\ at[f] = ns
      BY <3>1, <3>3, <2>2, <2>4, <2>5 DEF InPod, Accounted, Exists
    <3>4. CASE InPod(f) /\ at[f] # ns
      BY <3>1, <3>4, <1>2, <2>4 DEF InPod, Accounted, Exists
    <3>5. QED
      BY <3>2, <3>3, <3>4 DEF HomeInv
  <2>8. InPod(d)'
    BY <2>2, <2>3, <2>4, <2>5 DEF InPod, Accounted, Exists
  <2>9. \A f \in Sub : at'[f] = Host /\ name'[f] = HostName[f]
    BY <2>3 DEF HomeInv
  <2>10. QED
    BY <2>7, <2>8, <2>9 DEF HomeInv
<1>3. ASSUME NEW d \in Devices, AttachNetdev(d) PROVE HomeInv'
  <2>1. d \in Netdev /\ hook = "run" /\ UNCHANGED sandbox
    BY <1>3 DEF AttachNetdev, AtDevice, NetdevBlockDone
  <2>2. PICK e \in LinkByName(Host, HostName[d]) :
          /\ at' = [at EXCEPT ![e] = ns] /\ name' = [name EXCEPT ![e] = PodName[d]]
          /\ abandoned' = abandoned \ {e}
    BY <1>3 DEF AttachNetdev
  <2>3. QED
    BY <1>2, <2>1, <2>2
<1>4. ASSUME NEW d \in Devices, AttachNetdevStrands(d) PROVE HomeInv'
  <2>1. d \in Netdev /\ hook = "run" /\ RunReturns("failed")
    BY <1>4 DEF AttachNetdevStrands, AtDevice
  <2>2. PICK e \in LinkByName(Host, HostName[d]) :
          at' = [at EXCEPT ![e] = ns] /\ name' = [name EXCEPT ![e] = PodName[d]]
    BY <1>4 DEF AttachNetdevStrands
  <2>3. QED
    BY <1>2, <2>1, <2>2
<1>5. ASSUME NEW result \in {"failed", "ready"}, hook = "run", RunReturns(result), UNCHANGED <<at, name>>
      PROVE  HomeInv'
  <2>1. /\ ns \in Sandboxes /\ sandbox' = [sandbox EXCEPT ![ns] = result] /\ sandbox[ns] = "starting"
        /\ abandoned \subseteq abandoned'
        /\ \A d \in Netdev : at[d] = ns => result = "ready" \/ d \in abandoned'
    BY <1>5 DEF RunReturns
  <2>2. \A t \in Sandboxes : Exists(t) => Exists(t)'
    BY <2>1 DEF Exists
  <2>3. ASSUME NEW d \in Netdev, InPod(d) PROVE Accounted(d)'
    <3>1. CASE at[d] = ns
      BY <3>1, <2>1, <1>5 DEF Accounted
    <3>2. CASE at[d] # ns
      BY <3>2, <2>1, <2>3, <1>5 DEF Accounted, InPod
    <3>3. QED
      BY <3>1, <3>2
  <2>4. QED
    BY <1>5, <2>1, <2>2, <2>3, HomeKeptInPlace
<1>6. ASSUME NEW d \in Devices, AttachNetdevFails(d) \/ CreateSubinterfaceFails(d) PROVE HomeInv'
  BY <1>5, <1>6 DEF AttachNetdevFails, CreateSubinterfaceFails, AtDevice, netVars
<1>7. CASE AttachRdmaFails \/ RunSucceeds
  BY <1>5, <1>7 DEF AttachRdmaFails, RunSucceeds, netVars
<1>8. ASSUME hook = "run", UNCHANGED <<sandbox, at, name, abandoned>> PROVE HomeInv'
  <2>1. \A d \in Netdev : InPod(d) => Accounted(d)'
    BY <1>8 DEF InPod, Accounted
  <2>2. QED
    BY <1>8, <2>1, HomeKeptInPlace DEF Exists
<1>9. ASSUME NEW d \in Devices, CreateSubinterface(d) \/ SkipNetdev(d) PROVE HomeInv'
  BY <1>8, <1>9 DEF CreateSubinterface, SkipNetdev, AtDevice, NetdevBlockDone, netVars
<1>10. CASE AttachRdma
  BY <1>8, <1>10 DEF AttachRdma, histVars
<1>11. QED
  BY <1>1, <1>3, <1>4, <1>6, <1>7, <1>9, <1>10

\* The steps of StopPodSandbox, of the kernel and of the driver.
LEMMA HomeKeptByOthers ==
  ASSUME NamesApart, SandboxInv, HomeInv,
         \/ \E s \in Sandboxes : NetnsDestroyed(s)
         \/ \E s \in Sandboxes, sent \in NsSent : StopPodSandbox(s, sent)
         \/ \E d \in Devices : DetachRdma(d) \/ DetachRdmaFails(d)
         \/ DetachNetdev \/ DetachNetdevFails \/ DeleteSubinterface \/ StopReturns
         \/ Scan \/ Synchronize
         \/ UNCHANGED vars
  PROVE  HomeInv'
<1> USE DeviceKindsAssumption DEF SandboxInv, HookHasNamespace, SandboxTypeOK
<1>1. ASSUME NEW s \in Sandboxes, NetnsDestroyed(s) PROVE HomeInv'
  <2>1. /\ sandbox[s] \in {"failed", "stopped"} /\ ns # s
        /\ sandbox' = [sandbox EXCEPT ![s] = "removed"]
        /\ UNCHANGED <<hook, ns, left, cur, abandoned>>
    BY <1>1 DEF NetnsDestroyed, hookVars, histVars
  <2>2. \A d \in Devices : at'[d] = IF at[d] = s THEN Host ELSE at[d]
    BY <1>1 DEF NetnsDestroyed
  <2>3. ASSUME NEW d \in Netdev, at[d] = s PROVE AtHome(d)'
    <3>1. InPod(d) /\ d \in abandoned
      BY <2>1, <2>3 DEF HomeInv, AtHome, InPod, Accounted
    <3>2. LinkByName(Host, name[d]) = {}
      BY <2>3, <3>1, LinkIsTheDevice DEF InPod, NamesOf
    <3>3. name'[d] = PodName[d]
      BY <1>1, <3>1, <3>2 DEF NetnsDestroyed, InPod
    <3>4. QED
      BY <2>1, <2>2, <2>3, <3>1, <3>3 DEF AtHome
  <2>4. \A d \in Devices : at[d] # s => name'[d] = name[d]
    BY <1>1 DEF NetnsDestroyed
  <2>5. ASSUME NEW d \in Netdev, at[d] # s PROVE AtHome(d)' \/ InPod(d)'
    <3>1. at'[d] = at[d] /\ name'[d] = name[d]
      BY <2>2, <2>4, <2>5
    <3>2. CASE AtHome(d)
      BY <2>1, <3>1, <3>2 DEF AtHome
    <3>3. CASE InPod(d)
      BY <2>1, <2>5, <3>1, <3>3 DEF InPod, Accounted, Exists
    <3>4. QED
      BY <3>2, <3>3 DEF HomeInv
  <2>6. \A d \in Sub : at'[d] = Host /\ name'[d] = HostName[d]
    BY <2>2, <2>4 DEF HomeInv
  <2>7. QED
    BY <2>3, <2>5, <2>6 DEF HomeInv
<1>2. ASSUME NEW s \in Sandboxes, NEW sent \in NsSent, StopPodSandbox(s, sent) PROVE HomeInv'
  <2> DEFINE target == IF sent THEN s ELSE netNS
  <2>1. /\ hook = "none"
        /\ sandbox' = IF sandbox[s] = "ready" THEN [sandbox EXCEPT ![s] = "stopped"] ELSE sandbox
        /\ target = s => hook' = "stop" /\ ns' = s /\ left' = Devices
        /\ abandoned' = abandoned \cup {d \in Netdev : target # s /\ at[d] = s}
        /\ UNCHANGED <<at, name>>
    BY <1>2 DEF StopPodSandbox, netVars
  <2> HIDE DEF target
  <2>2. \A t \in Sandboxes : Exists(t) => Exists(t)'
    BY <2>1 DEF Exists
  <2>3. ASSUME NEW d \in Netdev, InPod(d) PROVE Accounted(d)'
    <3>1. CASE at[d] = s
      BY <3>1, <2>1 DEF Accounted
    <3>2. CASE at[d] # s
      BY <3>2, <2>1, <2>3 DEF Accounted, InPod
    <3>3. QED
      BY <3>1, <3>2
  <2>4. QED
    BY <2>1, <2>2, <2>3, HomeKeptInPlace
<1>3. ASSUME NEW d \in Devices, DetachRdma(d) \/ DetachRdmaFails(d) PROVE HomeInv'
  <2>1. /\ hook = "stop" /\ cur = NoDevice /\ left' = left \ {d} /\ cur' = d
        /\ UNCHANGED <<sandbox, at, name, abandoned, hook, ns>>
    BY <1>3 DEF DetachRdma, DetachRdmaFails, netVars, histVars
  <2>2. \A f \in Netdev : InPod(f) => Accounted(f)'
    BY <2>1 DEF InPod, Accounted
  <2>3. QED
    BY <2>1, <2>2, HomeKeptInPlace DEF Exists
<1>4. ASSUME hook = "stop", cur \in Netdev, UNCHANGED <<sandbox, hook, ns, left>>, cur' = NoDevice,
             NEW e \in LinkByName(ns, PodName[cur]), abandoned' = abandoned \ {e},
             at' = [at EXCEPT ![e] = Host], name' = [name EXCEPT ![e] = HostName[cur]]
      PROVE  HomeInv'
  <2>1. e = cur
    BY <1>4, LinkIsTheDevice DEF NamesOf
  <2>2. \A f \in Devices : /\ at'[f] = IF f = cur THEN Host ELSE at[f]
                           /\ name'[f] = IF f = cur THEN HostName[f] ELSE name[f]
    BY <1>4, <2>1
  <2>3. ASSUME NEW f \in Netdev PROVE AtHome(f)' \/ InPod(f)'
    <3>1. CASE f = cur
      BY <2>2, <3>1 DEF AtHome
    <3>2. CASE f # cur /\ AtHome(f)
      BY <2>1, <2>2, <3>2, <1>4 DEF AtHome
    <3>3. CASE f # cur /\ InPod(f)
      BY <2>1, <2>2, <3>3, <1>4 DEF InPod, Accounted, Exists
    <3>4. QED
      BY <3>1, <3>2, <3>3 DEF HomeInv
  <2>4. \A f \in Sub : at'[f] = Host /\ name'[f] = HostName[f]
    BY <2>2, <1>4 DEF HomeInv
  <2>5. QED
    BY <2>3, <2>4 DEF HomeInv
<1>5. ASSUME hook = "stop", UNCHANGED <<sandbox, at, name, hook, ns, left>>, cur' = NoDevice,
             \/ cur \in Netdev /\ abandoned' = abandoned \cup {d \in {cur} : at[d] = ns}
             \/ cur \notin Netdev /\ UNCHANGED abandoned
      PROVE  HomeInv'
  <2>1. \A f \in Netdev : InPod(f) => Accounted(f)'
    BY <1>5 DEF InPod, Accounted
  <2>2. QED
    BY <1>5, <2>1, HomeKeptInPlace DEF Exists
<1>6. CASE DetachNetdev
  BY <1>4, <1>6 DEF DetachNetdev, DeviceStopped
<1>7. CASE DetachNetdevFails
  BY <1>4, <1>5, <1>7 DEF DetachNetdevFails, DeviceStopped
<1>8. CASE DeleteSubinterface
  BY <1>5, <1>8 DEF DeleteSubinterface, DeviceStopped
<1>9. CASE StopReturns
  <2>1. hook = "stop" /\ cur = NoDevice /\ left = {} /\ UNCHANGED <<sandbox, at, name, abandoned>>
    BY <1>9 DEF StopReturns, netVars, histVars
  <2>2. \A f \in Netdev : InPod(f) => Accounted(f)'
    BY <2>1 DEF InPod, Accounted
  <2>3. QED
    BY <2>1, <2>2, HomeKeptInPlace DEF Exists
<1>10. CASE Scan \/ Synchronize \/ UNCHANGED vars
  <2>1. UNCHANGED <<sandbox, at, name, abandoned, hook, ns, left, cur>>
    BY <1>10 DEF Scan, Synchronize, vars, netVars, hookVars, histVars
  <2>2. \A f \in Netdev : InPod(f) => Accounted(f)'
    BY <2>1 DEF InPod, Accounted
  <2>3. QED
    BY <2>1, <2>2, HomeKeptInPlace DEF Exists
<1>11. QED
  BY <1>1, <1>2, <1>3, <1>6, <1>7, <1>8, <1>9, <1>10

LEMMA HomeKept ==
  ASSUME NamesApart, SandboxInv, HomeInv, [Next]_vars
  PROVE  HomeInv'
BY HomeKeptByRun, HomeKeptByOthers DEF Next

\* When the names of different devices differ, every netdev is back at the host
\* once no namespace of the pod is left, under its host name unless a hook ended
\* without returning it, and then under the pod's: renamed or not, whichever
\* hooks failed and whichever sandboxes were discarded without a stop.
THEOREM DevicesAlwaysComeHome ==
  ASSUME NamesApart
  PROVE  Spec => []DevicesComeHome
<1>1. Init => HomeInv
  BY DeviceKindsAssumption DEF Init, HomeInv, AtHome
<1>2. SandboxInv /\ HomeInv /\ [Next]_vars => HomeInv'
  BY HomeKept
<1>3. SandboxInv /\ HomeInv => DevicesComeHome
  BY DeviceKindsAssumption DEF HomeInv, AtHome, InPod, DevicesComeHome
<1>4. QED
  BY <1>1, <1>2, <1>3, SandboxInvariant, PTL DEF Spec

\* The netdev block of runPodSandbox has been done for a device.
NetdevAttached(s, d) ==
  /\ d \in Netdev => at[d] = s /\ name[d] = PodName[d]
  /\ d \in Sub => <<s, d>> \in children

\* StopPodSandbox works on a ready sandbox only when it was sent for another one,
\* and RunPodSandbox has attached the devices it has passed.
ReadyInv ==
  /\ hook = "stop" => sandbox[ns] # "ready" \/ ns \in misdirected
  /\ hook = "run" =>
       \A d \in Devices \ left :
         NetdevAttached(ns, d) /\ (d \in Rdma /\ d # cur => rdmaAt[d] = ns)
  /\ ReadySandboxHasDevices

LEMMA ReadyKeptByRun ==
  ASSUME NamesApart, SandboxInv, HomeInv, ReadyInv,
         \/ \E s \in Sandboxes : RunPodSandbox(s)
         \/ \E d \in Devices : \/ AttachNetdev(d) \/ AttachNetdevFails(d) \/ AttachNetdevStrands(d)
                               \/ CreateSubinterface(d) \/ CreateSubinterfaceFails(d) \/ SkipNetdev(d)
         \/ AttachRdma \/ AttachRdmaFails \/ RunSucceeds
  PROVE  ReadyInv'
<1> USE DeviceKindsAssumption DEF SandboxInv, HookHasNamespace, SandboxTypeOK
<1>1. ASSUME NEW s \in Sandboxes, RunPodSandbox(s) PROVE ReadyInv'
  BY <1>1 DEF RunPodSandbox, ReadyInv, ReadySandboxHasDevices
<1>2. ASSUME hook = "run", RunReturns("failed") PROVE ReadyInv'
  BY <1>2 DEF RunReturns, ReadyInv, ReadySandboxHasDevices
<1>3. ASSUME NEW d \in Devices,
             AttachNetdevFails(d) \/ AttachNetdevStrands(d) \/ CreateSubinterfaceFails(d)
      PROVE  ReadyInv'
  BY <1>2, <1>3 DEF AttachNetdevFails, AttachNetdevStrands, CreateSubinterfaceFails, AtDevice
<1>4. CASE AttachRdmaFails
  BY <1>2, <1>4 DEF AttachRdmaFails
<1>5. ASSUME NEW d \in Devices, AttachNetdev(d) PROVE ReadyInv'
  <2>1. /\ d \in Netdev /\ hook = "run" /\ cur = NoDevice
        /\ left' = left \ {d} /\ cur' = d
        /\ UNCHANGED <<sandbox, hook, ns, rdmaAt, children>>
    BY <1>5 DEF AttachNetdev, AtDevice, NetdevBlockDone
  <2>2. at' = [at EXCEPT ![d] = ns] /\ name' = [name EXCEPT ![d] = PodName[d]]
    <3>1. PICK e \in LinkByName(Host, HostName[d]) :
            at' = [at EXCEPT ![e] = ns] /\ name' = [name EXCEPT ![e] = PodName[d]]
      BY <1>5 DEF AttachNetdev
    <3>2. e = d
      BY <2>1, LinkIsTheDevice DEF NamesOf
    <3>3. QED
      BY <3>1, <3>2
  <2>3. \A e \in Devices \ left' : NetdevAttached(ns, e)' /\ (e \in Rdma /\ e # cur' => rdmaAt'[e] = ns')
    BY <2>1, <2>2 DEF ReadyInv, NetdevAttached
  <2>4. QED
    BY <2>1, <2>3 DEF ReadyInv, ReadySandboxHasDevices
<1>6. ASSUME NEW d \in Devices, CreateSubinterface(d) \/ SkipNetdev(d) PROVE ReadyInv'
  <2>1. /\ d \notin Netdev /\ hook = "run" /\ cur = NoDevice
        /\ left' = left \ {d} /\ cur' = d
        /\ children \subseteq children' /\ (d \in Sub => <<ns, d>> \in children')
        /\ UNCHANGED <<sandbox, hook, ns, at, name, rdmaAt>>
    BY <1>6 DEF CreateSubinterface, SkipNetdev, AtDevice, NetdevBlockDone, netVars
  <2>2. \A e \in Devices \ left' : NetdevAttached(ns, e)' /\ (e \in Rdma /\ e # cur' => rdmaAt'[e] = ns')
    BY <2>1 DEF ReadyInv, NetdevAttached
  <2>3. QED
    BY <2>1, <2>2 DEF ReadyInv, ReadySandboxHasDevices
<1>7. CASE AttachRdma
  BY <1>7 DEF AttachRdma, ReadyInv, NetdevAttached, ReadySandboxHasDevices
<1>8. CASE RunSucceeds
  <2>1. /\ hook = "run" /\ left = {} /\ cur = NoDevice /\ hook' = "none"
        /\ sandbox' = [sandbox EXCEPT ![ns] = "ready"]
        /\ UNCHANGED <<at, name, rdmaAt, children>>
    BY <1>8 DEF RunSucceeds, RunReturns, netVars
  <2>2. \A s \in Sandboxes : sandbox'[s] = "ready" => s = ns
    BY <2>1
  <2>3. \A d \in Devices : NetdevAttached(ns, d) /\ (d \in Rdma => rdmaAt[d] = ns)
    BY <2>1 DEF ReadyInv
  <2>4. /\ \A d \in Netdev : at[d] = ns /\ name[d] = PodName[d]
        /\ \A d \in Sub : <<ns, d>> \in children
        /\ \A d \in Rdma : rdmaAt[d] = ns
    BY <2>3 DEF NetdevAttached
  <2>5. ReadySandboxHasDevices'
    BY <2>1, <2>2, <2>4 DEF ReadySandboxHasDevices
  <2>6. QED
    BY <2>1, <2>5 DEF ReadyInv
<1>9. QED
  BY <1>1, <1>3, <1>4, <1>5, <1>6, <1>7, <1>8

LEMMA ReadyKeptByOthers ==
  ASSUME NamesApart, SandboxInv, HomeInv, ReadyInv,
         \/ \E s \in Sandboxes : NetnsDestroyed(s)
         \/ \E s \in Sandboxes, sent \in NsSent : StopPodSandbox(s, sent)
         \/ \E d \in Devices : DetachRdma(d) \/ DetachRdmaFails(d)
         \/ DetachNetdev \/ DetachNetdevFails \/ DeleteSubinterface \/ StopReturns
         \/ Scan \/ Synchronize
         \/ UNCHANGED vars
  PROVE  ReadyInv'
<1> USE DeviceKindsAssumption DEF SandboxInv, HookHasNamespace, SandboxTypeOK
<1>1. ASSUME NEW s \in Sandboxes, NetnsDestroyed(s) PROVE ReadyInv'
  <2>1. /\ sandbox[s] \in {"failed", "stopped"} /\ ns # s
        /\ sandbox' = [sandbox EXCEPT ![s] = "removed"]
        /\ UNCHANGED <<hook, ns, left, cur, misdirected>>
    BY <1>1 DEF NetnsDestroyed, hookVars, histVars
  <2>2. \A t \in Sandboxes, d \in Devices : t # s =>
          /\ NetdevAttached(t, d) => NetdevAttached(t, d)'
          /\ rdmaAt[d] = t => rdmaAt'[d] = t
    BY <1>1 DEF NetnsDestroyed, NetdevAttached
  <2>3. ASSUME NEW t \in Sandboxes, sandbox'[t] = "ready", t \notin misdirected, NEW d \in Devices
        PROVE  NetdevAttached(t, d)' /\ (d \in Rdma => rdmaAt'[d] = t)
    <3>1. t # s /\ sandbox[t] = "ready"
      BY <2>1, <2>3
    <3>2. NetdevAttached(t, d) /\ (d \in Rdma => rdmaAt[d] = t)
      BY <2>3, <3>1 DEF ReadyInv, ReadySandboxHasDevices, NetdevAttached
    <3>3. QED
      BY <2>2, <3>1, <3>2
  <2>4. ReadySandboxHasDevices'
    BY <2>1, <2>3 DEF ReadySandboxHasDevices, NetdevAttached
  <2>5. QED
    BY <2>1, <2>2, <2>4 DEF ReadyInv
<1>2. ASSUME NEW s \in Sandboxes, NEW sent \in NsSent, StopPodSandbox(s, sent) PROVE ReadyInv'
  <2> DEFINE target == IF sent THEN s ELSE netNS
  <2>1. /\ hook = "none" /\ UNCHANGED <<at, name, rdmaAt, children>>
        /\ sandbox' = IF sandbox[s] = "ready" THEN [sandbox EXCEPT ![s] = "stopped"] ELSE sandbox
        /\ IF target = NoNS THEN hook' = hook ELSE hook' = "stop" /\ ns' = target
        /\ misdirected' = misdirected \cup ({target} \ {s, NoNS})
    BY <1>2 DEF StopPodSandbox, netVars
  <2>2. target \in Sandboxes \cup {NoNS}
    OBVIOUS
  <2> HIDE DEF target
  <2>3. hook' = "stop" => sandbox'[ns'] # "ready" \/ ns' \in misdirected'
    BY <2>1, <2>2
  <2>4. QED
    BY <2>1, <2>3 DEF ReadyInv, ReadySandboxHasDevices
<1>3. ASSUME NEW d \in Devices, DetachRdma(d) \/ DetachRdmaFails(d) PROVE ReadyInv'
  BY <1>3 DEF DetachRdma, DetachRdmaFails, netVars, histVars, ReadyInv, ReadySandboxHasDevices
<1>4. ASSUME hook = "stop", cur \in Netdev, UNCHANGED <<sandbox, rdmaAt, children, hook, ns, misdirected>>,
             NEW e \in LinkByName(ns, PodName[cur]),
             at' = [at EXCEPT ![e] = Host], name' = [name EXCEPT ![e] = HostName[cur]]
      PROVE  ReadyInv'
  BY <1>4 DEF LinkByName, ReadyInv, ReadySandboxHasDevices
<1>5. ASSUME hook = "stop", UNCHANGED <<sandbox, rdmaAt, hook, ns, at, name, misdirected>>,
             children' \in {children, children \ {<<ns, cur>>}}
      PROVE  ReadyInv'
  BY <1>5 DEF ReadyInv, ReadySandboxHasDevices
<1>6. CASE DetachNetdev \/ DetachNetdevFails \/ DeleteSubinterface
  BY <1>4, <1>5, <1>6 DEF DetachNetdev, DetachNetdevFails, DeleteSubinterface, DeviceStopped
<1>7. CASE StopReturns
  BY <1>7 DEF StopReturns, netVars, histVars, ReadyInv, ReadySandboxHasDevices
<1>8. CASE Scan \/ Synchronize \/ UNCHANGED vars
  BY <1>8 DEF Scan, Synchronize, vars, netVars, hookVars, histVars, ReadyInv, ReadySandboxHasDevices,
              NetdevAttached
<1>9. QED
  BY <1>1, <1>2, <1>3, <1>6, <1>7, <1>8

\* When the names of different devices differ, a sandbox that RunPodSandbox
\* accepted has all its devices until it is stopped, or until the stop of another
\* one, sent without a namespace, is turned on it: for any number of earlier
\* attempts and of late or repeated stops, with and without their namespace.
THEOREM ReadySandboxesKeepDevices ==
  ASSUME NamesApart
  PROVE  Spec => []ReadySandboxHasDevices
<1>1. Init => HomeInv /\ ReadyInv
  BY DeviceKindsAssumption DEF Init, HomeInv, AtHome, ReadyInv, ReadySandboxHasDevices
<1>2. SandboxInv /\ HomeInv /\ [Next]_vars => HomeInv'
  BY HomeKept
<1>3. SandboxInv /\ HomeInv /\ ReadyInv /\ [Next]_vars => ReadyInv'
  BY ReadyKeptByRun, ReadyKeptByOthers DEF Next
<1>4. ReadyInv => ReadySandboxHasDevices
  BY DEF ReadyInv
<1>5. QED
  BY <1>1, <1>2, <1>3, <1>4, SandboxInvariant, PTL DEF Spec
=============================================================================

--------------------------- MODULE ClaimLifecycle ---------------------------
(***************************************************************************)
(* The DRA side of the driver: PrepareResourceClaims and                   *)
(* UnprepareResourceClaims over the pod configuration store, the node      *)
(* local addresses of the profile provider, and DHCP leases.               *)
(*                                                                         *)
(* The kubelet plugin helper serializes the calls, so at most one is       *)
(* running; within it the process may die between any two effects.  The    *)
(* kubelet (external) retries a call until it has the answer it wants.     *)
(*                                                                         *)
(* The allocator is taken at its promise, checked in LocalIPAM: Allocate   *)
(* returns a free address or fails because there is none.                  *)
(***************************************************************************)
EXTENDS PodConfigStore, FiniteSets

CONSTANTS
  Addrs,          \* addresses of the profile's range
  PodClaims,      \* the claims each pod uses
  Results,        \* the devices allocated to each claim
  Request,        \* the network configuration of each claim: a record of
                  \*   profile, subinterface, dhcp : BOOLEAN; static : SUBSET Addrs
  Managed,        \* devices the cloud provider has metadata for
  NoPod, NoClaim, NoDevice,
  Undeletable,    \* bound: the pods whose checkpoint deletion may fail
  MaxCrashes      \* bound on the number of crashes

ASSUME LifecycleAssumption ==
  /\ PodClaims \in [Pods -> SUBSET Claims]
  /\ Results \in [Claims -> SUBSET Devices]
  /\ \A c \in Claims :
       /\ Request[c].static \subseteq Addrs
       /\ {Request[c].profile, Request[c].subinterface, Request[c].dhcp} \subseteq BOOLEAN
  /\ DeviceConfigs = [claim : Claims, subinterface : BOOLEAN, profile : BOOLEAN,
                      addresses : SUBSET Addrs, lease : BOOLEAN]
  /\ Managed \subseteq Devices
  /\ NoPod \notin Pods /\ NoClaim \notin Claims /\ NoDevice \notin Devices
  /\ Undeletable \subseteq Pods /\ MaxCrashes \in Nat

VARIABLES
  podPhase,      \* kubelet: "pending", "wanted", "terminating", "gone"
  claimPhase,    \* kubelet: "free", "attempted", "prepared"
  op,            \* the running call: "idle", "prepare", "unprepare"
  pod,           \* the pod the call is for
  todo,          \* claims of the call that are not processed yet
  failed,        \* claims of the call with an error in their result
  claim,         \* the claim in process
  devs,          \* its devices that are not processed yet; in an unprepare,
                 \* the stored <<pod, device>> pairs still to be released
  dev,           \* the device in process
  stage,         \* "resolved" or "leased": how far prepareDevice is
  grant,         \* addresses in the netconf of the device in process
  allocatedIPs,  \* the provider's node-local IPAM
  leases,        \* devices with an unexpired lease at the DHCP server
  crashes,
  undeleted      \* history: the pods a checkpoint deletion has failed for

kubeletVars == <<podPhase, claimPhase>>
callVars == <<op, pod, todo, failed>>
claimVars == <<claim, devs>>
devVars == <<dev, stage, grant>>
vars == <<storeVars, kubeletVars, callVars, claimVars, devVars, allocatedIPs, leases, crashes, undeleted>>

NoDevInProcess == dev' = NoDevice /\ stage' = "none" /\ grant' = {}

CallInit ==
  /\ op = "idle" /\ pod = NoPod /\ todo = {} /\ failed = {}
  /\ claim = NoClaim /\ devs = {}
  /\ dev = NoDevice /\ stage = "none" /\ grant = {}

Init ==
  /\ StoreInit
  /\ podPhase = [p \in Pods |-> "pending"]
  /\ claimPhase = [c \in Claims |-> "free"]
  /\ CallInit
  /\ allocatedIPs = {}
  /\ leases = {}
  /\ crashes = 0 /\ undeleted = {}

-----------------------------------------------------------------------------
(* The kubelet, from how the driver is called.                             *)

Live(p) == podPhase[p] \in {"wanted", "terminating"}

\* A pod arrives; its claims are reserved for it alone.
PodArrives(p) ==
  /\ podPhase[p] = "pending"
  /\ \A q \in Pods : Live(q) => PodClaims[q] \cap PodClaims[p] = {}
  /\ podPhase' = [podPhase EXCEPT ![p] = "wanted"]
  /\ UNCHANGED <<storeVars, claimPhase, callVars, claimVars, devVars, allocatedIPs, leases, crashes, undeleted>>

PodDeleted(p) ==
  /\ podPhase[p] = "wanted"
  /\ pod # p
  /\ podPhase' = [podPhase EXCEPT ![p] = "terminating"]
  /\ UNCHANGED <<storeVars, claimPhase, callVars, claimVars, devVars, allocatedIPs, leases, crashes, undeleted>>

\* A restarted kubelet prepares the claims of its pods again.
KubeletRestart ==
  /\ op = "idle"
  /\ \E c \in Claims : claimPhase[c] = "prepared"
  /\ claimPhase' = [c \in Claims |-> IF claimPhase[c] = "prepared" THEN "attempted"
                                                               ELSE claimPhase[c]]
  /\ UNCHANGED <<storeVars, podPhase, callVars, claimVars, devVars, allocatedIPs, leases, crashes, undeleted>>

CallStarts(o, p, cs) ==
  /\ up /\ op = "idle" /\ cs # {}
  /\ op' = o /\ pod' = p /\ todo' = cs /\ failed' = {}
  /\ UNCHANGED <<storeVars, podPhase, claimVars, devVars, allocatedIPs, leases, crashes, undeleted>>

StartPrepare(p) ==
  LET cs == {c \in PodClaims[p] : claimPhase[c] # "prepared"}
  IN  /\ podPhase[p] = "wanted"
      /\ CallStarts("prepare", p, cs)
      /\ claimPhase' = [c \in Claims |-> IF c \in cs THEN "attempted" ELSE claimPhase[c]]

StartUnprepare(p) ==
  /\ podPhase[p] = "terminating"
  /\ CallStarts("unprepare", p, {c \in PodClaims[p] : claimPhase[c] # "free"})
  /\ UNCHANGED claimPhase

PodGone(p) ==
  /\ podPhase[p] = "terminating"
  /\ \A c \in PodClaims[p] : claimPhase[c] = "free"
  /\ podPhase' = [podPhase EXCEPT ![p] = "gone"]
  /\ UNCHANGED <<storeVars, claimPhase, callVars, claimVars, devVars, allocatedIPs, leases, crashes, undeleted>>

CallEnds ==
  /\ op' = "idle" /\ pod' = NoPod /\ todo' = {} /\ failed' = {}
  /\ UNCHANGED <<storeVars, podPhase, claimVars, devVars, allocatedIPs, leases, crashes, undeleted>>

BatchDone == todo = {} /\ claim = NoClaim

\* prepareResourceClaims returns: the claims without an error are prepared.
FinishPrepare ==
  /\ op = "prepare" /\ BatchDone
  /\ claimPhase' = [c \in Claims |->
                      IF c \in PodClaims[pod] \ failed THEN "prepared" ELSE claimPhase[c]]
  /\ CallEnds

\* An unprepare that keeps failing for a claim that was never prepared.
FinishUnprepareOnlyPrepared ==
  /\ op = "unprepare" /\ BatchDone
  /\ claimPhase' = [c \in Claims |->
                      IF c \in PodClaims[pod] /\ claimPhase[c] = "prepared"
                        THEN "free" ELSE claimPhase[c]]
  /\ CallEnds

\* unprepareResourceClaims returns; no claim ever has an error.
FinishUnprepare ==
  /\ op = "unprepare" /\ BatchDone
  /\ claimPhase' = [c \in Claims |->
                      IF c \in PodClaims[pod] THEN "free" ELSE claimPhase[c]]
  /\ CallEnds

\* The answer comes after the kubelet's deadline.
ReplyLost ==
  /\ op # "idle" /\ BatchDone
  /\ CallEnds
  /\ UNCHANGED claimPhase

-----------------------------------------------------------------------------
(* prepareResourceClaim and prepareDevice.                                 *)

\* The claim is rejected before its devices are looked at: several consumers,
\* one that is not a pod, or no netlink handle or rules.
RejectClaim(c) ==
  /\ op = "prepare" /\ claim = NoClaim /\ c \in todo
  /\ todo' = todo \ {c}
  /\ failed' = failed \cup {c}
  /\ UNCHANGED <<storeVars, kubeletVars, op, pod, claimVars, devVars, allocatedIPs, leases, crashes, undeleted>>

PrepareClaim(c) ==
  /\ op = "prepare" /\ claim = NoClaim /\ c \in todo
  /\ todo' = todo \ {c}
  /\ claim' = c
  /\ devs' = Results[c]
  /\ UNCHANGED <<storeVars, kubeletVars, op, pod, failed, devVars, allocatedIPs, leases, crashes, undeleted>>

ClaimPrepared ==
  /\ op = "prepare" /\ claim # NoClaim /\ devs = {} /\ dev = NoDevice
  /\ claim' = NoClaim
  /\ UNCHANGED <<storeVars, kubeletVars, callVars, devs, devVars, allocatedIPs, leases, crashes, undeleted>>

NextDevice(d) ==
  /\ op = "prepare" /\ dev = NoDevice /\ d \in devs
  /\ devs' = devs \ {d}
  /\ UNCHANGED claim

\* The configuration is stored already.
ReuseDevice(d) ==
  /\ NextDevice(d)
  /\ GetDeviceConfig(pod, d) # NoConfig
  /\ UNCHANGED <<storeVars, kubeletVars, callVars, devVars, allocatedIPs, leases, crashes, undeleted>>

\* getDeviceNetworkConfig: the outcomes <<addresses of the merged
\* configuration, addresses the IPAM records>> of a successful GetProfileConfig;
\* there is none when a static address or every address is in use.
ProfileOutcomes(c, d) ==
  LET r == Request[c]
  IN  IF ~r.profile \/ ~r.subinterface \/ d \notin Managed
        THEN {<<r.static, {}>>}
      ELSE IF r.static # {}
        THEN {<<x, x>> : x \in {y \in {r.static} : y \cap allocatedIPs = {}}}
      ELSE {<<{a}, {a}>> : a \in Addrs \ allocatedIPs}

ResolveDevice(d) ==
  /\ NextDevice(d)
  /\ GetDeviceConfig(pod, d) = NoConfig
  /\ \E o \in ProfileOutcomes(claim, d) :
       /\ grant' = o[1]
       /\ allocatedIPs' = allocatedIPs \cup o[2]
  /\ dev' = d /\ stage' = "resolved"
  /\ UNCHANGED <<storeVars, kubeletVars, callVars, leases, crashes, undeleted>>

\* The user configuration is invalid or the profile cannot be resolved.
ResolveFails(d) ==
  /\ NextDevice(d)
  /\ GetDeviceConfig(pod, d) = NoConfig
  /\ failed' = failed \cup {claim}
  /\ UNCHANGED <<storeVars, kubeletVars, op, pod, todo, devVars, allocatedIPs, leases, crashes, undeleted>>

\* ReleaseProfileConfig of the provider: every address of a subinterface
\* configuration is released, whether or not GetProfileConfig recorded it.
Released(r, addresses) ==
  IF r.profile /\ r.subinterface THEN allocatedIPs \ addresses ELSE allocatedIPs

\* The merged configuration is invalid: the profile that was resolved for it
\* is released at once, with all the addresses of the merged configuration.
MergedConfigInvalid(d) ==
  /\ NextDevice(d)
  /\ GetDeviceConfig(pod, d) = NoConfig
  /\ failed' = failed \cup {claim}
  /\ \E o \in ProfileOutcomes(claim, d) :
       allocatedIPs' = IF Request[claim].profile /\ Request[claim].subinterface
                         THEN (allocatedIPs \cup o[2]) \ o[1] ELSE allocatedIPs
  /\ UNCHANGED <<storeVars, kubeletVars, op, pod, todo, devVars, leases, crashes, undeleted>>

\* A failure path that forgets the deferred release.
DeviceFailsNoRollback ==
  /\ op = "prepare" /\ dev # NoDevice
  /\ failed' = failed \cup {claim}
  /\ NoDevInProcess
  /\ UNCHANGED <<storeVars, kubeletVars, op, pod, todo, claimVars, allocatedIPs, leases, crashes, undeleted>>

\* An error between the resolution and the commit, on the host, of the DHCP
\* request or of the validation against the host: the deferred function
\* releases the profile.  A lease that was taken stays.
DeviceFails ==
  /\ op = "prepare" /\ dev # NoDevice
  /\ failed' = failed \cup {claim}
  /\ allocatedIPs' = Released(Request[claim], grant)
  /\ NoDevInProcess
  /\ UNCHANGED <<storeVars, kubeletVars, op, pod, todo, claimVars, leases, crashes, undeleted>>

GetDHCP ==
  /\ op = "prepare" /\ dev # NoDevice /\ stage = "resolved"
  /\ Request[claim].dhcp
  /\ leases' = leases \cup {dev}
  /\ stage' = "leased"
  /\ UNCHANGED <<storeVars, kubeletVars, callVars, claimVars, dev, grant, allocatedIPs, crashes, undeleted>>

\* A subinterface needs addresses.
ReadyToCommit ==
  /\ op = "prepare" /\ dev # NoDevice
  /\ Request[claim].dhcp => stage = "leased"
  /\ Request[claim].subinterface => grant # {}

CommittedConfig ==
  [claim |-> claim, subinterface |-> Request[claim].subinterface,
   profile |-> Request[claim].profile, addresses |-> grant, lease |-> stage = "leased"]

\* A commit that logs the failed write and goes on.
CommitDeviceIgnoringError(written) ==
  /\ ReadyToCommit
  /\ SetDeviceConfig(pod, dev, CommittedConfig, written)
  /\ allocatedIPs' = IF written THEN allocatedIPs ELSE Released(Request[claim], grant)
  /\ NoDevInProcess
  /\ UNCHANGED <<kubeletVars, callVars, claimVars, leases, crashes, undeleted>>

\* SetDeviceConfig succeeds, or fails and the profile is rolled back.
CommitDevice(written) ==
  /\ ReadyToCommit
  /\ SetDeviceConfig(pod, dev, CommittedConfig, written)
  /\ failed' = IF written THEN failed ELSE failed \cup {claim}
  /\ allocatedIPs' = IF written THEN allocatedIPs ELSE Released(Request[claim], grant)
  /\ NoDevInProcess
  /\ UNCHANGED <<kubeletVars, op, pod, todo, claimVars, leases, crashes, undeleted>>

-----------------------------------------------------------------------------
(* unprepareResourceClaim.                                                 *)

StoredDevices(c) ==
  {x \in Pods \X Devices : /\ configs[x[1]][x[2]] # NoConfig
                           /\ configs[x[1]][x[2]].claim = c}

UnprepareClaim(c) ==
  /\ op = "unprepare" /\ claim = NoClaim /\ c \in todo
  /\ todo' = todo \ {c}
  /\ claim' = c
  /\ devs' = StoredDevices(c)
  /\ UNCHANGED <<storeVars, kubeletVars, op, pod, failed, devVars, allocatedIPs, leases, crashes, undeleted>>

\* The lease is released, or the RELEASE cannot be sent; then the profile.
UnprepareDevice(x) ==
  LET cfg == configs[x[1]][x[2]]
  IN  /\ op = "unprepare" /\ x \in devs
      /\ devs' = devs \ {x}
      /\ leases' \in {leases, IF cfg.lease THEN leases \ {x[2]} ELSE leases}
      /\ allocatedIPs' = Released(cfg, cfg.addresses)
      /\ UNCHANGED <<storeVars, kubeletVars, callVars, claim, devVars, crashes, undeleted>>

\* An unprepare that leaves the record in the checkpoint.
ForgetClaimInMemory ==
  /\ op = "unprepare" /\ claim # NoClaim /\ devs = {}
  /\ DeleteClaim(claim, Pods)
  /\ claim' = NoClaim
  /\ UNCHANGED <<kubeletVars, callVars, devs, devVars, allocatedIPs, leases, crashes, undeleted>>

\* DeleteClaim, after the resources are released.  A deletion that fails is
\* logged, and the unprepare succeeds all the same.
ForgetClaim ==
  /\ op = "unprepare" /\ claim # NoClaim /\ devs = {}
  /\ \E f \in SUBSET (PodsOfClaim(claim) \cap Undeletable) :
       /\ DeleteClaim(claim, f)
       /\ undeleted' = undeleted \cup f
  /\ claim' = NoClaim
  /\ UNCHANGED <<kubeletVars, callVars, devs, devVars, allocatedIPs, leases, crashes>>

-----------------------------------------------------------------------------
(* The process.                                                            *)

\* The driver dies with its memory; the kubelet sees its call fail.
DriverCrash ==
  /\ crashes < MaxCrashes
  /\ Crash
  /\ crashes' = crashes + 1
  /\ op' = "idle" /\ pod' = NoPod /\ todo' = {} /\ failed' = {}
  /\ claim' = NoClaim /\ devs' = {}
  /\ NoDevInProcess
  /\ allocatedIPs' = {}
  /\ UNCHANGED <<kubeletVars, leases, undeleted>>

\* A start that does not seed the allocator.
DriverStartUnseeded ==
  /\ NewPodConfigStore
  /\ allocatedIPs' = {}
  /\ UNCHANGED <<kubeletVars, callVars, claimVars, devVars, leases, crashes, undeleted>>

\* A start opens the store before it creates the providers, whose IPAM is
\* seeded with the addresses of the restored configurations.
DriverStart ==
  /\ NewPodConfigStore
  /\ allocatedIPs' = InUseSubinterfaceIPs(GetOrCreate)
  /\ UNCHANGED <<kubeletVars, callVars, claimVars, devVars, leases, crashes, undeleted>>

PrepareStep ==
  \/ \E c \in Claims : RejectClaim(c) \/ PrepareClaim(c)
  \/ ClaimPrepared
  \/ \E d \in Devices : ReuseDevice(d) \/ ResolveDevice(d) \/ ResolveFails(d)
                     \/ MergedConfigInvalid(d)
  \/ DeviceFails
  \/ GetDHCP
  \/ \E written \in BOOLEAN : CommitDevice(written)

UnprepareStep ==
  \/ \E c \in Claims : UnprepareClaim(c)
  \/ \E x \in Pods \X Devices : UnprepareDevice(x)
  \/ ForgetClaim

KubeletStep ==
  \/ \E p \in Pods : PodArrives(p) \/ PodDeleted(p) \/ StartPrepare(p)
  \/ \E p \in Pods : StartUnprepare(p) \/ PodGone(p)
  \/ KubeletRestart

ReplyStep == FinishPrepare \/ FinishUnprepare \/ ReplyLost

\* Every pod came and went.
AllGone ==
  /\ \A p \in Pods : podPhase[p] = "gone"
  /\ UNCHANGED vars

Next ==
  \/ KubeletStep
  \/ ReplyStep
  \/ PrepareStep
  \/ UnprepareStep
  \/ DriverCrash
  \/ DriverStart
  \/ AllGone

\* The driver's goroutine runs on and a dead driver is restarted by the
\* DaemonSet; the kubelet retries unprepare for every terminating pod, and one
\* of its retries is answered in time.
Fairness ==
  /\ WF_vars(PrepareStep)
  /\ WF_vars(UnprepareStep)
  /\ WF_vars(DriverStart)
  /\ WF_vars(FinishPrepare \/ ReplyLost)
  /\ SF_vars(FinishUnprepare)
  /\ \A p \in Pods : SF_vars(StartUnprepare(p)) /\ WF_vars(PodGone(p))

Spec == Init /\ [][Next]_vars /\ Fairness

-----------------------------------------------------------------------------
(* Properties.                                                             *)

\* Type invariant of the claim lifecycle.
LifecycleTypeOK ==
  /\ StoreTypeOK
  /\ podPhase \in [Pods -> {"pending", "wanted", "terminating", "gone"}]
  /\ claimPhase \in [Claims -> {"free", "attempted", "prepared"}]
  /\ op \in {"idle", "prepare", "unprepare"}
  /\ pod \in Pods \cup {NoPod}
  /\ todo \subseteq Claims /\ failed \subseteq Claims
  /\ claim \in Claims \cup {NoClaim}
  /\ devs \subseteq Devices \cup (Pods \X Devices)
  /\ dev \in Devices \cup {NoDevice}
  /\ stage \in {"none", "resolved", "leased"}
  /\ grant \subseteq Addrs /\ allocatedIPs \subseteq Addrs
  /\ leases \subseteq Devices
  /\ crashes \in 0..MaxCrashes /\ undeleted \subseteq Pods

Stored(m) == {x \in Pods \X Devices : m[x[1]][x[2]] # NoConfig}

\* No start of the driver has brought back what a failed deletion left.
NothingRevived == undeleted = {} \/ crashes = 0

\* Outside an unprepare, the addresses marked as in use are those of the
\* stored configurations and of the device being prepared: no failure path of
\* prepareDevice, no retry, no crash and no unprepare leaks an address or frees
\* one that is still configured in a pod.  A checkpoint deletion that fails does
\* no harm either, until a restart revives the configuration of the pod that is
\* gone, whose address may have been handed out again meanwhile.
AddressesMatchStore ==
  NothingRevived /\ up /\ op # "unprepare" =>
    allocatedIPs = InUseSubinterfaceIPs(configs) \cup grant

\* Two configured subinterfaces never have the same address ("it doesn't hand
\* out ones that are taken"), restarts included, but for one that revives what
\* a failed checkpoint deletion left.
NoSharedAddress ==
  NothingRevived =>
    \A x, y \in Stored(configs) :
      /\ x # y
      /\ configs[x[1]][x[2]].subinterface
      /\ configs[y[1]][y[2]].subinterface
      => configs[x[1]][x[2]].addresses \cap configs[y[1]][y[2]].addresses = {}

\* When the kubelet has been told that a claim is prepared, every device of
\* the claim is on disk for its pod, under this claim, until the pod goes:
\* RunPodSandbox will find it whatever crash or retry comes between.
AcknowledgedIsStored ==
  \A p \in Pods : podPhase[p] = "wanted" =>
    \A c \in PodClaims[p] : claimPhase[c] = "prepared" =>
      \A d \in Results[c] :
        checkpoint[p][d] # NoConfig /\ checkpoint[p][d].claim = c

\* When the kubelet has been told that a claim is unprepared, memory has
\* forgotten it, and the checkpoint has but for the pods whose deletion failed.
\* Their record stays for good and the next start reads it back: DeletePod's
\* comment counts on the kubelet to retry, but it was told of success, and a
\* retry finds no such pod in memory and deletes nothing.
UnpreparedIsForgotten ==
  \A c \in Claims : claimPhase[c] = "free" =>
    /\ \A x \in Stored(checkpoint) :
         checkpoint[x[1]][x[2]].claim = c => x[1] \in undeleted
    /\ \A x \in Stored(configs) :
         configs[x[1]][x[2]].claim = c => x[1] \in undeleted /\ crashes > 0

\* A terminating pod is let go: the unprepare of its claims never fails for
\* good, whatever was or was not prepared.
TerminatingPodsGo ==
  \A p \in Pods : podPhase[p] = "terminating" ~> podPhase[p] = "gone"
=============================================================================

--------------------------- MODULE PodNetworkProofs ---------------------------
(***************************************************************************)
(* The pod's interfaces, for every set of devices and configurations and   *)
(* any number of failures.                                                 *)
(***************************************************************************)
EXTENDS PodNetwork, TLAPS

----------------------------------------------------------------------------
\* The programs.

\* The number of steps before the interface is set up in the pod.
Base(d) == IF config[d].sub THEN 4 ELSE 3

\* The programs of a child and of a device that is moved, step by step.
ChildProgram(P) ==
  /\ P[1] = "check" /\ P[2] = "parentUp" /\ P[3] = "create" /\ P[4] = "rename"
  /\ P[5] = "addrGenMode" /\ P[6] = "sysctls" /\ P[7] = "addresses" /\ P[8] = "up"
  /\ P[9] = "ethtool" /\ P[10] = "ebpf" /\ P[11] = "vrf" /\ P[12] = "routes"
  /\ P[13] = "rules" /\ P[14] = "neighbors" /\ P[15] = "rdma" /\ P[16] = "report"
MovedProgram(P) ==
  /\ P[1] = "check" /\ P[2] = "down" /\ P[3] = "move" /\ P[4] = "addrGenMode"
  /\ P[5] = "sysctls" /\ P[6] = "addresses" /\ P[7] = "up" /\ P[8] = "ethtool"
  /\ P[9] = "ebpf" /\ P[10] = "vrf" /\ P[11] = "routes" /\ P[12] = "rules"
  /\ P[13] = "neighbors" /\ P[14] = "rdma" /\ P[15] = "report"

LEMMA ProgramSteps ==
  ASSUME NEW d
  PROVE  /\ config[d].sub => ChildProgram(Program(d))
         /\ ~config[d].sub => MovedProgram(Program(d))
         /\ DOMAIN Program(d) = 1 .. (Base(d) + 12)
         /\ Len(NetdevSteps) - Len(SetupSteps) = 3
<1> USE DEF Program, Base, SubinterfaceSteps, NetdevSteps, SetupSteps, ConfigureSteps
<1>1. CASE config[d].sub
  BY <1>1 DEF ChildProgram
<1>2. CASE ~config[d].sub
  BY <1>2 DEF MovedProgram
<1>3. QED
  BY <1>1, <1>2

----------------------------------------------------------------------------
\* Types.

IsInterface(i) ==
  i = [f \in {"present", "temporary", "up", "addrGenMode", "sysctls", "addrs", "features",
              "programs", "master", "rdma"} |-> i[f]]

HookTypeOK ==
  /\ hook = [f \in {"state", "device", "pc", "todo", "routes", "added"} |-> hook[f]]
  /\ hook.state \in {"waiting", "running", "rollback", "failed", "done", "stopping"}
  /\ hook.state = "waiting" => hook = Waiting
  /\ hook.state \in {"rollback", "failed"} => hook.device # NoDevice
  /\ hook.state = "done" => hook.device = NoDevice /\ hook.todo = {}
  /\ hook.device # NoDevice => /\ hook.device \in Devices \ hook.todo
                              /\ hook.pc \in 1 .. (Base(hook.device) + 12)
                              /\ hook.routes \subseteq DOMAIN config[hook.device].routes
  /\ hook.pc \in Int /\ hook.todo \subseteq Devices /\ hook.added \in BOOLEAN

TypeInv ==
  /\ config = [d \in Devices |-> config[d]] /\ \A d \in Devices : config[d] \in Configs[d]
  /\ location \in [Devices -> {"host", "pod"}] /\ hostUp \in [Devices -> BOOLEAN]
  /\ iface = [d \in Devices |-> iface[d]] /\ \A d \in Devices : IsInterface(iface[d])
  /\ HookTypeOK
  /\ status \in {{}, Devices}
  /\ \A d \in Devices : location[d] = "pod" => iface[d].present /\ ~config[d].sub
  /\ faults \in 0 .. MaxFaults

LEMMA AtPosition ==
  ASSUME TypeInv
  PROVE  /\ \A step : At(step) => hook.state = "running" /\ hook.device \in Devices
         /\ At("check") => hook.pc = 1
         /\ At("parentUp") => hook.pc = 2 /\ Conf.sub
         /\ At("create") => hook.pc = 3 /\ Conf.sub
         /\ At("rename") => hook.pc = 4 /\ Conf.sub
         /\ At("down") => hook.pc = 2 /\ ~Conf.sub
         /\ At("move") => hook.pc = 3 /\ ~Conf.sub
         /\ At("addrGenMode") => hook.pc = Base(Dev) + 1
         /\ At("sysctls") => hook.pc = Base(Dev) + 2
         /\ At("addresses") => hook.pc = Base(Dev) + 3
         /\ At("up") => hook.pc = Base(Dev) + 4
         /\ At("ethtool") => hook.pc = Base(Dev) + 5
         /\ At("ebpf") => hook.pc = Base(Dev) + 6
         /\ At("vrf") => hook.pc = Base(Dev) + 7
         /\ At("routes") => hook.pc = Base(Dev) + 8
         /\ At("rules") => hook.pc = Base(Dev) + 9
         /\ At("neighbors") => hook.pc = Base(Dev) + 10
         /\ At("rdma") => hook.pc = Base(Dev) + 11
         /\ At("report") => hook.pc = Base(Dev) + 12
<1>1. ASSUME NEW step, At(step)
      PROVE  /\ hook.state = "running" /\ hook.device \in Devices
             /\ hook.pc \in 1 .. (Base(Dev) + 12) /\ Program(Dev)[hook.pc] = step
  BY <1>1 DEF At, Dev, TypeInv, HookTypeOK
<1>2. CASE Conf.sub
  <2>1. Base(Dev) = 4
    BY <1>2 DEF Base, Conf, Dev
  <2>2. ChildProgram(Program(Dev))
    BY <1>2, ProgramSteps DEF Conf, Dev
  <2>3. ASSUME NEW step, At(step)
      PROVE  \/ (hook.pc = 1 /\ step = "check") \/ (hook.pc = 2 /\ step = "parentUp")
             \/ (hook.pc = 3 /\ step = "create") \/ (hook.pc = 4 /\ step = "rename")
             \/ (hook.pc = 5 /\ step = "addrGenMode") \/ (hook.pc = 6 /\ step = "sysctls")
             \/ (hook.pc = 7 /\ step = "addresses") \/ (hook.pc = 8 /\ step = "up")
             \/ (hook.pc = 9 /\ step = "ethtool") \/ (hook.pc = 10 /\ step = "ebpf")
             \/ (hook.pc = 11 /\ step = "vrf") \/ (hook.pc = 12 /\ step = "routes")
             \/ (hook.pc = 13 /\ step = "rules") \/ (hook.pc = 14 /\ step = "neighbors")
             \/ (hook.pc = 15 /\ step = "rdma") \/ (hook.pc = 16 /\ step = "report")
    <3>1. hook.pc \in 1 .. 16 /\ Program(Dev)[hook.pc] = step
      BY <1>1, <2>1, <2>3
    <3>2. \/ hook.pc = 1 \/ hook.pc = 2 \/ hook.pc = 3 \/ hook.pc = 4 \/ hook.pc = 5
          \/ hook.pc = 6 \/ hook.pc = 7 \/ hook.pc = 8 \/ hook.pc = 9 \/ hook.pc = 10
          \/ hook.pc = 11 \/ hook.pc = 12 \/ hook.pc = 13 \/ hook.pc = 14 \/ hook.pc = 15
          \/ hook.pc = 16
      BY <3>1
    <3>3. QED
      BY <3>1, <3>2, <2>2 DEF ChildProgram
  <2>4. QED
    BY <1>1, <1>2, <2>1, <2>3
<1>3. CASE ~Conf.sub
  <2>1. Base(Dev) = 3
    BY <1>3 DEF Base, Conf, Dev
  <2>2. MovedProgram(Program(Dev))
    BY <1>3, ProgramSteps DEF Conf, Dev
  <2>3. ASSUME NEW step, At(step)
      PROVE  \/ (hook.pc = 1 /\ step = "check") \/ (hook.pc = 2 /\ step = "down")
             \/ (hook.pc = 3 /\ step = "move") \/ (hook.pc = 4 /\ step = "addrGenMode")
             \/ (hook.pc = 5 /\ step = "sysctls") \/ (hook.pc = 6 /\ step = "addresses")
             \/ (hook.pc = 7 /\ step = "up") \/ (hook.pc = 8 /\ step = "ethtool")
             \/ (hook.pc = 9 /\ step = "ebpf") \/ (hook.pc = 10 /\ step = "vrf")
             \/ (hook.pc = 11 /\ step = "routes") \/ (hook.pc = 12 /\ step = "rules")
             \/ (hook.pc = 13 /\ step = "neighbors") \/ (hook.pc = 14 /\ step = "rdma")
             \/ (hook.pc = 15 /\ step = "report")
    <3>1. hook.pc \in 1 .. 15 /\ Program(Dev)[hook.pc] = step
      BY <1>1, <2>1, <2>3
    <3>2. \/ hook.pc = 1 \/ hook.pc = 2 \/ hook.pc = 3 \/ hook.pc = 4 \/ hook.pc = 5
          \/ hook.pc = 6 \/ hook.pc = 7 \/ hook.pc = 8 \/ hook.pc = 9 \/ hook.pc = 10
          \/ hook.pc = 11 \/ hook.pc = 12 \/ hook.pc = 13 \/ hook.pc = 14 \/ hook.pc = 15
      BY <3>1
    <3>3. QED
      BY <3>1, <3>2, <2>2 DEF MovedProgram
  <2>4. QED
    BY <1>1, <1>3, <2>1, <2>3
<1>4. QED
  BY <1>2, <1>3

\* No step changes a configuration, and with it a program.
LEMMA ConfigKept ==
  ASSUME NetNext \/ UNCHANGED netVars
  PROVE  config' = config
BY DEF NetNext, netVars, RunPodSandbox, BeginDevice, Check, SetDown, Move, ParentUp, CreateChild, Configures,
       Rename, SetAddrGenMode, ApplySysctls, AddAddresses, SetUp, ApplyEthtool, DetachEBPF, ApplyVRF,
       AddRoute, AddRouteFails, ApplyRoutes, ApplyRules, ApplyNeighbors, MoveRDMA, Skip, Report, RunSucceeds,
       StepFails, IPv6Missing, Rollback, RollbackFails, StopDevice, NetnsDestroyed

LEMMA WaitingTypeOK ==
  ASSUME hook = Waiting \/ hook = [Waiting EXCEPT !.state = "stopping"]
  PROVE  HookTypeOK
<1>1. CASE hook = Waiting
  <2>1. /\ hook.state = "waiting" /\ hook.device = NoDevice /\ hook.pc = 0
        /\ hook.todo = {} /\ hook.added \in BOOLEAN
    BY <1>1 DEF Waiting
  <2>2. hook = [f \in {"state", "device", "pc", "todo", "routes", "added"} |-> hook[f]]
    BY <1>1 DEF Waiting
  <2>3. QED
    BY <1>1, <2>1, <2>2 DEF HookTypeOK
<1>2. CASE hook = [Waiting EXCEPT !.state = "stopping"]
  <2>1. /\ hook.state = "stopping" /\ hook.device = NoDevice /\ hook.pc = 0
        /\ hook.todo = {} /\ hook.added \in BOOLEAN
    BY <1>2 DEF Waiting
  <2>2. hook = [f \in {"state", "device", "pc", "todo", "routes", "added"} |-> hook[f]]
    BY <1>2 DEF Waiting
  <2>3. QED
    BY <2>1, <2>2 DEF HookTypeOK
<1>3. QED
  BY <1>1, <1>2

LEMMA TypeInit == NetInit => TypeInv
<1> SUFFICES ASSUME NetInit PROVE TypeInv
  OBVIOUS
<1>1. HookTypeOK
  BY WaitingTypeOK DEF NetInit
<1>2. config = [d \in Devices |-> config[d]] /\ \A d \in Devices : config[d] \in Configs[d]
  BY DEF NetInit
<1>3. \A d \in Devices : IsInterface(iface[d])
  BY DEF NetInit, IsInterface, Absent
<1>4. QED
  BY <1>1, <1>2, <1>3, PodAssumption DEF NetInit, TypeInv

\* The ways a hook goes on.
LEMMA HookAdvances ==
  ASSUME HookTypeOK, config' = config, hook.state = "running", hook.device \in Devices,
         hook.pc < Base(Dev) + 12, Advance
  PROVE  HookTypeOK'
<1>1. /\ hook'.state = hook.state /\ hook'.device = hook.device /\ hook'.pc = hook.pc + 1
      /\ hook'.todo = hook.todo /\ hook'.routes = hook.routes /\ hook'.added = hook.added
      /\ hook' = [f \in {"state", "device", "pc", "todo", "routes", "added"} |-> hook'[f]]
  BY DEF HookTypeOK, Advance
<1>2. hook.device # NoDevice /\ Base(hook.device) \in {3, 4} /\ hook.pc \in 1 .. (Base(hook.device) + 12)
  BY PodAssumption DEF HookTypeOK, Base
<1>3. hook.pc + 1 \in 1 .. (Base(hook.device) + 12)
  BY <1>2 DEF Dev
<1>4. hook'.pc \in 1 .. (Base(hook.device) + 12)'
  BY <1>1, <1>3 DEF Base
<1>5. QED
  BY <1>1, <1>2, <1>4 DEF HookTypeOK

LEMMA HookGoesOn ==
  ASSUME HookTypeOK, config' = config, hook.state \in {"running", "rollback"}, hook.device \in Devices,
         \/ Fail
         \/ hook' = [hook EXCEPT !.state = "failed"]
         \/ hook.state = "running" /\ hook' = [hook EXCEPT !.device = NoDevice]
         \/ \E i, b : b \in BOOLEAN /\ hook' = [hook EXCEPT !.routes = @ \ {i}, !.added = b]
  PROVE  HookTypeOK'
<1>1. hook.device # NoDevice /\ \A d : Base(d)' = Base(d)
  BY PodAssumption DEF Base
<1>2. CASE Fail \/ hook' = [hook EXCEPT !.state = "failed"]
  <2>1. /\ hook'.state \in {"rollback", "failed"}
        /\ UNCHANGED <<hook.device, hook.pc, hook.todo, hook.routes, hook.added>>
        /\ hook' = [f \in {"state", "device", "pc", "todo", "routes", "added"} |-> hook'[f]]
    BY <1>2 DEF HookTypeOK, Fail
  <2>2. QED
    BY <1>1, <2>1 DEF HookTypeOK, Base
<1>3. CASE hook.state = "running" /\ hook' = [hook EXCEPT !.device = NoDevice]
  BY <1>1, <1>3 DEF HookTypeOK
<1>4. ASSUME NEW i, NEW b \in BOOLEAN, hook' = [hook EXCEPT !.routes = @ \ {i}, !.added = b]
      PROVE  HookTypeOK'
  BY <1>1, <1>4 DEF HookTypeOK
<1>5. QED
  BY <1>2, <1>3, <1>4

\* What a change of one interface leaves alone.
LEMMA OneInterface ==
  ASSUME TypeInv, NEW d \in Devices, NEW i, IsInterface(i), iface' = [iface EXCEPT ![d] = i]
  PROVE  /\ iface' = [e \in Devices |-> iface'[e]] /\ iface'[d] = i
         /\ \A e \in Devices : IsInterface(iface'[e]) /\ (e # d => iface'[e] = iface[e])
BY DEF TypeInv

LEMMA TypeNext ==
  ASSUME TypeInv, NetNext \/ UNCHANGED netVars
  PROVE  TypeInv'
<1> USE PodAssumption DEF TypeInv
<1>1. config' = config
  BY ConfigKept
<1>2. CASE RunPodSandbox
  <2>1. HookTypeOK'
    BY <1>2 DEF RunPodSandbox, HookTypeOK, Waiting, NoDevice
  <2>2. QED
    BY <1>2, <2>1 DEF RunPodSandbox
<1>3. ASSUME NEW d \in Devices, BeginDevice(d) PROVE TypeInv'
  <2>1. HookTypeOK'
    <3>1. /\ hook'.state = "running" /\ hook'.device = d /\ hook'.pc = 1 /\ hook'.todo = hook.todo \ {d}
          /\ hook'.routes = DOMAIN config[d].routes /\ hook'.added \in BOOLEAN
          /\ hook' = [f \in {"state", "device", "pc", "todo", "routes", "added"} |-> hook'[f]]
      BY <1>3 DEF BeginDevice, HookTypeOK
    <3>2. 1 \in 1 .. (Base(d)' + 12)
      BY DEF Base
    <3>3. QED
      BY <1>1, <3>1, <3>2 DEF HookTypeOK
  <2>2. QED
    BY <1>3, <2>1 DEF BeginDevice
<1>4. CASE Check \/ SetDown \/ ParentUp \/ Skip \/ Report \/ ApplyRoutes \/ ApplyRules \/ ApplyNeighbors
           \/ StepFails \/ IPv6Missing \/ \E i \in hook.routes : AddRoute(i) \/ AddRouteFails(i)
  <2>1. /\ hook.state = "running" /\ hook.device \in Devices
        /\ \A d : Base(d) \in {3, 4}
    BY <1>4, AtPosition
       DEF Check, SetDown, ParentUp, Skip, Report, ApplyRoutes, ApplyRules, ApplyNeighbors, StepFails,
           IPv6Missing, AddRoute, AddRouteFails, HookTypeOK, Base
  <2>2. HookTypeOK'
    <3>1. CASE Check \/ SetDown \/ ParentUp \/ Skip \/ ApplyRoutes \/ ApplyRules \/ ApplyNeighbors
      <4>1. hook.pc < Base(Dev) + 12
        BY <2>1, <3>1, AtPosition
           DEF Check, SetDown, ParentUp, Skip, ApplyRoutes, ApplyRules, ApplyNeighbors
      <4>2. Advance \/ Fail \/ hook' = [hook EXCEPT !.state = "failed"]
        BY <3>1 DEF Check, SetDown, ParentUp, Skip, ApplyRoutes, ApplyRules, ApplyNeighbors
      <4>3. QED
        BY <1>1, <2>1, <4>1, <4>2, HookAdvances, HookGoesOn
    <3>2. CASE Report \/ StepFails \/ IPv6Missing
      BY <1>1, <2>1, <3>2, HookGoesOn DEF Report, StepFails, IPv6Missing
    <3>3. ASSUME NEW i \in hook.routes, AddRoute(i) \/ AddRouteFails(i) PROVE HookTypeOK'
      <4>1. PICK b \in BOOLEAN : hook' = [hook EXCEPT !.routes = @ \ {i}, !.added = b]
        BY <3>3 DEF AddRoute, AddRouteFails, HookTypeOK
      <4>2. QED
        BY <1>1, <2>1, <4>1, HookGoesOn
    <3>4. QED
      BY <1>4, <3>1, <3>2, <3>3
  <2>3. hostUp' = hostUp \/ \E b \in BOOLEAN : hostUp' = [hostUp EXCEPT ![Dev] = b]
    BY <1>4 DEF Check, SetDown, ParentUp, Skip, Report, ApplyRoutes, ApplyRules, ApplyNeighbors, StepFails,
                IPv6Missing, AddRoute, AddRouteFails
  <2>4. faults' = faults \/ (faults < MaxFaults /\ faults' = faults + 1)
    BY <1>4 DEF Check, SetDown, ParentUp, Skip, Report, ApplyRoutes, ApplyRules, ApplyNeighbors, StepFails,
                IPv6Missing, AddRoute, AddRouteFails
  <2>5. hostUp' \in [Devices -> BOOLEAN] /\ faults' \in 0 .. MaxFaults
    BY <2>1, <2>3, <2>4 DEF Dev
  <2>6. UNCHANGED <<config, location, iface, status>>
    BY <1>1, <1>4 DEF Check, SetDown, ParentUp, Skip, Report, ApplyRoutes, ApplyRules, ApplyNeighbors, StepFails,
                      IPv6Missing, AddRoute, AddRouteFails
  <2>7. QED
    BY <2>2, <2>5, <2>6
<1>5. ASSUME NEW i, IsInterface(i), i.present \/ i.present = iface[Dev].present,
             hook.state = "running", hook.device \in Devices, hook.pc < Base(Dev) + 12,
             iface' = [iface EXCEPT ![Dev] = i], Advance,
             location' = location \/ (i.present /\ ~Conf.sub /\ location' = [location EXCEPT ![Dev] = "pod"]),
             UNCHANGED <<hostUp, status, faults>>
      PROVE  TypeInv'
  <2>1. HookTypeOK'
    BY <1>1, <1>5, HookAdvances
  <2>2. Dev \in Devices
    BY <1>5 DEF Dev
  <2>3. /\ iface' = [e \in Devices |-> iface'[e]] /\ iface'[Dev] = i
        /\ \A e \in Devices : IsInterface(iface'[e]) /\ (e # Dev => iface'[e] = iface[e])
    BY <1>5, <2>2, OneInterface
  <2>4. \A d \in Devices : location'[d] = "pod" => iface'[d].present /\ ~config[d].sub
    BY <1>5, <2>2, <2>3 DEF Conf
  <2>5. QED
    BY <1>1, <1>5, <2>1, <2>2, <2>3, <2>4
<1>6. CASE Move \/ CreateChild
  <2>1. hook.state = "running" /\ hook.device \in Devices /\ hook.pc < Base(Dev) + 12
    BY <1>6, AtPosition DEF Move, CreateChild, Base
  <2>2. CASE Move
    <3>1. IsInterface([Absent EXCEPT !.present = TRUE]) /\ [Absent EXCEPT !.present = TRUE].present
      BY DEF IsInterface, Absent
    <3>2. QED
      BY <1>5, <2>1, <2>2, <3>1, AtPosition DEF Move
  <2>3. CASE CreateChild
    <3>1. /\ IsInterface([Absent EXCEPT !.present = TRUE, !.temporary = TRUE])
          /\ [Absent EXCEPT !.present = TRUE, !.temporary = TRUE].present
      BY DEF IsInterface, Absent
    <3>2. QED
      BY <1>5, <2>1, <2>3, <3>1 DEF CreateChild
  <2>4. QED
    BY <1>6, <2>2, <2>3
<1>7. CASE Rename \/ SetAddrGenMode \/ ApplySysctls \/ AddAddresses \/ SetUp \/ ApplyEthtool
            \/ (\E all \in BOOLEAN : DetachEBPF(all)) \/ MoveRDMA
  <2>1. hook.state = "running" /\ hook.device \in Devices /\ hook.pc < Base(Dev) + 12
    <3>1. \/ At("rename") \/ At("addrGenMode") \/ At("sysctls") \/ At("addresses") \/ At("up")
          \/ At("ethtool") \/ At("ebpf") \/ At("rdma")
      BY <1>7 DEF Rename, SetAddrGenMode, ApplySysctls, AddAddresses, SetUp, ApplyEthtool, DetachEBPF, MoveRDMA
    <3>2. Base(Dev) \in {3, 4}
      BY DEF Base
    <3>3. QED
      BY <3>1, <3>2, AtPosition
  <2>2. IsInterface(iface[Dev])
    BY <2>1 DEF Dev
  <2>3. PICK i : IsInterface(i) /\ i.present = iface[Dev].present /\ Configures(i)
    BY <1>7, <2>2
       DEF Rename, SetAddrGenMode, ApplySysctls, AddAddresses, SetUp, ApplyEthtool, DetachEBPF, MoveRDMA, IsInterface
  <2>4. QED
    BY <1>5, <2>1, <2>3 DEF Configures
<1>8. CASE ApplyVRF
  <2>1. hook.state = "running" /\ hook.device \in Devices /\ hook.pc < Base(Dev) + 12
    BY <1>8, AtPosition DEF ApplyVRF, Base
  <2>2. IsInterface(iface[Dev])
    BY <2>1 DEF Dev
  <2>3. IsInterface([iface[Dev] EXCEPT !.master = Conf.vrf.name, !.addrs = AddressesInVRF(iface[Dev])])
    BY <2>2 DEF IsInterface
  <2>4. iface' = [iface EXCEPT ![Dev] = [iface[Dev] EXCEPT !.master = Conf.vrf.name,
                                                            !.addrs = AddressesInVRF(iface[Dev])]]
    BY <1>8, <2>1, <2>2 DEF ApplyVRF, Dev, IsInterface
  <2>5. [iface[Dev] EXCEPT !.master = Conf.vrf.name, !.addrs = AddressesInVRF(iface[Dev])].present
          = iface[Dev].present
    BY <2>2 DEF IsInterface
  <2>6. QED
    BY <1>5, <1>8, <2>1, <2>3, <2>4, <2>5 DEF ApplyVRF
<1>9. ASSUME NEW sent \in BOOLEAN, RunSucceeds(sent) PROVE TypeInv'
  <2>1. HookTypeOK'
    BY <1>1, <1>9 DEF RunSucceeds, HookTypeOK, NoDevice
  <2>2. QED
    BY <1>9, <2>1 DEF RunSucceeds
<1>10. ASSUME NEW d \in Devices, Vanishes(d), location' = location \/ location' = [location EXCEPT ![d] = "host"],
              location'[d] = "host", hostUp' \in [Devices -> BOOLEAN], HookTypeOK', status' = status,
              faults' \in 0 .. MaxFaults
       PROVE  TypeInv'
  <2>1. IsInterface(Absent)
    BY DEF IsInterface, Absent
  <2>2. /\ iface' = [e \in Devices |-> iface'[e]]
        /\ \A e \in Devices : IsInterface(iface'[e]) /\ (e # d => iface'[e] = iface[e])
    BY <1>10, <2>1, OneInterface DEF Vanishes
  <2>3. \A e \in Devices : location'[e] = "pod" => iface'[e].present /\ ~config[e].sub
    BY <1>10, <2>2
  <2>4. QED
    BY <1>1, <1>10, <2>2, <2>3
<1>11. CASE Rollback
  <2>1. Dev \in Devices /\ hook.device \in Devices /\ hook.state = "rollback"
    BY <1>11 DEF Rollback, Dev, HookTypeOK
  <2>2. HookTypeOK' /\ hostUp' \in [Devices -> BOOLEAN]
    BY <1>1, <1>11, <2>1, HookGoesOn DEF Rollback, DeleteChild, ReturnNetdev
  <2>3. CASE ~Conf.sub
    BY <1>10, <1>11, <2>1, <2>2, <2>3 DEF Rollback, ReturnNetdev
  <2>4. CASE Conf.sub /\ FoundForRollback(Dev)
    BY <1>10, <1>11, <2>1, <2>2, <2>4 DEF Rollback, DeleteChild, Conf
  <2>5. CASE Conf.sub /\ ~FoundForRollback(Dev)
    BY <1>1, <1>11, <2>2, <2>5 DEF Rollback, DeleteChild
  <2>6. QED
    BY <2>3, <2>4, <2>5
<1>12. ASSUME NEW moved \in BOOLEAN, RollbackFails(moved) PROVE TypeInv'
  <2>1. Dev \in Devices /\ hook.device \in Devices /\ hook.state = "rollback"
    BY <1>12 DEF RollbackFails, Dev, HookTypeOK
  <2>2. HookTypeOK' /\ faults' \in 0 .. MaxFaults /\ UNCHANGED <<hostUp, status>>
    BY <1>1, <1>12, <2>1, HookGoesOn DEF RollbackFails
  <2>3. CASE moved
    BY <1>10, <1>12, <2>1, <2>2, <2>3 DEF RollbackFails
  <2>4. CASE ~moved
    <3>1. PICK up \in BOOLEAN : iface' = [iface EXCEPT ![Dev].up = up]
      BY <1>12, <2>4 DEF RollbackFails
    <3>2. IsInterface([iface[Dev] EXCEPT !.up = up]) /\ [iface[Dev] EXCEPT !.up = up].present = iface[Dev].present
      BY <2>1 DEF IsInterface
    <3>3. iface' = [iface EXCEPT ![Dev] = [iface[Dev] EXCEPT !.up = up]]
      BY <3>1
    <3>4. /\ iface' = [e \in Devices |-> iface'[e]]
          /\ \A e \in Devices : IsInterface(iface'[e]) /\ iface'[e].present = iface[e].present
      BY <2>1, <3>2, <3>3, OneInterface
    <3>5. QED
      BY <1>1, <1>12, <2>2, <2>4, <3>4 DEF RollbackFails
  <2>5. QED
    BY <2>3, <2>4
<1>13. ASSUME NEW d \in Devices, StopDevice(d) PROVE TypeInv'
  <2>1. HookTypeOK'
    BY <1>13 DEF StopDevice, HookTypeOK, Waiting, NoDevice
  <2>2. Vanishes(d) /\ hostUp' \in [Devices -> BOOLEAN] /\ status' = status /\ faults' = faults
    BY <1>13 DEF StopDevice, ReturnNetdev
  <2>3. location'[d] = "host" /\ (location' = location \/ location' = [location EXCEPT ![d] = "host"])
    BY <1>13 DEF StopDevice, ReturnNetdev
  <2>4. QED
    BY <1>10, <2>1, <2>2, <2>3
<1>14. CASE NetnsDestroyed
  <2>1. HookTypeOK'
    BY <1>14 DEF NetnsDestroyed, HookTypeOK, Waiting, NoDevice
  <2>2. IsInterface(Absent)
    BY DEF IsInterface, Absent
  <2>3. QED
    BY <1>1, <1>14, <2>1, <2>2 DEF NetnsDestroyed
<1>15. CASE UNCHANGED netVars
  BY <1>15 DEF netVars, HookTypeOK, Base
<1>16. QED
  BY <1>2, <1>3, <1>4, <1>6, <1>7, <1>8, <1>9, <1>11, <1>12, <1>13, <1>14, <1>15 DEF NetNext

----------------------------------------------------------------------------
\* The interfaces.  At step n of its program an interface has what the steps
\* before did to it.

Untouched(d) == iface[d] = Absent /\ location[d] = "host"

SetUpTo(d, n) ==
  LET c == config[d] i == iface[d] IN
  /\ n <= 3 => Untouched(d)
  /\ n > 3 => i.present /\ (~c.sub => location[d] = "pod")
  /\ i.temporary => c.sub /\ n = 4
  /\ i.up => n > Base(d) + 4
  /\ n > Base(d) + 4 => i.up
  /\ n > Base(d) + 1 => i.addrGenMode = c.addrGenMode
  /\ n > Base(d) + 2 => i.sysctls = Sysctls(c)
  /\ n > Base(d) + 3 => i.addrs = ToSet(c.addrs)
  /\ n > Base(d) + 5 => i.features = c.ethtool
  /\ ~i.programs => c.ebpf
  /\ n > Base(d) + 7 /\ c.vrf # NoVRF => i.master = c.vrf.name
  /\ n > Base(d) + 11 /\ c.rdma => i.rdma

\* A device that is done with.
Done(d) == d \in Devices \ hook.todo /\ d # hook.device

UpWithPolicy(d) ==
  iface[d].up => /\ iface[d].addrGenMode = config[d].addrGenMode
                 /\ iface[d].sysctls = Sysctls(config[d])
                 /\ ~iface[d].temporary

InterfaceInv ==
  /\ hook.state = "waiting" => \A d \in Devices : Untouched(d)
  /\ hook.state \in {"running", "rollback", "failed"} => \A d \in hook.todo : Untouched(d)
  /\ hook.state \in {"running", "rollback"} /\ hook.device # NoDevice => SetUpTo(hook.device, hook.pc)
  /\ hook.state = "rollback" => iface[hook.device].present
  /\ hook.state \in {"running", "done"} => \A d \in Devices : Done(d) => SetUpTo(d, Base(d) + 12)
  /\ \A d \in Devices : UpWithPolicy(d)

LEMMA SetUpHasPolicy ==
  ASSUME NEW d, NEW n \in Int, SetUpTo(d, n)
  PROVE  UpWithPolicy(d)
BY DEF SetUpTo, UpWithPolicy, Base

LEMMA SetUpKept ==
  ASSUME NEW d, NEW n, SetUpTo(d, n), config' = config, iface'[d] = iface[d], location'[d] = location[d]
  PROVE  SetUpTo(d, n)'
BY DEF SetUpTo, Untouched, Base

\* One step of the program of d.
LEMMA InterfaceStep ==
  ASSUME TypeInv, InterfaceInv, NEW d \in Devices, NEW m \in Int, hook.device = d, hook.state = "running",
         config' = config, UNCHANGED <<hook.state, hook.device, hook.todo>>, hook'.pc = m,
         \A e \in Devices \ {d} : iface'[e] = iface[e] /\ location'[e] = location[e],
         SetUpTo(d, m)'
  PROVE  InterfaceInv'
<1>1. d # NoDevice /\ d \notin hook.todo /\ hook.todo \subseteq Devices
  BY PodAssumption DEF TypeInv, HookTypeOK
<1>2. \A e \in hook'.todo : Untouched(e)'
  BY <1>1 DEF InterfaceInv, Untouched
<1>3. ASSUME NEW e \in Devices, Done(e)' PROVE SetUpTo(e, Base(e) + 12)'
  <2>1. Done(e) /\ e # d
    BY <1>3 DEF Done
  <2>2. SetUpTo(e, Base(e) + 12)
    BY <2>1 DEF InterfaceInv
  <2>3. SetUpTo(e, Base(e) + 12)'
    BY <2>1, <2>2 DEF SetUpTo, Untouched, Base
  <2>4. QED
    BY <2>3
<1>4. ASSUME NEW e \in Devices PROVE UpWithPolicy(e)'
  <2>1. CASE e = d
    <3>1. ASSUME NEW n \in Int, SetUpTo(e, n)' PROVE UpWithPolicy(e)'
      BY <3>1 DEF SetUpTo, UpWithPolicy, Base
    <3>2. QED
      BY <2>1, <3>1
  <2>2. CASE e # d
    BY <2>2 DEF InterfaceInv, UpWithPolicy
  <2>3. QED
    BY <2>1, <2>2
<1>5. SetUpTo(hook.device, hook.pc)'
  OBVIOUS
<1>6. QED
  BY <1>2, <1>3, <1>4, <1>5 DEF InterfaceInv

LEMMA InterfaceInit == NetInit => InterfaceInv
<1> SUFFICES ASSUME NetInit PROVE InterfaceInv
  OBVIOUS
<1>1. hook.state = "waiting"
  BY DEF NetInit, Waiting
<1>2. \A d \in Devices : Untouched(d) /\ UpWithPolicy(d)
  BY DEF NetInit, Untouched, UpWithPolicy, Absent
<1>3. QED
  BY <1>1, <1>2 DEF InterfaceInv

\* The requests that change an interface do to it what the step is for.
LEMMA ConfiguredStep ==
  ASSUME TypeInv, InterfaceInv,
         \/ Rename \/ SetAddrGenMode \/ ApplySysctls \/ AddAddresses \/ SetUp \/ ApplyEthtool
         \/ (\E all \in BOOLEAN : DetachEBPF(all)) \/ MoveRDMA
  PROVE  InterfaceInv'
<1>1. config' = config
  BY ConfigKept DEF NetNext
<1>2a. hook.state = "running" /\ hook.device \in Devices /\ hook.pc \in Int
  <2>1. \/ At("rename") \/ At("addrGenMode") \/ At("sysctls") \/ At("addresses") \/ At("up")
        \/ At("ethtool") \/ At("ebpf") \/ At("rdma")
    BY DEF Rename, SetAddrGenMode, ApplySysctls, AddAddresses, SetUp, ApplyEthtool, DetachEBPF, MoveRDMA
  <2>2. QED
    BY <2>1, AtPosition DEF TypeInv, HookTypeOK
<1>2b. PICK d \in Devices, n \in Int : hook.device = d /\ hook.pc = n
  BY <1>2a
<1>2. /\ hook.state = "running" /\ d \in Devices /\ d # NoDevice /\ IsInterface(iface[d]) /\ n \in Int
      /\ Base(d) \in {3, 4} /\ (IF config[d].sub THEN Base(d) = 4 ELSE Base(d) = 3)
      /\ hook.device = d /\ hook.pc = n
  BY <1>2a, <1>2b, PodAssumption DEF TypeInv, Base
<1>3. SetUpTo(d, n)
  BY <1>2 DEF InterfaceInv
<1>4. ASSUME NEW i, IsInterface(i), Configures(i), SetUpTo(d, n + 1)'
      PROVE  InterfaceInv'
  <2>1. UNCHANGED <<hook.state, hook.device, hook.todo>> /\ hook'.pc = n + 1
    BY <1>2, <1>4 DEF Configures, Advance, TypeInv, HookTypeOK
  <2>2. \A e \in Devices \ {d} : iface'[e] = iface[e] /\ location'[e] = location[e]
    BY <1>2, <1>4 DEF Configures, Dev, TypeInv
  <2>3. QED
    BY <1>1, <1>2, <1>4, <2>1, <2>2, InterfaceStep
<1>5. ASSUME NEW i, IsInterface(i), Configures(i)
      PROVE  iface'[d] = i /\ location' = location /\ \A e : Base(e)' = Base(e)
  BY <1>1, <1>2, <1>5 DEF Configures, Dev, TypeInv, Base
<1>6. CASE Rename
  <2> DEFINE i == [iface[d] EXCEPT !.temporary = FALSE]
  <2>1. /\ IsInterface(i) /\ Configures(i) /\ i.temporary = FALSE
        /\ i.present = iface[d].present /\ i.up = iface[d].up /\ i.programs = iface[d].programs
        /\ n = 4 /\ config[d].sub
    BY <1>2, <1>6, AtPosition DEF Rename, IsInterface, Dev, Conf
  <2>2. iface'[d] = i /\ location' = location /\ Base(d)' = Base(d)
    BY <1>5, <2>1
  <2>3. SetUpTo(d, n + 1)'
    <3> HIDE DEF i
    <3> QED
      BY <1>1, <1>2, <1>3, <2>1, <2>2 DEF SetUpTo
  <2>4. QED
    BY <1>4, <2>1, <2>3
<1>7. CASE SetAddrGenMode
  <2> DEFINE i == [iface[d] EXCEPT !.addrGenMode = config[d].addrGenMode]
  <2>1. /\ IsInterface(i) /\ Configures(i) /\ i.addrGenMode = config[d].addrGenMode
        /\ i.present = iface[d].present /\ i.up = iface[d].up /\ i.programs = iface[d].programs
        /\ i.temporary = iface[d].temporary
        /\ n = Base(d) + 1
    BY <1>2, <1>7, AtPosition DEF SetAddrGenMode, IsInterface, Dev, Conf
  <2>2. iface'[d] = i /\ location' = location /\ Base(d)' = Base(d)
    BY <1>5, <2>1
  <2>3. SetUpTo(d, n + 1)'
    <3> HIDE DEF i
    <3> QED
      BY <1>1, <1>2, <1>3, <2>1, <2>2 DEF SetUpTo
  <2>4. QED
    BY <1>4, <2>1, <2>3
<1>8. CASE ApplySysctls
  <2> DEFINE i == [iface[d] EXCEPT !.sysctls = Sysctls(config[d])]
  <2>1. /\ IsInterface(i) /\ Configures(i) /\ i.sysctls = Sysctls(config[d])
        /\ i.present = iface[d].present /\ i.up = iface[d].up /\ i.programs = iface[d].programs
        /\ i.temporary = iface[d].temporary /\ i.addrGenMode = iface[d].addrGenMode
        /\ n = Base(d) + 2
    BY <1>2, <1>8, AtPosition DEF ApplySysctls, IsInterface, Dev, Conf
  <2>2. iface'[d] = i /\ location' = location /\ Base(d)' = Base(d)
    BY <1>5, <2>1
  <2>3. SetUpTo(d, n + 1)'
    <3> HIDE DEF i
    <3> QED
      BY <1>1, <1>2, <1>3, <2>1, <2>2 DEF SetUpTo
  <2>4. QED
    BY <1>4, <2>1, <2>3
<1>9. CASE AddAddresses
  <2> DEFINE i == [iface[d] EXCEPT !.addrs = ToSet(config[d].addrs)]
  <2>1. /\ IsInterface(i) /\ Configures(i) /\ i.addrs = ToSet(config[d].addrs)
        /\ i.present = iface[d].present /\ i.up = iface[d].up /\ i.programs = iface[d].programs
        /\ i.temporary = iface[d].temporary /\ i.addrGenMode = iface[d].addrGenMode
        /\ i.sysctls = iface[d].sysctls
        /\ n = Base(d) + 3
    BY <1>2, <1>9, AtPosition DEF AddAddresses, IsInterface, Dev, Conf
  <2>2. iface'[d] = i /\ location' = location /\ Base(d)' = Base(d)
    BY <1>5, <2>1
  <2>3. SetUpTo(d, n + 1)'
    <3> HIDE DEF i
    <3> QED
      BY <1>1, <1>2, <1>3, <2>1, <2>2 DEF SetUpTo
  <2>4. QED
    BY <1>4, <2>1, <2>3
<1>10. CASE SetUp
  <2> DEFINE i == [iface[d] EXCEPT !.up = TRUE]
  <2>1. /\ IsInterface(i) /\ Configures(i) /\ i.up
        /\ i.present = iface[d].present /\ i.addrs = iface[d].addrs /\ i.programs = iface[d].programs
        /\ i.temporary = iface[d].temporary /\ i.addrGenMode = iface[d].addrGenMode
        /\ i.sysctls = iface[d].sysctls
        /\ n = Base(d) + 4
    BY <1>2, <1>10, AtPosition DEF SetUp, IsInterface, Dev, Conf
  <2>2. iface'[d] = i /\ location' = location /\ Base(d)' = Base(d)
    BY <1>5, <2>1
  <2>3. SetUpTo(d, n + 1)'
    <3> HIDE DEF i
    <3> QED
      BY <1>1, <1>2, <1>3, <2>1, <2>2 DEF SetUpTo
  <2>4. QED
    BY <1>4, <2>1, <2>3
<1>11. CASE ApplyEthtool
  <2> DEFINE i == [iface[d] EXCEPT !.features = config[d].ethtool]
  <2>1. /\ IsInterface(i) /\ Configures(i) /\ i.features = config[d].ethtool /\ i.up = iface[d].up
        /\ i.present = iface[d].present /\ i.addrs = iface[d].addrs /\ i.programs = iface[d].programs
        /\ i.temporary = iface[d].temporary /\ i.addrGenMode = iface[d].addrGenMode
        /\ i.sysctls = iface[d].sysctls
        /\ n = Base(d) + 5
    BY <1>2, <1>11, AtPosition DEF ApplyEthtool, IsInterface, Dev, Conf
  <2>2. iface'[d] = i /\ location' = location /\ Base(d)' = Base(d)
    BY <1>5, <2>1
  <2>3. SetUpTo(d, n + 1)'
    <3> HIDE DEF i
    <3> QED
      BY <1>1, <1>2, <1>3, <2>1, <2>2 DEF SetUpTo
  <2>4. QED
    BY <1>4, <2>1, <2>3
<1>12. ASSUME NEW all \in BOOLEAN, DetachEBPF(all) PROVE InterfaceInv'
  <2> DEFINE i == [iface[d] EXCEPT !.programs = ~all]
  <2>1. /\ IsInterface(i) /\ Configures(i) /\ (~i.programs => all) /\ i.up = iface[d].up
        /\ i.present = iface[d].present /\ i.addrs = iface[d].addrs /\ i.features = iface[d].features
        /\ i.temporary = iface[d].temporary /\ i.addrGenMode = iface[d].addrGenMode
        /\ i.sysctls = iface[d].sysctls
        /\ n = Base(d) + 6 /\ (all => config[d].ebpf)
    BY <1>2, <1>12, AtPosition DEF DetachEBPF, IsInterface, Dev, Conf
  <2>2. iface'[d] = i /\ location' = location /\ Base(d)' = Base(d)
    BY <1>5, <2>1
  <2>3. SetUpTo(d, n + 1)'
    <3> HIDE DEF i
    <3> QED
      BY <1>1, <1>2, <1>3, <2>1, <2>2 DEF SetUpTo
  <2>4. QED
    BY <1>4, <2>1, <2>3
<1>13. CASE MoveRDMA
  <2> DEFINE i == [iface[d] EXCEPT !.rdma = config[d].rdma]
  <2>1. /\ IsInterface(i) /\ Configures(i) /\ i.rdma = config[d].rdma /\ i.up = iface[d].up
        /\ i.present = iface[d].present /\ i.addrs = iface[d].addrs /\ i.features = iface[d].features
        /\ i.temporary = iface[d].temporary /\ i.addrGenMode = iface[d].addrGenMode
        /\ i.sysctls = iface[d].sysctls /\ i.programs = iface[d].programs /\ i.master = iface[d].master
        /\ n = Base(d) + 11
    BY <1>2, <1>13, AtPosition DEF MoveRDMA, IsInterface, Dev, Conf
  <2>2. iface'[d] = i /\ location' = location /\ Base(d)' = Base(d)
    BY <1>5, <2>1
  <2>3. SetUpTo(d, n + 1)'
    <3> HIDE DEF i
    <3> QED
      BY <1>1, <1>2, <1>3, <2>1, <2>2 DEF SetUpTo
  <2>4. QED
    BY <1>4, <2>1, <2>3
<1>14. QED
  BY <1>6, <1>7, <1>8, <1>9, <1>10, <1>11, <1>12, <1>13

LEMMA VRFStep ==
  ASSUME TypeInv, InterfaceInv, ApplyVRF
  PROVE  InterfaceInv'
<1>1. config' = config
  BY ConfigKept DEF NetNext
<1>2. hook.state = "running" /\ hook.device \in Devices /\ hook.pc = Base(hook.device) + 7
  BY AtPosition DEF ApplyVRF, Dev
<1>3. PICK d \in Devices : hook.device = d
  BY <1>2
<1>4. Base(d) \in {3, 4} /\ Base(d)' = Base(d) /\ d # NoDevice /\ IsInterface(iface[d])
  BY <1>1, PodAssumption DEF Base, TypeInv
<1>5. SetUpTo(d, Base(d) + 7)
  BY <1>2, <1>3, <1>4 DEF InterfaceInv
<1>6. AddressesInVRF(iface[d]) = ToSet(config[d].addrs)
  <2>1. iface[d].addrs = ToSet(config[d].addrs) /\ iface[d].sysctls = Sysctls(config[d])
    BY <1>4, <1>5 DEF SetUpTo
  <2>2. config[d].vrf # NoVRF
    BY <1>3 DEF ApplyVRF, Conf, Dev
  <2>3. CASE \E a \in ToSet(config[d].addrs) : a.v6
    BY <2>1, <2>2, <2>3 DEF Sysctls, KeepsIPv6AddressesInVRF, AddressesInVRF
  <2>4. CASE \A a \in ToSet(config[d].addrs) : ~a.v6
    BY <2>1, <2>4 DEF AddressesInVRF
  <2>5. QED
    BY <2>3, <2>4
<1>7. /\ iface'[d].master = config[d].vrf.name /\ iface'[d].addrs = ToSet(config[d].addrs)
      /\ \A f \in {"present", "temporary", "up", "addrGenMode", "sysctls", "features", "programs"} :
            iface'[d][f] = iface[d][f]
      /\ \A e \in Devices \ {d} : iface'[e] = iface[e]
  BY <1>3, <1>4, <1>6 DEF ApplyVRF, Conf, Dev, TypeInv, IsInterface
<1>8. SetUpTo(d, Base(d) + 7 + 1)'
  BY <1>1, <1>4, <1>5, <1>7 DEF SetUpTo, ApplyVRF
<1>9. UNCHANGED <<hook.state, hook.device, hook.todo>> /\ hook'.pc = Base(d) + 7 + 1
  BY <1>2, <1>3 DEF ApplyVRF, Advance, TypeInv, HookTypeOK
<1>10. PICK m \in Int : m = Base(d) + 7 + 1
  BY <1>4
<1>11. SetUpTo(d, m)'
  BY <1>4, <1>8, <1>10
<1>12. location' = location
  BY DEF ApplyVRF
<1>13. QED
  BY <1>1, <1>2, <1>3, <1>7, <1>9, <1>10, <1>11, <1>12, InterfaceStep

LEMMA InterfaceNext ==
  ASSUME TypeInv, TypeInv', InterfaceInv, NetNext \/ UNCHANGED netVars
  PROVE  InterfaceInv'
<1>1. config' = config /\ \A d : Base(d)' = Base(d) /\ Base(d) \in {3, 4}
  BY ConfigKept DEF Base
<1>2. ASSUME UNCHANGED <<iface, location>>
      PROVE  /\ \A d, n : SetUpTo(d, n) => SetUpTo(d, n)'
             /\ \A d : (Untouched(d) => Untouched(d)') /\ (UpWithPolicy(d) => UpWithPolicy(d)')
  BY <1>1, <1>2 DEF SetUpTo, Untouched, UpWithPolicy, Base
\* Steps after which nothing of a device is known but that it is not up without policy.
<1>3. ASSUME hook'.state \in {"failed", "stopping"}, \A d \in Devices : UpWithPolicy(d)',
             hook'.state = "failed" => \A d \in hook'.todo : Untouched(d)'
      PROVE  InterfaceInv'
  BY <1>3 DEF InterfaceInv
<1>4. CASE RunPodSandbox
  <2>1. /\ hook'.state = "running" /\ hook'.todo = Devices /\ hook'.device = NoDevice /\ hook.state = "waiting"
        /\ UNCHANGED <<iface, location>>
    BY <1>4 DEF RunPodSandbox, Waiting
  <2>2. QED
    BY <1>2, <2>1 DEF InterfaceInv, Done
<1>5. ASSUME NEW d \in Devices, BeginDevice(d) PROVE InterfaceInv'
  <2>1. /\ hook'.state = "running" /\ hook'.todo = hook.todo \ {d} /\ hook'.device = d /\ hook.state = "running"
        /\ UNCHANGED <<iface, location>> /\ hook'.pc = 1 /\ d \in hook.todo /\ hook.device = NoDevice
    BY <1>5 DEF BeginDevice, TypeInv, HookTypeOK
  <2>2. SetUpTo(d, 1)
    <3>1. Untouched(d)
      BY <2>1 DEF InterfaceInv
    <3>2. ~iface[d].temporary /\ ~iface[d].up /\ iface[d].programs
      <4>1. iface[d] = Absent
        BY <3>1 DEF Untouched
      <4>2. ~Absent.temporary /\ ~Absent.up /\ Absent.programs
        BY DEF Absent
      <4>3. QED
        BY <4>1, <4>2
    <3>3. QED
      BY <1>1, <3>1, <3>2 DEF SetUpTo
  <2>3. ASSUME NEW e \in Devices, Done(e)' PROVE SetUpTo(e, Base(e) + 12)'
    <3>1. Done(e)
      BY <2>1, <2>3, PodAssumption DEF Done
    <3>2. SetUpTo(e, Base(e) + 12)
      BY <2>1, <3>1 DEF InterfaceInv
    <3>3. QED
      BY <1>1, <1>2, <2>1, <3>2 DEF SetUpTo, Untouched
  <2>4. QED
    BY <1>2, <2>1, <2>2, <2>3 DEF InterfaceInv
<1>6. ASSUME NEW n \in Int, NEW m \in Int, hook.pc = n, hook'.pc = m, hook.state = "running",
             hook.device \in Devices, UNCHANGED <<iface, location, hook.state, hook.device, hook.todo>>,
             SetUpTo(hook.device, n) => SetUpTo(hook.device, m)
      PROVE  InterfaceInv'
  <2>1. PICK d \in Devices : hook.device = d
    BY <1>6
  <2>2. SetUpTo(d, m)
    BY <1>6, <2>1, PodAssumption DEF InterfaceInv
  <2>3. SetUpTo(d, m)'
    BY <1>2, <1>6, <2>2
  <2>4. QED
    BY <1>1, <1>6, <2>1, <2>3, InterfaceStep
<1>7. CASE Check \/ SetDown \/ ParentUp \/ Skip \/ ApplyRoutes \/ ApplyRules \/ ApplyNeighbors
           \/ \E i \in hook.routes : AddRoute(i) \/ AddRouteFails(i)
  <2>1. hook.state = "running" /\ hook.device \in Devices /\ UNCHANGED <<iface, location>>
    BY <1>7, AtPosition
       DEF Check, SetDown, ParentUp, Skip, ApplyRoutes, ApplyRules, ApplyNeighbors, AddRoute, AddRouteFails
  <2>2. PICK n \in Int : hook.pc = n
    BY DEF TypeInv, HookTypeOK
  <2>3. CASE Advance
    <3>1. hook'.pc = n + 1 /\ UNCHANGED <<hook.state, hook.device, hook.todo>>
      BY <2>2, <2>3 DEF Advance, TypeInv, HookTypeOK
    <3>2. \/ n \in {1, 2}
          \/ n = Base(Dev) + 7 /\ Conf.vrf = NoVRF
          \/ n \in (Base(Dev) + 8) .. (Base(Dev) + 10)
      <4>1. /\ At("check") => n = 1
            /\ At("down") \/ At("parentUp") => n = 2
            /\ At("vrf") => n = Base(Dev) + 7
            /\ At("routes") => n = Base(Dev) + 8
            /\ At("rules") => n = Base(Dev) + 9
            /\ At("neighbors") => n = Base(Dev) + 10
        BY <2>2, AtPosition
      <4>2. \/ At("check") \/ At("down") \/ At("parentUp") \/ (At("vrf") /\ Conf.vrf = NoVRF)
            \/ At("routes") \/ At("rules") \/ At("neighbors")
        BY <1>7 DEF Check, SetDown, ParentUp, Skip, ApplyRoutes, ApplyRules, ApplyNeighbors, AddRoute, AddRouteFails
      <4>3. Base(Dev) \in {3, 4}
        BY <1>1
      <4>4. QED
        BY <4>1, <4>2, <4>3
    <3>3. SetUpTo(hook.device, n) => SetUpTo(hook.device, n + 1)
      BY <1>1, <3>2 DEF SetUpTo, Dev, Conf
    <3>4. QED
      BY <1>6, <2>1, <2>2, <3>1, <3>3
  <2>4. CASE \E i \in hook.routes : AddRoute(i) \/ AddRouteFails(i)
    <3>1. hook'.pc = n /\ UNCHANGED <<hook.state, hook.device, hook.todo>>
      BY <2>2, <2>4 DEF AddRoute, AddRouteFails, TypeInv, HookTypeOK
    <3>2. QED
      BY <1>6, <2>1, <2>2, <3>1
  <2>5. CASE hook' = [hook EXCEPT !.state = "failed"]
    <3>1. hook'.state = "failed" /\ hook'.todo = hook.todo
      BY <2>5 DEF TypeInv, HookTypeOK
    <3>2. QED
      BY <1>2, <1>3, <2>1, <3>1 DEF InterfaceInv, TypeInv, HookTypeOK
  <2>6. CASE ApplyRoutes /\ Fail
    <3>1. hook'.state = "rollback" /\ UNCHANGED <<hook.pc, hook.device, hook.todo>>
      BY <2>6 DEF Fail, TypeInv, HookTypeOK
    <3>2. SetUpTo(hook.device, n) /\ n = Base(hook.device) + 8
      BY <2>1, <2>2, <2>6, AtPosition, PodAssumption DEF InterfaceInv, ApplyRoutes, Dev
    <3>3. iface[hook.device].present
      BY <1>1, <3>2 DEF SetUpTo
    <3>4. SetUpTo(hook.device, hook.pc)'
      BY <1>2, <2>1, <2>2, <3>1, <3>2
    <3>5. QED
      BY <1>2, <2>1, <2>2, <3>1, <3>2, <3>3, <3>4 DEF InterfaceInv, TypeInv, HookTypeOK
  <2>7. QED
    BY <1>7, <2>3, <2>4, <2>5, <2>6
       DEF Check, SetDown, ParentUp, Skip, ApplyRoutes, ApplyRules, ApplyNeighbors
<1>8. CASE Report
  <2>1. /\ hook.state = "running" /\ hook.device \in Devices /\ UNCHANGED <<iface, location>>
        /\ hook'.device = NoDevice /\ hook'.todo = hook.todo /\ hook'.state = "running"
        /\ hook.pc = Base(hook.device) + 12
    BY <1>8, AtPosition DEF Report, TypeInv, HookTypeOK, Dev
  <2>2. ASSUME NEW e \in Devices, Done(e)' PROVE SetUpTo(e, Base(e) + 12)
    <3>1. e = hook.device \/ Done(e)
      BY <2>1, <2>2 DEF Done
    <3>2. QED
      BY <2>1, <3>1, PodAssumption DEF InterfaceInv
  <2>3. ASSUME NEW e \in Devices, Done(e)' PROVE SetUpTo(e, Base(e) + 12)'
    BY <1>1, <2>1, <2>2, <2>3 DEF SetUpTo, Untouched
  <2>4. QED
    BY <1>2, <2>1, <2>3 DEF InterfaceInv, TypeInv, HookTypeOK
<1>9. ASSUME NEW sent \in BOOLEAN, RunSucceeds(sent) PROVE InterfaceInv'
  <2>1. /\ hook.state = "running" /\ UNCHANGED <<iface, location>>
        /\ hook'.device = hook.device /\ hook'.todo = hook.todo /\ hook'.state = "done"
    BY <1>9 DEF RunSucceeds, TypeInv, HookTypeOK
  <2>2. ASSUME NEW e \in Devices, Done(e)' PROVE SetUpTo(e, Base(e) + 12)'
    <3>1. SetUpTo(e, Base(e) + 12)
      BY <2>1, <2>2 DEF Done, InterfaceInv
    <3>2. QED
      BY <1>1, <2>1, <3>1 DEF SetUpTo, Untouched
  <2>3. QED
    BY <1>2, <2>1, <2>2 DEF InterfaceInv
<1>10. CASE StepFails \/ IPv6Missing
  <2>1. /\ hook.state = "running" /\ hook.device \in Devices /\ hook.device # NoDevice
        /\ UNCHANGED <<iface, location>>
    BY <1>10, AtPosition, PodAssumption DEF StepFails, IPv6Missing, TypeInv, HookTypeOK
  <2>2. IPv6Missing => iface[hook.device].present
    <3>1. IPv6Missing => hook.pc \in (Base(hook.device) + 1) .. (Base(hook.device) + 3)
      BY <1>1, AtPosition DEF IPv6Missing, Dev
    <3>2. SetUpTo(hook.device, hook.pc)
      BY <2>1 DEF InterfaceInv
    <3>3. QED
      BY <1>1, <3>1, <3>2 DEF SetUpTo
  <2>3. CASE Fail /\ iface[hook.device].present
    <3>1. hook'.state = "rollback" /\ UNCHANGED <<hook.pc, hook.device, hook.todo>>
      BY <2>3 DEF Fail, TypeInv, HookTypeOK
    <3>2. SetUpTo(hook.device, hook.pc)
      BY <2>1 DEF InterfaceInv
    <3>3. SetUpTo(hook.device, hook.pc)'
      BY <1>2, <2>1, <3>1, <3>2
    <3>4. QED
      BY <1>2, <2>1, <2>3, <3>1, <3>3 DEF InterfaceInv, TypeInv, HookTypeOK
  <2>4. CASE hook' = [hook EXCEPT !.state = "failed"]
    <3>1. hook'.state = "failed" /\ hook'.todo = hook.todo
      BY <2>4 DEF TypeInv, HookTypeOK
    <3>2. QED
      BY <1>2, <1>3, <2>1, <3>1 DEF InterfaceInv, TypeInv, HookTypeOK
  <2>5. QED
    BY <1>10, <2>2, <2>3, <2>4 DEF StepFails, IPv6Missing, Touched, Dev
<1>11. CASE Move \/ CreateChild
  <2>1. hook.state = "running" /\ hook.device \in Devices /\ hook.pc = 3
    BY <1>11, AtPosition DEF Move, CreateChild
  <2>2. PICK d \in Devices : hook.device = d
    BY <2>1
  <2>3. SetUpTo(d, 3)
    BY <2>1, <2>2, PodAssumption DEF InterfaceInv
  <2>4. \A e \in Devices \ {d} : iface'[e] = iface[e] /\ location'[e] = location[e]
    BY <1>11, <2>2 DEF Move, CreateChild, Dev, TypeInv
  <2>5. hook'.pc = 4 /\ UNCHANGED <<hook.state, hook.device, hook.todo>>
    BY <1>11, <2>1 DEF Move, CreateChild, Advance, TypeInv, HookTypeOK
  <2>6. /\ iface'[d].present /\ iface'[d].programs /\ ~iface'[d].up
        /\ (iface'[d].temporary => config[d].sub) /\ (~config[d].sub => location'[d] = "pod")
    <3>1. CASE Move
      <4>1. iface'[d] = [Absent EXCEPT !.present = TRUE] /\ location'[d] = "pod" /\ ~config[d].sub
        BY <2>2, <3>1, AtPosition DEF Move, Dev, Conf, TypeInv
      <4>2. QED
        BY <4>1 DEF Absent
    <3>2. CASE CreateChild
      <4>1. iface'[d] = [Absent EXCEPT !.present = TRUE, !.temporary = TRUE] /\ config[d].sub
        BY <2>2, <3>2, AtPosition DEF CreateChild, Dev, Conf, TypeInv
      <4>2. QED
        BY <4>1 DEF Absent
    <3>3. QED
      BY <1>11, <3>1, <3>2
  <2>7. SetUpTo(d, 4)'
    BY <1>1, <2>6 DEF SetUpTo
  <2>8. QED
    BY <1>1, <2>1, <2>2, <2>4, <2>5, <2>7, InterfaceStep
<1>12. ASSUME NEW d \in Devices, Vanishes(d)
       PROVE  /\ \A e \in Devices : UpWithPolicy(e)'
              /\ iface'[d] = Absent /\ \A e \in Devices \ {d} : iface'[e] = iface[e]
  <2>1. iface'[d] = Absent /\ \A e \in Devices \ {d} : iface'[e] = iface[e]
    BY <1>12 DEF Vanishes, TypeInv
  <2>2. ~Absent.up
    BY DEF Absent
  <2>3. QED
    BY <1>1, <2>1, <2>2 DEF InterfaceInv, UpWithPolicy
<1>13. CASE Rollback \/ \E moved \in BOOLEAN : RollbackFails(moved)
  <2>1. hook.state = "rollback" /\ hook'.state = "failed" /\ hook'.todo = hook.todo
    BY <1>13 DEF Rollback, RollbackFails, TypeInv, HookTypeOK
  <2>2. hook.device \in Devices \ hook.todo /\ hook.todo \subseteq Devices
    BY <2>1 DEF TypeInv, HookTypeOK
  <2>3. \A e \in Devices \ {hook.device} : location'[e] = location[e]
    BY <1>13, <2>2 DEF Rollback, RollbackFails, DeleteChild, ReturnNetdev, Dev, TypeInv
  <2>4. CASE Vanishes(hook.device)
    BY <1>3, <1>12, <2>1, <2>2, <2>3, <2>4 DEF InterfaceInv, Untouched
  <2>5. ASSUME NEW up \in BOOLEAN, ~up \/ up = iface[hook.device].up,
               iface' = [iface EXCEPT ![hook.device].up = up]
        PROVE  InterfaceInv'
    <3>1. \A e \in Devices \ {hook.device} : iface'[e] = iface[e]
      BY <2>2, <2>5 DEF TypeInv
    <3>2. /\ iface'[hook.device].up = up
          /\ \A f \in {"addrGenMode", "sysctls", "temporary"} : iface'[hook.device][f] = iface[hook.device][f]
      BY <2>2, <2>5 DEF TypeInv, IsInterface
    <3>3. \A e \in Devices : UpWithPolicy(e)'
      BY <1>1, <2>5, <3>1, <3>2 DEF InterfaceInv, UpWithPolicy
    <3>4. QED
      BY <1>3, <2>1, <2>2, <2>3, <3>1, <3>3 DEF InterfaceInv, Untouched
  <2>6. CASE UNCHANGED iface
    <3>1. \A e \in Devices : UpWithPolicy(e)'
      BY <1>1, <2>6 DEF InterfaceInv, UpWithPolicy
    <3>2. QED
      BY <1>3, <2>1, <2>2, <2>3, <2>6, <3>1 DEF InterfaceInv, Untouched
  <2>7. QED
    BY <1>13, <2>4, <2>5, <2>6 DEF Rollback, RollbackFails, DeleteChild, ReturnNetdev, Dev
<1>14. ASSUME NEW d \in Devices, StopDevice(d) PROVE InterfaceInv'
  <2>1. Vanishes(d) /\ hook'.state = "stopping"
    BY <1>14 DEF StopDevice, ReturnNetdev, Waiting
  <2>2. QED
    BY <1>3, <1>12, <2>1
<1>15. CASE NetnsDestroyed
  <2>1. hook'.state = "waiting" /\ \A d \in Devices : Untouched(d)' /\ ~Absent.up
    BY <1>15 DEF NetnsDestroyed, Waiting, Untouched, Absent
  <2>2. \A d \in Devices : UpWithPolicy(d)'
    BY <2>1 DEF UpWithPolicy, Untouched
  <2>3. QED
    BY <2>1, <2>2 DEF InterfaceInv
<1>16. CASE UNCHANGED netVars
  BY <1>1, <1>16 DEF netVars, InterfaceInv, SetUpTo, Untouched, UpWithPolicy, Done
<1>17. QED
  BY <1>4, <1>5, <1>7, <1>8, <1>9, <1>10, <1>11, <1>13, <1>14, <1>15, <1>16, ConfiguredStep, VRFStep DEF NetNext

----------------------------------------------------------------------------
\* Every behaviour of the hooks of one pod is well formed: whatever fails, a hook
\* that works on a device is at a step of that device's program, a device that is
\* in the pod is there as an interface of its own and not as a child's parent, and
\* the status speaks of all devices or of none.
THEOREM NetTypesCorrect == NetSpec => []NetTypeOK
<1>1. TypeInv => NetTypeOK
  BY ProgramSteps DEF TypeInv, HookTypeOK, NetTypeOK
<1>2. TypeInv /\ [NetNext]_netVars => TypeInv'
  BY TypeNext
<1>3. QED
  BY <1>1, <1>2, TypeInit, PTL DEF NetSpec

\* RunPodSandbox never has an interface up in the pod before its address
\* generation mode and its sysctls are what the configuration asks for, nor under
\* its temporary name: not while it is set up, not when a later request fails, not
\* when the roll-back fails, and not during StopPodSandbox.
THEOREM PolicyBeforeUp == NetSpec => []NeverUpWithoutPolicy
<1>1. InterfaceInv => NeverUpWithoutPolicy
  BY DEF InterfaceInv, UpWithPolicy, NeverUpWithoutPolicy
<1>2. TypeInv /\ InterfaceInv /\ [NetNext]_netVars => TypeInv' /\ InterfaceInv'
  BY TypeNext, InterfaceNext
<1>3. QED
  BY <1>1, <1>2, TypeInit, InterfaceInit, PTL DEF NetSpec

----------------------------------------------------------------------------
\* The namespace.  A hook that runs only adds to it: the routes, rules and
\* neighbours of the devices before stay, and so does a VRF once it is there.

\* The kernel has one route to a destination in a table, whosever it is.
RouteIn(d, r) == \E q \in podRoutes : q.dst = r.dst /\ q.table = RouteTable(config[d], r)

\* What is in the namespace for d when it is at step n of its program.
NamespaceTo(d, n) ==
  LET c == config[d] IN
  /\ n > Base(d) + 7 /\ c.vrf # NoVRF => c.vrf.name \in DOMAIN podVRFs
  /\ n > Base(d) + 8 => \A i \in DOMAIN c.routes : RouteIn(d, c.routes[i])
  /\ n > Base(d) + 9 /\ c.vrf = NoVRF => ToSet(c.rules) \subseteq podRules
  /\ n > Base(d) + 10 => \A m \in ToSet(c.neighbors) : [device |-> d, dst |-> m] \in podNeighbors

\* A VRF was created with the table of a device that names it.
VRFOfDevice(name) ==
  \E d \in Devices : /\ config[d].vrf # NoVRF /\ config[d].vrf.name = name
                    /\ podVRFs[name] = config[d].vrf.table

RoutesSoFar ==
  hook.added =>
    \A i \in DOMAIN config[hook.device].routes \ hook.routes : RouteIn(hook.device, config[hook.device].routes[i])

NamespaceInv ==
  /\ hook.state = "waiting" => podVRFs = <<>>
  /\ hook.state \in {"running", "done"} =>
       /\ \A name \in DOMAIN podVRFs : VRFOfDevice(name)
       /\ \A d \in Devices : Done(d) => NamespaceTo(d, Base(d) + 12)
  /\ hook.state = "running" /\ hook.device # NoDevice => NamespaceTo(hook.device, hook.pc) /\ RoutesSoFar

NamespaceGrows ==
  /\ podRoutes \subseteq podRoutes' /\ podRules \subseteq podRules' /\ podNeighbors \subseteq podNeighbors'
  /\ \A name \in DOMAIN podVRFs : name \in DOMAIN podVRFs' /\ podVRFs'[name] = podVRFs[name]

LEMMA NamespaceKept ==
  ASSUME config' = config, NamespaceGrows
  PROVE  /\ \A d, r : RouteIn(d, r) => RouteIn(d, r)'
         /\ \A d, n : NamespaceTo(d, n) => NamespaceTo(d, n)'
         /\ \A name \in DOMAIN podVRFs : VRFOfDevice(name) => VRFOfDevice(name)'
<1>1. ASSUME NEW d, NEW r, RouteIn(d, r) PROVE RouteIn(d, r)'
  BY <1>1 DEF RouteIn, NamespaceGrows, RouteTable
<1>2. ASSUME NEW d, NEW n, NamespaceTo(d, n) PROVE NamespaceTo(d, n)'
  <2>1. Base(d)' = Base(d)
    BY DEF Base
  <2>2. QED
    BY <1>1, <1>2, <2>1 DEF NamespaceTo, NamespaceGrows
<1>3. ASSUME NEW name \in DOMAIN podVRFs, VRFOfDevice(name) PROVE VRFOfDevice(name)'
  BY <1>3 DEF VRFOfDevice, NamespaceGrows
<1>4. QED
  BY <1>1, <1>2, <1>3

\* One step of the program of d.
LEMMA NamespaceStep ==
  ASSUME TypeInv, NamespaceInv, NEW d \in Devices, NEW m \in Int, hook.device = d, hook.state = "running",
         config' = config, UNCHANGED <<hook.state, hook.device, hook.todo>>, hook'.pc = m,
         NamespaceGrows, \A name \in DOMAIN podVRFs' \ DOMAIN podVRFs : VRFOfDevice(name)',
         NamespaceTo(d, m)', RoutesSoFar'
  PROVE  NamespaceInv'
<1>1. ASSUME NEW e \in Devices, Done(e)' PROVE NamespaceTo(e, Base(e) + 12)'
  <2>1. NamespaceTo(e, Base(e) + 12)
    BY <1>1 DEF Done, NamespaceInv
  <2>2. PICK n : n = Base(e) + 12
    OBVIOUS
  <2>3. NamespaceTo(e, n)'
    BY <2>1, <2>2, NamespaceKept
  <2>4. Base(e)' = Base(e)
    BY DEF Base
  <2>5. QED
    BY <2>2, <2>3, <2>4
<1>2. \A name \in DOMAIN podVRFs' : VRFOfDevice(name)'
  BY NamespaceKept DEF NamespaceInv
<1>3. QED
  BY <1>1, <1>2 DEF NamespaceInv

\* A step that leaves the namespace alone, or adds what it is for.
LEMMA NamespaceAdvance ==
  ASSUME TypeInv, NamespaceInv, hook.state = "running", hook.device \in Devices, Advance, config' = config,
         NamespaceGrows, \A name \in DOMAIN podVRFs' \ DOMAIN podVRFs : VRFOfDevice(name)',
         \A d \in Devices, n \in Int : d = hook.device /\ n = hook.pc /\ NamespaceTo(d, n)' => NamespaceTo(d, n + 1)'
  PROVE  NamespaceInv'
<1>1. PICK d \in Devices, n \in Int : hook.device = d /\ hook.pc = n
  BY DEF TypeInv, HookTypeOK
<1>2. /\ UNCHANGED <<hook.state, hook.device, hook.todo, hook.routes, hook.added>> /\ hook'.pc = n + 1
      /\ d # NoDevice
  BY <1>1, PodAssumption DEF Advance, TypeInv, HookTypeOK
<1>3. NamespaceTo(d, n) /\ RoutesSoFar
  BY <1>1, <1>2 DEF NamespaceInv
<1>4. NamespaceTo(d, n + 1)'
  BY <1>1, <1>3, NamespaceKept
<1>5. RoutesSoFar'
  BY <1>2, <1>3, NamespaceKept DEF RoutesSoFar
<1>6. QED
  BY <1>1, <1>2, <1>4, <1>5, NamespaceStep

\* The steps that are not for the namespace.
InterfaceSteps ==
  \/ Check \/ SetDown \/ Move \/ ParentUp \/ CreateChild \/ Rename
  \/ SetAddrGenMode \/ ApplySysctls \/ AddAddresses \/ SetUp
  \/ ApplyEthtool \/ \E all \in BOOLEAN : DetachEBPF(all)

LEMMA InterfaceStepsPosition ==
  ASSUME TypeInv, InterfaceSteps
  PROVE  /\ hook.state = "running" /\ hook.device \in Devices /\ hook.pc <= Base(hook.device) + 6
         /\ UNCHANGED <<nsVars, status, faults>>
         /\ Advance \/ (Check /\ hook' = [hook EXCEPT !.state = "failed"] /\ ~(Feasible(Dev) /\ location[Dev] = "host"))
<1>1. \/ At("check") \/ At("down") \/ At("move") \/ At("parentUp") \/ At("create") \/ At("rename")
      \/ At("addrGenMode") \/ At("sysctls") \/ At("addresses") \/ At("up") \/ At("ethtool") \/ At("ebpf")
  BY DEF InterfaceSteps, Check, SetDown, Move, ParentUp, CreateChild, Rename, SetAddrGenMode, ApplySysctls,
         AddAddresses, SetUp, ApplyEthtool, DetachEBPF
<1>2. Base(Dev) \in {3, 4} /\ Dev = hook.device
  BY DEF Base, Dev
<1>3. hook.state = "running" /\ hook.device \in Devices /\ hook.pc <= Base(hook.device) + 6
  BY <1>1, <1>2, AtPosition
<1>4. UNCHANGED <<nsVars, status, faults>>
  BY DEF InterfaceSteps, Check, SetDown, Move, ParentUp, CreateChild, Rename, SetAddrGenMode, ApplySysctls,
         AddAddresses, SetUp, ApplyEthtool, DetachEBPF, Configures
<1>5. Advance \/ (Check /\ hook' = [hook EXCEPT !.state = "failed"] /\ ~(Feasible(Dev) /\ location[Dev] = "host"))
  BY DEF InterfaceSteps, Check, SetDown, Move, ParentUp, CreateChild, Rename, SetAddrGenMode, ApplySysctls,
         AddAddresses, SetUp, ApplyEthtool, DetachEBPF, Configures
<1>6. QED
  BY <1>3, <1>4, <1>5

LEMMA NamespaceNext ==
  ASSUME TypeInv, NamespaceInv, NetNext \/ UNCHANGED netVars
  PROVE  NamespaceInv'
<1>1. config' = config /\ \A d : Base(d)' = Base(d) /\ Base(d) \in {3, 4}
  BY ConfigKept DEF Base
<1>2. UNCHANGED nsVars => NamespaceGrows
  BY DEF nsVars, NamespaceGrows
<1>3. ASSUME hook'.state \in {"rollback", "failed", "stopping"} PROVE NamespaceInv'
  BY <1>3 DEF NamespaceInv
<1>4. CASE RunPodSandbox
  <2>1. /\ hook'.state = "running" /\ hook'.todo = Devices /\ hook'.device = NoDevice /\ hook.state = "waiting"
        /\ UNCHANGED nsVars
    BY <1>4 DEF RunPodSandbox, Waiting
  <2>2. DOMAIN podVRFs' = {}
    BY <2>1 DEF NamespaceInv, nsVars
  <2>3. QED
    BY <2>1, <2>2 DEF NamespaceInv, Done
<1>5. ASSUME NEW e, NamespaceTo(e, Base(e) + 12), UNCHANGED nsVars PROVE NamespaceTo(e, Base(e) + 12)'
  BY <1>1, <1>5 DEF NamespaceTo, RouteIn, RouteTable, nsVars
<1>6. ASSUME NEW d \in Devices, BeginDevice(d) PROVE NamespaceInv'
  <2>1. /\ hook'.state = "running" /\ hook'.todo = hook.todo \ {d} /\ hook'.device = d /\ hook.state = "running"
        /\ UNCHANGED nsVars /\ hook'.pc = 1 /\ d \in hook.todo /\ hook.device = NoDevice
        /\ hook'.routes = DOMAIN config[d].routes
    BY <1>6 DEF BeginDevice, TypeInv, HookTypeOK
  <2>2. NamespaceTo(d, 1)' /\ RoutesSoFar'
    BY <1>1, <2>1 DEF NamespaceTo, RoutesSoFar
  <2>3. ASSUME NEW e \in Devices, Done(e)' PROVE NamespaceTo(e, Base(e) + 12)'
    <3>1. Done(e)
      BY <2>1, <2>3, PodAssumption DEF Done
    <3>2. NamespaceTo(e, Base(e) + 12)
      BY <2>1, <3>1 DEF NamespaceInv
    <3>3. QED
      BY <1>5, <2>1, <3>2
  <2>4. \A name \in DOMAIN podVRFs' : VRFOfDevice(name)'
    BY <1>1, <1>2, <2>1, NamespaceKept DEF NamespaceInv, nsVars
  <2>5. QED
    BY <2>1, <2>2, <2>3, <2>4 DEF NamespaceInv
<1>7. CASE InterfaceSteps
  <2>1. /\ hook.state = "running" /\ hook.device \in Devices /\ hook.pc <= Base(hook.device) + 6
        /\ UNCHANGED nsVars
    BY <1>7, InterfaceStepsPosition
  <2>2. CASE Advance
    <3>1. \A d \in Devices, n \in Int : d = hook.device /\ n = hook.pc /\ NamespaceTo(d, n)' => NamespaceTo(d, n + 1)'
      BY <1>1, <2>1 DEF NamespaceTo
    <3>2. QED
      BY <1>1, <1>2, <2>1, <2>2, <3>1, NamespaceAdvance DEF nsVars
  <2>3. CASE hook' = [hook EXCEPT !.state = "failed"]
    BY <1>3, <2>3 DEF TypeInv, HookTypeOK
  <2>4. QED
    BY <1>7, <2>2, <2>3, InterfaceStepsPosition
<1>8. CASE ApplyVRF
  <2>1. hook.state = "running" /\ hook.device \in Devices /\ hook.pc = Base(hook.device) + 7
    BY <1>8, AtPosition DEF ApplyVRF, Dev
  <2> DEFINE v == config[hook.device].vrf
  <2>2. /\ DOMAIN podVRFs' = DOMAIN podVRFs \union {v.name}
        /\ \A name \in DOMAIN podVRFs : podVRFs'[name] = podVRFs[name]
        /\ v.name \notin DOMAIN podVRFs => podVRFs'[v.name] = v.table
        /\ v # NoVRF
    BY <1>8 DEF ApplyVRF, Conf, Dev
  <2>3. NamespaceGrows
    BY <1>8, <2>2 DEF ApplyVRF, NamespaceGrows
  <2>4. \A name \in DOMAIN podVRFs' \ DOMAIN podVRFs : VRFOfDevice(name)'
    BY <1>1, <2>1, <2>2 DEF VRFOfDevice
  <2>5. \A d \in Devices, n \in Int : d = hook.device /\ n = hook.pc /\ NamespaceTo(d, n)' => NamespaceTo(d, n + 1)'
    BY <1>1, <2>1, <2>2 DEF NamespaceTo
  <2>6. QED
    BY <1>1, <1>8, <2>1, <2>3, <2>4, <2>5, NamespaceAdvance DEF ApplyVRF
<1>9. CASE ApplyRoutes
  <2>1. /\ hook.state = "running" /\ hook.device \in Devices /\ hook.pc = Base(hook.device) + 8
        /\ UNCHANGED nsVars /\ hook.routes = {}
    BY <1>9, AtPosition DEF ApplyRoutes, Dev
  <2>2. CASE hook.added
    <3>1. \A d \in Devices : d = hook.device => \A i \in DOMAIN config[d].routes : RouteIn(d, config[d].routes[i])'
      BY <1>1, <1>2, <2>1, <2>2, NamespaceKept, PodAssumption DEF NamespaceInv, RoutesSoFar
    <3>2. \A d \in Devices, n \in Int : d = hook.device /\ n = hook.pc /\ NamespaceTo(d, n)' => NamespaceTo(d, n + 1)'
      BY <1>1, <2>1, <3>1 DEF NamespaceTo
    <3>3. QED
      BY <1>1, <1>2, <1>9, <2>1, <2>2, <3>2, NamespaceAdvance DEF ApplyRoutes, nsVars
  <2>3. CASE ~hook.added
    BY <1>3, <1>9, <2>3 DEF ApplyRoutes, Fail, TypeInv, HookTypeOK
  <2>4. QED
    BY <2>2, <2>3
<1>10. CASE ApplyRules \/ ApplyNeighbors
  <2>1. /\ hook.state = "running" /\ hook.device \in Devices /\ Advance
        /\ ApplyRules => hook.pc = Base(hook.device) + 9
        /\ ApplyNeighbors => hook.pc = Base(hook.device) + 10
    BY <1>10, AtPosition DEF ApplyRules, ApplyNeighbors, Dev
  <2>2. NamespaceGrows /\ DOMAIN podVRFs' = DOMAIN podVRFs
    BY <1>10 DEF ApplyRules, ApplyNeighbors, NamespaceGrows
  <2>3. /\ ApplyRules => ToSet(config[hook.device].rules) \subseteq podRules'
        /\ ApplyNeighbors => \A m \in ToSet(config[hook.device].neighbors) :
                               [device |-> hook.device, dst |-> m] \in podNeighbors'
    BY DEF ApplyRules, ApplyNeighbors, Conf, Dev
  <2>4. \A d \in Devices, n \in Int : d = hook.device /\ n = hook.pc /\ NamespaceTo(d, n)' => NamespaceTo(d, n + 1)'
    BY <1>1, <1>10, <2>1, <2>3 DEF NamespaceTo
  <2>5. QED
    BY <1>1, <2>1, <2>2, <2>4, NamespaceAdvance
<1>11. CASE Skip \/ MoveRDMA
  <2>1. /\ hook.state = "running" /\ hook.device \in Devices /\ Advance /\ UNCHANGED nsVars
        /\ \/ hook.pc = Base(hook.device) + 7 /\ config[hook.device].vrf = NoVRF
           \/ hook.pc = Base(hook.device) + 9 /\ config[hook.device].vrf # NoVRF
           \/ hook.pc = Base(hook.device) + 11
    BY <1>11, AtPosition DEF Skip, MoveRDMA, Configures, Dev, Conf
  <2>2. \A d \in Devices, n \in Int : d = hook.device /\ n = hook.pc /\ NamespaceTo(d, n)' => NamespaceTo(d, n + 1)'
    BY <1>1, <2>1 DEF NamespaceTo
  <2>3. QED
    BY <1>1, <1>2, <2>1, <2>2, NamespaceAdvance DEF nsVars
<1>12. ASSUME NEW i \in hook.routes, AddRoute(i) \/ AddRouteFails(i) PROVE NamespaceInv'
  <2>1. hook.state = "running" /\ hook.device \in Devices
    BY <1>12, AtPosition DEF AddRoute, AddRouteFails
  <2>2. PICK d \in Devices, n \in Int : hook.device = d /\ hook.pc = n
    BY <2>1 DEF TypeInv, HookTypeOK
  <2>3. /\ UNCHANGED <<hook.state, hook.device, hook.todo, hook.pc>>
        /\ hook'.routes = hook.routes \ {i}
        /\ hook'.added => hook.added /\ AddRoute(i) /\ Reachable(config[d].routes[i].gw)
    BY <1>12, <2>2 DEF AddRoute, AddRouteFails, TypeInv, HookTypeOK, Conf, Dev
  <2>4. NamespaceGrows /\ DOMAIN podVRFs' = DOMAIN podVRFs
    BY <1>12 DEF AddRoute, AddRouteFails, NamespaceGrows, nsVars
  <2>5. NamespaceTo(d, n) /\ RoutesSoFar
    BY <2>1, <2>2, PodAssumption DEF NamespaceInv
  <2>6. NamespaceTo(d, n)'
    BY <1>1, <2>4, <2>5, NamespaceKept
  <2>7. ASSUME hook'.added PROVE RouteIn(d, config[d].routes[i])'
    <3> DEFINE r == config[d].routes[i]
    <3>1. podRoutes' = IF ~RouteExists(r) THEN podRoutes \union {Installed(d, r)} ELSE podRoutes
      BY <2>2, <2>3, <2>7 DEF AddRoute, Conf, Dev
    <3>2. Installed(d, r).dst = r.dst /\ Installed(d, r).table = RouteTable(config[d], r)
      BY DEF Installed
    <3>3. RouteExists(r) => \E q \in podRoutes : q.dst = r.dst /\ q.table = RouteTable(config[d], r)
      BY <2>2 DEF RouteExists, Conf, Dev
    <3>4. QED
      BY <1>1, <3>1, <3>2, <3>3 DEF RouteIn, RouteTable
  <2>8. RoutesSoFar'
    BY <1>1, <2>2, <2>3, <2>4, <2>5, <2>7, NamespaceKept DEF RoutesSoFar
  <2>9. QED
    BY <1>1, <2>1, <2>2, <2>3, <2>4, <2>6, <2>8, NamespaceStep
<1>13. CASE Report \/ \E sent \in BOOLEAN : RunSucceeds(sent)
  <2>1. /\ hook.state = "running" /\ UNCHANGED nsVars
        /\ hook'.device = NoDevice /\ hook'.todo = hook.todo /\ hook'.state \in {"running", "done"}
        /\ \/ hook.device \in Devices /\ hook.pc = Base(hook.device) + 12
           \/ hook.device = NoDevice
    BY <1>13, AtPosition DEF Report, RunSucceeds, TypeInv, HookTypeOK, Dev
  <2>2. ASSUME NEW e \in Devices, Done(e)' PROVE NamespaceTo(e, Base(e) + 12)'
    <3>1. Done(e) \/ (e = hook.device /\ hook.pc = Base(hook.device) + 12)
      BY <2>1, <2>2, PodAssumption DEF Done
    <3>2. NamespaceTo(e, Base(e) + 12)
      BY <2>1, <3>1, PodAssumption DEF NamespaceInv
    <3>3. QED
      BY <1>5, <2>1, <3>2
  <2>3. \A name \in DOMAIN podVRFs' : VRFOfDevice(name)'
    BY <1>1, <1>2, <2>1, NamespaceKept DEF NamespaceInv, nsVars
  <2>4. QED
    BY <2>1, <2>2, <2>3 DEF NamespaceInv
<1>14. CASE StepFails \/ IPv6Missing \/ Rollback \/ (\E moved \in BOOLEAN : RollbackFails(moved))
            \/ \E d \in Devices : StopDevice(d)
  BY <1>3, <1>14 DEF StepFails, IPv6Missing, Rollback, RollbackFails, StopDevice, Fail, Waiting, TypeInv, HookTypeOK
<1>15. CASE NetnsDestroyed
  BY <1>15 DEF NetnsDestroyed, NamespaceInv, Waiting
<1>16. CASE UNCHANGED netVars
  <2>1. UNCHANGED <<nsVars, hook>>
    BY <1>16 DEF netVars, nsVars
  <2>2. \A e : NamespaceTo(e, Base(e) + 12) => NamespaceTo(e, Base(e) + 12)'
    BY <1>5, <2>1
  <2>3. QED
    BY <1>1, <1>2, <2>1, <2>2, NamespaceKept DEF NamespaceInv, Done, RoutesSoFar, nsVars
<1>17. QED
  BY <1>4, <1>6, <1>7, <1>8, <1>9, <1>10, <1>11, <1>12, <1>13, <1>14, <1>15, <1>16 DEF NetNext, InterfaceSteps

LEMMA NamespaceInit == NetInit => NamespaceInv
BY DEF NetInit, NamespaceInv, Waiting

\* Two devices that name one VRF agree on its table.
VRFsAgree ==
  \A d, e \in Devices :
    config[d].vrf # NoVRF /\ config[e].vrf # NoVRF /\ config[d].vrf.name = config[e].vrf.name =>
      config[d].vrf.table = config[e].vrf.table

\* A pod that RunPodSandbox lets start has what its claims say, for any number of
\* devices, in whatever order the hook takes them and however many requests failed
\* in earlier attempts, provided the claims do not give one VRF two tables: the
\* code uses a VRF of that name as it is.
THEOREM ReadyPodIsConfigured == NetSpec /\ VRFsAgree => []ReadyIsConfigured
<1>1. TypeInv /\ InterfaceInv /\ NamespaceInv /\ VRFsAgree => ReadyIsConfigured
  <2> SUFFICES ASSUME TypeInv, InterfaceInv, NamespaceInv, VRFsAgree, hook.state = "done", NEW d \in Devices
              PROVE  LET c == config[d] i == iface[d] IN
                     /\ i.present /\ i.up /\ i.addrs = ToSet(c.addrs)
                     /\ i.features = c.ethtool /\ (~i.programs => c.ebpf) /\ (c.rdma => i.rdma)
                     /\ c.vrf # NoVRF => i.master = c.vrf.name /\ podVRFs[i.master] = c.vrf.table
                     /\ \A r \in ToSet(c.routes) : \E q \in podRoutes :
                          q.dst = r.dst /\ q.table = (IF c.vrf # NoVRF THEN podVRFs[i.master] ELSE r.table)
                     /\ c.vrf = NoVRF => ToSet(c.rules) \subseteq podRules
                     /\ \A n \in ToSet(c.neighbors) : [device |-> d, dst |-> n] \in podNeighbors
    BY DEF ReadyIsConfigured
  <2>1. Done(d) /\ Base(d) \in {3, 4}
    BY PodAssumption DEF Done, TypeInv, HookTypeOK, Base
  <2>2. SetUpTo(d, Base(d) + 12) /\ NamespaceTo(d, Base(d) + 12)
    BY <2>1 DEF InterfaceInv, NamespaceInv
  <2>3. /\ iface[d].present /\ iface[d].up /\ iface[d].addrs = ToSet(config[d].addrs)
        /\ iface[d].features = config[d].ethtool /\ (~iface[d].programs => config[d].ebpf)
        /\ (config[d].rdma => iface[d].rdma)
        /\ config[d].vrf # NoVRF => iface[d].master = config[d].vrf.name
    BY <2>1, <2>2 DEF SetUpTo
  <2>4. ASSUME config[d].vrf # NoVRF PROVE podVRFs[config[d].vrf.name] = config[d].vrf.table
    <3>1. config[d].vrf.name \in DOMAIN podVRFs
      BY <2>1, <2>2, <2>4 DEF NamespaceTo
    <3>2. QED
      BY <2>4, <3>1 DEF NamespaceInv, VRFOfDevice, VRFsAgree
  <2>5. ASSUME NEW r \in ToSet(config[d].routes)
        PROVE  \E q \in podRoutes : q.dst = r.dst /\ q.table = RouteTable(config[d], r)
    <3>1. PICK i \in DOMAIN config[d].routes : r = config[d].routes[i]
      BY <2>5 DEF ToSet
    <3>2. QED
      BY <2>1, <2>2, <3>1 DEF NamespaceTo, RouteIn
  <2>6. /\ config[d].vrf = NoVRF => ToSet(config[d].rules) \subseteq podRules
        /\ \A n \in ToSet(config[d].neighbors) : [device |-> d, dst |-> n] \in podNeighbors
    BY <2>1, <2>2 DEF NamespaceTo
  <2>7. QED
    BY <2>3, <2>4, <2>5, <2>6 DEF RouteTable
<1>2. TypeInv /\ InterfaceInv /\ NamespaceInv /\ VRFsAgree /\ [NetNext]_netVars
        => TypeInv' /\ InterfaceInv' /\ NamespaceInv' /\ VRFsAgree'
  <2>1. config' = config /\ VRFsAgree => VRFsAgree'
    BY DEF VRFsAgree
  <2>2. QED
    BY <2>1, TypeNext, InterfaceNext, NamespaceNext, ConfigKept
<1>3. QED
  BY <1>1, <1>2, TypeInit, InterfaceInit, NamespaceInit, PTL DEF NetSpec

----------------------------------------------------------------------------
\* Failures.

\* A failure has a cause: a request that failed of itself, or the configuration.
Caused(d) == faults >= 1 \/ Impossible(d)

\* What a failed hook leaves of its device, unless the roll-back failed as well
\* or it was the move of the RDMA link that failed.
RolledBack(d) ==
  /\ ~iface[d].present
  /\ ~config[d].sub /\ hook.pc > 3 => hostUp[d]

\* A route in the namespace is of an interface that is there and was configured.
OfDevice(x) ==
  /\ x.device \in Devices /\ iface[x.device].present
  /\ \E p \in ToSet(config[x.device].routes) :
       x.dst = p.dst /\ x.scope = p.scope /\ x.table = RouteTable(config[x.device], p)

\* The routes of the device that are there have the scope of those to come or a
\* wider one ("link" before "universe").
RouteOrder ==
  \A x \in podRoutes : x.device = hook.device =>
    \A i \in hook.routes : config[hook.device].routes[i].scope <= x.scope

\* A link scope route that nothing displaces.
Firm(d, q) ==
  /\ q.scope = LinkScope /\ OnLink(config[d], q)
  /\ \A e \in Devices : \A p \in ToSet(config[e].routes) : ~Displaces(e, p, d, q)

\* Once it is that route's turn the gateway behind it is reachable.
FirmRoutesIn ==
  \A i \in DOMAIN config[hook.device].routes \ hook.routes :
    Firm(hook.device, config[hook.device].routes[i]) =>
      \/ faults >= 1
      \/ \E x \in podRoutes : /\ x.device = hook.device /\ x.scope = LinkScope
                              /\ x.dst = config[hook.device].routes[i].dst

FaultInv ==
  /\ \A x \in podRoutes : OfDevice(x)
  /\ hook.state = "running" /\ hook.device # NoDevice =>
       RouteOrder /\ FirmRoutesIn /\ (~hook.added => Caused(hook.device))
  /\ hook.state \in {"rollback", "failed"} => Caused(hook.device)
  /\ hook.state = "failed" =>
       \/ RolledBack(hook.device) \/ hook.pc = Base(hook.device) + 11
       \/ faults >= (IF Impossible(hook.device) THEN 1 ELSE 2)

\* Whether a configuration is impossible is settled when the hook starts.
LEMMA ImpossibleKept ==
  ASSUME config' = config
  PROVE  /\ \A d : Impossible(d)' = Impossible(d)
         /\ \A d, q : Firm(d, q)' = Firm(d, q)
<1>1. \A d : /\ Feasible(d)' = Feasible(d) /\ AddrGenModeExists(d)' = AddrGenModeExists(d)
             /\ SysctlsExist(d)' = SysctlsExist(d) /\ AddressesExist(d)' = AddressesExist(d)
  BY DEF Feasible, AddrGenModeExists, SysctlsExist, AddressesExist, EffectiveMTU
<1>2. \A e, p, d, q : Displaces(e, p, d, q)' = Displaces(e, p, d, q)
  BY DEF Displaces
<1>3. \A d, r : Routable(d, r)' = Routable(d, r)
  BY <1>2 DEF Routable
<1>4. \A d, q : Firm(d, q)' = Firm(d, q)
  BY <1>2 DEF Firm
<1>5. QED
  BY <1>1, <1>3, <1>4 DEF Impossible

LEMMA FaultsGrow ==
  ASSUME TypeInv, NetNext \/ UNCHANGED netVars
  PROVE  faults \in Int /\ faults' \in Int /\ faults <= faults'
<1>1. faults' = faults \/ faults' = faults + 1
  BY DEF NetNext, netVars, RunPodSandbox, BeginDevice, Check, SetDown, Move, ParentUp, CreateChild, Configures,
       Rename, SetAddrGenMode, ApplySysctls, AddAddresses, SetUp, ApplyEthtool, DetachEBPF, ApplyVRF,
       AddRoute, AddRouteFails, ApplyRoutes, ApplyRules, ApplyNeighbors, MoveRDMA, Skip, Report, RunSucceeds,
       StepFails, IPv6Missing, Rollback, RollbackFails, StopDevice, NetnsDestroyed
<1>2. QED
  BY <1>1, PodAssumption DEF TypeInv

\* An interface leaves the pod with its routes.
LEMMA RoutesOfDevices ==
  ASSUME TypeInv, TypeInv', InterfaceInv, FaultInv, NetNext \/ UNCHANGED netVars
  PROVE  \A x \in podRoutes' : OfDevice(x)'
<1>1. config' = config
  BY ConfigKept
<1>2. ASSUME podRoutes' \subseteq podRoutes, \A x \in podRoutes' : iface[x.device].present => iface'[x.device].present
      PROVE  \A x \in podRoutes' : OfDevice(x)'
  BY <1>1, <1>2 DEF FaultInv, OfDevice
<1>3. ASSUME NEW d \in Devices, Vanishes(d) PROVE \A x \in podRoutes' : OfDevice(x)'
  <2>1. podRoutes' \subseteq podRoutes /\ \A x \in podRoutes' : x.device # d /\ x.device \in Devices
    BY <1>3 DEF Vanishes, FaultInv, OfDevice
  <2>2. \A e \in Devices \ {d} : iface'[e] = iface[e]
    BY <1>3 DEF Vanishes, TypeInv
  <2>3. QED
    BY <1>2, <2>1, <2>2
<1>4. ASSUME NEW i \in hook.routes, AddRoute(i) PROVE \A x \in podRoutes' : OfDevice(x)'
  <2>1. hook.device \in Devices /\ hook.state = "running" /\ hook.pc = Base(hook.device) + 8
    BY <1>4, AtPosition DEF AddRoute, Dev
  <2>2. iface[hook.device].present
    BY <2>1, PodAssumption DEF InterfaceInv, SetUpTo, Base
  <2>3. PICK r : r = config[hook.device].routes[i]
    OBVIOUS
  <2>4. r \in ToSet(config[hook.device].routes)
    BY <2>1, <2>3, PodAssumption DEF ToSet, TypeInv, HookTypeOK
  <2>5. PICK y : /\ y.device = hook.device /\ y.dst = r.dst /\ y.scope = r.scope
                 /\ y.table = RouteTable(config[hook.device], r) /\ podRoutes' \subseteq podRoutes \union {y}
    <3>1. podRoutes' \subseteq podRoutes \union {Installed(hook.device, r)}
      BY <1>4, <2>3 DEF AddRoute, Conf, Dev
    <3>2. /\ Installed(hook.device, r).device = hook.device /\ Installed(hook.device, r).dst = r.dst
          /\ Installed(hook.device, r).scope = r.scope
          /\ Installed(hook.device, r).table = RouteTable(config[hook.device], r)
      BY DEF Installed
    <3>3. QED
      BY <3>1, <3>2
  <2>6. iface' = iface
    BY <1>4 DEF AddRoute
  <2>7. QED
    BY <1>1, <2>1, <2>2, <2>4, <2>5, <2>6 DEF FaultInv, OfDevice
<1>5. ASSUME UNCHANGED podRoutes, NEW d \in Devices, NEW i, i.present \/ i.present = iface[d].present,
             iface' = [iface EXCEPT ![d] = i]
      PROVE  \A x \in podRoutes' : OfDevice(x)'
  <2>1. \A e \in Devices : iface[e].present => iface'[e].present
    BY <1>5 DEF TypeInv
  <2>2. QED
    BY <1>2, <1>5, <2>1 DEF FaultInv, OfDevice
<1>6. CASE UNCHANGED <<podRoutes, iface>>
  BY <1>2, <1>6
<1>7. CASE Move \/ CreateChild
  <2>1. Dev \in Devices
    BY <1>7, AtPosition DEF Move, CreateChild, Dev
  <2>2. QED
    BY <1>5, <1>7, <2>1 DEF Move, CreateChild, Absent, nsVars
<1>8. CASE Rename \/ SetAddrGenMode \/ ApplySysctls \/ AddAddresses \/ SetUp \/ ApplyEthtool
            \/ (\E all \in BOOLEAN : DetachEBPF(all)) \/ MoveRDMA
  <2>1. Dev \in Devices
    BY <1>8, AtPosition
       DEF Rename, SetAddrGenMode, ApplySysctls, AddAddresses, SetUp, ApplyEthtool, DetachEBPF, MoveRDMA, Dev
  <2>2. IsInterface(iface[Dev])
    BY <2>1 DEF TypeInv
  <2>3. PICK i : i.present = iface[Dev].present /\ Configures(i)
    BY <1>8, <2>2
       DEF Rename, SetAddrGenMode, ApplySysctls, AddAddresses, SetUp, ApplyEthtool, DetachEBPF, MoveRDMA, IsInterface
  <2>4. QED
    BY <1>5, <2>1, <2>3 DEF Configures, nsVars
<1>9. CASE ApplyVRF
  <2>1. Dev \in Devices
    BY <1>9, AtPosition DEF ApplyVRF, Dev
  <2>2. \A e \in Devices : iface'[e].present = iface[e].present
    BY <1>9, <2>1 DEF ApplyVRF, TypeInv, IsInterface
  <2>3. QED
    BY <1>2, <1>9, <2>2 DEF ApplyVRF, FaultInv, OfDevice
<1>10. CASE Rollback
  <2>1. Dev \in Devices
    BY <1>10 DEF Rollback, Dev, TypeInv, HookTypeOK
  <2>2. QED
    BY <1>3, <1>6, <1>10, <2>1 DEF Rollback, DeleteChild, ReturnNetdev
<1>11. ASSUME NEW moved \in BOOLEAN, RollbackFails(moved) PROVE \A x \in podRoutes' : OfDevice(x)'
  <2>1. Dev \in Devices
    BY <1>11 DEF RollbackFails, Dev, TypeInv, HookTypeOK
  <2>2. CASE moved
    BY <1>3, <1>11, <2>1, <2>2 DEF RollbackFails
  <2>3. CASE ~moved
    <3>1. podRoutes' = podRoutes /\ \E up \in BOOLEAN : iface' = [iface EXCEPT ![Dev].up = up]
      BY <1>11, <2>3 DEF RollbackFails
    <3>2. \A e \in Devices : iface'[e].present = iface[e].present
      BY <2>1, <3>1 DEF TypeInv, IsInterface
    <3>3. QED
      BY <1>2, <3>1, <3>2 DEF FaultInv, OfDevice
  <2>4. QED
    BY <2>2, <2>3
<1>12. ASSUME NEW d \in Devices, StopDevice(d) PROVE \A x \in podRoutes' : OfDevice(x)'
  BY <1>3, <1>12 DEF StopDevice, ReturnNetdev
<1>13. CASE NetnsDestroyed
  BY <1>13 DEF NetnsDestroyed
<1>14. CASE \/ RunPodSandbox \/ (\E d \in Devices : BeginDevice(d)) \/ Check \/ SetDown \/ ParentUp \/ Skip \/ Report
            \/ ApplyRoutes \/ ApplyRules \/ ApplyNeighbors \/ StepFails \/ IPv6Missing
            \/ (\E i \in hook.routes : AddRouteFails(i)) \/ (\E sent \in BOOLEAN : RunSucceeds(sent))
            \/ UNCHANGED netVars
  BY <1>6, <1>14 DEF RunPodSandbox, BeginDevice, Check, SetDown, ParentUp, Skip, Report, ApplyRoutes, ApplyRules,
                     ApplyNeighbors, StepFails, IPv6Missing, AddRouteFails, RunSucceeds, netVars, nsVars
<1>15. QED
  BY <1>4, <1>7, <1>8, <1>9, <1>10, <1>11, <1>12, <1>13, <1>14 DEF NetNext

\* When it is the turn of a route the interface can have, its gateway is
\* reachable, unless a request failed before.
LEMMA GatewayReachable ==
  ASSUME TypeInv, InterfaceInv, FaultInv, NEW i \in hook.routes, At("routes"), SortedRoutes(i),
         Routable(hook.device, config[hook.device].routes[i]), faults = 0
  PROVE  Reachable(config[hook.device].routes[i].gw)
<1>1. hook.state = "running" /\ hook.device \in Devices /\ hook.pc = Base(hook.device) + 8
  BY AtPosition DEF Dev
<1>2. PICK d \in Devices : hook.device = d
  BY <1>1
<1>3. PICK r : r = config[d].routes[i]
  OBVIOUS
<1>4. d # NoDevice /\ iface[d].addrs = ToSet(config[d].addrs)
  BY <1>1, <1>2, PodAssumption DEF InterfaceInv, SetUpTo, Base
<1>5. CASE OnLink(config[d], r)
  BY <1>2, <1>3, <1>4, <1>5 DEF OnLink, Reachable, Dev
<1>6. ASSUME NEW q \in ToSet(config[d].routes), q.dst = r.gw, Firm(d, q), r.scope < LinkScope
      PROVE  Reachable(r.gw)
  <2>1. PICK j \in DOMAIN config[d].routes : q = config[d].routes[j]
    BY DEF ToSet
  <2>2. r.scope \in Int /\ q.scope = LinkScope /\ LinkScope \in Int
    <3>1. i \in DOMAIN config[d].routes
      BY <1>2, <1>4 DEF TypeInv, HookTypeOK
    <3>2. QED
      BY <1>3, <1>6, <3>1, PodAssumption DEF TypeInv, Firm, LinkScope
  <2>3. j \notin hook.routes
    BY <1>2, <1>3, <1>6, <2>1, <2>2 DEF SortedRoutes, Conf, Dev
  <2>4. \E x \in podRoutes : x.device = d /\ x.scope = LinkScope /\ x.dst = q.dst
    BY <1>1, <1>2, <1>4, <1>6, <2>1, <2>3 DEF FaultInv, FirmRoutesIn
  <2>5. QED
    BY <1>2, <1>6, <2>4 DEF Reachable, Dev
<1>7. QED
  BY <1>2, <1>3, <1>5, <1>6 DEF Routable, Firm

\* The steps of a device's program before and after its routes leave what is
\* known of them.
LEMMA RoutesKept ==
  ASSUME TypeInv, FaultInv, NetNext, config' = config, hook.state = "running", hook.device \in Devices,
         UNCHANGED <<podRoutes, hook.state, hook.device, hook.routes, hook.added>>,
         \A x \in podRoutes' : OfDevice(x)'
  PROVE  FaultInv'
<1>1. hook.device # NoDevice /\ faults \in Int /\ faults' \in Int /\ faults <= faults'
  BY PodAssumption, FaultsGrow
<1>2. RouteOrder' /\ FirmRoutesIn'
  BY <1>1, ImpossibleKept DEF FaultInv, RouteOrder, FirmRoutesIn
<1>3. ~hook'.added => Caused(hook.device)'
  BY <1>1, ImpossibleKept DEF FaultInv, Caused
<1>4. QED
  BY <1>2, <1>3 DEF FaultInv

LEMMA AddRouteStep ==
  ASSUME TypeInv, TypeInv', InterfaceInv, FaultInv, NEW i \in hook.routes, AddRoute(i),
         \A x \in podRoutes' : OfDevice(x)'
  PROVE  FaultInv'
<1>1. hook.state = "running" /\ hook.device \in Devices /\ faults' = faults /\ config' = config /\ At("routes")
  BY AtPosition DEF AddRoute
<1>2a. PICK d \in Devices : hook.device = d
  BY <1>1
<1>2b. PICK r : r = config[d].routes[i]
  OBVIOUS
<1>2. hook.device = d /\ r = config[d].routes[i]
  BY <1>2a, <1>2b
<1>3. /\ UNCHANGED <<hook.state, hook.device>> /\ hook'.routes = hook.routes \ {i}
      /\ ~hook'.added => ~hook.added \/ ~Reachable(r.gw)
  BY <1>2 DEF AddRoute, TypeInv, HookTypeOK, Conf, Dev
<1>4. d # NoDevice /\ hook.routes \subseteq DOMAIN config[d].routes /\ faults \in Nat
  <2>1. d # NoDevice /\ faults \in Nat
    BY PodAssumption DEF TypeInv
  <2>2. QED
    BY <1>2, <2>1 DEF TypeInv, HookTypeOK
<1>5. \A j \in DOMAIN config[d].routes : config[d].routes[j].scope \in Int
  BY PodAssumption DEF TypeInv
<1>6. \A j \in hook.routes : config[d].routes[j].scope <= r.scope
  BY <1>2 DEF AddRoute, SortedRoutes, Conf, Dev
<1>7. /\ podRoutes' = IF Reachable(r.gw) /\ ~RouteExists(r) THEN podRoutes \union {Installed(d, r)} ELSE podRoutes
      /\ Installed(d, r).device = d /\ Installed(d, r).dst = r.dst /\ Installed(d, r).scope = r.scope
  BY <1>2 DEF AddRoute, Conf, Dev, Installed
<1>8. RouteOrder'
  BY <1>1, <1>2, <1>3, <1>4, <1>6, <1>7 DEF FaultInv, RouteOrder
<1>9. ASSUME Firm(d, r), faults = 0
      PROVE  \E x \in podRoutes' : x.device = d /\ x.scope = LinkScope /\ x.dst = r.dst
  <2>1. Reachable(r.gw)
    BY <1>1, <1>2, <1>9, GatewayReachable DEF AddRoute, Routable, Firm
  <2>2. CASE ~RouteExists(r)
    BY <1>7, <1>9, <2>1, <2>2 DEF Firm
  <2>3. CASE RouteExists(r)
    <3>1. PICK x \in podRoutes : x.dst = r.dst /\ x.table = RouteTable(config[d], r)
      BY <1>2, <2>3 DEF RouteExists, Conf, Dev
    <3>2. PICK p \in ToSet(config[x.device].routes) :
            x.dst = p.dst /\ x.scope = p.scope /\ x.table = RouteTable(config[x.device], p)
      BY DEF FaultInv, OfDevice
    <3>3. x.device \in Devices /\ p.scope \in Int /\ r.scope \in Int
      <4>1. x.device \in Devices
        BY DEF FaultInv, OfDevice
      <4>2. QED
        BY <1>2, <1>4, <1>5, <4>1, PodAssumption DEF TypeInv, ToSet
    <3>4. ~Displaces(x.device, p, d, r)
      BY <1>9, <3>3 DEF Firm
    <3>5. x.device = d /\ p.scope <= r.scope
      BY <3>1, <3>2, <3>3, <3>4 DEF Displaces
    <3>6. r.scope <= x.scope
      BY <1>1, <1>2, <1>4, <3>5 DEF FaultInv, RouteOrder
    <3>7. QED
      BY <1>7, <1>9, <3>1, <3>2, <3>3, <3>5, <3>6, <2>3 DEF Firm
  <2>4. QED
    BY <2>2, <2>3
<1>10. FirmRoutesIn'
  <2> SUFFICES ASSUME NEW j \in DOMAIN config[d].routes \ hook'.routes, Firm(d, config[d].routes[j]), faults = 0
              PROVE  \E x \in podRoutes' : x.device = d /\ x.scope = LinkScope /\ x.dst = config[d].routes[j].dst
    BY <1>1, <1>2, <1>3, <1>4, ImpossibleKept DEF FirmRoutesIn
  <2>1. CASE j = i
    BY <1>2, <1>9, <2>1
  <2>2. CASE j # i
    <3>1. j \notin hook.routes
      BY <1>3, <2>2
    <3>2. \E x \in podRoutes : x.device = d /\ x.scope = LinkScope /\ x.dst = config[d].routes[j].dst
      BY <1>1, <1>2, <1>4, <3>1 DEF FaultInv, FirmRoutesIn
    <3>3. QED
      BY <1>7, <3>2
  <2>3. QED
    BY <2>1, <2>2
<1>11. ~hook'.added => Caused(d)
  <2>1. CASE ~hook.added
    BY <1>1, <1>2, <1>4, <2>1 DEF FaultInv
  <2>2. CASE ~Reachable(r.gw)
    <3>1. faults = 0 => ~Routable(d, r)
      BY <1>1, <1>2, <2>2, GatewayReachable DEF AddRoute
    <3>2. r \in ToSet(config[d].routes)
      BY <1>2, <1>4 DEF ToSet
    <3>3. QED
      BY <1>4, <3>1, <3>2 DEF Caused, Impossible
  <2>3. QED
    BY <1>3, <2>1, <2>2
<1>12. ~hook'.added => Caused(hook.device)'
  BY <1>1, <1>2, <1>3, <1>11, ImpossibleKept DEF Caused
<1>13. QED
  BY <1>1, <1>2, <1>3, <1>8, <1>10, <1>12 DEF FaultInv

LEMMA FaultNext ==
  ASSUME TypeInv, TypeInv', InterfaceInv, FaultInv, NetNext \/ UNCHANGED netVars
  PROVE  FaultInv'
<1>1. config' = config /\ \A d : Base(d) \in {3, 4}
  BY ConfigKept DEF Base
<1>2. faults \in Nat /\ faults' \in Nat /\ faults <= faults'
  BY FaultsGrow, PodAssumption DEF TypeInv
<1>3. \A x \in podRoutes' : OfDevice(x)'
  BY RoutesOfDevices
<1>4. \A d : Caused(d) => Caused(d)'
  BY <1>1, <1>2, ImpossibleKept DEF Caused
<1>5. ASSUME hook'.state \in {"waiting", "done", "stopping"} \/ (hook'.state = "running" /\ hook'.device = NoDevice)
      PROVE  FaultInv'
  BY <1>3, <1>5 DEF FaultInv
<1>6. ASSUME UNCHANGED <<podRoutes, hook.state, hook.device, hook.routes, hook.added>>, NetNext,
             hook.state = "running", hook.device \in Devices
      PROVE  FaultInv'
  BY <1>1, <1>3, <1>6, RoutesKept
<1>7. ASSUME hook'.state = "rollback", hook'.device = hook.device, Caused(hook.device) \/ faults' >= 1
      PROVE  FaultInv'
  <2>1. Caused(hook.device)'
    BY <1>4, <1>7 DEF Caused
  <2>2. QED
    BY <1>3, <1>7, <2>1 DEF FaultInv
<1>8. ASSUME hook'.state = "failed", UNCHANGED <<hook.device, hook.pc>>, Caused(hook.device) \/ faults' >= 1,
             \/ ~iface'[hook.device].present /\ (~config[hook.device].sub /\ hook.pc > 3 => hostUp'[hook.device])
             \/ hook.pc = Base(hook.device) + 11
             \/ faults' >= (IF Impossible(hook.device) THEN 1 ELSE 2)
      PROVE  FaultInv'
  <2>1. Caused(hook.device)'
    BY <1>4, <1>8 DEF Caused
  <2>2. \/ RolledBack(hook.device)' \/ (hook.pc = Base(hook.device) + 11)'
        \/ (faults >= (IF Impossible(hook.device) THEN 1 ELSE 2))'
    BY <1>1, <1>8, ImpossibleKept DEF RolledBack, Base
  <2>3. QED
    BY <1>3, <1>8, <2>1, <2>2 DEF FaultInv
<1>9. CASE RunPodSandbox \/ Report \/ (\E sent \in BOOLEAN : RunSucceeds(sent)) \/ (\E d \in Devices : StopDevice(d))
           \/ NetnsDestroyed
  <2>1. \/ hook'.state \in {"waiting", "done", "stopping"}
        \/ hook'.state = "running" /\ hook'.device = NoDevice
    <3>1. CASE RunPodSandbox
      BY <3>1 DEF RunPodSandbox, Waiting
    <3>2. CASE NetnsDestroyed \/ \E d \in Devices : StopDevice(d)
      BY <3>2 DEF StopDevice, NetnsDestroyed, Waiting
    <3>3. CASE Report \/ \E sent \in BOOLEAN : RunSucceeds(sent)
      BY <3>3, AtPosition DEF Report, RunSucceeds, TypeInv, HookTypeOK
    <3>4. QED
      BY <1>9, <3>1, <3>2, <3>3
  <2>2. QED
    BY <1>5, <2>1
<1>10. ASSUME NEW d \in Devices, BeginDevice(d) PROVE FaultInv'
  <2>1. /\ hook'.state = "running" /\ hook'.device = d /\ hook'.added = TRUE
        /\ hook'.routes = DOMAIN config[d].routes /\ podRoutes' = podRoutes
        /\ hook.state = "running" /\ d \in hook.todo
    BY <1>10 DEF BeginDevice, TypeInv, HookTypeOK, nsVars
  <2>2. ~iface[d].present
    <3>1. iface[d] = Absent
      BY <2>1 DEF InterfaceInv, Untouched
    <3>2. ~Absent.present
      BY DEF Absent
    <3>3. QED
      BY <3>1, <3>2
  <2>3. \A x \in podRoutes' : x.device # d
    BY <2>1, <2>2 DEF FaultInv, OfDevice
  <2>4. RouteOrder' /\ FirmRoutesIn'
    BY <1>1, <2>1, <2>3 DEF RouteOrder, FirmRoutesIn
  <2>5. QED
    BY <1>3, <2>1, <2>4 DEF FaultInv
<1>11. CASE InterfaceSteps
  <2>1. hook.state = "running" /\ hook.device \in Devices /\ podRoutes' = podRoutes
    BY <1>11, InterfaceStepsPosition DEF nsVars
  <2>2. CASE Advance
    <3>1. UNCHANGED <<hook.state, hook.device, hook.routes, hook.added>>
      BY <2>2 DEF Advance, TypeInv, HookTypeOK
    <3>2. QED
      BY <1>6, <1>11, <2>1, <3>1 DEF NetNext, InterfaceSteps
  <2>3. CASE Check /\ hook' = [hook EXCEPT !.state = "failed"] /\ ~(Feasible(Dev) /\ location[Dev] = "host")
    <3>1. hook'.state = "failed" /\ UNCHANGED <<hook.device, hook.pc>> /\ hook.pc = 1 /\ iface' = iface
      BY <2>3, AtPosition DEF Check, TypeInv, HookTypeOK
    <3>2. Untouched(hook.device)
      BY <2>1, <3>1, PodAssumption DEF InterfaceInv, SetUpTo
    <3>3. ~Absent.present
      BY DEF Absent
    <3>4. Caused(hook.device)
      BY <2>3, <3>2 DEF Untouched, Caused, Impossible, Dev
    <3>5. QED
      BY <1>8, <3>1, <3>2, <3>3, <3>4 DEF Untouched
  <2>4. QED
    BY <1>11, <2>2, <2>3, InterfaceStepsPosition
<1>12. CASE ApplyVRF \/ ApplyRules \/ ApplyNeighbors \/ MoveRDMA \/ Skip
  <2>1. hook.state = "running" /\ hook.device \in Devices /\ podRoutes' = podRoutes /\ Advance
    BY <1>12, AtPosition DEF ApplyVRF, ApplyRules, ApplyNeighbors, MoveRDMA, Configures, Skip, nsVars
  <2>2. UNCHANGED <<hook.state, hook.device, hook.routes, hook.added>>
    BY <2>1 DEF Advance, TypeInv, HookTypeOK
  <2>3. QED
    BY <1>6, <1>12, <2>1, <2>2 DEF NetNext
<1>13. ASSUME NEW i \in hook.routes, AddRoute(i) PROVE FaultInv'
  BY <1>3, <1>13, AddRouteStep
<1>14. ASSUME NEW i \in hook.routes, AddRouteFails(i) PROVE FaultInv'
  <2>1. /\ hook.state = "running" /\ hook.device \in Devices /\ podRoutes' = podRoutes
        /\ faults' >= 1 /\ UNCHANGED <<hook.state, hook.device>> /\ hook'.routes = hook.routes \ {i}
    <3>1. hook.state = "running" /\ hook.device \in Devices /\ podRoutes' = podRoutes
      BY <1>14, AtPosition DEF AddRouteFails, nsVars
    <3>2. faults' >= 1
      BY <1>2, <1>14 DEF AddRouteFails
    <3>3. UNCHANGED <<hook.state, hook.device>> /\ hook'.routes = hook.routes \ {i}
      BY <1>14 DEF AddRouteFails, TypeInv, HookTypeOK
    <3>4. QED
      BY <3>1, <3>2, <3>3
  <2>2. RouteOrder' /\ FirmRoutesIn'
    BY <1>1, <2>1, PodAssumption DEF FaultInv, RouteOrder, FirmRoutesIn
  <2>3. Caused(hook.device)'
    BY <2>1 DEF Caused
  <2>4. QED
    BY <1>3, <2>1, <2>2, <2>3 DEF FaultInv
<1>15. CASE ApplyRoutes
  <2>1. hook.state = "running" /\ hook.device \in Devices /\ podRoutes' = podRoutes /\ hook.device # NoDevice
    BY <1>15, AtPosition, PodAssumption DEF ApplyRoutes, nsVars
  <2>2. CASE hook.added
    <3>1. UNCHANGED <<hook.state, hook.device, hook.routes, hook.added>>
      BY <1>15, <2>2 DEF ApplyRoutes, Advance, TypeInv, HookTypeOK
    <3>2. QED
      BY <1>6, <1>15, <2>1, <3>1 DEF NetNext
  <2>3. CASE ~hook.added
    <3>1. hook'.state = "rollback" /\ hook'.device = hook.device
      BY <1>15, <2>3 DEF ApplyRoutes, Fail, TypeInv, HookTypeOK
    <3>2. QED
      BY <1>7, <2>1, <2>3, <3>1 DEF FaultInv
  <2>4. QED
    BY <2>2, <2>3
<1>16. CASE StepFails
  <2>1. hook.state = "running" /\ hook.device \in Devices /\ hook.device # NoDevice /\ faults' >= 1 /\ iface' = iface
    BY <1>2, <1>16 DEF StepFails, TypeInv, HookTypeOK
  <2>2. CASE iface[hook.device].present /\ ~At("rdma")
    <3>1. hook'.state = "rollback" /\ hook'.device = hook.device
      BY <1>16, <2>2 DEF StepFails, Touched, Dev, Fail, TypeInv, HookTypeOK
    <3>2. QED
      BY <1>7, <2>1, <3>1
  <2>3. CASE ~iface[hook.device].present
    <3>1. hook'.state = "failed" /\ UNCHANGED <<hook.device, hook.pc>>
      BY <1>16, <2>3 DEF StepFails, Touched, Dev, TypeInv, HookTypeOK
    <3>2. SetUpTo(hook.device, hook.pc) /\ hook.pc \in Int
      BY <2>1 DEF InterfaceInv, TypeInv, HookTypeOK
    <3>3. ~(hook.pc > 3)
      BY <2>3, <3>2 DEF SetUpTo
    <3>4. QED
      BY <1>8, <2>1, <2>3, <3>1, <3>3
  <2>4. CASE At("rdma")
    <3>1. hook'.state = "failed" /\ UNCHANGED <<hook.device, hook.pc>>
      BY <1>16, <2>4 DEF StepFails, TypeInv, HookTypeOK
    <3>2. hook.pc = Base(hook.device) + 11
      BY <2>4, AtPosition DEF Dev
    <3>3. QED
      BY <1>8, <2>1, <3>1, <3>2
  <2>5. QED
    BY <2>2, <2>3, <2>4
<1>17. CASE IPv6Missing
  <2>1. hook'.state = "rollback" /\ hook'.device = hook.device
    BY <1>17 DEF IPv6Missing, Fail, TypeInv, HookTypeOK
  <2>2. Caused(hook.device)
    BY <1>17 DEF IPv6Missing, Caused, Impossible, Dev
  <2>3. QED
    BY <1>7, <2>1, <2>2
<1>18. CASE Rollback
  <2>1. /\ hook.state = "rollback" /\ hook'.state = "failed" /\ UNCHANGED <<hook.device, hook.pc>>
        /\ hook.device \in Devices /\ iface[hook.device].present
    BY <1>18 DEF Rollback, TypeInv, HookTypeOK, InterfaceInv
  <2>2. Vanishes(hook.device) /\ (~config[hook.device].sub => hostUp'[hook.device])
    BY <1>18, <2>1 DEF Rollback, DeleteChild, ReturnNetdev, FoundForRollback, Conf, Dev, TypeInv
  <2>3. ~iface'[hook.device].present
    <3>1. iface'[hook.device] = Absent
      BY <2>1, <2>2 DEF Vanishes, TypeInv
    <3>2. ~Absent.present
      BY DEF Absent
    <3>3. QED
      BY <3>1, <3>2
  <2>4. Caused(hook.device)
    BY <2>1 DEF FaultInv
  <2>5. QED
    BY <1>8, <2>1, <2>2, <2>3, <2>4
<1>19. ASSUME NEW moved \in BOOLEAN, RollbackFails(moved) PROVE FaultInv'
  <2>1. /\ hook.state = "rollback" /\ hook'.state = "failed" /\ UNCHANGED <<hook.device, hook.pc>>
        /\ faults' = faults + 1
    BY <1>19 DEF RollbackFails, TypeInv, HookTypeOK
  <2>2. Caused(hook.device)
    BY <2>1 DEF FaultInv
  <2>3. faults' >= (IF Impossible(hook.device) THEN 1 ELSE 2)
    BY <1>2, <2>1, <2>2 DEF Caused
  <2>4. QED
    BY <1>8, <2>1, <2>2, <2>3
<1>20. CASE UNCHANGED netVars
  <2>1. UNCHANGED <<config, iface, hostUp, podRoutes, hook, faults>>
    BY <1>20 DEF netVars
  <2>2. QED
    BY <1>3, <1>4, <2>1, ImpossibleKept DEF FaultInv, RouteOrder, FirmRoutesIn, RolledBack, Base
<1>21. QED
  BY <1>9, <1>10, <1>11, <1>12, <1>13, <1>14, <1>15, <1>16, <1>17, <1>18, <1>19, <1>20 DEF NetNext, InterfaceSteps

LEMMA FaultInit == NetInit => FaultInv
BY DEF NetInit, FaultInv, Waiting

\* The hook does not trip over its own order: of the devices, of the requests for
\* one device, or of the routes in the store.  Unless a request fails of itself, it
\* fails only for a configuration that this host cannot have: one of the checks, an
\* IPv6 setting or address that an interface below the IPv6 minimum does not have,
\* or a route with no way to its gateway.
THEOREM HookFailsOnlyForCause == NetSpec => []FailsOnlyForCause
<1>1. FaultInv => FailsOnlyForCause
  BY DEF FaultInv, FailsOnlyForCause, Caused, Dev
<1>2. TypeInv /\ InterfaceInv /\ FaultInv /\ [NetNext]_netVars => TypeInv' /\ InterfaceInv' /\ FaultInv'
  BY TypeNext, InterfaceNext, FaultNext
<1>3. QED
  BY <1>1, <1>2, TypeInit, InterfaceInit, FaultInit, PTL DEF NetSpec

\* After a hook that failed once, of itself or for its configuration, nothing of the
\* device that failed is in the pod, and the device is up on the host: only a
\* roll-back that fails as well leaves an interface or a route behind, or the move
\* of the RDMA link, which nothing rolls back.
THEOREM FailedHookLeavesNothing == NetSpec => []FailureLeavesNothing
<1>1. TypeInv /\ FaultInv => FailureLeavesNothing
  <2> SUFFICES ASSUME TypeInv, FaultInv, hook.state = "failed", Program(Dev)[hook.pc] # "rdma",
                     faults <= (IF Impossible(Dev) THEN 0 ELSE 1)
              PROVE  /\ ~iface[Dev].present /\ location[Dev] = "host"
                     /\ \A r \in podRoutes : r.device # Dev
                     /\ ~Conf.sub /\ hook.pc > Len(NetdevSteps) - Len(SetupSteps) => hostUp[Dev]
    BY DEF FailureLeavesNothing
  <2>1. Dev = hook.device /\ Dev \in Devices /\ faults \in Int
    BY PodAssumption DEF Dev, TypeInv, HookTypeOK
  <2>2. RolledBack(Dev)
    <3>1. hook.pc # Base(Dev) + 11
      BY ProgramSteps DEF ChildProgram, MovedProgram, Base
    <3>2. QED
      BY <2>1, <3>1 DEF FaultInv
  <2>3. Len(NetdevSteps) - Len(SetupSteps) = 3
    BY ProgramSteps
  <2>4. location[Dev] = "host"
    BY <2>1, <2>2 DEF RolledBack, TypeInv
  <2>5. QED
    BY <2>1, <2>2, <2>3, <2>4 DEF RolledBack, FaultInv, OfDevice, Conf
<1>2. TypeInv /\ InterfaceInv /\ FaultInv /\ [NetNext]_netVars => TypeInv' /\ InterfaceInv' /\ FaultInv'
  BY TypeNext, InterfaceNext, FaultNext
<1>3. QED
  BY <1>1, <1>2, TypeInit, InterfaceInit, FaultInit, PTL DEF NetSpec
=============================================================================

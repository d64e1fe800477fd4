-------------------------- MODULE MCPodConfigStore --------------------------
(* Two pods, two devices, two claims; the configuration of a device is told *)
(* apart by its claim only.                                                 *)
EXTENDS PodConfigStore, TLC

MCConfig(c) ==
  [claim |-> c, subinterface |-> FALSE, addresses |-> {}, snapshot |-> "none"]

MCDeviceConfigs == {MCConfig(c) : c \in Claims}

Symmetry == Permutations(Pods) \cup Permutations(Devices)
=============================================================================

------------------------- MODULE MCSandboxLifecycle -------------------------
(* Attempts of a pod with a netdev that has an RDMA link, a subinterface     *)
(* and an IB-only device.  Renamed: what has a netdev is renamed in the pod. *)
EXTENDS SandboxLifecycle

CONSTANTS roce, sub, ib

HostNames == [d \in Devices |-> IF d = roce THEN "eth1" ELSE IF d = sub THEN "eth2" ELSE ""]
Renamed == [d \in Devices |-> IF d = roce THEN "net0" ELSE IF d = sub THEN "net1" ELSE ""]
Fallbacks == [d \in Devices |-> IF d = roce THEN "dev1" ELSE IF d = sub THEN "dev2" ELSE ""]
=============================================================================

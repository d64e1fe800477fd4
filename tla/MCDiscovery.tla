---------------------------- MODULE MCDiscovery ----------------------------
\* A node whose default route is on a bridge over a bond over a RoCE function;
\* a second RoCE function, an HCA with IPoIB, an eRDMA function, one for a
\* virtual machine.  The second RoCE function has a worse default route.
EXTENDS Discovery, TLC

CONSTANTS nic0, nic1, hca, erdma, vfio, br0, bond0, eth0, eth1, ib0, lo

F(class, driver, rdma, ethernet) ==
  [class |-> class, driver |-> driver, rdma |-> rdma, ethernet |-> ethernet]
L(pci, kind, master) == [pci |-> pci, kind |-> kind, master |-> master]

MCFunction ==
  nic0 :> F("network", "mlx5_core", TRUE, TRUE) @@ nic1 :> F("network", "mlx5_core", TRUE, TRUE)
  @@ hca :> F("network", "mlx5_core", TRUE, FALSE) @@ erdma :> F("other", "erdma", TRUE, TRUE)
  @@ vfio :> F("network", "vfio-pci", FALSE, FALSE)
MCLink ==
  br0 :> L(None, "bridge", None) @@ bond0 :> L(None, "bond", br0) @@ eth0 :> L(nic0, "device", bond0)
  @@ eth1 :> L(nic1, "device", None) @@ ib0 :> L(hca, "ipoib", None)
  @@ lo :> L(None, "ignored", None)
MCDefaultRoutes ==
  {[link |-> br0, metric |-> 0, v6 |-> FALSE], [link |-> br0, metric |-> 1024, v6 |-> TRUE],
   [link |-> eth1, metric |-> 100, v6 |-> FALSE]}
MCWanted == {nic0, erdma}
MCModes ==
  {[rdmaShared |-> TRUE, moveIBInterfaces |-> TRUE], [rdmaShared |-> FALSE, moveIBInterfaces |-> FALSE]}
=============================================================================

--------------------------- MODULE OKEAddressing ---------------------------
(***************************************************************************)
(* The IPv4 address arithmetic of the OKE profile.                         *)
(*                                                                         *)
(* OCA, the agent of the cloud, gives RDMA NIC number i of a host the      *)
(* address base + i * subnetSize + hostPosition of its RDMA network, where *)
(* the position is that of the host's primary VNIC in its subnet.  The     *)
(* profile gives the IPvlan child the same offset in a range of its own,   *)
(* without talking to any other host.                                      *)
(*                                                                         *)
(* An address is a number below 2^Width.  A prefix is its first address    *)
(* and its length; a VNIC is its address and its subnet.                   *)
(***************************************************************************)
EXTENDS Integers

CONSTANTS
  Width,          \* 32
  MaxNics,        \* okeMaxIPv4RDMANics and okeMaxIPv6RDMANics, 16
  MinChildBits,   \* 8
  MaxChildBits,   \* 30
  SpecialRanges   \* specialIPv4Ranges

Size(p) == 2^(Width - p.bits)

Masked(p) == p.base % Size(p) = 0 /\ p.base + Size(p) <= 2^Width

Prefixes == {p \in [base : 0..(2^Width - 1), bits : 0..Width] : Masked(p)}

ASSUME WidthAssumption == Width \in Nat /\ \A n \in 0..Width : 2^n \in Nat \ {0}
ASSUME OKEConstantsAssumption ==
  /\ MaxNics \in Nat /\ MinChildBits \in 0..Width /\ MaxChildBits \in 0..Width
  /\ SpecialRanges \subseteq Prefixes

Contains(p, a) == p.base <= a /\ a < p.base + Size(p)

Overlaps(p, q) == p.base < q.base + Size(q) /\ q.base < p.base + Size(p)

-----------------------------------------------------------------------------

ValidateChildIPv4Range(p) ==
  /\ Masked(p)
  /\ p.bits \in MinChildBits..MaxChildBits
  /\ \A special \in SpecialRanges : ~Overlaps(p, special)

ValidateVNIC(vnic) == Contains(vnic.subnet, vnic.ip)

HostPosition(vnic) == vnic.ip - vnic.subnet.base

\* The offset of NIC i in the OCA RDMA network.
OCAOffset(vnic, i) == i * Size(vnic.subnet) + HostPosition(vnic)

\* deriveOCAParentIPv4: when it succeeds, and what it returns.
DerivesParent(vnic, i, parentRange) ==
  /\ ValidateVNIC(vnic)
  /\ Masked(parentRange)
  /\ ~Overlaps(vnic.subnet, parentRange)
  /\ OCAOffset(vnic, i) < Size(parentRange)

ParentIPv4(vnic, i, parentRange) == parentRange.base + OCAOffset(vnic, i)

\* One number more than the profile has tables for.
IndexSupportedOffByOne(i) == i <= MaxNics

IndexSupported(i) == i < MaxNics

\* deriveRDMAIPv4: when it succeeds, and the child it returns.
DerivesChild(vnic, i, parentRange, childRange) ==
  /\ IndexSupported(i)
  /\ DerivesParent(vnic, i, parentRange)
  /\ ValidateChildIPv4Range(childRange)
  /\ ~Overlaps(parentRange, childRange)
  /\ ~Overlaps(vnic.subnet, childRange)
  /\ childRange.bits <= vnic.subnet.bits
  /\ OCAOffset(vnic, i) < Size(childRange)

ChildIPv4(vnic, i, childRange) == childRange.base + OCAOffset(vnic, i)

\* rdmaNicIndexFromAddress: when it succeeds, and the index it returns.
InvertsAddress(vnic, a, parentRange) ==
  /\ ValidateVNIC(vnic)
  /\ Contains(parentRange, a)
  /\ (a - parentRange.base) % Size(vnic.subnet) = HostPosition(vnic)

NicIndexFromAddress(vnic, a, parentRange) ==
  (a - parentRange.base) \div Size(vnic.subnet)
=============================================================================

---------------------------- MODULE MCOKEProfile ----------------------------
(* Addresses of six bits.  The primary VNIC is the second host of a subnet  *)
(* of four, the OCA network holds the blocks of three NICs and more, and    *)
(* the profile owns two tables per kind of NIC.                             *)
EXTENDS OKEProfile

CONSTANTS rdma0, rdma2, plain1, vf0, pf1, ib3

MCNicKind == [n \in Nics |->
  CASE n \in {rdma0, rdma2} -> "rdma" [] n = plain1 -> "plain"
    [] n = vf0 -> "vf" [] n = pf1 -> "shared" [] OTHER -> "ib"]

MCNicIndex == [n \in Nics |->
  CASE n \in {rdma0, vf0} -> 0 [] n \in {plain1, pf1} -> 1 [] OTHER -> 2]

P(base, bits) == [base |-> base, bits |-> bits]
VNIC == [ip |-> 5, subnet |-> P(4, 4)]
Parent == P(16, 2)      \* 16..31
Child == P(32, 2)       \* 32..47
MCSpecialRanges == {P(0, 5)}

Classic == [n \in Nics |-> ParentIPv4(VNIC, MCNicIndex[n], Parent)]
\* The NICs have each other's addresses.
Swapped == [n \in Nics |-> ParentIPv4(VNIC, 1 - (MCNicIndex[n] % 2), Parent)]
\* One NIC is where the formula puts it and the other is not.
Coincident == [n \in Nics |->
                 ParentIPv4(VNIC, MCNicIndex[n], Parent) + (MCNicIndex[n] % 2)]

V4Node(nics, mode, layout, child) ==
  [nics |-> nics, v6 |-> FALSE, pods |-> FALSE, mode |-> mode, vnic |-> VNIC, parentRange |-> Parent,
   childRange |-> child, layout |-> layout, service |-> 62,
   ipoib |-> FALSE, exclusive |-> FALSE]
V6Node(nics) == [V4Node(nics, "classic", Classic, Child) EXCEPT !.v6 = TRUE]

MCNodes ==
  {V4Node({rdma0, plain1}, "", Classic, Child),
   V4Node({rdma0, plain1}, "classic", Swapped, Child),
   V4Node({rdma0, plain1}, "", Coincident, Child),
   [V4Node({plain1}, "", Classic, Child) EXCEPT !.pods = TRUE],
   V4Node({pf1, rdma2}, "classic", Classic, Child),
   V4Node({plain1, vf0}, "serial", Swapped, Child),
   V4Node({rdma0}, "classic", Classic, P(16, 3)),   \* overlaps the OCA network
   [V4Node({rdma0}, "classic", Classic, Child) EXCEPT !.service = 40],
   [V4Node({ib3}, "classic", Classic, Child) EXCEPT !.ipoib = TRUE],
   V4Node({ib3}, "classic", Classic, Child),
   V6Node({rdma0, vf0})}

R(routing, named) ==
  [supported |-> TRUE, routing |-> routing, vrf |-> FALSE,
   acceptRA |-> FALSE, arp |-> TRUE, named |-> named]
MCRequests == {R(FALSE, TRUE), R(TRUE, FALSE)}

A(prefix, iid, usable) == [prefix |-> prefix, iid |-> iid, usable |-> usable]
RR == {[gw |-> 1, metric |-> 20], [gw |-> 2, metric |-> 10]}
S(a, r) == [addrs |-> a, routers |-> r]
MCV6States ==
  {S({A("p1", 1, TRUE)}, {}),                        \* no default route yet
   S({A("p1", 1, TRUE), A("p1", 2, FALSE)}, RR),     \* and a deprecated address
   S({A("p1", 1, FALSE), A("p2", 1, TRUE)}, RR),     \* renumbered
   S({A("p1", 1, TRUE), A("p2", 1, TRUE)}, RR)}      \* two prefixes

\* Hashes that are reserved, of the parent, of its deprecated address, free.
MCHash == [c \in Claims |-> [n \in Nics |->
  IF n = vf0 THEN [k \in 0..2 |-> <<0, 2, 5>>[k + 1]]
  ELSE [k \in 0..2 |-> <<1, 4, 5>>[k + 1]]]]
=============================================================================

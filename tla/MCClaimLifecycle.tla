-------------------------- MODULE MCClaimLifecycle --------------------------
(* Up to three pods and claims; d1 and d2 can carry the subinterfaces of    *)
(* several pods, d3 is moved as a whole and configured by DHCP.             *)
EXTENDS ClaimLifecycle

CONSTANTS p1, p2, p3, c1, c2, c3, d1, d2, d3, a1, a2

MCDeviceConfigs ==
  [claim : Claims, subinterface : BOOLEAN, profile : BOOLEAN,
   addresses : SUBSET Addrs, lease : BOOLEAN]

Net(profile, sub, dhcp, static) ==
  [profile |-> profile, subinterface |-> sub, dhcp |-> dhcp, static |-> static]

Dynamic == Net(TRUE, TRUE, FALSE, {})
Static == Net(TRUE, TRUE, FALSE, {a1})
DHCP == Net(FALSE, FALSE, TRUE, {})

\* One claim per pod.
OwnClaims == [p \in Pods |-> IF p = p1 THEN {c1} ELSE IF p = p2 THEN {c2} ELSE {c3}]
\* A pod uses both claims.
BothClaims == [p \in Pods |-> {c1, c2}]

\* c1 has both devices, c2 shares d1, c3 has a device of its own.
Shared == [c \in Claims |-> IF c = c1 THEN {d1, d2} ELSE IF c = c2 THEN {d1} ELSE {d3}]
\* One device each.
Separate == [c \in Claims |-> IF c = c1 THEN {d1} ELSE {d2}]

DynamicStaticDHCP == [c \in Claims |-> IF c = c1 THEN Dynamic ELSE IF c = c2 THEN Static ELSE DHCP]
AllDynamic == [c \in Claims |-> Dynamic]
=============================================================================

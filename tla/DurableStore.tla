---------------------------- MODULE DurableStore ----------------------------
(***************************************************************************)
(* What the pod configuration store promises its callers, without naming   *)
(* the two copies it is built from.                                        *)
(*                                                                         *)
(*   view     what a reader of the store sees;                             *)
(*   residue  deleted configurations whose deletion did not reach the disk *)
(*            and that the next start of the driver will bring back;       *)
(*   running  the driver runs and takes calls.                             *)
(*                                                                         *)
(* A stored configuration never disappears except by a deletion, however   *)
(* often the driver restarts; nothing but a residue ever reappears.        *)
(***************************************************************************)
CONSTANTS Pods, Devices, DeviceConfigs, NoConfig

VARIABLES view, residue, running

NoDevices == [d \in Devices |-> NoConfig]

Empty == [p \in Pods |-> NoDevices]

\* The configurations of `top`, and below them those of `bottom`.
Overlay(top, bottom) ==
  [d \in Devices |-> IF top[d] # NoConfig THEN top[d] ELSE bottom[d]]

Init ==
  /\ view = Empty
  /\ residue = Empty
  /\ running = TRUE

Set(p, d, c) ==
  /\ running /\ UNCHANGED running
  /\ view' = [view EXCEPT ![p][d] = c]
  /\ residue' = [residue EXCEPT ![p][d] = NoConfig]

\* Forget the pods of P, durably for those of `durable`.
Delete(P, durable) ==
  /\ running /\ UNCHANGED running
  /\ view' = [p \in Pods |-> IF p \in P THEN NoDevices ELSE view[p]]
  /\ residue' = [p \in Pods |->
                   IF p \in durable THEN NoDevices
                   ELSE IF p \in P THEN Overlay(view[p], residue[p])
                   ELSE residue[p]]

\* The driver ends, and with it what only it knew: the residue surfaces.
End ==
  /\ running
  /\ running' = FALSE
  /\ view' = [p \in Pods |-> Overlay(view[p], residue[p])]
  /\ residue' = Empty

\* A start neither loses nor invents anything.
Start ==
  /\ ~running
  /\ running' = TRUE
  /\ UNCHANGED <<view, residue>>

Next ==
  \/ \E p \in Pods, d \in Devices, c \in DeviceConfigs : Set(p, d, c)
  \/ \E P \in SUBSET Pods : \E durable \in SUBSET P : Delete(P, durable)
  \/ End
  \/ Start

Spec == Init /\ [][Next]_<<view, residue, running>>
=============================================================================

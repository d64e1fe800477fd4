---------------------------- MODULE MCLocalIPAM ----------------------------
(* Three callers, one of which holds an address from before the restart.   *)
(* MaxInt = 3 makes a range of three or more addresses a huge one, whose   *)
(* random offset may lie past its end.                                     *)
EXTENDS LocalIPAM

CONSTANT c3

V4(n) == [is6 |-> FALSE, n |-> n]
V6(n) == [is6 |-> TRUE, n |-> n]
R(a, b) == [start |-> a, end |-> b]

\* Dual stack, tight, huge, two of one family, reversed and invalid ranges.
MCRangeLists ==
  {<<R(V4(1), V4(2)), R(V6(0), V6(1))>>,
   <<R(V6(1), V6(1)), R(V4(0), V4(2))>>,
   <<R(V4(2), V4(2)), R(V4(1), V4(1))>>,
   <<R(V4(0), V4(0)), R(V6(1), V6(0))>>,
   <<R(V4(1), V4(2)), R(NoAddr, V6(0))>>}

MCStaticLists == {{V4(2)}, {V4(1), V6(1)}, {V4(0), NoAddr}}

MCInitialHeld == [c \in Callers |-> IF c = c3 THEN {V4(1)} ELSE {}]
=============================================================================

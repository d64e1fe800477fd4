----------------------------- MODULE LocalIPAM -----------------------------
(***************************************************************************)
(* The node-local IP allocator of the cloud providers.                     *)
(*                                                                         *)
(* A caller stands for one grant of a profile: it reserves static          *)
(* addresses or allocates one address per range, holds what it got, and    *)
(* releases it.  Callers run concurrently.  The mutex is taken per range   *)
(* and per released address, not per Allocate call, so those are the       *)
(* atomic steps.                                                           *)
(*                                                                         *)
(* An address is a family and a number of at most MaxAddr, the all-ones    *)
(* address.  NoAddr is the zero netip.Addr, the address that is not valid. *)
(***************************************************************************)
EXTENDS Integers, Sequences

CONSTANTS
  Callers,
  MaxAddr,        \* number of the all-ones address
  NoAddr,         \* the invalid address
  MaxInt,         \* stands for math.MaxInt64
  MaxUint,        \* stands for math.MaxUint64, the largest random offset
  RangeLists,     \* arguments of Allocate: sequences of [start, end] ranges
  StaticLists,    \* arguments of Reserve: sets of addresses, NoAddr for one
                  \* that does not parse
  InitialHeld     \* addresses of the configurations found in the checkpoint

Addresses == [is6 : BOOLEAN, n : 0..MaxAddr]

ASSUME AddressAssumption ==
  /\ MaxAddr \in Nat /\ MaxInt \in Nat /\ MaxUint \in Nat
  /\ NoAddr \notin Addresses

ASSUME RangeListsAssumption ==
  RangeLists \subseteq Seq([start : Addresses \cup {NoAddr}, end : Addresses \cup {NoAddr}])

ASSUME StaticListsAssumption ==
  StaticLists \subseteq SUBSET (Addresses \cup {NoAddr})

ASSUME InitialHeldAssumption ==
  /\ InitialHeld \in [Callers -> SUBSET Addresses]
  /\ \A c, e \in Callers : c # e => InitialHeld[c] \cap InitialHeld[e] = {}

VARIABLES
  allocatedIPs,  \* the addresses in use on the node
  pc,            \* what each caller is doing
  ranges,        \* the ranges the caller's Allocate still has to serve
  got            \* the addresses the caller has obtained and not given back

ipamVars == <<allocatedIPs, pc, ranges, got>>

-----------------------------------------------------------------------------
(* The iterator over a range.                                              *)

\* addressRangeSize, for first <= last: the size is capped.
AddressRangeSize(first, last) ==
  IF last.n - first.n + 1 >= MaxInt THEN MaxInt ELSE last.n - first.n + 1

\* randomizedBounds: the offsets the iteration may start from.
Offsets(first, last) ==
  IF AddressRangeSize(first, last) >= MaxInt
    THEN 0..MaxUint
    ELSE 0..AddressRangeSize(first, last) - 1

\* addOffsetAddress: a sum that needs more bytes than an address is an error.
AddOffsetAddress(a, offset) ==
  IF a.n + offset > MaxAddr THEN NoAddr ELSE [a EXCEPT !.n = a.n + offset]

\* Addr.Next: the all-ones address has no successor.
NextAddr(a) == AddOffsetAddress(a, 1)

\* A wrap that lets one address past the end through.
ModuloOffByOne(a, first, last) ==
  IF a # NoAddr /\ a.n > last.n + 1 THEN first ELSE a

\* An iteration that ends at the end of the range instead of wrapping.
ModuloNoWrap(a, first, last) ==
  IF a # NoAddr /\ a.n > last.n THEN NoAddr ELSE a

\* An invalid address compares below every other, so it does not wrap.
Modulo(a, first, last) ==
  IF a # NoAddr /\ a.n > last.n THEN first ELSE a

\* The closure `next` of ipIterator.
Advance(a, first, last) ==
  IF a = NoAddr THEN NoAddr ELSE Modulo(NextAddr(a), first, last)

\* ipIterator: the addresses of successive calls, before the test that ends
\* the iteration.
Iterated(first, last, offset) ==
  LET it[i \in 0..MaxAddr + 1] ==
        IF i = 0 THEN Modulo(AddOffsetAddress(first, offset), first, last)
                 ELSE Advance(it[i - 1], first, last)
  IN  it

\* The calls that yield an address: the iteration ends at an invalid address
\* or when it is back at its start.
Yields(it) ==
  {i \in DOMAIN it : \A j \in 0..i : it[j] # NoAddr /\ (j > 0 => it[j] # it[0])}

\* A search that takes every address for free.
FirstFreeIgnoringUse(first, last, offset) == Iterated(first, last, offset)[0]

\* The loop of allocateForRange: the first address that is not allocated, or
\* NoAddr.
FirstFree(first, last, offset) ==
  LET it == Iterated(first, last, offset)
      free == {i \in Yields(it) : it[i] \in Addresses /\ it[i] \notin allocatedIPs}
      earliest == {i \in free : \A j \in free : i <= j}
  IN  IF earliest = {} THEN NoAddr ELSE it[CHOOSE i \in earliest : TRUE]

-----------------------------------------------------------------------------

\* NewLocalIPAM with the addresses of the stored configurations.
Init ==
  /\ allocatedIPs = UNION {InitialHeld[c] : c \in Callers}
  /\ pc = [c \in Callers |-> IF InitialHeld[c] = {} THEN "idle" ELSE "holding"]
  /\ ranges = [c \in Callers |-> <<>>]
  /\ got = InitialHeld

Call(c, list) ==
  /\ pc[c] = "idle"
  /\ pc' = [pc EXCEPT ![c] = "allocating"]
  /\ ranges' = [ranges EXCEPT ![c] = list]
  /\ UNCHANGED <<allocatedIPs, got>>

ValidRange(r) ==
  /\ r.start # NoAddr /\ r.end # NoAddr
  /\ r.start.is6 = r.end.is6
  /\ r.start.n <= r.end.n

\* The family of the range was served already.
SecondOfFamily(c, r) == \E a \in got[c] : a.is6 = r.start.is6

\* allocateForRange, under the mutex.
AllocateForRange(c, offset) ==
  LET r == Head(ranges[c])
      ip == FirstFree(r.start, r.end, offset)
  IN  IF ip = NoAddr
        THEN /\ pc' = [pc EXCEPT ![c] = "releasing"]
             /\ UNCHANGED <<allocatedIPs, got, ranges>>
        ELSE /\ allocatedIPs' = allocatedIPs \cup {ip}
             /\ got' = [got EXCEPT ![c] = @ \cup {ip}]
             /\ ranges' = [ranges EXCEPT ![c] = Tail(@)]
             /\ UNCHANGED pc

\* A rejected range: everything the call obtained is released.
RejectRange(c) ==
  /\ pc[c] = "allocating" /\ ranges[c] # <<>>
  /\ ValidRange(Head(ranges[c])) => SecondOfFamily(c, Head(ranges[c]))
  /\ pc' = [pc EXCEPT ![c] = "releasing"]
  /\ UNCHANGED <<allocatedIPs, got, ranges>>

AllocateNext(c) ==
  /\ pc[c] = "allocating" /\ ranges[c] # <<>>
  /\ ValidRange(Head(ranges[c])) /\ ~SecondOfFamily(c, Head(ranges[c]))
  /\ \E offset \in Offsets(Head(ranges[c]).start, Head(ranges[c]).end) :
       AllocateForRange(c, offset)

AllocateReturns(c) ==
  /\ pc[c] = "allocating" /\ ranges[c] = <<>>
  /\ pc' = [pc EXCEPT ![c] = "holding"]
  /\ UNCHANGED <<allocatedIPs, ranges, got>>

\* A Reserve that records the addresses before the first one that is taken.
ReservePartly(c, addrs) ==
  /\ pc[c] = "idle"
  /\ pc' = IF NoAddr \in addrs \/ addrs \cap allocatedIPs # {}
             THEN pc ELSE [pc EXCEPT ![c] = "holding"]
  /\ allocatedIPs' = allocatedIPs \cup (addrs \ {NoAddr})
  /\ got' = IF NoAddr \in addrs \/ addrs \cap allocatedIPs # {}
              THEN got ELSE [got EXCEPT ![c] = addrs]
  /\ UNCHANGED ranges

Reserve(c, addrs) ==
  /\ pc[c] = "idle"
  /\ IF NoAddr \in addrs \/ addrs \cap allocatedIPs # {}
       THEN UNCHANGED <<allocatedIPs, pc, got>>
       ELSE /\ allocatedIPs' = allocatedIPs \cup addrs
            /\ pc' = [pc EXCEPT ![c] = "holding"]
            /\ got' = [got EXCEPT ![c] = addrs]
  /\ UNCHANGED ranges

\* ReleaseProfileConfig of a provider starts to give a grant back.
ReleaseProfileConfig(c) ==
  /\ pc[c] = "holding"
  /\ pc' = [pc EXCEPT ![c] = "releasing"]
  /\ UNCHANGED <<allocatedIPs, ranges, got>>

\* Release of one address, IPv4 first, in releaseAll and in ReleaseProfileConfig.
Release(c) ==
  /\ pc[c] = "releasing"
  /\ \E a \in got[c] :
       /\ a.is6 => \A b \in got[c] : b.is6
       /\ allocatedIPs' = allocatedIPs \ {a}
       /\ got' = [got EXCEPT ![c] = @ \ {a}]
  /\ UNCHANGED <<pc, ranges>>

\* The caller has its error, or its grant is gone.
ReleaseDone(c) ==
  /\ pc[c] = "releasing" /\ got[c] = {}
  /\ pc' = [pc EXCEPT ![c] = "idle"]
  /\ ranges' = [ranges EXCEPT ![c] = <<>>]
  /\ UNCHANGED <<allocatedIPs, got>>

Next ==
  \E c \in Callers :
    \/ \E list \in RangeLists : Call(c, list)
    \/ RejectRange(c)
    \/ AllocateNext(c)
    \/ AllocateReturns(c)
    \/ \E addrs \in StaticLists : Reserve(c, addrs)
    \/ ReleaseProfileConfig(c)
    \/ Release(c)
    \/ ReleaseDone(c)

Spec == Init /\ [][Next]_ipamVars

-----------------------------------------------------------------------------
(* Properties.                                                             *)

\* Type invariant of the allocator.
TypeOK ==
  /\ allocatedIPs \subseteq Addresses
  /\ pc \in [Callers -> {"idle", "allocating", "holding", "releasing"}]
  /\ ranges \in [Callers -> Seq([start : Addresses \cup {NoAddr},
                                 end : Addresses \cup {NoAddr}])]
  /\ got \in [Callers -> SUBSET Addresses]

\* No address is with two callers at once, in the middle of a call or after
\* it: allocateForRange and Reserve look up and record under one lock.
NoDoubleHandOut ==
  \A c, e \in Callers : c # e => got[c] \cap got[e] = {}

\* The allocated set is exactly what the callers hold: an Allocate that fails
\* at its second range and a Reserve that is refused leave nothing behind, and
\* no release frees an address of somebody else.
ExactAccounting ==
  allocatedIPs = UNION {got[c] : c \in Callers}

\* A caller that is not in a call and holds no grant has nothing.
IdleHasNothing ==
  \A c \in Callers : pc[c] = "idle" => got[c] = {}

\* The inductive invariant of the allocator.
IPAMInv ==
  /\ TypeOK
  /\ NoDoubleHandOut
  /\ ExactAccounting
  /\ IdleHasNothing

InRange(a, r) == a.is6 = r.start.is6 /\ r.start.n <= a.n /\ a.n <= r.end.n

\* An address is taken from inside the range it is for, and was free.
TakesFreeAddressOfRange ==
  [][\A c \in Callers :
       pc[c] = "allocating" /\ got'[c] # got[c] =>
         \E a \in Addresses :
           /\ got'[c] = got[c] \cup {a}
           /\ InRange(a, Head(ranges[c]))
           /\ a \notin allocatedIPs]_ipamVars

\* Allocate gives up on a valid range only when every address of it is in use,
\* whatever the random offset: "no more free IP addresses in range".
FailsOnlyWhenExhausted ==
  [][\A c \in Callers :
       (/\ pc[c] = "allocating" /\ pc'[c] = "releasing"
        /\ ValidRange(Head(ranges[c]))
        /\ ~SecondOfFamily(c, Head(ranges[c])))
       => \A a \in Addresses : InRange(a, Head(ranges[c])) => a \in allocatedIPs]_ipamVars
=============================================================================

-------------------------- MODULE PreparationProofs --------------------------
(***************************************************************************)
(* What the preparation of a device rests on, for all constants.           *)
(*                                                                         *)
(* The addresses: the allocator never hands out an address twice and keeps *)
(* exact books, for any number of callers, any ranges and any random       *)
(* offsets; it gives a free address of the range it is asked for while     *)
(* there is one.                                                           *)
(*                                                                         *)
(* The configuration: whatever a provider, a profile, DHCP and the host    *)
(* say, what is stored for a device has what the user's claim says and can *)
(* be applied.  The merges are an order, Over, that the user's             *)
(* configuration is at the bottom of.  The host's policy rules are with    *)
(* one of the devices that need them once the claim is acknowledged.       *)
(***************************************************************************)
EXTENDS LocalIPAM, DeviceConfiguration, SequenceTheorems, FiniteSetTheorems,
        NaturalsInduction, WellFoundedInduction, TLAPS

----------------------------------------------------------------------------
(* The node-local allocator.                                               *)

\* What the search of a range returns is a valid address that is not in use.
LEMMA FirstFreeIsFree ==
  ASSUME NEW first, NEW last, NEW offset,
         FirstFree(first, last, offset) # NoAddr
  PROVE  /\ FirstFree(first, last, offset) \in Addresses
         /\ FirstFree(first, last, offset) \notin allocatedIPs
<1> DEFINE it == Iterated(first, last, offset)
           free == {i \in Yields(it) : it[i] \in Addresses /\ it[i] \notin allocatedIPs}
           earliest == {i \in free : \A j \in free : i <= j}
<1> HIDE DEF it
<1>1. earliest # {} /\ FirstFree(first, last, offset) = it[CHOOSE i \in earliest : TRUE]
  BY DEF FirstFree, it
<1>2. (CHOOSE i \in earliest : TRUE) \in free
  BY <1>1
<1>3. QED
  BY <1>1, <1>2

\* A fresh allocator holds exactly what the stored configurations hold.
LEMMA InitInv == Init => IPAMInv
<1> SUFFICES ASSUME Init PROVE IPAMInv
  OBVIOUS
<1>1. TypeOK
  BY InitialHeldAssumption DEF Init, TypeOK
<1>2. NoDoubleHandOut /\ ExactAccounting /\ IdleHasNothing
  BY InitialHeldAssumption DEF Init, NoDoubleHandOut, ExactAccounting, IdleHasNothing
<1>3. QED
  BY <1>1, <1>2 DEF IPAMInv

\* Steps that only move a caller, and leave the addresses alone.
LEMMA AddressesUnchanged ==
  ASSUME IPAMInv, TypeOK', IdleHasNothing', UNCHANGED <<allocatedIPs, got>>
  PROVE  IPAMInv'
BY DEF IPAMInv, NoDoubleHandOut, ExactAccounting

\* A caller that takes free addresses keeps the books exact.
LEMMA TakingKeepsBooks ==
  ASSUME IPAMInv, NEW c \in Callers, NEW A, A \cap allocatedIPs = {},
         allocatedIPs' = allocatedIPs \cup A,
         got' = [got EXCEPT ![c] = got[c] \cup A]
  PROVE  NoDoubleHandOut' /\ ExactAccounting'
<1> USE DEF IPAMInv, TypeOK
<1>1. \A e \in Callers : got'[e] = IF e = c THEN got[c] \cup A ELSE got[e]
  OBVIOUS
<1>2. \A e \in Callers : got[e] \subseteq allocatedIPs
  BY DEF ExactAccounting
<1>3. NoDoubleHandOut'
  BY <1>1, <1>2 DEF NoDoubleHandOut
<1>4. ExactAccounting'
  BY <1>1 DEF ExactAccounting
<1>5. QED
  BY <1>3, <1>4

\* A caller that gives back one of its addresses frees nobody else's.
LEMMA ReleasingKeepsBooks ==
  ASSUME IPAMInv, NEW c \in Callers, NEW a \in got[c],
         allocatedIPs' = allocatedIPs \ {a},
         got' = [got EXCEPT ![c] = got[c] \ {a}]
  PROVE  NoDoubleHandOut' /\ ExactAccounting'
<1> USE DEF IPAMInv, TypeOK
<1>1. \A e \in Callers : got'[e] = IF e = c THEN got[c] \ {a} ELSE got[e]
  OBVIOUS
<1>2. NoDoubleHandOut'
  BY <1>1 DEF NoDoubleHandOut
<1>3. \A e \in Callers : e # c => a \notin got[e]
  BY DEF NoDoubleHandOut
<1>4. ExactAccounting'
  BY <1>1, <1>3 DEF ExactAccounting
<1>5. QED
  BY <1>2, <1>4

\* Every step of the allocator keeps the invariant.
LEMMA NextKeepsInv == IPAMInv /\ [Next]_ipamVars => IPAMInv'
<1> SUFFICES ASSUME IPAMInv, [Next]_ipamVars
             PROVE  IPAMInv'
  OBVIOUS
<1>0. TypeOK /\ IdleHasNothing
  BY DEF IPAMInv
<1> DEFINE RangeSeqs == Seq([start : Addresses \cup {NoAddr},
                             end : Addresses \cup {NoAddr}])
<1>1. ASSUME NEW c \in Callers, NEW list \in RangeLists, Call(c, list)
      PROVE  IPAMInv'
  <2>1. TypeOK'
    BY <1>0, <1>1, RangeListsAssumption DEF Call, TypeOK
  <2>2. IdleHasNothing'
    BY <1>0, <1>1 DEF Call, TypeOK, IdleHasNothing
  <2>3. QED
    BY <1>1, <2>1, <2>2, AddressesUnchanged DEF Call
<1>2. ASSUME NEW c \in Callers, RejectRange(c)
      PROVE  IPAMInv'
  <2>1. TypeOK'
    BY <1>0, <1>2 DEF RejectRange, TypeOK
  <2>2. IdleHasNothing'
    BY <1>0, <1>2 DEF RejectRange, TypeOK, IdleHasNothing
  <2>3. QED
    BY <1>2, <2>1, <2>2, AddressesUnchanged DEF RejectRange
<1>3. ASSUME NEW c \in Callers, AllocateNext(c)
      PROVE  IPAMInv'
  <2> DEFINE r == Head(ranges[c])
  <2>1. PICK offset \in Offsets(r.start, r.end) : AllocateForRange(c, offset)
    BY <1>3 DEF AllocateNext
  <2> DEFINE ip == FirstFree(r.start, r.end, offset)
  <2>2. pc[c] = "allocating" /\ ranges[c] # <<>>
    BY <1>3 DEF AllocateNext
  <2> HIDE DEF r
  <2>3. CASE ip = NoAddr
    <3>1. pc' = [pc EXCEPT ![c] = "releasing"] /\ UNCHANGED <<allocatedIPs, got, ranges>>
      BY <2>1, <2>3 DEF AllocateForRange, r
    <3>2. TypeOK' /\ IdleHasNothing'
      BY <1>0, <3>1 DEF TypeOK, IdleHasNothing
    <3>3. QED
      BY <3>1, <3>2, AddressesUnchanged
  <2>4. CASE ip # NoAddr
    <3>1. /\ allocatedIPs' = allocatedIPs \cup {ip}
          /\ got' = [got EXCEPT ![c] = got[c] \cup {ip}]
          /\ ranges' = [ranges EXCEPT ![c] = Tail(ranges[c])]
          /\ pc' = pc
      BY <2>1, <2>4 DEF AllocateForRange, r
    <3>2. ip \in Addresses /\ ip \notin allocatedIPs
      BY <2>4, FirstFreeIsFree
    <3> HIDE DEF ip
    <3>3. NoDoubleHandOut' /\ ExactAccounting'
      BY <3>1, <3>2, TakingKeepsBooks
    <3>4. Tail(ranges[c]) \in RangeSeqs
      <4>1. ranges[c] \in RangeSeqs
        BY <1>0 DEF TypeOK
      <4>2. QED
        BY <2>2, <4>1, HeadTailProperties
    <3>5. TypeOK'
      BY <1>0, <3>1, <3>2, <3>4 DEF TypeOK
    <3>6. IdleHasNothing'
      BY <1>0, <2>2, <3>1 DEF TypeOK, IdleHasNothing
    <3>7. QED
      BY <3>3, <3>5, <3>6 DEF IPAMInv
  <2>5. QED
    BY <2>3, <2>4
<1>4. ASSUME NEW c \in Callers, AllocateReturns(c)
      PROVE  IPAMInv'
  <2>1. TypeOK' /\ IdleHasNothing'
    BY <1>0, <1>4 DEF AllocateReturns, TypeOK, IdleHasNothing
  <2>2. QED
    BY <1>4, <2>1, AddressesUnchanged DEF AllocateReturns
<1>5. ASSUME NEW c \in Callers, NEW addrs \in StaticLists, Reserve(c, addrs)
      PROVE  IPAMInv'
  <2> USE <1>5 DEF Reserve
  <2>1. CASE NoAddr \in addrs \/ addrs \cap allocatedIPs # {}
    <3>1. UNCHANGED ipamVars
      BY <2>1 DEF ipamVars
    <3>2. QED
      BY <3>1 DEF ipamVars, IPAMInv, TypeOK, NoDoubleHandOut, ExactAccounting, IdleHasNothing
  <2>2. CASE ~(NoAddr \in addrs \/ addrs \cap allocatedIPs # {})
    <3>1. got[c] = {} /\ addrs \subseteq Addresses
      BY <1>0, <2>2, StaticListsAssumption DEF IdleHasNothing
    <3>2. got' = [got EXCEPT ![c] = got[c] \cup addrs]
      BY <2>2, <3>1
    <3>3. NoDoubleHandOut' /\ ExactAccounting'
      BY <2>2, <3>2, TakingKeepsBooks
    <3>4. TypeOK' /\ IdleHasNothing'
      BY <1>0, <2>2, <3>1 DEF TypeOK, IdleHasNothing
    <3>5. QED
      BY <3>3, <3>4 DEF IPAMInv
  <2>3. QED
    BY <2>1, <2>2
<1>6. ASSUME NEW c \in Callers, ReleaseProfileConfig(c)
      PROVE  IPAMInv'
  <2>1. TypeOK' /\ IdleHasNothing'
    BY <1>0, <1>6 DEF ReleaseProfileConfig, TypeOK, IdleHasNothing
  <2>2. QED
    BY <1>6, <2>1, AddressesUnchanged DEF ReleaseProfileConfig
<1>7. ASSUME NEW c \in Callers, Release(c)
      PROVE  IPAMInv'
  <2>1. PICK a \in got[c] : /\ allocatedIPs' = allocatedIPs \ {a}
                            /\ got' = [got EXCEPT ![c] = got[c] \ {a}]
    BY <1>7 DEF Release
  <2>2. NoDoubleHandOut' /\ ExactAccounting'
    BY <2>1, ReleasingKeepsBooks
  <2>3. TypeOK' /\ IdleHasNothing'
    BY <1>0, <1>7, <2>1 DEF Release, TypeOK, IdleHasNothing
  <2>4. QED
    BY <2>2, <2>3 DEF IPAMInv
<1>8. ASSUME NEW c \in Callers, ReleaseDone(c)
      PROVE  IPAMInv'
  <2>1. <<>> \in RangeSeqs
    OBVIOUS
  <2>2. TypeOK' /\ IdleHasNothing'
    BY <1>0, <1>8, <2>1 DEF ReleaseDone, TypeOK, IdleHasNothing
  <2>3. QED
    BY <1>8, <2>2, AddressesUnchanged DEF ReleaseDone
<1>9. CASE UNCHANGED ipamVars
  BY <1>9
  DEF ipamVars, IPAMInv, TypeOK, NoDoubleHandOut, ExactAccounting, IdleHasNothing
<1>10. QED
  BY <1>1, <1>2, <1>3, <1>4, <1>5, <1>6, <1>7, <1>8, <1>9 DEF Next

\* In every reachable state of the allocator the inductive invariant holds.
THEOREM IPAMInvariant == Spec => []IPAMInv
  BY InitInv, NextKeepsInv, PTL DEF Spec

\* No two callers ever hold the same address, whatever the interleaving of
\* their per-range and per-address critical sections.
THEOREM NeverDoubleHandOut == Spec => []NoDoubleHandOut
<1>1. IPAMInv => NoDoubleHandOut
  BY DEF IPAMInv
<1>2. QED
  BY IPAMInvariant, <1>1, PTL

\* The allocated set is exactly what is held: failures leak no address.
THEOREM BooksStayExact == Spec => []ExactAccounting
<1>1. IPAMInv => ExactAccounting
  BY DEF IPAMInv
<1>2. QED
  BY IPAMInvariant, <1>1, PTL

\* What the allocator holds and what its callers got are addresses of the two
\* families.
THEOREM IPAMTypeCorrect == Spec => []TypeOK
<1>1. IPAMInv => TypeOK
  BY DEF IPAMInv
<1>2. QED
  BY IPAMInvariant, <1>1, PTL

----------------------------------------------------------------------------
(* The iteration over a range.                                             *)

\* A set of numbers that is not empty has a least one.
LEMMA SomeLeast ==
  ASSUME NEW T, T \subseteq Nat, T # {}
  PROVE  \E x \in T : \A y \in T : x <= y
<1> DEFINE R == {ss \in Nat \X Nat : ss[1] < ss[2]}
<1>1. IsWellFoundedOn(R, Nat)
  BY NatLessThanWellFounded DEF OpToRel
<1>2. PICK x \in T : \A y \in T : ~(<<y, x>> \in R)
  <2> HIDE DEF R
  <2> QED
    BY <1>1, WFMin
<1>3. \A y \in T : ~(y < x)
  BY <1>2
<1> QED
  BY <1>3

\* The iterator is what its recursive definition says.
Iterates(it, first, last, offset) ==
  /\ DOMAIN it = 0 .. MaxAddr + 1
  /\ it[0] = Modulo(AddOffsetAddress(first, offset), first, last)
  /\ \A i \in 1 .. MaxAddr + 1 : it[i] = Advance(it[i - 1], first, last)

LEMMA IteratedIterates ==
  ASSUME NEW first, NEW last, NEW offset
  PROVE  Iterates(Iterated(first, last, offset), first, last, offset)
<1> DEFINE Start == Modulo(AddOffsetAddress(first, offset), first, last)
           Step(a) == Advance(a, first, last)
           Solves(f, m) == f = [i \in 0 .. m |-> IF i = 0 THEN Start ELSE Step(f[i - 1])]
           T == {m \in Nat : ~\E f : Solves(f, m)}
<1> HIDE DEF Start, Step
<1>1. ASSUME NEW m \in T, \A k \in T : m <= k PROVE FALSE
  <2>1. CASE m = 0
    <3>1. Solves([i \in 0 .. 0 |-> Start], 0)
      OBVIOUS
    <3> QED
      BY <2>1, <3>1, <1>1
  <2>2. CASE m # 0
    <3>1. m - 1 \in Nat /\ m - 1 \notin T
      <4>1. m \in Nat
        OBVIOUS
      <4> HIDE DEF T
      <4> QED
        BY <4>1, <2>2, <1>1
    <3>2. PICK f : Solves(f, m - 1)
      BY <3>1
    <3>3. \A i \in 0 .. (m - 1) : f[i] = IF i = 0 THEN Start ELSE Step(f[i - 1])
      BY <3>2
    <3> DEFINE g == [i \in 0 .. m |-> IF i = m THEN Step(f[m - 1]) ELSE f[i]]
    <3>4. \A i \in 0 .. m : g[i] = IF i = 0 THEN Start ELSE Step(g[i - 1])
      <4> SUFFICES ASSUME NEW i \in 0 .. m PROVE g[i] = IF i = 0 THEN Start ELSE Step(g[i - 1])
        OBVIOUS
      <4>1. CASE i = m
        BY <4>1, <2>2
      <4>2. CASE i # m
        BY <4>2, <3>3
      <4> QED
        BY <4>1, <4>2
    <3>5. Solves(g, m)
      BY <3>4
    <3> QED
      BY <3>5
  <2> QED
    BY <2>1, <2>2
<1>2. T = {}
  <2> HIDE DEF T
  <2>1. T \subseteq Nat
    BY DEF T
  <2> QED
    BY <2>1, <1>1, SomeLeast
<1>3. MaxAddr + 1 \in Nat
  BY AddressAssumption
<1>4. \E f : Solves(f, MaxAddr + 1)
  BY <1>2, <1>3
<1>5. PICK it : it = Iterated(first, last, offset)
  OBVIOUS
<1>6. Solves(it, MaxAddr + 1)
  BY <1>4, <1>5, Zenon DEF Iterated, Start, Step
<1>7. DOMAIN it = 0 .. MaxAddr + 1 /\ \A i \in 0 .. MaxAddr + 1 : it[i] = IF i = 0 THEN Start ELSE Step(it[i - 1])
  BY <1>6
<1>8. it[0] = Start
  BY <1>3, <1>7
<1>9. \A i \in 1 .. MaxAddr + 1 : it[i] = Step(it[i - 1])
  BY <1>3, <1>7
<1> QED
  BY <1>5, <1>7, <1>8, <1>9 DEF Iterates, Start, Step

Within(a, first, last) == a \in Addresses /\ a.is6 = first.is6 /\ first.n <= a.n /\ a.n <= last.n

\* It never leaves the range, unless it runs out of addresses.
LEMMA IteratedStaysInRange ==
  ASSUME NEW first \in Addresses, NEW last \in Addresses, first.is6 = last.is6, first.n <= last.n,
         NEW offset \in Nat, NEW it, Iterates(it, first, last, offset)
  PROVE  \A i \in 0 .. MaxAddr + 1 : it[i] = NoAddr \/ Within(it[i], first, last)
<1> DEFINE T == {i \in 0 .. MaxAddr + 1 : ~(it[i] = NoAddr \/ Within(it[i], first, last))}
<1>1. MaxAddr \in Nat /\ NoAddr \notin Addresses
  BY AddressAssumption
<1>2. first.n \in 0 .. MaxAddr /\ last.n \in 0 .. MaxAddr
  BY DEF Addresses
<1>3. ASSUME NEW a \in Addresses, NEW k \in Nat, a.is6 = first.is6, first.n <= a.n
      PROVE  \/ Modulo(AddOffsetAddress(a, k), first, last) = NoAddr
             \/ Within(Modulo(AddOffsetAddress(a, k), first, last), first, last)
  <2>1. CASE a.n + k > MaxAddr
    BY <2>1 DEF AddOffsetAddress, Modulo
  <2>2. CASE ~(a.n + k > MaxAddr)
    <3>1. PICK b : b = [a EXCEPT !.n = a.n + k]
      OBVIOUS
    <3>2. a.n \in Nat
      BY <1>1 DEF Addresses
    <3>3. b \in Addresses /\ b.is6 = first.is6 /\ b.n = a.n + k
      BY <1>1, <1>3, <2>2, <3>1, <3>2 DEF Addresses
    <3>4. AddOffsetAddress(a, k) = b
      BY <2>2, <3>1 DEF AddOffsetAddress
    <3>5. CASE b.n > last.n
      <4>1. Modulo(b, first, last) = first
        BY <1>1, <3>3, <3>5 DEF Modulo
      <4>2. Within(first, first, last)
        BY <1>2 DEF Within
      <4> QED
        BY <3>4, <4>1, <4>2
    <3>6. CASE ~(b.n > last.n)
      <4>1. Modulo(b, first, last) = b
        BY <3>6 DEF Modulo
      <4>2. first.n <= b.n /\ b.n <= last.n
        BY <1>1, <1>2, <1>3, <3>2, <3>3, <3>6
      <4>3. Within(b, first, last)
        BY <3>3, <4>2 DEF Within
      <4> QED
        BY <3>4, <4>1, <4>3
    <3> QED
      BY <3>5, <3>6
  <2> QED
    BY <2>1, <2>2
<1>4. ASSUME NEW m \in T, \A k \in T : m <= k PROVE FALSE
  <2>1. CASE m = 0
    <3>1. first.n <= first.n
      BY <1>2
    <3>2. it[0] = NoAddr \/ Within(it[0], first, last)
      BY <1>3, <3>1 DEF Iterates
    <3> QED
      BY <2>1, <3>2
  <2>2. CASE m # 0
    <3>1. m \in 1 .. MaxAddr + 1 /\ m - 1 \in 0 .. MaxAddr + 1
      BY <1>1, <2>2
    <3>2. m - 1 \notin T
      <4>1. m \in Int
        BY <3>1
      <4> HIDE DEF T
      <4> QED
        BY <4>1, <1>4
    <3>3. it[m - 1] = NoAddr \/ Within(it[m - 1], first, last)
      BY <3>1, <3>2
    <3>4. it[m] = Advance(it[m - 1], first, last)
      BY <3>1 DEF Iterates
    <3>5. PICK a : a = it[m - 1]
      OBVIOUS
    <3>6. Advance(a, first, last) = NoAddr \/ Within(Advance(a, first, last), first, last)
      <4>1. CASE a = NoAddr
        BY <4>1 DEF Advance
      <4>2. CASE a # NoAddr
        <5>1. a \in Addresses /\ a.is6 = first.is6 /\ first.n <= a.n
          BY <3>3, <3>5, <4>2 DEF Within
        <5>2. Advance(a, first, last) = Modulo(AddOffsetAddress(a, 1), first, last)
          BY <4>2 DEF Advance, NextAddr
        <5> QED
          BY <1>3, <5>1, <5>2
      <4> QED
        BY <4>1, <4>2
    <3> QED
      BY <3>4, <3>5, <3>6, <1>4
  <2> QED
    BY <2>1, <2>2
<1>5. T = {}
  <2>1. T \subseteq Nat
    BY <1>1
  <2> HIDE DEF T
  <2> QED
    BY <2>1, <1>4, SomeLeast
<1> QED
  BY <1>5

\* A range that ends before the all-ones address is gone through once around,
\* from wherever the offset is, as long as the offset itself can be added.
LEMMA IteratedCovers ==
  ASSUME NEW first \in Addresses, NEW last \in Addresses, first.is6 = last.is6, first.n <= last.n,
         NEW offset \in Nat, last.n < MaxAddr, first.n + offset <= MaxAddr,
         NEW it, Iterates(it, first, last, offset),
         NEW a \in Addresses, Within(a, first, last)
  PROVE  \E i \in Yields(it) : it[i] = a
<1> DEFINE size == last.n - first.n + 1
           k == IF first.n + offset > last.n THEN 0 ELSE offset
           Pos(i) == IF k + i < size THEN first.n + k + i ELSE first.n + k + i - size
           T == {i \in 0 .. (size - 1) : it[i] # [is6 |-> first.is6, n |-> Pos(i)]}
<1>1. MaxAddr \in Nat /\ NoAddr \notin Addresses
  BY AddressAssumption
<1>2. first.n \in 0 .. MaxAddr /\ last.n \in 0 .. MaxAddr /\ a.n \in 0 .. MaxAddr
  BY DEF Addresses
<1>3. /\ size \in Nat /\ size >= 1 /\ size <= MaxAddr /\ size = last.n - first.n + 1
      /\ k \in Nat /\ k < size
      /\ k = IF first.n + offset > last.n THEN 0 ELSE offset
  BY <1>1, <1>2
<1> HIDE DEF size, k
<1>4. \A i \in 0 .. (size - 1) : Pos(i) \in Nat /\ first.n <= Pos(i) /\ Pos(i) <= last.n
  BY <1>2, <1>3
<1>5. \A b \in Addresses : \A n \in Nat : [b EXCEPT !.n = n] = [is6 |-> b.is6, n |-> n]
  BY DEF Addresses
<1>6. first = [is6 |-> first.is6, n |-> first.n]
  BY DEF Addresses
<1>7. \A n \in 0 .. MaxAddr : [is6 |-> first.is6, n |-> n] \in Addresses
  BY DEF Addresses
<1>8. ASSUME NEW m \in T, \A j \in T : m <= j PROVE FALSE
  <2>0. m \in 0 .. (size - 1) /\ m \in Nat
    BY <1>3
  <2>1. CASE m = 0
    <3>1. AddOffsetAddress(first, offset) = [is6 |-> first.is6, n |-> first.n + offset]
      <4>1. first.n + offset \in Nat /\ ~(first.n + offset > MaxAddr)
        BY <1>1, <1>2
      <4> QED
        BY <1>5, <4>1 DEF AddOffsetAddress
    <3>2. [is6 |-> first.is6, n |-> first.n + offset] # NoAddr
      <4>1. first.n + offset \in 0 .. MaxAddr
        BY <1>1, <1>2
      <4> QED
        BY <1>1, <1>7, <4>1
    <3>3. Pos(0) = IF first.n + offset > last.n THEN first.n ELSE first.n + offset
      BY <1>2, <1>3
    <3>4. it[0] = IF first.n + offset > last.n THEN first ELSE [is6 |-> first.is6, n |-> first.n + offset]
      BY <3>1, <3>2 DEF Iterates, Modulo
    <3>5. it[0] = [is6 |-> first.is6, n |-> Pos(0)]
      BY <1>6, <3>3, <3>4
    <3> QED
      BY <2>1, <3>5
  <2>2. CASE m # 0
    <3>1. m - 1 \in 0 .. (size - 1) /\ m \in 1 .. MaxAddr + 1
      BY <1>1, <1>3, <2>0, <2>2
    <3>2. m - 1 \notin T
      <4> HIDE DEF T
      <4> QED
        BY <2>0, <1>8
    <3> DEFINE p == Pos(m - 1)
    <3>3. it[m - 1] = [is6 |-> first.is6, n |-> p] /\ p \in Nat /\ first.n <= p /\ p <= last.n
      BY <1>4, <3>1, <3>2
    <3>4. Pos(m) = IF p + 1 > last.n THEN first.n ELSE p + 1
      BY <1>2, <1>3, <2>0, <2>2
    <3> HIDE DEF p
    <3>5. p \in 0 .. MaxAddr /\ p + 1 \in 0 .. MaxAddr
      BY <1>1, <1>2, <3>3
    <3>6. it[m - 1] \in Addresses /\ it[m - 1] # NoAddr /\ it[m - 1].n = p /\ it[m - 1].is6 = first.is6
      BY <1>1, <1>7, <3>3, <3>5
    <3>7. NextAddr(it[m - 1]) = [is6 |-> first.is6, n |-> p + 1]
      <4>1. ~(p + 1 > MaxAddr) /\ p + 1 \in Nat
        BY <1>1, <3>5
      <4> QED
        BY <1>5, <3>6, <4>1 DEF NextAddr, AddOffsetAddress
    <3>8. [is6 |-> first.is6, n |-> p + 1] # NoAddr
      BY <1>1, <1>7, <3>5
    <3>9. it[m] = IF p + 1 > last.n THEN first ELSE [is6 |-> first.is6, n |-> p + 1]
      BY <3>1, <3>6, <3>7, <3>8 DEF Iterates, Advance, Modulo
    <3>10. it[m] = [is6 |-> first.is6, n |-> Pos(m)]
      <4> HIDE DEF Pos
      <4> QED
        BY <1>6, <3>4, <3>9
    <3> QED
      BY <3>10
  <2> QED
    BY <2>1, <2>2
<1>9. T = {}
  <2>1. T \subseteq Nat
    BY <1>3
  <2> HIDE DEF T
  <2> QED
    BY <2>1, <1>8, SomeLeast
<1>10. \A i \in 0 .. (size - 1) : it[i] = [is6 |-> first.is6, n |-> Pos(i)]
  BY <1>9
<1>11. \A i \in 0 .. (size - 1) : i > 0 => Pos(i) # Pos(0)
  BY <1>2, <1>3
<1>12. PICK i \in 0 .. (size - 1) : Pos(i) = a.n
  <2>1. first.n <= a.n /\ a.n <= last.n
    BY DEF Within
  <2>2. CASE a.n - first.n >= k
    <3>1. a.n - first.n - k \in 0 .. (size - 1) /\ Pos(a.n - first.n - k) = a.n
      BY <1>2, <1>3, <2>1, <2>2
    <3> QED
      BY <3>1
  <2>3. CASE ~(a.n - first.n >= k)
    <3>1. a.n - first.n - k + size \in 0 .. (size - 1) /\ Pos(a.n - first.n - k + size) = a.n
      BY <1>2, <1>3, <2>1, <2>3
    <3> QED
      BY <3>1
  <2> QED
    BY <2>2, <2>3
<1>13. it[i] = a
  <2>1. a = [is6 |-> a.is6, n |-> a.n] /\ a.is6 = first.is6
    BY DEF Addresses, Within
  <2> HIDE DEF Pos
  <2> QED
    BY <2>1, <1>10, <1>12
<1>14. i \in Yields(it)
  <2>1. i \in DOMAIN it
    BY <1>1, <1>3 DEF Iterates
  <2>2. ASSUME NEW j \in 0 .. i PROVE it[j] # NoAddr /\ (j > 0 => it[j] # it[0])
    <3>1. j \in 0 .. (size - 1) /\ 0 \in 0 .. (size - 1)
      BY <1>3
    <3>2. it[j] = [is6 |-> first.is6, n |-> Pos(j)] /\ it[0] = [is6 |-> first.is6, n |-> Pos(0)]
      BY <1>10, <3>1
    <3>3. Pos(j) \in 0 .. MaxAddr
      BY <1>1, <1>2, <1>4, <3>1
    <3>4. j > 0 => Pos(j) # Pos(0)
      BY <1>11, <3>1
    <3> HIDE DEF Pos
    <3>5. it[j] # NoAddr
      BY <1>1, <1>7, <3>2, <3>3
    <3> QED
      BY <3>2, <3>4, <3>5
  <2> QED
    BY <2>1, <2>2 DEF Yields
<1> QED
  BY <1>13, <1>14

\* What the search finds is in the range.
LEMMA FirstFreeInRange ==
  ASSUME NEW first \in Addresses, NEW last \in Addresses, first.is6 = last.is6, first.n <= last.n,
         NEW offset \in Nat, FirstFree(first, last, offset) # NoAddr
  PROVE  Within(FirstFree(first, last, offset), first, last)
<1> DEFINE it == Iterated(first, last, offset)
           free == {i \in Yields(it) : it[i] \in Addresses /\ it[i] \notin allocatedIPs}
           earliest == {i \in free : \A j \in free : i <= j}
<1>1. Iterates(it, first, last, offset)
  BY IteratedIterates
<1> HIDE DEF it
<1>2. earliest # {} /\ FirstFree(first, last, offset) = it[CHOOSE i \in earliest : TRUE]
  BY DEF FirstFree, it
<1>3. PICK i \in free : FirstFree(first, last, offset) = it[i]
  BY <1>2
<1>4. i \in 0 .. MaxAddr + 1 /\ it[i] # NoAddr
  BY <1>1, <1>3, AddressAssumption DEF Yields, Iterates
<1>5. it[i] = NoAddr \/ Within(it[i], first, last)
  BY <1>1, <1>4, IteratedStaysInRange
<1> QED
  BY <1>3, <1>4, <1>5

\* The search that finds nothing has seen every address of the range.
LEMMA NothingFree ==
  ASSUME NEW first \in Addresses, NEW last \in Addresses, first.is6 = last.is6, first.n <= last.n,
         NEW offset \in Nat, last.n < MaxAddr, first.n + offset <= MaxAddr,
         FirstFree(first, last, offset) = NoAddr,
         NEW a \in Addresses, Within(a, first, last)
  PROVE  a \in allocatedIPs
<1> DEFINE it == Iterated(first, last, offset)
           free == {i \in Yields(it) : it[i] \in Addresses /\ it[i] \notin allocatedIPs}
           earliest == {i \in free : \A j \in free : i <= j}
<1>1. Iterates(it, first, last, offset)
  BY IteratedIterates
<1> HIDE DEF it
<1>2. earliest # {} => FirstFree(first, last, offset) = it[CHOOSE i \in earliest : TRUE]
  BY DEF FirstFree, it
<1>3. earliest = {}
  <2> SUFFICES ASSUME earliest # {} PROVE FALSE
    OBVIOUS
  <2>1. (CHOOSE i \in earliest : TRUE) \in free
    OBVIOUS
  <2>2. it[CHOOSE i \in earliest : TRUE] \in Addresses
    BY <2>1
  <2> QED
    BY <1>2, <2>2, AddressAssumption
<1>4. free \subseteq Nat
  BY <1>1, AddressAssumption DEF Yields, Iterates
<1>5. PICK i \in Yields(it) : it[i] = a
  BY <1>1, IteratedCovers
<1> SUFFICES ASSUME a \notin allocatedIPs PROVE FALSE
  OBVIOUS
<1>6. i \in free
  BY <1>5
<1> HIDE DEF free
<1>7. \E x \in free : \A y \in free : x <= y
  BY <1>4, <1>6, SomeLeast
<1> QED
  BY <1>3, <1>7

\* Offsets are numbers, and less than the size of a range that is not huge.
LEMMA OffsetFacts ==
  ASSUME NEW first \in Addresses, NEW last \in Addresses, first.n <= last.n,
         NEW offset \in Offsets(first, last)
  PROVE  /\ offset \in Nat
         /\ AddressRangeSize(first, last) < MaxInt => first.n + offset <= last.n
         /\ ~(AddressRangeSize(first, last) < MaxInt) => offset <= MaxUint
<1>1. MaxAddr \in Nat /\ MaxInt \in Nat /\ MaxUint \in Nat
  BY AddressAssumption
<1>2. first.n \in 0 .. MaxAddr /\ last.n \in 0 .. MaxAddr
  BY DEF Addresses
<1> QED
  BY <1>1, <1>2 DEF Offsets, AddressRangeSize

\* The range a call is at, when it is valid.
LEMMA HeadIsRange ==
  ASSUME TypeOK, NEW c \in Callers, ranges[c] # <<>>, ValidRange(Head(ranges[c]))
  PROVE  LET r == Head(ranges[c]) IN
         r.start \in Addresses /\ r.end \in Addresses /\ r.start.is6 = r.end.is6 /\ r.start.n <= r.end.n
<1>1. PICK s \in Seq([start : Addresses \cup {NoAddr}, end : Addresses \cup {NoAddr}]) : s = ranges[c]
  BY DEF TypeOK
<1>2. PICK r \in [start : Addresses \cup {NoAddr}, end : Addresses \cup {NoAddr}] : r = Head(s)
  BY <1>1, HeadTailProperties
<1> QED
  BY <1>1, <1>2 DEF ValidRange

\* An address is taken from inside the range it is for, and was free, whatever
\* the offset and whatever other callers do between the ranges of one call.
THEOREM AlwaysTakesFreeAddressOfRange == Spec => TakesFreeAddressOfRange
<1>1. TypeOK /\ [Next]_ipamVars =>
        [\A c \in Callers :
           pc[c] = "allocating" /\ got'[c] # got[c] =>
             \E a \in Addresses :
               /\ got'[c] = got[c] \cup {a}
               /\ InRange(a, Head(ranges[c]))
               /\ a \notin allocatedIPs]_ipamVars
  <2> SUFFICES ASSUME TypeOK, Next, NEW c \in Callers, pc[c] = "allocating", got'[c] # got[c]
               PROVE  \E a \in Addresses :
                        /\ got'[c] = got[c] \cup {a}
                        /\ InRange(a, Head(ranges[c]))
                        /\ a \notin allocatedIPs
    OBVIOUS
  <2>1. AllocateNext(c)
    <3>1. PICK e \in Callers :
            \/ \E list \in RangeLists : Call(e, list)
            \/ RejectRange(e)
            \/ AllocateNext(e)
            \/ AllocateReturns(e)
            \/ \E addrs \in StaticLists : Reserve(e, addrs)
            \/ ReleaseProfileConfig(e)
            \/ Release(e)
            \/ ReleaseDone(e)
      BY DEF Next
    <3>2. CASE AllocateNext(e)
      <4>1. e = c
        BY <3>2 DEF AllocateNext, AllocateForRange, TypeOK
      <4> QED
        BY <3>2, <4>1
    <3>3. CASE \E addrs \in StaticLists : Reserve(e, addrs)
      BY <3>3 DEF Reserve, TypeOK
    <3>4. CASE Release(e)
      BY <3>4 DEF Release, TypeOK
    <3> QED
      BY <3>1, <3>2, <3>3, <3>4 DEF Call, RejectRange, AllocateReturns, ReleaseProfileConfig, ReleaseDone
  <2> DEFINE r == Head(ranges[c])
  <2>2. /\ ranges[c] # <<>> /\ ValidRange(r)
        /\ \E offset \in Offsets(r.start, r.end) : AllocateForRange(c, offset)
    BY <2>1 DEF AllocateNext
  <2>3. r.start \in Addresses /\ r.end \in Addresses /\ r.start.is6 = r.end.is6 /\ r.start.n <= r.end.n
    BY <2>2, HeadIsRange
  <2>4. PICK offset \in Offsets(r.start, r.end) : AllocateForRange(c, offset)
    BY <2>2
  <2>5. PICK ip : ip = FirstFree(r.start, r.end, offset)
    OBVIOUS
  <2>6. ip # NoAddr /\ got' = [got EXCEPT ![c] = @ \cup {ip}]
    BY <2>4, <2>5 DEF AllocateForRange
  <2> HIDE DEF r
  <2>7. PICK first \in Addresses, last \in Addresses : first = r.start /\ last = r.end
    BY <2>3
  <2>8. offset \in Nat
    BY <2>3, <2>7, OffsetFacts
  <2>9. ip \in Addresses /\ ip \notin allocatedIPs
    BY <2>5, <2>6, FirstFreeIsFree
  <2>10. Within(ip, first, last)
    BY <2>3, <2>5, <2>6, <2>7, <2>8, FirstFreeInRange
  <2>11. InRange(ip, r)
    BY <2>7, <2>10 DEF InRange, Within
  <2>12. got'[c] = got[c] \cup {ip}
    BY <2>6 DEF TypeOK
  <2> QED
    BY <2>9, <2>11, <2>12 DEF r
<1> QED
  BY <1>1, IPAMTypeCorrect, PTL DEF Spec, TakesFreeAddressOfRange

\* The ranges end before the all-ones address, and those so large that any random
\* number is their offset leave room for it.
ClearOfTop(r) ==
  ValidRange(r) =>
    /\ r.end.n < MaxAddr
    /\ AddressRangeSize(r.start, r.end) < MaxInt \/ r.start.n + MaxUint <= MaxAddr
RangesClearOfTop == \A list \in RangeLists : \A i \in DOMAIN list : ClearOfTop(list[i])

CallsClearOfTop == \A c \in Callers : \A i \in DOMAIN ranges[c] : ClearOfTop(ranges[c][i])

LEMMA CallsStayClear ==
  ASSUME RangesClearOfTop, TypeOK, CallsClearOfTop, [Next]_ipamVars
  PROVE  CallsClearOfTop'
<1> DEFINE RangeSeqs == Seq([start : Addresses \cup {NoAddr}, end : Addresses \cup {NoAddr}])
<1>1. CASE UNCHANGED ranges
  BY <1>1 DEF CallsClearOfTop
<1>2. ASSUME NEW e \in Callers, NEW s, ranges' = [ranges EXCEPT ![e] = s],
             \A i \in DOMAIN s : ClearOfTop(s[i])
      PROVE  CallsClearOfTop'
  <2>1. \A c \in Callers : ranges'[c] = IF c = e THEN s ELSE ranges[c]
    BY <1>2 DEF TypeOK
  <2> QED
    BY <1>2, <2>1 DEF CallsClearOfTop
<1>3. ASSUME NEW e \in Callers, NEW list \in RangeLists, Call(e, list) PROVE CallsClearOfTop'
  BY <1>2, <1>3 DEF Call, RangesClearOfTop
<1>4. ASSUME NEW e \in Callers, AllocateNext(e) PROVE CallsClearOfTop'
  <2>1. UNCHANGED ranges \/ ranges' = [ranges EXCEPT ![e] = Tail(ranges[e])]
    BY <1>4 DEF AllocateNext, AllocateForRange
  <2>2. PICK s \in RangeSeqs : s = ranges[e]
    BY DEF TypeOK
  <2>3. s # <<>>
    BY <1>4, <2>2 DEF AllocateNext
  <2>4. \A i \in DOMAIN Tail(s) : i + 1 \in DOMAIN s /\ Tail(s)[i] = s[i + 1]
    BY <2>3
  <2>5. \A i \in DOMAIN s : ClearOfTop(s[i])
    BY <2>2 DEF CallsClearOfTop
  <2>6. \A i \in DOMAIN Tail(s) : ClearOfTop(Tail(s)[i])
    BY <2>4, <2>5
  <2> QED
    BY <1>1, <1>2, <2>1, <2>2, <2>6
<1>5. ASSUME NEW e \in Callers, ReleaseDone(e) PROVE CallsClearOfTop'
  <2>1. \A i \in DOMAIN <<>> : ClearOfTop(<<>>[i])
    OBVIOUS
  <2> QED
    BY <1>2, <1>5, <2>1 DEF ReleaseDone
<1> QED
  BY <1>1, <1>3, <1>4, <1>5
  DEF Next, ipamVars, RejectRange, AllocateReturns, Reserve, ReleaseProfileConfig, Release

\* Allocate gives up on a valid range only when every address of it is in use,
\* whatever the random offset, if the ranges keep clear of the all-ones address.
THEOREM AlwaysFailsOnlyWhenExhausted == Spec /\ RangesClearOfTop => FailsOnlyWhenExhausted
<1> SUFFICES ASSUME RangesClearOfTop PROVE Spec => FailsOnlyWhenExhausted
  OBVIOUS
<1>1. Init => CallsClearOfTop
  <2> SUFFICES ASSUME Init, NEW c \in Callers PROVE \A i \in DOMAIN ranges[c] : ClearOfTop(ranges[c][i])
    BY DEF CallsClearOfTop
  <2>1. ranges[c] = <<>>
    BY DEF Init
  <2> QED
    BY <2>1
<1>2. TypeOK /\ CallsClearOfTop /\ [Next]_ipamVars => CallsClearOfTop'
  BY CallsStayClear
<1>3. TypeOK /\ CallsClearOfTop /\ [Next]_ipamVars =>
        [\A c \in Callers :
           (/\ pc[c] = "allocating" /\ pc'[c] = "releasing"
            /\ ValidRange(Head(ranges[c]))
            /\ ~SecondOfFamily(c, Head(ranges[c])))
           => \A a \in Addresses : InRange(a, Head(ranges[c])) => a \in allocatedIPs]_ipamVars
  <2> SUFFICES ASSUME TypeOK, CallsClearOfTop, Next, NEW c \in Callers,
                      pc[c] = "allocating", pc'[c] = "releasing",
                      ValidRange(Head(ranges[c])), ~SecondOfFamily(c, Head(ranges[c])),
                      NEW a \in Addresses, InRange(a, Head(ranges[c]))
               PROVE  a \in allocatedIPs
    OBVIOUS
  <2>1. AllocateNext(c)
    <3>1. PICK e \in Callers :
            \/ \E list \in RangeLists : Call(e, list)
            \/ RejectRange(e)
            \/ AllocateNext(e)
            \/ AllocateReturns(e)
            \/ \E addrs \in StaticLists : Reserve(e, addrs)
            \/ ReleaseProfileConfig(e)
            \/ Release(e)
            \/ ReleaseDone(e)
      BY DEF Next
    <3>2. CASE AllocateNext(e)
      <4>1. e = c
        BY <3>2 DEF AllocateNext, AllocateForRange, TypeOK
      <4> QED
        BY <3>2, <4>1
    <3>3. CASE RejectRange(e)
      BY <3>3 DEF RejectRange, TypeOK
    <3>4. CASE ~AllocateNext(e) /\ ~RejectRange(e)
      BY <3>1, <3>4 DEF Call, AllocateReturns, Reserve, ReleaseProfileConfig, Release, ReleaseDone, TypeOK
    <3> QED
      BY <3>2, <3>3, <3>4
  <2> DEFINE r == Head(ranges[c])
  <2>2. ranges[c] # <<>> /\ \E offset \in Offsets(r.start, r.end) : AllocateForRange(c, offset)
    BY <2>1 DEF AllocateNext
  <2>3. r.start \in Addresses /\ r.end \in Addresses /\ r.start.is6 = r.end.is6 /\ r.start.n <= r.end.n
    BY <2>2, HeadIsRange
  <2>4. PICK offset \in Offsets(r.start, r.end) : AllocateForRange(c, offset)
    BY <2>2
  <2>5. FirstFree(r.start, r.end, offset) = NoAddr
    <3>1. pc' # pc
      BY DEF TypeOK
    <3> QED
      BY <2>4, <3>1 DEF AllocateForRange
  <2>6. ClearOfTop(r)
    <3>1. PICK s \in Seq([start : Addresses \cup {NoAddr}, end : Addresses \cup {NoAddr}]) : s = ranges[c]
      BY DEF TypeOK
    <3>2. 1 \in DOMAIN s /\ Head(s) = s[1]
      BY <2>2, <3>1
    <3>3. ClearOfTop(s[1])
      BY <3>1, <3>2 DEF CallsClearOfTop
    <3> QED
      BY <3>1, <3>2, <3>3
  <2> HIDE DEF r
  <2>7. PICK first \in Addresses, last \in Addresses : first = r.start /\ last = r.end
    BY <2>3
  <2>8. /\ offset \in Nat
        /\ AddressRangeSize(first, last) < MaxInt => first.n + offset <= last.n
        /\ ~(AddressRangeSize(first, last) < MaxInt) => offset <= MaxUint
    BY <2>3, <2>4, <2>7, OffsetFacts
  <2>9. /\ last.n < MaxAddr
        /\ AddressRangeSize(first, last) < MaxInt \/ first.n + MaxUint <= MaxAddr
    BY <2>6, <2>7 DEF ClearOfTop, r
  <2>10. first.n \in Nat /\ last.n \in Nat /\ MaxUint \in Nat /\ MaxAddr \in Nat
    BY AddressAssumption DEF Addresses
  <2>11. first.n + offset <= MaxAddr
    BY <2>8, <2>9, <2>10
  <2>12. Within(a, first, last)
    BY <2>7 DEF Within, InRange, r
  <2> QED
    BY <2>3, <2>5, <2>7, <2>8, <2>9, <2>11, <2>12, NothingFree
<1>4. Spec => [](TypeOK /\ CallsClearOfTop)
  BY <1>1, <1>2, IPAMTypeCorrect, PTL DEF Spec
<1> QED
  BY <1>3, <1>4, PTL DEF Spec, FailsOnlyWhenExhausted

----------------------------------------------------------------------------
(* Positions of a sequence in their order.                                 *)

\* The rank of a position: ranks are different, and as many as positions.
LEMMA InOrderOfPositions ==
  ASSUME NEW n \in Nat, NEW I, I \subseteq 1 .. n
  PROVE  /\ Cardinality(I) \in Nat
         /\ InOrder(I) \in [1 .. Cardinality(I) -> I]
         /\ \A i \in I : \E k \in 1 .. Cardinality(I) : InOrder(I)[k] = i
         /\ \A k, l \in 1 .. Cardinality(I) : InOrder(I)[k] = InOrder(I)[l] => k = l
<1> DEFINE Below(i) == {j \in I : j <= i}
           C == Cardinality(I)
           R == [i \in I |-> Cardinality(Below(i))]
<1>1. IsFiniteSet(I) /\ C \in Nat
  <2>1. 1 \in Int /\ n \in Int /\ I \in SUBSET (1 .. n)
    OBVIOUS
  <2>2. IsFiniteSet(1 .. n)
    BY <2>1, FS_Interval
  <2>3. IsFiniteSet(I)
    BY <2>1, <2>2, FS_Subset
  <2> QED
    BY <2>3, FS_CardinalityType
<1>2. \A i \in I : IsFiniteSet(Below(i)) /\ Cardinality(Below(i)) \in Nat /\ Cardinality(Below(i)) <= C
  <2> SUFFICES ASSUME NEW i \in I
               PROVE  IsFiniteSet(Below(i)) /\ Cardinality(Below(i)) \in Nat /\ Cardinality(Below(i)) <= C
    OBVIOUS
  <2>1. Below(i) \in SUBSET I
    OBVIOUS
  <2> HIDE DEF Below
  <2>2. IsFiniteSet(Below(i)) /\ Cardinality(Below(i)) <= C
    BY <1>1, <2>1, FS_Subset
  <2> QED
    BY <2>2, FS_CardinalityType
<1>3. \A i \in I : Cardinality(Below(i)) >= 1
  <2> SUFFICES ASSUME NEW i \in I PROVE Cardinality(Below(i)) >= 1
    OBVIOUS
  <2>1. Below(i) # {}
    OBVIOUS
  <2>2. IsFiniteSet(Below(i)) /\ Cardinality(Below(i)) \in Nat
    BY <1>2
  <2> HIDE DEF Below
  <2>3. Cardinality(Below(i)) # 0
    BY <2>1, <2>2, FS_EmptySet
  <2> QED
    BY <2>2, <2>3
<1>4. \A i, j \in I : i < j => Cardinality(Below(i)) # Cardinality(Below(j))
  <2> SUFFICES ASSUME NEW i \in I, NEW j \in I, i < j
               PROVE  Cardinality(Below(i)) # Cardinality(Below(j))
    OBVIOUS
  <2>1. Below(i) \in SUBSET Below(j) /\ Below(i) # Below(j)
    <3>1. \A k \in I : k \in Int
      OBVIOUS
    <3>2. \A k \in I : k <= i => k <= j
      BY <3>1
    <3>3. j \in Below(j) /\ j \notin Below(i)
      BY <3>1
    <3> QED
      BY <3>2, <3>3
  <2>2. IsFiniteSet(Below(j))
    BY <1>2
  <2> HIDE DEF Below
  <2> QED
    BY <2>1, <2>2, FS_Subset
<1>5. \A i, j \in I : Cardinality(Below(i)) = Cardinality(Below(j)) => i = j
  BY <1>4
<1> HIDE DEF Below
<1>6. R \in Injection(I, 1 .. C)
  BY <1>1, <1>2, <1>3, <1>5 DEF Injection, IsInjective
<1>7. R \in Surjection(I, 1 .. C)
  <2> HIDE DEF R
  <2>1. IsFiniteSet(1 .. C) /\ Cardinality(1 .. C) = C
    BY <1>1, FS_Interval
  <2> QED
    BY <2>1, <1>6, FS_Injection
<1>8. \A k \in 1 .. C : \E i \in I : Cardinality(Below(i)) = k
  BY <1>7 DEF Surjection
<1>9. \A k \in 1 .. C : InOrder(I)[k] \in I /\ Cardinality(Below(InOrder(I)[k])) = k
  <2> SUFFICES ASSUME NEW k \in 1 .. C
               PROVE  InOrder(I)[k] \in I /\ Cardinality(Below(InOrder(I)[k])) = k
    OBVIOUS
  <2>1. InOrder(I)[k] = CHOOSE i \in I : Cardinality(Below(i)) = k
    BY DEF InOrder, Below
  <2>2. \E i \in I : Cardinality(Below(i)) = k
    BY <1>8
  <2> QED
    BY <2>1, <2>2, Zenon
<1>10. InOrder(I) \in [1 .. C -> I]
  BY <1>9 DEF InOrder
<1>11. \A i \in I : \E k \in 1 .. C : InOrder(I)[k] = i
  <2> SUFFICES ASSUME NEW i \in I PROVE \E k \in 1 .. C : InOrder(I)[k] = i
    OBVIOUS
  <2>1. Cardinality(Below(i)) \in 1 .. C
    BY <1>1, <1>2, <1>3
  <2> QED
    BY <2>1, <1>5, <1>9
<1> QED
  BY <1>1, <1>9, <1>10, <1>11

\* What is kept of a sequence: its entries at the positions, each once.
LEMMA KeptOfSequence ==
  ASSUME NEW S, NEW s \in Seq(S), NEW I, I \subseteq DOMAIN s
  PROVE  /\ Kept(s, I) \in Seq(S)
         /\ ToSet(Kept(s, I)) = {s[i] : i \in I}
         /\ \A k, l \in DOMAIN Kept(s, I) : k # l =>
              \E i, j \in I : i # j /\ Kept(s, I)[k] = s[i] /\ Kept(s, I)[l] = s[j]
<1>1. Len(s) \in Nat /\ DOMAIN s = 1 .. Len(s) /\ \A i \in DOMAIN s : s[i] \in S
  OBVIOUS
<1>2. /\ Cardinality(I) \in Nat
      /\ InOrder(I) \in [1 .. Cardinality(I) -> I]
      /\ \A i \in I : \E k \in 1 .. Cardinality(I) : InOrder(I)[k] = i
      /\ \A k, l \in 1 .. Cardinality(I) : InOrder(I)[k] = InOrder(I)[l] => k = l
  BY <1>1, InOrderOfPositions
<1>3. Kept(s, I) = [k \in 1 .. Cardinality(I) |-> s[InOrder(I)[k]]]
  BY DEF Kept
<1>4. \A k \in 1 .. Cardinality(I) : InOrder(I)[k] \in I /\ s[InOrder(I)[k]] \in S
  BY <1>1, <1>2
<1>5. Kept(s, I) \in Seq(S)
  BY <1>2, <1>3, <1>4
<1>6. DOMAIN Kept(s, I) = 1 .. Cardinality(I)
  BY <1>3
<1>7. ToSet(Kept(s, I)) = {Kept(s, I)[k] : k \in 1 .. Cardinality(I)}
  BY <1>6 DEF ToSet
<1>8. \A k \in 1 .. Cardinality(I) : Kept(s, I)[k] = s[InOrder(I)[k]]
  BY <1>3
<1>9. ToSet(Kept(s, I)) \subseteq {s[i] : i \in I}
  <2> SUFFICES ASSUME NEW k \in 1 .. Cardinality(I) PROVE Kept(s, I)[k] \in {s[i] : i \in I}
    BY <1>7
  <2> QED
    BY <1>4, <1>8
<1>10. {s[i] : i \in I} \subseteq ToSet(Kept(s, I))
  <2> SUFFICES ASSUME NEW i \in I PROVE s[i] \in {Kept(s, I)[k] : k \in 1 .. Cardinality(I)}
    BY <1>7
  <2>1. PICK k \in 1 .. Cardinality(I) : InOrder(I)[k] = i
    BY <1>2
  <2> QED
    BY <2>1, <1>8
<1>11. \A k, l \in DOMAIN Kept(s, I) : k # l =>
         \E i, j \in I : i # j /\ Kept(s, I)[k] = s[i] /\ Kept(s, I)[l] = s[j]
  <2> SUFFICES ASSUME NEW k \in 1 .. Cardinality(I), NEW l \in 1 .. Cardinality(I), k # l
               PROVE  \E i, j \in I : i # j /\ Kept(s, I)[k] = s[i] /\ Kept(s, I)[l] = s[j]
    BY <1>6
  <2>1. InOrder(I)[k] \in I /\ InOrder(I)[l] \in I /\ InOrder(I)[k] # InOrder(I)[l]
    BY <1>2, <1>4
  <2> QED
    BY <2>1, <1>8
<1> QED
  BY <1>5, <1>9, <1>10, <1>11

\* A set of numbers that is not empty and bounded has a greatest one.
LEMMA SomeGreatest ==
  ASSUME NEW n \in Nat, NEW T, T \subseteq 1 .. n, T # {}
  PROVE  \E x \in T : \A y \in T : y <= x
<1> DEFINE U == {n - x : x \in T}
<1>1. U \subseteq Nat /\ U # {}
  <2>1. \A x \in T : n - x \in Nat
    OBVIOUS
  <2> QED
    BY <2>1
<1>2. PICK u \in U : \A v \in U : u <= v
  <2> HIDE DEF U
  <2> QED
    BY <1>1, SomeLeast
<1>3. PICK x \in T : u = n - x
  OBVIOUS
<1>4. \A y \in T : n - x <= n - y
  BY <1>2, <1>3
<1> QED
  BY <1>3, <1>4

\* Of the entries of s = c \o u with one key, D has the last one: an entry of u
\* if u has one with that key.
HasLast(c, u, s, key, D) ==
  /\ \A j \in DOMAIN u : \E i \in DOMAIN u :
       key[Len(c) + i] = key[Len(c) + j] /\ u[i] \in ToSet(D)
  /\ \A r \in ToSet(D) : \E i \in DOMAIN s :
       /\ r = s[i]
       /\ (\E j \in DOMAIN u : key[Len(c) + j] = key[i]) => r \in ToSet(u)

LEMMA DeduplicateConcat ==
  ASSUME NEW S, NEW c \in Seq(S), NEW u \in Seq(S), NEW key
  PROVE  /\ Deduplicate(c \o u, key) \in Seq(S)
         /\ HasLast(c, u, c \o u, key, Deduplicate(c \o u, key))
<1> DEFINE s == c \o u
           I == {i \in DOMAIN s : \A j \in DOMAIN s : j > i => key[j] # key[i]}
           D == Deduplicate(s, key)
<1>1. /\ s \in Seq(S) /\ Len(c) \in Nat /\ Len(u) \in Nat /\ Len(s) = Len(c) + Len(u)
      /\ DOMAIN s = 1 .. Len(c) + Len(u) /\ DOMAIN u = 1 .. Len(u) /\ DOMAIN c = 1 .. Len(c)
      /\ \A i \in DOMAIN c : s[i] = c[i]
      /\ \A i \in DOMAIN u : s[Len(c) + i] = u[i]
  OBVIOUS
<1>2. I \subseteq DOMAIN s /\ D = Kept(s, I)
  BY DEF Deduplicate
<1>3. \A i \in I : i \in DOMAIN s /\ \A j \in DOMAIN s : j > i => key[j] # key[i]
  OBVIOUS
<1>4. \A i \in DOMAIN s : (\A j \in DOMAIN s : j > i => key[j] # key[i]) => i \in I
  OBVIOUS
<1> HIDE DEF I, D, s
<1>5. D \in Seq(S) /\ ToSet(D) = {s[i] : i \in I}
  BY <1>1, <1>2, KeptOfSequence
<1>6. \A i \in DOMAIN s : i > Len(c) => i - Len(c) \in DOMAIN u /\ s[i] = u[i - Len(c)]
  <2> SUFFICES ASSUME NEW i \in DOMAIN s, i > Len(c)
               PROVE  i - Len(c) \in DOMAIN u /\ s[i] = u[i - Len(c)]
    OBVIOUS
  <2>1. i - Len(c) \in 1 .. Len(u) /\ Len(c) + (i - Len(c)) = i
    BY <1>1
  <2> QED
    BY <2>1, <1>1
<1>7. \A i \in DOMAIN s : ~(i > Len(c)) => i \in DOMAIN c /\ s[i] = c[i]
  BY <1>1
<1>9. \A j \in DOMAIN u : \E i \in DOMAIN u :
        key[Len(c) + i] = key[Len(c) + j] /\ u[i] \in ToSet(D)
  <2> SUFFICES ASSUME NEW j \in DOMAIN u
               PROVE  \E i \in DOMAIN u : key[Len(c) + i] = key[Len(c) + j] /\ u[i] \in ToSet(D)
    OBVIOUS
  <2> DEFINE T == {i \in 1 .. Len(c) + Len(u) : key[i] = key[Len(c) + j]}
  <2>1. Len(c) + j \in T /\ T \subseteq 1 .. Len(c) + Len(u) /\ Len(c) + Len(u) \in Nat
    BY <1>1
  <2>2. PICK x \in T : \A y \in T : y <= x
    <3> HIDE DEF T
    <3> QED
      BY <2>1, SomeGreatest
  <2>3. x \in DOMAIN s /\ key[x] = key[Len(c) + j] /\ Len(c) + j <= x
    BY <2>1, <2>2, <1>1
  <2>4. \A y \in DOMAIN s : y > x => key[y] # key[x]
    <3> SUFFICES ASSUME NEW y \in DOMAIN s, y > x, key[y] = key[x] PROVE FALSE
      OBVIOUS
    <3>1. y \in T /\ y \in Int /\ x \in Int
      BY <1>1, <2>3
    <3> QED
      BY <3>1, <2>2
  <2>5. x > Len(c)
    BY <1>1, <2>3
  <2>6. x - Len(c) \in DOMAIN u /\ s[x] = u[x - Len(c)] /\ Len(c) + (x - Len(c)) = x
    BY <1>1, <1>6, <2>3, <2>5
  <2>7. s[x] \in ToSet(D)
    BY <1>4, <1>5, <2>3, <2>4
  <2> QED
    BY <2>3, <2>6, <2>7
<1>10. \A r \in ToSet(D) : \E i \in DOMAIN s :
         /\ r = s[i]
         /\ (\E j \in DOMAIN u : key[Len(c) + j] = key[i]) => r \in ToSet(u)
  <2> SUFFICES ASSUME NEW i \in I
               PROVE  (\E j \in DOMAIN u : key[Len(c) + j] = key[i]) => s[i] \in ToSet(u)
    BY <1>3, <1>5
  <2>1. \A j \in DOMAIN u : Len(c) + j \in DOMAIN s /\ Len(c) + j > Len(c)
    BY <1>1
  <2>2. \A j \in DOMAIN u : key[Len(c) + j] = key[i] => i > Len(c)
    BY <2>1, <1>1, <1>3
  <2> QED
    BY <2>2, <1>3, <1>6 DEF ToSet
<1> QED
  BY <1>5, <1>9, <1>10 DEF D, s, HasLast

----------------------------------------------------------------------------
(* Merging.                                                                *)

\* What it means that configuration m has all that u says.
KeysOf(routes) == {RouteKey(r) : r \in ToSet(routes)}
Targets(neighbors) == {n.dst : n \in ToSet(neighbors)}
Over(u, m) ==
  /\ \A f \in Scalars : u.scalars[f] \notin {Nil, 0} => m.scalars[f] = u.scalars[f]
  /\ u.scalars["addrGenMode"] # Nil => m.scalars["addrGenMode"] = u.scalars["addrGenMode"]
  /\ u.type # "" => m.type = u.type
  /\ u.vrf.name # "" /\ u.vrf.table \notin {Nil, 0} => m.vrf = u.vrf
  /\ ToSet(u.addresses) \subseteq ToSet(m.addresses)
  /\ ToSet(u.rules) \subseteq ToSet(m.rules)
  /\ Targets(u.neighbors) \subseteq Targets(m.neighbors)
  /\ \A n \in ToSet(m.neighbors) : n.dst \in Targets(u.neighbors) => n \in ToSet(u.neighbors)
  /\ KeysOf(u.routes) \subseteq KeysOf(m.routes)
  /\ \A r \in ToSet(m.routes) : RouteKey(r) \in KeysOf(u.routes) => r \in ToSet(u.routes)

\* Without a key of their own the entries of both are kept.
LEMMA DeduplicateKeepsAll ==
  ASSUME NEW S, NEW c \in Seq(S), NEW u \in Seq(S)
  PROVE  /\ Deduplicate(c \o u, c \o u) \in Seq(S)
         /\ ToSet(u) \subseteq ToSet(Deduplicate(c \o u, c \o u))
<1> DEFINE D == Deduplicate(c \o u, c \o u)
<1>1. D \in Seq(S) /\ HasLast(c, u, c \o u, c \o u, D)
  BY DeduplicateConcat
<1>2. \A i \in DOMAIN u : (c \o u)[Len(c) + i] = u[i]
  OBVIOUS
<1> HIDE DEF D
<1>3. \A j \in DOMAIN u : \E i \in DOMAIN u :
        (c \o u)[Len(c) + i] = (c \o u)[Len(c) + j] /\ u[i] \in ToSet(D)
  BY <1>1, Zenon DEF HasLast
<1>4. \A j \in DOMAIN u : u[j] \in ToSet(D)
  BY <1>2, <1>3
<1>5. ToSet(u) = {u[j] : j \in DOMAIN u}
  BY DEF ToSet
<1>6. ToSet(u) \subseteq ToSet(D)
  BY <1>4, <1>5
<1> QED
  BY <1>1, <1>6 DEF D

\* Routes: u's keys, and u's routes for them.
LEMMA RoutesMerged ==
  ASSUME NEW c \in Seq(Routes), NEW u \in Seq(Routes)
  PROVE  LET D == DeduplicateRoutes(c \o u) IN
         /\ D \in Seq(Routes)
         /\ KeysOf(u) \subseteq KeysOf(D)
         /\ \A r \in ToSet(D) : RouteKey(r) \in KeysOf(u) => r \in ToSet(u)
<1> DEFINE s == c \o u
           key == RouteKeys(s)
           D == Deduplicate(s, key)
<1>1. D \in Seq(Routes) /\ HasLast(c, u, s, key, D)
  <2> HIDE DEF key
  <2> QED
    BY DeduplicateConcat
<1>2. \A i \in DOMAIN u : Len(c) + i \in DOMAIN s /\ s[Len(c) + i] = u[i]
  OBVIOUS
<1>3. \A i \in DOMAIN s : key[i] = RouteKey(s[i])
  BY DEF RouteKeys
<1>4. D = DeduplicateRoutes(c \o u)
  BY DEF DeduplicateRoutes
<1>5. ToSet(u) = {u[j] : j \in DOMAIN u}
  BY DEF ToSet
<1> HIDE DEF D, s, key
<1>6. KeysOf(u) \subseteq KeysOf(D)
  <2> SUFFICES ASSUME NEW j \in DOMAIN u PROVE RouteKey(u[j]) \in KeysOf(D)
    BY <1>5 DEF KeysOf
  <2>1. PICK i \in DOMAIN u : key[Len(c) + i] = key[Len(c) + j] /\ u[i] \in ToSet(D)
    BY <1>1 DEF HasLast
  <2>2. RouteKey(u[i]) = RouteKey(u[j])
    BY <2>1, <1>2, <1>3
  <2> QED
    BY <2>1, <2>2 DEF KeysOf
<1>7. ASSUME NEW r \in ToSet(D), RouteKey(r) \in KeysOf(u) PROVE r \in ToSet(u)
  <2>1. PICK j \in DOMAIN u : RouteKey(r) = RouteKey(u[j])
    BY <1>5, <1>7 DEF KeysOf
  <2>2. PICK i \in DOMAIN s :
              /\ r = s[i]
              /\ (\E k \in DOMAIN u : key[Len(c) + k] = key[i]) => r \in ToSet(u)
    BY <1>1 DEF HasLast
  <2>3. key[Len(c) + j] = key[i]
    BY <2>1, <2>2, <1>2, <1>3
  <2> QED
    BY <2>2, <2>3, <1>5
<1> QED
  BY <1>1, <1>4, <1>6, <1>7

\* Neighbours in the same way, with their addresses for keys.
LEMMA NeighborsMerged ==
  ASSUME NEW c \in Seq(Neighbors), NEW u \in Seq(Neighbors)
  PROVE  LET D == DeduplicateNeighbors(c \o u) IN
         /\ D \in Seq(Neighbors)
         /\ Targets(u) \subseteq Targets(D)
         /\ \A n \in ToSet(D) : n.dst \in Targets(u) => n \in ToSet(u)
<1> DEFINE s == c \o u
           key == [i \in DOMAIN s |-> s[i].dst]
           D == Deduplicate(s, key)
<1>1. D \in Seq(Neighbors) /\ HasLast(c, u, s, key, D)
  <2> HIDE DEF key
  <2> QED
    BY DeduplicateConcat
<1>2. \A i \in DOMAIN u : Len(c) + i \in DOMAIN s /\ s[Len(c) + i] = u[i]
  OBVIOUS
<1>3. \A i \in DOMAIN s : key[i] = s[i].dst
  OBVIOUS
<1>4. D = DeduplicateNeighbors(c \o u)
  BY DEF DeduplicateNeighbors
<1>5. ToSet(u) = {u[j] : j \in DOMAIN u}
  BY DEF ToSet
<1> HIDE DEF D, s, key
<1>6. Targets(u) \subseteq Targets(D)
  <2> SUFFICES ASSUME NEW j \in DOMAIN u PROVE u[j].dst \in Targets(D)
    BY <1>5 DEF Targets
  <2>1. PICK i \in DOMAIN u : key[Len(c) + i] = key[Len(c) + j] /\ u[i] \in ToSet(D)
    BY <1>1 DEF HasLast
  <2>2. u[i].dst = u[j].dst
    BY <2>1, <1>2, <1>3
  <2> QED
    BY <2>1, <2>2 DEF Targets
<1>7. ASSUME NEW n \in ToSet(D), n.dst \in Targets(u) PROVE n \in ToSet(u)
  <2>1. PICK j \in DOMAIN u : n.dst = u[j].dst
    BY <1>5, <1>7 DEF Targets
  <2>2. PICK i \in DOMAIN s :
              /\ n = s[i]
              /\ (\E k \in DOMAIN u : key[Len(c) + k] = key[i]) => n \in ToSet(u)
    BY <1>1 DEF HasLast
  <2>3. key[Len(c) + j] = key[i]
    BY <2>1, <2>2, <1>2, <1>3
  <2> QED
    BY <2>2, <2>3, <1>5
<1> QED
  BY <1>1, <1>4, <1>6, <1>7

\* A merged configuration is one, and has all that the user says.
\* A VRF the user names with a table is the merge's.
LEMMA VRFsMerged ==
  ASSUME NEW u \in [name : DOMAIN TableHash \union {""}, table : Int], NEW c \in [name : DOMAIN TableHash \union {""}, table : Int]
  PROVE  /\ MergeVRF(u, c) \in [name : DOMAIN TableHash \union {""}, table : Int]
         /\ u.name # "" /\ u.table \notin {Nil, 0} => MergeVRF(u, c) = u
         /\ MergeVRF(u, c) = NoVRF <=> u = NoVRF /\ c = NoVRF
<1>1. NoVRF.name = "" /\ NoVRF.table = -2
  BY DEF NoVRF
<1>2. CASE u = NoVRF
  BY <1>1, <1>2 DEF MergeVRF
<1>3. CASE u # NoVRF /\ c = NoVRF
  BY <1>3 DEF MergeVRF
<1>4. CASE u # NoVRF /\ c # NoVRF
  <2>1. PICK name, table : name = Override(u.name, c.name, {""}) /\ table = OverridePointer(u.table, c.table)
    OBVIOUS
  <2>2. MergeVRF(u, c) = [name |-> name, table |-> table]
    BY <1>4, <2>1 DEF MergeVRF
  <2>3. name \in DOMAIN TableHash \union {""} /\ table \in Int
    BY <2>1 DEF Override, OverridePointer
  <2>4. u.name # "" /\ u.table \notin {Nil, 0} => name = u.name /\ table = u.table
    BY <2>1 DEF Override, OverridePointer
  <2>5. u = [name |-> u.name, table |-> u.table] /\ c = [name |-> c.name, table |-> c.table]
    OBVIOUS
  <2>6. name = "" /\ table = -2 => u.name = "" /\ c.name = "" /\ (u.table = -2 \/ c.table = -2)
    BY <2>1 DEF Override, OverridePointer, Nil
  <2>7. [name |-> name, table |-> table] # NoVRF
    <3> SUFFICES ASSUME [name |-> name, table |-> table] = NoVRF PROVE FALSE
      OBVIOUS
    <3>1. name = "" /\ table = -2
      BY DEF NoVRF
    <3>2. u = NoVRF \/ c = NoVRF
      BY <2>5, <2>6, <3>1 DEF NoVRF
    <3> QED
      BY <1>4, <3>2
  <2>8. MergeVRF(u, c) \in [name : DOMAIN TableHash \union {""}, table : Int]
    <3>1. PICK S : S = DOMAIN TableHash \union {""}
      OBVIOUS
    <3>2. name \in S /\ table \in Int
      BY <2>3, <3>1
    <3>3. [name |-> name, table |-> table] \in [name : S, table : Int]
      BY <3>2
    <3> QED
      BY <2>2, <3>1, <3>3
  <2>9. u.name # "" /\ u.table \notin {Nil, 0} => MergeVRF(u, c) = u
    BY <2>2, <2>4, <2>5
  <2> QED
    BY <1>4, <2>2, <2>7, <2>8, <2>9
<1> QED
  BY <1>2, <1>3, <1>4

LEMMA MergeIsOver ==
  ASSUME NEW u \in NetworkConfigs, NEW c \in NetworkConfigs
  PROVE  MergeNetworkConfig(u, c) \in NetworkConfigs /\ Over(u, MergeNetworkConfig(u, c))
<1> DEFINE m == MergeNetworkConfig(u, c)
<1>1. /\ u.profile \in Names /\ u.type \in Names /\ u.addressing \in Names
      /\ u.addresses \in Seq(PrefixAddresses) /\ u.scalars \in [Scalars -> Int]
      /\ u.vrf \in [name : DOMAIN TableHash \union {""}, table : Int] /\ u.ipvlan \in BOOLEAN
      /\ u.routes \in Seq(Routes) /\ u.rules \in Seq(Rules) /\ u.neighbors \in Seq(Neighbors)
  BY DEF NetworkConfigs
<1>2. /\ c.profile \in Names /\ c.type \in Names /\ c.addressing \in Names
      /\ c.addresses \in Seq(PrefixAddresses) /\ c.scalars \in [Scalars -> Int]
      /\ c.vrf \in [name : DOMAIN TableHash \union {""}, table : Int] /\ c.ipvlan \in BOOLEAN
      /\ c.routes \in Seq(Routes) /\ c.rules \in Seq(Rules) /\ c.neighbors \in Seq(Neighbors)
  BY DEF NetworkConfigs
<1>3. /\ m.profile \in Names /\ m.type \in Names /\ m.addressing \in Names
      /\ u.type # "" => m.type = u.type
  BY <1>1, <1>2 DEF MergeNetworkConfig, Override
<1>4. /\ m.scalars \in [Scalars -> Int]
      /\ \A f \in Scalars : u.scalars[f] \notin {Nil, 0} => m.scalars[f] = u.scalars[f]
      /\ u.scalars["addrGenMode"] # Nil => m.scalars["addrGenMode"] = u.scalars["addrGenMode"]
  BY <1>1, <1>2 DEF MergeNetworkConfig, MergeScalars, Override, OverridePointer, Scalars
<1>5. /\ m.vrf \in [name : DOMAIN TableHash \union {""}, table : Int]
      /\ u.vrf.name # "" /\ u.vrf.table \notin {Nil, 0} => m.vrf = u.vrf
  <2>1. m.vrf = MergeVRF(u.vrf, c.vrf)
    BY DEF MergeNetworkConfig
  <2>2. PICK a \in [name : DOMAIN TableHash \union {""}, table : Int], b \in [name : DOMAIN TableHash \union {""}, table : Int] : a = u.vrf /\ b = c.vrf
    BY <1>1, <1>2
  <2> HIDE DEF m
  <2>3. /\ MergeVRF(a, b) \in [name : DOMAIN TableHash \union {""}, table : Int]
        /\ a.name # "" /\ a.table \notin {Nil, 0} => MergeVRF(a, b) = a
    BY VRFsMerged
  <2>4. m.vrf = MergeVRF(a, b)
    BY <2>1, <2>2
  <2> QED
    BY <2>2, <2>3, <2>4
<1>6. m.addresses \in Seq(PrefixAddresses) /\ ToSet(u.addresses) \subseteq ToSet(m.addresses)
  <2>1. m.addresses = Deduplicate(c.addresses \o u.addresses, c.addresses \o u.addresses)
    BY DEF MergeNetworkConfig, DeduplicateStrings
  <2>2. PICK a, b : a = c.addresses /\ b = u.addresses
    OBVIOUS
  <2>3. a \in Seq(PrefixAddresses) /\ b \in Seq(PrefixAddresses)
    BY <2>2, <1>1, <1>2
  <2>4. m.addresses = Deduplicate(a \o b, a \o b)
    BY <2>1, <2>2
  <2> HIDE DEF m
  <2> QED
    BY <2>2, <2>3, <2>4, DeduplicateKeepsAll
<1>7. m.rules \in Seq(Rules) /\ ToSet(u.rules) \subseteq ToSet(m.rules)
  <2>1. m.rules = Deduplicate(c.rules \o u.rules, c.rules \o u.rules)
    BY DEF MergeNetworkConfig, DeduplicateRules
  <2>2. PICK a, b : a = c.rules /\ b = u.rules
    OBVIOUS
  <2>3. a \in Seq(Rules) /\ b \in Seq(Rules)
    BY <2>2, <1>1, <1>2
  <2>4. m.rules = Deduplicate(a \o b, a \o b)
    BY <2>1, <2>2
  <2> HIDE DEF m
  <2> QED
    BY <2>2, <2>3, <2>4, DeduplicateKeepsAll
<1>8. /\ m.routes \in Seq(Routes) /\ KeysOf(u.routes) \subseteq KeysOf(m.routes)
      /\ \A r \in ToSet(m.routes) : RouteKey(r) \in KeysOf(u.routes) => r \in ToSet(u.routes)
  <2>1. m.routes = DeduplicateRoutes(c.routes \o u.routes)
    BY DEF MergeNetworkConfig
  <2> QED
    BY <2>1, <1>1, <1>2, RoutesMerged
<1>9. /\ m.neighbors \in Seq(Neighbors) /\ Targets(u.neighbors) \subseteq Targets(m.neighbors)
      /\ \A n \in ToSet(m.neighbors) : n.dst \in Targets(u.neighbors) => n \in ToSet(u.neighbors)
  <2>1. m.neighbors = DeduplicateNeighbors(c.neighbors \o u.neighbors)
    BY DEF MergeNetworkConfig
  <2> QED
    BY <2>1, <1>1, <1>2, NeighborsMerged
<1>10. m.ipvlan \in BOOLEAN
  BY DEF MergeNetworkConfig
<1>11. m = [profile |-> m.profile, type |-> m.type, addressing |-> m.addressing,
            addresses |-> m.addresses, scalars |-> m.scalars, vrf |-> m.vrf, ipvlan |-> m.ipvlan,
            routes |-> m.routes, rules |-> m.rules, neighbors |-> m.neighbors]
  BY DEF MergeNetworkConfig
<1> HIDE DEF m
<1>12. m \in NetworkConfigs
  BY <1>3, <1>4, <1>5, <1>6, <1>7, <1>8, <1>9, <1>10, <1>11 DEF NetworkConfigs
<1>13. Over(u, m)
  BY <1>3, <1>4, <1>5, <1>6, <1>7, <1>8, <1>9 DEF Over
<1> QED
  BY <1>12, <1>13 DEF m

\* To have all that a configuration says that has all that u says.
LEMMA OverOver ==
  ASSUME NEW u, NEW m, NEW k, Over(u, m), Over(m, k)
  PROVE  Over(u, k)
<1>1. \A f \in Scalars : u.scalars[f] \notin {Nil, 0} => k.scalars[f] = u.scalars[f]
  BY DEF Over
<1>2. u.scalars["addrGenMode"] # Nil => k.scalars["addrGenMode"] = u.scalars["addrGenMode"]
  BY DEF Over
<1>3. /\ u.type # "" => k.type = u.type
      /\ u.vrf.name # "" /\ u.vrf.table \notin {Nil, 0} => k.vrf = u.vrf
  BY DEF Over
<1>4. /\ ToSet(u.addresses) \subseteq ToSet(k.addresses)
      /\ ToSet(u.rules) \subseteq ToSet(k.rules)
      /\ Targets(u.neighbors) \subseteq Targets(k.neighbors)
      /\ KeysOf(u.routes) \subseteq KeysOf(k.routes)
  BY DEF Over
<1>5. \A n \in ToSet(k.neighbors) : n.dst \in Targets(u.neighbors) => n \in ToSet(u.neighbors)
  BY DEF Over
<1>6. \A r \in ToSet(k.routes) : RouteKey(r) \in KeysOf(u.routes) => r \in ToSet(u.routes)
  BY DEF Over
<1> QED
  BY <1>1, <1>2, <1>3, <1>4, <1>5, <1>6 DEF Over

LEMMA OverSelf == ASSUME NEW u PROVE Over(u, u)
BY DEF Over

\* A table is a number, and none that stands for an unset pointer or for zero.
LEMMA TableOfName ==
  ASSUME NEW name \in DOMAIN TableHash
  PROVE  TableIDForName(name) \in Nat /\ TableIDForName(name) >= RouteTableOffset
<1>1. RouteTableRange \in Nat /\ RouteTableRange > 0
  BY DEF RouteTableRange
<1>2. TableHash[name] \in Nat
  BY TableAssumption
<1>3. TableHash[name] % RouteTableRange \in Nat
  BY <1>1, <1>2
<1> QED
  BY <1>3 DEF TableIDForName, RouteTableOffset

LEMMA TablesAreNumbers == \A name \in DOMAIN TableHash : TableIDForName(name) \in Int
BY TableOfName

\* Defaults keep what a configuration says.
LEMMA DefaultIsOver ==
  ASSUME NEW m \in NetworkConfigs
  PROVE  Default(m) \in NetworkConfigs /\ Over(m, Default(m))
<1> DEFINE k == Default(m)
<1>1. /\ m.addressing \in Names /\ m.ipvlan \in BOOLEAN
      /\ m.vrf \in [name : DOMAIN TableHash \union {""}, table : Int]
  BY DEF NetworkConfigs
<1>2. /\ k.addressing \in Names /\ k.ipvlan \in BOOLEAN
  <2>1. k.addressing = IF m.addressing = "" /\ m.scalars["dhcp"] = 1 THEN "DHCP" ELSE m.addressing
    BY DEF Default, NetworkConfigs
  <2>2. k.ipvlan = (m.ipvlan \/ m.type = "IPVLAN")
    BY DEF Default, NetworkConfigs
  <2> HIDE DEF k
  <2>3. k.addressing \in Names
    <3>1. k.addressing = "DHCP" \/ k.addressing = m.addressing
      BY <2>1
    <3>2. "DHCP" \in Names /\ m.addressing \in Names
      BY <1>1, TableAssumption
    <3> QED
      BY <3>1, <3>2
  <2> QED
    BY <2>2, <2>3
<1>3. /\ k.vrf \in [name : DOMAIN TableHash \union {""}, table : Int]
      /\ k.vrf.name = m.vrf.name
      /\ m.vrf.table # Nil => k.vrf = m.vrf
  <2>1. k.vrf = IF m.vrf.table = Nil /\ m.vrf.name # ""
                THEN [m.vrf EXCEPT !.table = TableIDForName(m.vrf.name)] ELSE m.vrf
    BY DEF Default, DefaultVRF, NetworkConfigs
  <2>2. m.vrf.name # "" => m.vrf.name \in DOMAIN TableHash
    BY <1>1
  <2>3. \A name \in DOMAIN TableHash : TableIDForName(name) \in Int
    BY TableOfName
  <2> HIDE DEF k
  <2> QED
    BY <1>1, <2>1, <2>2, <2>3
<1>4. /\ k.profile = m.profile /\ k.type = m.type /\ k.addresses = m.addresses
      /\ k.scalars = m.scalars /\ k.routes = m.routes /\ k.rules = m.rules
      /\ k.neighbors = m.neighbors
  BY DEF Default, NetworkConfigs
<1>5. k = [m EXCEPT !.addressing = k.addressing, !.ipvlan = k.ipvlan, !.vrf = k.vrf]
  BY DEF Default, NetworkConfigs
<1> HIDE DEF k
<1>6. k \in NetworkConfigs
  BY <1>2, <1>3, <1>5 DEF NetworkConfigs
<1>7. Over(m, k)
  BY <1>3, <1>4 DEF Over
<1> QED
  BY <1>6, <1>7 DEF k

----------------------------------------------------------------------------
(* The configuration of the claim.                                         *)

LEMMA EmptyIsConfig == EmptyConfig \in NetworkConfigs
<1>1. NoScalars \in [Scalars -> Int]
  BY DEF NoScalars, Nil
<1>2. NoVRF \in [name : DOMAIN TableHash \union {""}, table : Int]
  BY DEF NoVRF, Nil
<1>3. /\ <<>> \in Seq(PrefixAddresses) /\ <<>> \in Seq(Routes)
      /\ <<>> \in Seq(Rules) /\ <<>> \in Seq(Neighbors)
  OBVIOUS
<1>4. "" \in Names /\ FALSE \in BOOLEAN
  BY TableAssumption
<1> QED
  BY <1>1, <1>2, <1>3, <1>4 DEF EmptyConfig, NetworkConfigs

\* The first valid configuration is one of the claim's, and valid.
LEMMA FirstValidIsValid ==
  ASSUME NEW raws \in RawConfigs, FirstValid(raws) # 0
  PROVE  FirstValid(raws) \in DOMAIN raws /\ ValidRaw(raws[FirstValid(raws)])
<1> DEFINE I == {i \in 1 .. Len(raws) : ValidRaw(raws[i])}
<1>1. raws \in Seq([ok : BOOLEAN, conf : NetworkConfigs])
  BY ConfigAssumption
<1>2. Len(raws) \in Nat /\ DOMAIN raws = 1 .. Len(raws)
  BY <1>1
<1>3. FirstValid(raws) = IF I # {} THEN Min(I) ELSE 0
  BY DEF FirstValid, SelectInSeq
<1>4. I # {} /\ I \subseteq Nat
  BY <1>2, <1>3
<1>5. \E x \in I : \A y \in I : x <= y
  <2> HIDE DEF I
  <2> QED
    BY <1>4, SomeLeast
<1>6. Min(I) \in I
  <2> HIDE DEF I
  <2> QED
    BY <1>5, Zenon DEF Min
<1>7. FirstValid(raws) \in I
  BY <1>3, <1>4, <1>6
<1> QED
  BY <1>2, <1>7

\* What a call takes from a claim is a configuration; a VRF in it has a name and
\* a table.
LEMMA UserConfigIsConfig ==
  ASSUME NEW raws \in RawConfigs
  PROVE  /\ UserConfig(raws) \in NetworkConfigs
         /\ UserConfig(raws).vrf # NoVRF =>
              UserConfig(raws).vrf.name # "" /\ UserConfig(raws).vrf.table \notin {Nil, 0}
<1>1. CASE FirstValid(raws) = 0
  BY <1>1, EmptyIsConfig DEF UserConfig, EmptyConfig
<1>2. CASE FirstValid(raws) # 0
  <2> DEFINE i == FirstValid(raws)
  <2>1. i \in DOMAIN raws /\ ValidRaw(raws[i])
    BY <1>2, FirstValidIsValid
  <2>2. raws[i].conf \in NetworkConfigs
    <3>1. raws \in Seq([ok : BOOLEAN, conf : NetworkConfigs])
      BY ConfigAssumption
    <3>2. \A j \in DOMAIN raws : raws[j] \in [ok : BOOLEAN, conf : NetworkConfigs]
      <4>1. PICK S : S = [ok : BOOLEAN, conf : NetworkConfigs]
        OBVIOUS
      <4>2. \A j \in DOMAIN raws : raws[j] \in S
        <5>1. raws \in Seq(S)
          BY <3>1, <4>1
        <5> QED
          BY <5>1
      <4> QED
        BY <4>1, <4>2
    <3>3. \A j \in DOMAIN raws : raws[j].conf \in NetworkConfigs
      BY <3>2
    <3> QED
      BY <2>1, <3>3
  <2>3. UserConfig(raws) = Default(raws[i].conf) /\ Valid(Default(raws[i].conf))
    BY <1>2, <2>1 DEF UserConfig, ValidRaw
  <2> HIDE DEF i
  <2>4. PICK m \in NetworkConfigs : m = raws[i].conf
    BY <2>2
  <2>5. Default(m) \in NetworkConfigs
    BY DefaultIsOver
  <2>6. Default(m).vrf # NoVRF => ValidVRF(Default(m).vrf)
    BY <2>3, <2>4 DEF Valid, ValidInterface
  <2>7. Default(m).vrf = IF m.vrf.table = Nil /\ m.vrf.name # ""
                         THEN [m.vrf EXCEPT !.table = TableIDForName(m.vrf.name)] ELSE m.vrf
    BY DEF Default, DefaultVRF, NetworkConfigs
  <2>8. m.vrf \in [name : DOMAIN TableHash \union {""}, table : Int]
    BY DEF NetworkConfigs
  <2>9. ASSUME Default(m).vrf # NoVRF
        PROVE  Default(m).vrf.name # "" /\ Default(m).vrf.table \notin {Nil, 0}
    <3>1. Default(m).vrf.name # ""
      BY <2>6, <2>9 DEF ValidVRF
    <3>2. Default(m).vrf.table # Nil => Default(m).vrf.table # 0
      <4>1. PICK v : v = Default(m).vrf
        OBVIOUS
      <4>2. v.table # Nil => v.table \in 1 .. MaxTableID
        BY <4>1, <2>6, <2>9 DEF ValidVRF
      <4>3. MaxTableID \in Nat
        BY TableAssumption
      <4>4. v.table # Nil => v.table # 0
        BY <4>2, <4>3
      <4> QED
        BY <4>1, <4>4
    <3>3. Default(m).vrf.table # Nil
      <4>1. CASE m.vrf.table = Nil /\ m.vrf.name # ""
        <5>1. TableIDForName(m.vrf.name) \in Nat
          BY <4>1, <2>8, TableOfName
        <5>2. Default(m).vrf.table = TableIDForName(m.vrf.name)
          BY <4>1, <2>7, <2>8
        <5> QED
          BY <5>1, <5>2 DEF Nil
      <4>2. CASE ~(m.vrf.table = Nil /\ m.vrf.name # "")
        BY <4>2, <3>1, <2>7
      <4> QED
        BY <4>1, <4>2
    <3> QED
      BY <3>1, <3>2, <3>3
  <2> QED
    BY <2>3, <2>4, <2>5, <2>9
<1> QED
  BY <1>1, <1>2

----------------------------------------------------------------------------
(* What the merges make of a claim.                                        *)

\* The provider's answers and the cache of them are configurations.
CacheInv ==
  /\ providerConfig \in [Devices -> NetworkConfigs]
  /\ DOMAIN deviceConfigStore \subseteq Devices
  /\ deviceConfigStore \in [DOMAIN deviceConfigStore -> NetworkConfigs]

\* What the merges make of the claim, the cache and the profile.
LEMMA ResolvedIsOver ==
  ASSUME CacheInv, NEW d, NEW user \in NetworkConfigs, NEW profile \in NetworkConfigs
  PROVE  Resolved(d, user, profile) \in NetworkConfigs /\ Over(user, Resolved(d, user, profile))
<1>1. PICK w : w = WithProvider(d, user)
  OBVIOUS
<1>2. w \in NetworkConfigs /\ Over(user, w)
  <2>1. CASE d \in DOMAIN deviceConfigStore
    <3>1. PICK c \in NetworkConfigs : c = deviceConfigStore[d]
      BY <2>1 DEF CacheInv
    <3>2. w = MergeNetworkConfig(user, c)
      BY <1>1, <2>1, <3>1 DEF WithProvider
    <3> QED
      BY <3>2, MergeIsOver
  <2>2. CASE d \notin DOMAIN deviceConfigStore
    BY <1>1, <2>2, OverSelf DEF WithProvider
  <2> QED
    BY <2>1, <2>2
<1>3. PICK m : m = IF w.profile # "" THEN MergeNetworkConfig(w, profile) ELSE w
  OBVIOUS
<1>4. m \in NetworkConfigs /\ Over(w, m)
  BY <1>2, <1>3, MergeIsOver, OverSelf
<1>5. Resolved(d, user, profile) = Default(m)
  BY <1>1, <1>3 DEF Resolved
<1>6. Default(m) \in NetworkConfigs /\ Over(m, Default(m))
  BY <1>4, DefaultIsOver
<1> QED
  BY <1>2, <1>4, <1>5, <1>6, OverOver

Stored == [conf : NetworkConfigs, own : Nat]

----------------------------------------------------------------------------
(* What the host adds.                                                     *)

LEMMA LengthOfSequence ==
  ASSUME NEW S, NEW s \in Seq(S)
  PROVE  Len(s) \in Nat /\ DOMAIN s = 1 .. Len(s) /\ \A i \in DOMAIN s : ~(i > Len(s))
OBVIOUS

LEMMA ConcatOfSequences ==
  ASSUME NEW S, NEW a \in Seq(S), NEW b \in Seq(S)
  PROVE  /\ a \o b \in Seq(S) /\ Len(a \o b) = Len(a) + Len(b)
         /\ ToSet(a \o b) = ToSet(a) \union ToSet(b)
         /\ SubSeq(a \o b, 1, Len(a)) = a
         /\ \A i \in DOMAIN (a \o b) : i > Len(a) => (a \o b)[i] \in ToSet(b)
<1>1. /\ a \o b \in Seq(S) /\ Len(a \o b) = Len(a) + Len(b)
      /\ Len(a) \in Nat /\ Len(b) \in Nat
      /\ DOMAIN a = 1 .. Len(a) /\ DOMAIN b = 1 .. Len(b)
      /\ DOMAIN (a \o b) = 1 .. Len(a) + Len(b)
      /\ \A i \in DOMAIN a : (a \o b)[i] = a[i]
      /\ \A i \in DOMAIN b : (a \o b)[Len(a) + i] = b[i]
  OBVIOUS
<1>2. SubSeq(a \o b, 1, Len(a)) = a
  BY SubSeqOfConcat1, SubSeqFull
<1>3. PICK c : c = a \o b
  OBVIOUS
<1>4. /\ DOMAIN c = 1 .. Len(a) + Len(b)
      /\ \A i \in DOMAIN a : c[i] = a[i]
      /\ \A i \in DOMAIN b : c[Len(a) + i] = b[i]
  BY <1>1, <1>3
<1>5. \A i \in DOMAIN c : i > Len(a) => c[i] \in ToSet(b)
  <2> SUFFICES ASSUME NEW i \in DOMAIN c, i > Len(a) PROVE c[i] \in ToSet(b)
    OBVIOUS
  <2>1. i - Len(a) \in DOMAIN b /\ Len(a) + (i - Len(a)) = i
    BY <1>1, <1>4
  <2>2. c[i] = b[i - Len(a)]
    BY <2>1, <1>4
  <2> QED
    BY <2>1, <2>2 DEF ToSet
<1>6. \A i \in DOMAIN c : ~(i > Len(a)) => i \in DOMAIN a /\ c[i] = a[i]
  BY <1>1, <1>4
<1>7. ToSet(c) \subseteq ToSet(a) \union ToSet(b)
  BY <1>5, <1>6 DEF ToSet
<1>8. ToSet(a) \subseteq ToSet(c)
  <2>1. \A i \in DOMAIN a : i \in DOMAIN c
    BY <1>1, <1>4
  <2> QED
    BY <2>1, <1>4 DEF ToSet
<1>9. ToSet(b) \subseteq ToSet(c)
  <2>1. \A i \in DOMAIN b : Len(a) + i \in DOMAIN c
    BY <1>1, <1>4
  <2>2. \A i \in DOMAIN b : b[i] \in ToSet(c)
    BY <2>1, <1>4 DEF ToSet
  <2> QED
    BY <2>2 DEF ToSet
<1> QED
  BY <1>1, <1>2, <1>3, <1>5, <1>7, <1>8, <1>9

\* The rules of some tables.
LEMMA RulesAreRules == ASSUME NEW tables PROVE RulesOf(tables) \in Seq(Rules)
<1> DEFINE I == {i \in DOMAIN HostRules : HostRules[i].table \in tables}
<1>1. HostRules \in Seq(Rules) /\ I \subseteq DOMAIN HostRules
  BY HostAssumption
<1>2. RulesOf(tables) = Kept(HostRules, I)
  BY DEF RulesOf
<1> HIDE DEF I
<1> QED
  BY <1>1, <1>2, KeptOfSequence

LEMMA RulesOfOne ==
  ASSUME NEW tables, NEW t \in tables
  PROVE  ToSet(RulesOf({t})) \subseteq ToSet(RulesOf(tables))
<1> DEFINE I(ts) == {i \in DOMAIN HostRules : HostRules[i].table \in ts}
<1>1. HostRules \in Seq(Rules)
  BY HostAssumption
<1>2. \A ts : I(ts) \subseteq DOMAIN HostRules /\ RulesOf(ts) = Kept(HostRules, I(ts))
  BY DEF RulesOf
<1>3. I({t}) \subseteq I(tables)
  OBVIOUS
<1> HIDE DEF I
<1>4. \A ts : ToSet(RulesOf(ts)) = {HostRules[i] : i \in I(ts)}
  BY <1>1, <1>2, KeptOfSequence
<1> QED
  BY <1>3, <1>4

\* The addresses of the pod's interface: DHCP's, the configuration's or, where
\* there are none, the host's; no address twice if the configuration has none.
LEMMA PodAddressesAreAddresses ==
  ASSUME NEW d \in Devices, NEW conf \in NetworkConfigs, NEW lease \in [ip : Names, len : Nat, routes : Seq(Routes)]
  PROVE  /\ PodAddresses(d, conf, lease) \in Seq(PrefixAddresses)
         /\ conf.addressing = "DHCP" => Len(PodAddresses(d, conf, lease)) = 1
         /\ ValidAddresses(conf.addresses) => ValidAddresses(PodAddresses(d, conf, lease))
<1>1. PICK pod : pod = PodAddresses(d, conf, lease)
  OBVIOUS
<1>2. CASE conf.addressing = "DHCP"
  <2>1. pod = <<[ip |-> lease.ip, len |-> lease.len]>>
    BY <1>1, <1>2 DEF PodAddresses
  <2>2. PICK a \in PrefixAddresses : a = [ip |-> lease.ip, len |-> lease.len]
    BY DEF PrefixAddresses
  <2>3. pod = <<a>>
    BY <2>1, <2>2
  <2>4. pod \in Seq(PrefixAddresses) /\ Len(pod) = 1 /\ DOMAIN pod = 1 .. 1
    BY <2>3
  <2>5. ValidAddresses(pod)
    BY <2>4 DEF ValidAddresses
  <2> QED
    BY <1>1, <2>4, <2>5
<1>3. CASE conf.addressing # "DHCP" /\ (IsSubinterface(conf) \/ conf.addresses # <<>>)
  <2>1. pod = conf.addresses
    BY <1>1, <1>3 DEF PodAddresses
  <2>2. conf.addresses \in Seq(PrefixAddresses)
    BY DEF NetworkConfigs
  <2> QED
    BY <1>1, <1>3, <2>1, <2>2
<1>4. CASE conf.addressing # "DHCP" /\ ~(IsSubinterface(conf) \/ conf.addresses # <<>>)
  <2> DEFINE I == {i \in DOMAIN HostAddresses[d] : HostAddresses[d][i].scope = UniverseScope}
  <2>1. PICK H, S : H = HostAddresses[d] /\ S = [ip : Names, len : Nat, scope : Int]
    OBVIOUS
  <2>2. H \in Seq(S) /\ ValidAddresses(H) /\ I \subseteq DOMAIN H
    BY <2>1, HostAssumption
  <2>3. PICK g : g = Kept(H, I)
    OBVIOUS
  <2>4. pod = [i \in DOMAIN g |-> [ip |-> g[i].ip, len |-> g[i].len]]
    BY <1>1, <1>4, <2>1, <2>3 DEF PodAddresses
  <2> HIDE DEF I
  <2>5. /\ g \in Seq(S)
        /\ \A k, l \in DOMAIN g : k # l => \E i, j \in I : i # j /\ g[k] = H[i] /\ g[l] = H[j]
    BY <2>2, <2>3, KeptOfSequence
  <2>6. Len(g) \in Nat /\ DOMAIN g = 1 .. Len(g) /\ \A i \in DOMAIN g : g[i] \in S
    BY <2>5
  <2>7. \A i \in DOMAIN g : [ip |-> g[i].ip, len |-> g[i].len] \in PrefixAddresses
    BY <2>1, <2>6 DEF PrefixAddresses
  <2>8. pod \in Seq(PrefixAddresses)
    BY <2>4, <2>6, <2>7
  <2>9. DOMAIN pod = DOMAIN g /\ \A k \in DOMAIN g : AddressKey(pod[k]) = AddressKey(g[k])
    BY <2>4 DEF AddressKey
  <2>10. ValidAddresses(pod)
    <3> SUFFICES ASSUME NEW k \in DOMAIN g, NEW l \in DOMAIN g, k # l, AddressKey(g[k]) = AddressKey(g[l])
                 PROVE  FALSE
      BY <2>9 DEF ValidAddresses
    <3>1. PICK i \in I, j \in I : i # j /\ g[k] = H[i] /\ g[l] = H[j]
      BY <2>5
    <3>2. i \in DOMAIN H /\ j \in DOMAIN H /\ AddressKey(H[i]) = AddressKey(H[j])
      BY <2>2, <3>1
    <3> QED
      BY <2>2, <3>1, <3>2 DEF ValidAddresses
  <2> QED
    BY <1>1, <1>4, <2>8, <2>10
<1> QED
  BY <1>2, <1>3, <1>4

\* The routes copied from the host; after clearStaleRouteSources they prefer no
\* source but the pod's own.
LEMMA HostRoutesAreRoutes ==
  ASSUME NEW d \in Devices, NEW addresses
  PROVE  /\ ClearStaleRouteSources(GetRouteInfo(d), addresses) \in Seq(Routes)
         /\ \A r \in ToSet(ClearStaleRouteSources(GetRouteInfo(d), addresses)) :
              r.src # "" => \E a \in ToSet(addresses) : a.ip = r.src
         /\ RouteTables(ClearStaleRouteSources(GetRouteInfo(d), addresses)) = RouteTables(GetRouteInfo(d))
<1> DEFINE Copies(r) == /\ r.dst # "" /\ r.table # LocalTable
                        /\ r.dst \in V6 => ~r.linkLocal /\ ~r.kernel
           I == {i \in DOMAIN HostRoutes[d] : Copies(HostRoutes[d][i])}
<1>1. PICK H, S : /\ H = HostRoutes[d]
                  /\ S = [dst : Names, gw : Names, src : Names, scope : Int, table : Int,
                          kernel : BOOLEAN, linkLocal : BOOLEAN]
  OBVIOUS
<1>2. H \in Seq(S) /\ I \subseteq DOMAIN H
  BY <1>1, HostAssumption
<1>3. PICK g : g = Kept(H, I)
  OBVIOUS
<1>4. PICK G : G = GetRouteInfo(d)
  OBVIOUS
<1>5. G = [i \in DOMAIN g |-> [dst |-> g[i].dst, gw |-> g[i].gw, src |-> g[i].src,
                               scope |-> g[i].scope, table |-> g[i].table]]
  BY <1>1, <1>3, <1>4 DEF GetRouteInfo
<1> HIDE DEF I, Copies
<1>6. g \in Seq(S)
  BY <1>2, <1>3, KeptOfSequence
<1>7. Len(g) \in Nat /\ DOMAIN g = 1 .. Len(g) /\ \A i \in DOMAIN g : g[i] \in S
  BY <1>6
<1>8. \A i \in DOMAIN g : [dst |-> g[i].dst, gw |-> g[i].gw, src |-> g[i].src,
                           scope |-> g[i].scope, table |-> g[i].table] \in Routes
  BY <1>1, <1>7 DEF Routes
<1>9. DOMAIN G = 1 .. Len(g) /\ \A i \in DOMAIN G : G[i] \in Routes
  BY <1>5, <1>7, <1>8
<1>10. PICK C : C = ClearStaleRouteSources(G, addresses)
  OBVIOUS
<1>11. /\ DOMAIN C = 1 .. Len(g)
       /\ \A i \in 1 .. Len(g) : C[i] = IF G[i].src \in {addresses[j].ip : j \in DOMAIN addresses} THEN G[i]
                                         ELSE [G[i] EXCEPT !.src = ""]
       /\ C = [i \in 1 .. Len(g) |-> C[i]]
  BY <1>9, <1>10 DEF ClearStaleRouteSources
<1>12. \A i \in 1 .. Len(g) : C[i] \in Routes
  <2> SUFFICES ASSUME NEW i \in 1 .. Len(g) PROVE C[i] \in Routes
    OBVIOUS
  <2>1. PICK r \in Routes : r = G[i]
    BY <1>9
  <2>2. [r EXCEPT !.src = ""] \in Routes
    BY TableAssumption DEF Routes
  <2> QED
    BY <2>1, <2>2, <1>11
<1>13. C \in Seq(Routes)
  <2>1. [i \in 1 .. Len(g) |-> C[i]] \in Seq(Routes)
    BY <1>7, <1>12
  <2>2. C = [i \in 1 .. Len(g) |-> C[i]]
    BY <1>11
  <2> QED
    BY <2>1, <2>2, Zenon
<1>14. \A i \in 1 .. Len(g) : C[i].src # "" => \E a \in ToSet(addresses) : a.ip = C[i].src
  <2> SUFFICES ASSUME NEW i \in 1 .. Len(g), C[i].src # ""
               PROVE  \E a \in ToSet(addresses) : a.ip = C[i].src
    OBVIOUS
  <2>1. PICK r \in Routes : r = G[i]
    BY <1>9
  <2>2. [r EXCEPT !.src = ""].src = ""
    BY DEF Routes
  <2>3. C[i] = r /\ r.src \in {addresses[j].ip : j \in DOMAIN addresses}
    BY <2>1, <2>2, <1>11
  <2> QED
    BY <2>3 DEF ToSet
<1>15. \A r \in ToSet(C) : r.src # "" => \E a \in ToSet(addresses) : a.ip = r.src
  <2>1. ToSet(C) = {C[i] : i \in 1 .. Len(g)}
    <3>1. DOMAIN C = 1 .. Len(g)
      BY <1>11
    <3> QED
      BY <3>1 DEF ToSet
  <2> SUFFICES ASSUME NEW i \in 1 .. Len(g), C[i].src # ""
               PROVE  \E a \in ToSet(addresses) : a.ip = C[i].src
    BY <2>1
  <2> QED
    BY <1>14
<1>16. RouteTables(C) = RouteTables(G)
  <2>1. \A i \in 1 .. Len(g) : C[i].table = G[i].table
    <3> SUFFICES ASSUME NEW i \in 1 .. Len(g) PROVE C[i].table = G[i].table
      OBVIOUS
    <3>1. PICK r \in Routes : r = G[i]
      BY <1>9
    <3>2. [r EXCEPT !.src = ""].table = r.table
      BY DEF Routes
    <3> QED
      BY <3>1, <3>2, <1>11
  <2>2. DOMAIN C = DOMAIN G /\ DOMAIN G = 1 .. Len(g)
    BY <1>9, <1>11
  <2> QED
    BY <2>1, <2>2 DEF RouteTables
<1> QED
  BY <1>4, <1>10, <1>13, <1>15, <1>16

LEMMA EmptySequence ==
  ASSUME NEW s, s = <<>>
  PROVE  DOMAIN s = {} /\ ToSet(s) = {} /\ ValidRoutes(s) /\ \A S : s \in Seq(S)
<1>1. DOMAIN s = {}
  OBVIOUS
<1>2. ToSet(s) = {} /\ ValidRoutes(s)
  BY <1>1, Zenon DEF ToSet, ValidRoutes
<1>3. \A S : s \in Seq(S)
  OBVIOUS
<1> QED
  BY <1>1, <1>2, <1>3

\* What a lease is, also when there is none.
LEMMA LeaseIsLease ==
  ASSUME NEW conf, NEW lease \in Leases(conf)
  PROVE  /\ lease \in [ip : Names, len : Nat, routes : Seq(Routes)]
         /\ ValidRoutes(lease.routes)
         /\ conf.addressing # "DHCP" => lease.routes = <<>>
<1>1. CASE conf.addressing = "DHCP"
  <2>1. lease \in DHCPAnswers
    BY <1>1 DEF Leases
  <2> QED
    BY <1>1, <2>1, HostAssumption
<1>2. CASE conf.addressing # "DHCP"
  <2>1. lease = NoLease
    BY <1>2 DEF Leases
  <2>2. "" \in Names /\ 0 \in Nat
    BY TableAssumption
  <2>3. <<>> \in Seq(Routes) /\ ValidRoutes(<<>>)
    BY EmptySequence, Zenon
  <2>4. NoLease \in [ip : Names, len : Nat, routes : Seq(Routes)] /\ NoLease.routes = <<>>
    BY <2>2, <2>3 DEF NoLease
  <2> QED
    BY <1>2, <2>1, <2>3, <2>4
<1> QED
  BY <1>1, <1>2

\* What is stored: the resolved configuration with the pod's addresses, DHCP's
\* routes, then the host's, its rules and its neighbours.
\* A stored device has the host's rules of table t.
HasRules(e, t) == ToSet(RulesOf({t})) \subseteq ToSet(e.conf.rules)

Parts(d, conf, lease, done) ==
  /\ done \in Stored
  /\ SubSeq(done.conf.routes, 1, done.own) = conf.routes \o lease.routes
  /\ done.conf.scalars = conf.scalars /\ done.conf.type = conf.type
  /\ done.conf.vrf = conf.vrf /\ done.conf.addressing = conf.addressing
  /\ done.conf.addresses = PodAddresses(d, conf, lease)
  /\ ToSet(conf.rules) \subseteq ToSet(done.conf.rules)
  /\ conf.vrf # NoVRF => done.conf.rules = conf.rules
  /\ ToSet(conf.neighbors) \subseteq ToSet(done.conf.neighbors)
  /\ \A i \in DOMAIN done.conf.routes : i > done.own /\ done.conf.routes[i].src # "" =>
       \E a \in ToSet(done.conf.addresses) : a.ip = done.conf.routes[i].src
  /\ \A i \in DOMAIN done.conf.routes : i > done.own /\ done.conf.routes[i].table # 0 =>
       ~IsSubinterface(conf) /\ done.conf.routes[i].table \in RouteTables(GetRouteInfo(d))
  /\ conf.vrf = NoVRF /\ ~IsSubinterface(conf) =>
       \A t \in RouteTables(GetRouteInfo(d)) \intersect call.rules : HasRules(done, t)

LEMMA CompletedParts ==
  ASSUME NEW d \in Devices, NEW conf \in NetworkConfigs,
         NEW lease \in [ip : Names, len : Nat, routes : Seq(Routes)],
         NEW done, done = Completed(d, conf, lease)
  PROVE  Parts(d, conf, lease, done)
<1>1. PICK addresses, own, host, rules, neighbors :
        /\ addresses = PodAddresses(d, conf, lease)
        /\ own = conf.routes \o lease.routes
        /\ host = IF IsSubinterface(conf) THEN <<>> ELSE ClearStaleRouteSources(GetRouteInfo(d), addresses)
        /\ rules = IF conf.vrf # NoVRF THEN conf.rules ELSE conf.rules \o RulesOf(TablesTaken(conf, host))
        /\ neighbors = conf.neighbors \o HostNeighbors[d]
  OBVIOUS
<1>2. done = [conf |-> [conf EXCEPT !.addresses = addresses, !.routes = own \o host,
                                    !.rules = rules, !.neighbors = neighbors],
              own |-> Len(own)]
  BY <1>1 DEF Completed, NetworkConfigs
<1>3. /\ conf.routes \in Seq(Routes) /\ lease.routes \in Seq(Routes)
      /\ conf.rules \in Seq(Rules) /\ conf.neighbors \in Seq(Neighbors)
  BY DEF NetworkConfigs
<1>4. addresses \in Seq(PrefixAddresses)
  BY <1>1, PodAddressesAreAddresses
<1>5. own \in Seq(Routes) /\ Len(own) \in Nat
  <2>1. PICK a \in Seq(Routes), b \in Seq(Routes) : a = conf.routes /\ b = lease.routes
    BY <1>3
  <2>2. own = a \o b
    BY <1>1, <2>1
  <2> QED
    BY <2>2
<1>6. /\ host \in Seq(Routes)
      /\ \A r \in ToSet(host) : r.src # "" => \E a \in ToSet(addresses) : a.ip = r.src
      /\ IF IsSubinterface(conf) THEN ToSet(host) = {}
         ELSE RouteTables(host) = RouteTables(GetRouteInfo(d))
  <2>1. CASE IsSubinterface(conf)
    <3>1. host = <<>>
      BY <1>1, <2>1
    <3>2. host \in Seq(Routes) /\ ToSet(host) = {}
      BY <3>1 DEF ToSet
    <3> QED
      BY <2>1, <3>2
  <2>2. CASE ~IsSubinterface(conf)
    <3>1. host = ClearStaleRouteSources(GetRouteInfo(d), addresses)
      BY <1>1, <2>2
    <3> QED
      BY <2>2, <3>1, HostRoutesAreRoutes
  <2> QED
    BY <2>1, <2>2
<1>7. /\ rules \in Seq(Rules) /\ ToSet(conf.rules) \subseteq ToSet(rules)
      /\ conf.vrf # NoVRF => rules = conf.rules
      /\ conf.vrf = NoVRF => ToSet(RulesOf(TablesTaken(conf, host))) \subseteq ToSet(rules)
  <2>1. CASE conf.vrf # NoVRF
    BY <1>1, <1>3, <2>1
  <2>2. CASE conf.vrf = NoVRF
    <3>1. PICK a \in Seq(Rules), b \in Seq(Rules) :
            a = conf.rules /\ b = RulesOf(TablesTaken(conf, host))
      BY <1>3, RulesAreRules
    <3>2. rules = a \o b
      BY <1>1, <2>2, <3>1
    <3>3. a \o b \in Seq(Rules) /\ ToSet(a \o b) = ToSet(a) \union ToSet(b)
      BY ConcatOfSequences
    <3> QED
      BY <2>2, <3>1, <3>2, <3>3
  <2> QED
    BY <2>1, <2>2
<1>8. neighbors \in Seq(Neighbors) /\ ToSet(conf.neighbors) \subseteq ToSet(neighbors)
  <2>1. PICK a \in Seq(Neighbors), b \in Seq(Neighbors) : a = conf.neighbors /\ b = HostNeighbors[d]
    BY <1>3, HostAssumption
  <2>2. neighbors = a \o b
    BY <1>1, <2>1
  <2>3. a \o b \in Seq(Neighbors) /\ ToSet(a \o b) = ToSet(a) \union ToSet(b)
    BY ConcatOfSequences
  <2> QED
    BY <2>1, <2>2, <2>3
<1>9. PICK all : all = own \o host
  OBVIOUS
<1>10. /\ all \in Seq(Routes) /\ SubSeq(all, 1, Len(own)) = own
       /\ \A i \in DOMAIN all : i > Len(own) => all[i] \in ToSet(host)
  BY <1>5, <1>6, <1>9, ConcatOfSequences
<1>11. PICK c : c = [conf EXCEPT !.addresses = addresses, !.routes = all,
                                  !.rules = rules, !.neighbors = neighbors]
  OBVIOUS
<1>12. /\ c \in NetworkConfigs /\ c.routes = all
       /\ c.addresses = addresses /\ c.rules = rules /\ c.neighbors = neighbors
       /\ c.scalars = conf.scalars /\ c.type = conf.type
       /\ c.vrf = conf.vrf /\ c.addressing = conf.addressing
  BY <1>4, <1>7, <1>8, <1>10, <1>11 DEF NetworkConfigs
<1>14. done.conf = c /\ done.own = Len(own) /\ done \in Stored
  <2>1. done = [conf |-> c, own |-> Len(own)]
    BY <1>2, <1>9, <1>11
  <2> QED
    BY <2>1, <1>5, <1>12 DEF Stored
<1>13. \A i \in DOMAIN all : i > Len(own) /\ all[i].src # "" =>
         \E a \in ToSet(addresses) : a.ip = all[i].src
  BY <1>6, <1>10
<1>15. ASSUME NEW i \in DOMAIN all, i > Len(own), all[i].table # 0
       PROVE  ~IsSubinterface(conf) /\ all[i].table \in RouteTables(GetRouteInfo(d))
  <2>1. all[i] \in ToSet(host)
    BY <1>10, <1>15
  <2>2. all[i].table \in RouteTables(host)
    BY <1>15, <2>1 DEF RouteTables, ToSet
  <2> QED
    BY <1>6, <2>1, <2>2
<1>16. ASSUME conf.vrf = NoVRF, ~IsSubinterface(conf), NEW t \in RouteTables(GetRouteInfo(d)) \intersect call.rules
       PROVE  HasRules(done, t)
  <2>1. PICK T : T = TablesTaken(conf, host)
    OBVIOUS
  <2>2. t \in T
    BY <1>6, <1>16, <2>1 DEF TablesTaken
  <2>3. ToSet(RulesOf({t})) \subseteq ToSet(RulesOf(T))
    BY <2>2, RulesOfOne
  <2>4. ToSet(RulesOf(T)) \subseteq ToSet(done.conf.rules)
    BY <1>7, <1>12, <1>14, <1>16, <2>1
  <2> QED
    BY <2>3, <2>4 DEF HasRules
<1> QED
  BY <1>1, <1>7, <1>8, <1>10, <1>12, <1>13, <1>14, <1>15, <1>16 DEF Parts

----------------------------------------------------------------------------
(* The properties, of one stored configuration.                            *)

Own(e) == SubSeq(e.conf.routes, 1, e.own)

Wins(user, e) ==
  /\ \A f \in Scalars : user.scalars[f] \notin {Nil, 0} => e.conf.scalars[f] = user.scalars[f]
  /\ user.scalars["addrGenMode"] # Nil => e.conf.scalars["addrGenMode"] = user.scalars["addrGenMode"]
  /\ user.type # "" => e.conf.type = user.type
  /\ user.vrf # NoVRF => e.conf.vrf = user.vrf
  /\ ToSet(user.addresses) \subseteq ToSet(e.conf.addresses)
  /\ ToSet(user.rules) \subseteq ToSet(e.conf.rules)
  /\ \A n \in ToSet(user.neighbors) :
       \E m \in ToSet(user.neighbors) \intersect ToSet(e.conf.neighbors) : m.dst = n.dst
  /\ KeysOf(user.routes) \subseteq KeysOf(Own(e))
  /\ e.conf.addressing # "DHCP" =>
       \A r \in ToSet(Own(e)) : RouteKey(r) \in KeysOf(user.routes) => r \in ToSet(user.routes)

Applies(e) ==
  /\ e.conf.vrf # NoVRF => e.conf.rules = <<>> /\ ValidVRF(e.conf.vrf)
  /\ ValidAddresses(e.conf.addresses)
  /\ IsSubinterface(e.conf) => (e.conf.addresses = <<>>) = (e.conf.addressing = "Unnumbered")
  /\ e.conf.addressing = "DHCP" => Len(e.conf.addresses) = 1 /\ ~IsSubinterface(e.conf)
  /\ ValidRoutes(Own(e))
  /\ (e.conf.scalars["addrGenMode"] # Nil \/ e.conf.scalars["acceptRA"] # Nil)
       /\ e.conf.scalars["mtu"] # Nil => e.conf.scalars["mtu"] >= MinIPv6MTU

Sourced(e) ==
  \A i \in DOMAIN e.conf.routes : i > e.own /\ e.conf.routes[i].src # "" =>
    \E a \in ToSet(e.conf.addresses) : a.ip = e.conf.routes[i].src

\* A user's configuration that is within the resolved one is within what is
\* stored.
LEMMA CompletedWins ==
  ASSUME NEW d \in Devices, NEW conf \in NetworkConfigs, Valid(conf), NEW lease \in Leases(conf),
         NEW done, done = Completed(d, conf, lease),
         NEW user \in NetworkConfigs, Over(user, conf),
         user.vrf # NoVRF => user.vrf.name # "" /\ user.vrf.table \notin {Nil, 0}
  PROVE  Wins(user, done)
<1>1. /\ lease \in [ip : Names, len : Nat, routes : Seq(Routes)]
      /\ conf.addressing # "DHCP" => lease.routes = <<>>
  BY LeaseIsLease
<1>2. /\ Own(done) = conf.routes \o lease.routes
      /\ done.conf.scalars = conf.scalars /\ done.conf.type = conf.type
      /\ done.conf.vrf = conf.vrf /\ done.conf.addressing = conf.addressing
      /\ done.conf.addresses = PodAddresses(d, conf, lease)
      /\ ToSet(conf.rules) \subseteq ToSet(done.conf.rules)
      /\ ToSet(conf.neighbors) \subseteq ToSet(done.conf.neighbors)
  <2>1. Parts(d, conf, lease, done)
    BY <1>1, CompletedParts
  <2> QED
    BY <2>1 DEF Own, Parts
<1>3. /\ \A f \in Scalars : user.scalars[f] \notin {Nil, 0} => done.conf.scalars[f] = user.scalars[f]
      /\ user.scalars["addrGenMode"] # Nil =>
           done.conf.scalars["addrGenMode"] = user.scalars["addrGenMode"]
      /\ user.type # "" => done.conf.type = user.type
  BY <1>2 DEF Over
<1>4. user.vrf # NoVRF => done.conf.vrf = user.vrf
  BY <1>2 DEF Over
<1>5. ToSet(user.addresses) \subseteq ToSet(done.conf.addresses)
  <2>1. CASE conf.addresses = <<>>
    <3>1. ToSet(conf.addresses) = {}
      BY <2>1, EmptySequence
    <3> QED
      BY <3>1 DEF Over
  <2>2. CASE conf.addresses # <<>>
    <3>1. conf.addressing # "DHCP"
      BY <2>2 DEF Valid, ValidInterface
    <3>2. done.conf.addresses = conf.addresses
      BY <1>2, <2>2, <3>1 DEF PodAddresses
    <3> QED
      BY <3>2 DEF Over
  <2> QED
    BY <2>1, <2>2
<1>6. ToSet(user.rules) \subseteq ToSet(done.conf.rules)
  BY <1>2 DEF Over
<1>7. \A n \in ToSet(user.neighbors) :
        \E m \in ToSet(user.neighbors) \intersect ToSet(done.conf.neighbors) : m.dst = n.dst
  <2> SUFFICES ASSUME NEW n \in ToSet(user.neighbors)
               PROVE  \E m \in ToSet(user.neighbors) \intersect ToSet(done.conf.neighbors) : m.dst = n.dst
    OBVIOUS
  <2>1. n.dst \in Targets(user.neighbors)
    BY DEF Targets
  <2>2. PICK m \in ToSet(conf.neighbors) : m.dst = n.dst
    BY <2>1 DEF Over, Targets
  <2>3. m \in ToSet(user.neighbors)
    BY <2>1, <2>2 DEF Over
  <2> QED
    BY <2>2, <2>3, <1>2
<1>8. PICK a \in Seq(Routes), b \in Seq(Routes) : a = conf.routes /\ b = lease.routes
  BY <1>1 DEF NetworkConfigs
<1>9. Own(done) = a \o b /\ ToSet(a \o b) = ToSet(a) \union ToSet(b)
  <2>1. ToSet(a \o b) = ToSet(a) \union ToSet(b)
    BY ConcatOfSequences
  <2> QED
    BY <1>2, <1>8, <2>1
<1>10. KeysOf(user.routes) \subseteq KeysOf(Own(done))
  <2>1. KeysOf(user.routes) \subseteq KeysOf(a)
    BY <1>8 DEF Over
  <2>2. KeysOf(a) \subseteq KeysOf(Own(done))
    BY <1>9 DEF KeysOf
  <2> QED
    BY <2>1, <2>2
<1>11. ASSUME conf.addressing # "DHCP"
       PROVE  \A r \in ToSet(Own(done)) : RouteKey(r) \in KeysOf(user.routes) => r \in ToSet(user.routes)
  <2>1. ToSet(b) = {}
    BY <1>1, <1>8, <1>11, EmptySequence
  <2>2. ToSet(Own(done)) = ToSet(conf.routes)
    BY <1>8, <1>9, <2>1
  <2> QED
    BY <2>2 DEF Over
<1> QED
  BY <1>2, <1>3, <1>4, <1>5, <1>6, <1>7, <1>10, <1>11 DEF Wins

\* A valid configuration that the host completes can be applied.
LEMMA CompletedApplies ==
  ASSUME NEW d \in Devices, NEW conf \in NetworkConfigs, Valid(conf), NEW lease \in Leases(conf),
         NEW done, done = Completed(d, conf, lease), Numbered(done.conf)
  PROVE  Applies(done) /\ Sourced(done) /\ done \in Stored
<1>1. /\ lease \in [ip : Names, len : Nat, routes : Seq(Routes)]
      /\ ValidRoutes(lease.routes)
  BY LeaseIsLease
<1>2. /\ Own(done) = conf.routes \o lease.routes
      /\ done.conf.scalars = conf.scalars /\ done.conf.type = conf.type
      /\ done.conf.vrf = conf.vrf /\ done.conf.addressing = conf.addressing
      /\ done.conf.addresses = PodAddresses(d, conf, lease)
      /\ conf.vrf # NoVRF => done.conf.rules = conf.rules
  <2>1. Parts(d, conf, lease, done)
    BY <1>1, CompletedParts
  <2> QED
    BY <2>1 DEF Own, Parts
<1>3. done \in Stored /\ Sourced(done)
  <2>1. Parts(d, conf, lease, done)
    BY <1>1, CompletedParts
  <2> QED
    BY <2>1 DEF Sourced, Parts
<1>4. done.conf.vrf # NoVRF => done.conf.rules = <<>> /\ ValidVRF(done.conf.vrf)
  BY <1>2 DEF Valid, ValidInterface
<1>5. ValidAddresses(done.conf.addresses) /\ (conf.addressing = "DHCP" => Len(done.conf.addresses) = 1)
  <2>1. ValidAddresses(conf.addresses)
    BY DEF Valid, ValidInterface
  <2> QED
    BY <1>1, <1>2, <2>1, PodAddressesAreAddresses
<1>6. IsSubinterface(conf) => conf.addressing # "DHCP"
  BY DEF Valid, ValidInterface, ValidSubinterface
<1>7. ASSUME IsSubinterface(done.conf)
      PROVE  (done.conf.addresses = <<>>) = (done.conf.addressing = "Unnumbered")
  <2>1. IsSubinterface(conf)
    BY <1>2, <1>7 DEF IsSubinterface
  <2>2. done.conf.addresses = conf.addresses
    BY <1>2, <1>6, <2>1 DEF PodAddresses
  <2>3. conf.addressing = "Unnumbered" => conf.addresses = <<>>
    BY DEF Valid, ValidInterface
  <2>4. done.conf.addresses = <<>> => done.conf.addressing = "Unnumbered"
    BY <1>7 DEF Numbered
  <2> QED
    BY <1>2, <2>2, <2>3, <2>4
<1>8. ValidRoutes(Own(done))
  <2>1. PICK a \in Seq(Routes), b \in Seq(Routes) : a = conf.routes /\ b = lease.routes
    BY <1>1 DEF NetworkConfigs
  <2>2. ValidRoutes(a) /\ ValidRoutes(b)
    BY <1>1, <2>1 DEF Valid
  <2>3. PICK c : c = a \o b
    OBVIOUS
  <2>4. ToSet(c) = ToSet(a) \union ToSet(b)
    BY <2>3, ConcatOfSequences
  <2>5. \A i \in DOMAIN c : (\E j \in DOMAIN a : c[i] = a[j]) \/ (\E j \in DOMAIN b : c[i] = b[j])
    BY <2>4 DEF ToSet
  <2>6. ValidRoutes(c)
    BY <2>2, <2>5 DEF ValidRoutes
  <2> QED
    BY <1>2, <2>1, <2>3, <2>6
<1>9. (conf.scalars["addrGenMode"] # Nil \/ conf.scalars["acceptRA"] # Nil)
        /\ conf.scalars["mtu"] # Nil => conf.scalars["mtu"] >= MinIPv6MTU
  BY DEF Valid, ValidInterface
<1>10. done.conf.addressing = "DHCP" => Len(done.conf.addresses) = 1 /\ ~IsSubinterface(done.conf)
  BY <1>2, <1>5, <1>6 DEF IsSubinterface
<1> QED
  BY <1>2, <1>3, <1>4, <1>5, <1>7, <1>8, <1>9, <1>10 DEF Applies

\* A configuration that is stored as it is.
LEMMA AsItIsWins ==
  ASSUME NEW conf \in NetworkConfigs, NEW user \in NetworkConfigs, Over(user, conf),
         user.vrf # NoVRF => user.vrf.name # "" /\ user.vrf.table \notin {Nil, 0},
         NEW e, e = [conf |-> conf, own |-> Len(conf.routes)]
  PROVE  e \in Stored /\ Wins(user, e) /\ Sourced(e)
<1>1. conf.routes \in Seq(Routes)
  BY DEF NetworkConfigs
<1>2. PICK r \in Seq(Routes) : r = conf.routes
  BY <1>1
<1>3. e.conf = conf /\ e.own = Len(r) /\ Len(r) \in Nat /\ DOMAIN r = 1 .. Len(r)
  <2>1. e.conf = conf /\ e.own = Len(r)
    BY <1>2
  <2>2. Len(r) \in Nat /\ DOMAIN r = 1 .. Len(r)
    BY LengthOfSequence
  <2> QED
    BY <2>1, <2>2
<1>4. e \in Stored
  BY <1>2, <1>3 DEF Stored
<1>5. Sourced(e)
  <2>1. \A i \in DOMAIN r : ~(i > Len(r))
    BY LengthOfSequence
  <2>2. e.conf.routes = r
    BY <1>2, <1>3
  <2> QED
    BY <1>3, <2>1, <2>2 DEF Sourced
<1>6. Own(e) = r
  BY <1>2, <1>3, SubSeqFull DEF Own
<1>7. user.vrf # NoVRF => conf.vrf = user.vrf
  BY DEF Over
<1>8. \A n \in ToSet(user.neighbors) :
        \E m \in ToSet(user.neighbors) \intersect ToSet(conf.neighbors) : m.dst = n.dst
  <2> SUFFICES ASSUME NEW n \in ToSet(user.neighbors)
               PROVE  \E m \in ToSet(user.neighbors) \intersect ToSet(conf.neighbors) : m.dst = n.dst
    OBVIOUS
  <2>1. n.dst \in Targets(user.neighbors)
    BY DEF Targets
  <2>2. PICK m \in ToSet(conf.neighbors) : m.dst = n.dst
    BY <2>1 DEF Over, Targets
  <2> QED
    BY <2>1, <2>2 DEF Over
<1>9. Wins(user, e)
  <2>1. /\ \A f \in Scalars : user.scalars[f] \notin {Nil, 0} => conf.scalars[f] = user.scalars[f]
        /\ user.scalars["addrGenMode"] # Nil => conf.scalars["addrGenMode"] = user.scalars["addrGenMode"]
        /\ user.type # "" => conf.type = user.type
        /\ ToSet(user.addresses) \subseteq ToSet(conf.addresses)
        /\ ToSet(user.rules) \subseteq ToSet(conf.rules)
        /\ KeysOf(user.routes) \subseteq KeysOf(r)
        /\ \A x \in ToSet(r) : RouteKey(x) \in KeysOf(user.routes) => x \in ToSet(user.routes)
    BY <1>2 DEF Over
  <2> QED
    BY <2>1, <1>3, <1>6, <1>7, <1>8 DEF Wins
<1> QED
  BY <1>4, <1>5, <1>9

----------------------------------------------------------------------------
(* The invariant.                                                          *)

ClaimInv ==
  /\ DOMAIN claims \subseteq Claims
  /\ claims \in [DOMAIN claims -> RawConfigs]
  /\ acked \subseteq DOMAIN claims

\* A call is one of a claim that is known, at one of its devices or past them.
CallInv ==
  /\ call \in [claim : Claims \union {NoCall}, at : Int, rules : SUBSET Int, failed : BOOLEAN]
  /\ call = Idle \/ /\ call.claim \in DOMAIN claims
                    /\ call.at \in 1 .. Len(ClaimDevices[call.claim]) + 1

\* A stored device is one of a claim that is known, and its configuration has
\* what the claim says, can be applied, and brings no source from the host that
\* is not the pod's.
EntryInv ==
  /\ DOMAIN committed \subseteq Pairs
  /\ committed \in [DOMAIN committed -> Stored]
  /\ \A p \in DOMAIN committed :
       /\ p[1] \in DOMAIN claims
       /\ Wins(UserConfig(claims[p[1]]), committed[p])
       /\ p[2] \notin IBOnly => Applies(committed[p])
       /\ Sourced(committed[p])

ConfigInv == CacheInv /\ ClaimInv /\ CallInv /\ EntryInv

LEMMA WithTyped ==
  ASSUME NEW S, NEW f, f \in [DOMAIN f -> S], NEW k, NEW v \in S
  PROVE  With(f, k, v) \in [DOMAIN With(f, k, v) -> S]
BY DEF With

\* What a scan caches.
LEMMA CachedIsCache ==
  ASSUME CacheInv
  PROVE  DOMAIN Cached \subseteq Devices /\ Cached \in [DOMAIN Cached -> NetworkConfigs]
<1>1. \A d \in Devices : Cacheable(providerConfig[d]) \in NetworkConfigs
  <2> SUFFICES ASSUME NEW d \in Devices PROVE Cacheable(providerConfig[d]) \in NetworkConfigs
    OBVIOUS
  <2>1. PICK c \in NetworkConfigs : c = providerConfig[d]
    BY DEF CacheInv
  <2>2. [c EXCEPT !.profile = ""] \in NetworkConfigs
    BY TableAssumption DEF NetworkConfigs
  <2> QED
    BY <2>1, <2>2 DEF Cacheable
<1> QED
  BY <1>1 DEF Cached

\* What Default makes of a VRF.
LEMMA DefaultedVRF ==
  ASSUME NEW v \in [name : DOMAIN TableHash \union {""}, table : Int]
  PROVE  DefaultVRF(v) \in [name : DOMAIN TableHash \union {""}, table : Int] /\ (DefaultVRF(v) = NoVRF <=> v = NoVRF)
<1>1. CASE v.table = Nil /\ v.name # ""
  <2>1. PICK t : t = TableIDForName(v.name)
    OBVIOUS
  <2>2. t \in Int
    <3>1. v.name \in DOMAIN TableHash
      BY <1>1
    <3>2. \A name \in DOMAIN TableHash : TableIDForName(name) \in Int
      BY TablesAreNumbers
    <3> QED
      BY <2>1, <3>1, <3>2, Zenon
  <2>3. DefaultVRF(v) = [v EXCEPT !.table = t]
    BY <1>1, <2>1 DEF DefaultVRF
  <2>4. DefaultVRF(v).name # "" /\ NoVRF.name = ""
    BY <1>1, <2>3 DEF NoVRF
  <2> QED
    BY <1>1, <2>2, <2>3, <2>4
<1>2. CASE ~(v.table = Nil /\ v.name # "")
  BY <1>2 DEF DefaultVRF
<1> QED
  BY <1>1, <1>2

\* A merge leaves a configuration in the cache.
LEMMA WrittenThroughIsConfig ==
  ASSUME NEW user \in NetworkConfigs, NEW cloud \in NetworkConfigs
  PROVE  WrittenThrough(user, cloud) \in NetworkConfigs
<1>1. PICK sc : sc = [f \in Scalars |->
                    IF f = "addrGenMode" \/ cloud.scalars[f] = Nil THEN cloud.scalars[f]
                    ELSE OverridePointer(user.scalars[f], cloud.scalars[f])]
  OBVIOUS
<1>2. PICK v : v = IF cloud.vrf = NoVRF THEN NoVRF ELSE MergeVRF(user.vrf, cloud.vrf)
  OBVIOUS
<1>3. /\ user.scalars \in [Scalars -> Int] /\ cloud.scalars \in [Scalars -> Int]
      /\ user.vrf \in [name : DOMAIN TableHash \union {""}, table : Int]
      /\ cloud.vrf \in [name : DOMAIN TableHash \union {""}, table : Int]
  BY DEF NetworkConfigs
<1>4. sc \in [Scalars -> Int]
  BY <1>1, <1>3 DEF OverridePointer, Override
<1>5. v \in [name : DOMAIN TableHash \union {""}, table : Int]
  BY <1>2, <1>3, VRFsMerged
<1>6. WrittenThrough(user, cloud) = [cloud EXCEPT !.scalars = sc, !.vrf = v]
  BY <1>1, <1>2 DEF WrittenThrough, NetworkConfigs
<1> QED
  BY <1>4, <1>5, <1>6 DEF NetworkConfigs

\* What is in the cache of a device after a merge.
After(user, cloud, defaulted) ==
  IF defaulted THEN DefaultedThrough(WrittenThrough(user, cloud)) ELSE WrittenThrough(user, cloud)

LEMMA AfterIsConfig ==
  ASSUME NEW user \in NetworkConfigs, NEW cloud \in NetworkConfigs, NEW defaulted \in BOOLEAN
  PROVE  /\ After(user, cloud, defaulted) \in NetworkConfigs
         /\ After(user, cloud, defaulted).type = WrittenThrough(user, cloud).type
         /\ After(user, cloud, defaulted).profile = WrittenThrough(user, cloud).profile
         /\ After(user, cloud, defaulted).vrf = NoVRF <=> WrittenThrough(user, cloud).vrf = NoVRF
<1>1. PICK w \in NetworkConfigs : w = WrittenThrough(user, cloud)
  BY WrittenThroughIsConfig
<1>2. PICK v : v = DefaultVRF(w.vrf)
  OBVIOUS
<1>3. v \in [name : DOMAIN TableHash \union {""}, table : Int] /\ (v = NoVRF <=> w.vrf = NoVRF)
  <2>1. w.vrf \in [name : DOMAIN TableHash \union {""}, table : Int]
    BY DEF NetworkConfigs
  <2> QED
    BY <1>2, <2>1, DefaultedVRF
<1>4. DefaultedThrough(w) = [w EXCEPT !.vrf = v]
  BY <1>2 DEF DefaultedThrough
<1>5. /\ [w EXCEPT !.vrf = v] \in NetworkConfigs
      /\ [w EXCEPT !.vrf = v].type = w.type /\ [w EXCEPT !.vrf = v].profile = w.profile
      /\ [w EXCEPT !.vrf = v].vrf = v
  BY <1>3 DEF NetworkConfigs
<1> QED
  BY <1>1, <1>3, <1>4, <1>5 DEF After

\* Where a call is that has a device to prepare.
LEMMA AtDeviceFacts ==
  ASSUME ClaimInv, CallInv, AtDevice
  PROVE  /\ call.claim \in DOMAIN claims /\ call.claim \in Claims
         /\ Current \in Devices /\ <<call.claim, Current>> \in Pairs
         /\ call.at + 1 \in 1 .. Len(ClaimDevices[call.claim]) + 1
         /\ CurrentUser \in NetworkConfigs
         /\ CurrentUser.vrf # NoVRF => CurrentUser.vrf.name # "" /\ CurrentUser.vrf.table \notin {Nil, 0}
<1>1. call.claim \in DOMAIN claims /\ call.claim \in Claims
  BY DEF CallInv, ClaimInv, AtDevice
<1>2. PICK s \in Seq(Devices) : s = ClaimDevices[call.claim]
  BY <1>1, ConfigAssumption
<1>3. call.at \in 1 .. Len(s) + 1 /\ call.at <= Len(s) /\ Len(s) \in Nat
  BY <1>2 DEF CallInv, AtDevice
<1>4. call.at \in DOMAIN s /\ call.at + 1 \in 1 .. Len(s) + 1
  BY <1>3
<1>5. Current = s[call.at] /\ s[call.at] \in Devices /\ s[call.at] \in ToSet(s)
  BY <1>2, <1>4 DEF Current, ToSet
<1>6. <<call.claim, Current>> \in Pairs
  BY <1>1, <1>2, <1>5 DEF Pairs
<1>7. CurrentRaws \in RawConfigs
  BY <1>1 DEF CurrentRaws, ClaimInv
<1> QED
  BY <1>1, <1>2, <1>4, <1>5, <1>6, <1>7, UserConfigIsConfig DEF CurrentUser

\* The call goes on to the next device.
LEMMA NextKeepsCall ==
  ASSUME ClaimInv, CallInv, AtDevice, claims' = claims,
         NEW failed \in BOOLEAN, NEW rules \in SUBSET Int,
         call' = [call EXCEPT !.at = call.at + 1, !.failed = failed, !.rules = rules]
  PROVE  CallInv'
<1>1. call.claim \in DOMAIN claims /\ call.at + 1 \in 1 .. Len(ClaimDevices[call.claim]) + 1
  BY AtDeviceFacts
<1>2. call' \in [claim : Claims \union {NoCall}, at : Int, rules : SUBSET Int, failed : BOOLEAN]
  <2> DEFINE T == [claim : Claims \union {NoCall}, at : Int, rules : SUBSET Int, failed : BOOLEAN]
  <2>1. call \in T /\ call.at + 1 \in Int
    BY DEF CallInv
  <2>2. \A c \in T, a \in Int, f \in BOOLEAN, r \in SUBSET Int :
          [c EXCEPT !.at = a, !.failed = f, !.rules = r] \in T
    OBVIOUS
  <2> HIDE DEF T
  <2>3. call' \in T
    BY <2>1, <2>2
  <2> QED
    BY <2>3 DEF T
<1>3. call'.claim = call.claim /\ call'.at = call.at + 1
  BY DEF CallInv
<1> QED
  BY <1>1, <1>2, <1>3 DEF CallInv

LEMMA NextDeviceKeepsCall ==
  ASSUME ClaimInv, CallInv, AtDevice, claims' = claims, NEW ok \in BOOLEAN, NextDevice(ok)
  PROVE  CallInv'
<1>1. call \in [claim : Claims \union {NoCall}, at : Int, rules : SUBSET Int, failed : BOOLEAN]
  BY DEF CallInv
<1>2. PICK failed \in BOOLEAN, rules \in SUBSET Int : failed = (call.failed \/ ~ok) /\ rules = call.rules
  BY <1>1
<1>3. call' = [call EXCEPT !.at = call.at + 1, !.failed = failed, !.rules = rules]
  BY <1>1, <1>2 DEF NextDevice
<1> QED
  BY <1>2, <1>3, NextKeepsCall

\* Nothing changes for the stored devices.
LEMMA SameEntries ==
  ASSUME EntryInv, claims' = claims, committed' = committed
  PROVE  EntryInv'
BY DEF EntryInv

\* A device is stored.
LEMMA NewEntry ==
  ASSUME ClaimInv, CallInv, EntryInv, AtDevice, claims' = claims,
         NEW e \in Stored, Wins(CurrentUser, e), Current \notin IBOnly => Applies(e), Sourced(e),
         committed' = With(committed, <<call.claim, Current>>, e)
  PROVE  EntryInv'
<1>1. PICK q \in Pairs : q = <<call.claim, Current>>
  BY AtDeviceFacts
<1>2. /\ DOMAIN committed' = DOMAIN committed \union {q} /\ committed'[q] = e
      /\ \A p \in DOMAIN committed : p # q => committed'[p] = committed[p]
      /\ committed' \in [DOMAIN committed' -> Stored]
  <2>1. PICK f, g : f = committed /\ g = With(f, q, e)
    OBVIOUS
  <2>2. f \in [DOMAIN f -> Stored]
    BY <2>1 DEF EntryInv
  <2>3. /\ DOMAIN g = DOMAIN f \union {q} /\ g[q] = e
        /\ \A p \in DOMAIN f : p # q => g[p] = f[p]
    BY <2>1 DEF With
  <2>4. g \in [DOMAIN g -> Stored]
    BY <2>1, <2>2, WithTyped
  <2>5. committed' = g
    BY <1>1, <2>1
  <2> QED
    BY <2>1, <2>3, <2>4, <2>5
<1>3. q[1] \in DOMAIN claims' /\ q[1] = call.claim /\ q[2] = Current
  BY <1>1, AtDeviceFacts
<1>4. UserConfig(claims'[q[1]]) = CurrentUser
  BY <1>3 DEF CurrentUser, CurrentRaws
<1>5. ASSUME NEW p \in DOMAIN committed'
      PROVE  /\ p[1] \in DOMAIN claims'
             /\ Wins(UserConfig(claims'[p[1]]), committed'[p])
             /\ p[2] \notin IBOnly => Applies(committed'[p])
             /\ Sourced(committed'[p])
  <2>1. CASE p = q
    BY <2>1, <1>2, <1>3, <1>4
  <2>2. CASE p # q
    <3>1. p \in DOMAIN committed /\ committed'[p] = committed[p]
      BY <2>2, <1>2
    <3> QED
      BY <3>1 DEF EntryInv
  <2> QED
    BY <2>1, <2>2
<1>6. DOMAIN committed' \subseteq Pairs
  BY <1>2 DEF EntryInv
<1> QED
  BY <1>2, <1>5, <1>6 DEF EntryInv

LEMMA ConfigInitInv == ConfigInit => ConfigInv
<1> SUFFICES ASSUME ConfigInit PROVE ConfigInv
  OBVIOUS
<1>1. providerConfig \in [Devices -> NetworkConfigs]
  BY ConfigAssumption DEF ConfigInit
<1>2. CacheInv
  <2>1. \A d \in Devices : Cacheable(providerConfig[d]) \in NetworkConfigs
    <3> SUFFICES ASSUME NEW d \in Devices PROVE Cacheable(providerConfig[d]) \in NetworkConfigs
      OBVIOUS
    <3>1. PICK c \in NetworkConfigs : c = providerConfig[d]
      BY <1>1
    <3>2. [c EXCEPT !.profile = ""] \in NetworkConfigs
      BY TableAssumption DEF NetworkConfigs
    <3> QED
      BY <3>1, <3>2 DEF Cacheable
  <2>2. DOMAIN Cached \subseteq Devices /\ Cached \in [DOMAIN Cached -> NetworkConfigs]
    BY <2>1 DEF Cached
  <2> QED
    BY <1>1, <2>2 DEF CacheInv, ConfigInit
<1>3. DOMAIN claims = {} /\ DOMAIN committed = {}
  BY DEF ConfigInit
<1>4. ClaimInv
  BY <1>3 DEF ConfigInit, ClaimInv
<1>5. CallInv
  BY DEF ConfigInit, CallInv, Idle
<1>6. EntryInv
  BY <1>3 DEF ConfigInit, EntryInv
<1> QED
  BY <1>2, <1>4, <1>5, <1>6 DEF ConfigInv

\* The merge of a call keeps the cache and the claims.
LEMMA MergesKeeps ==
  ASSUME CacheInv, ClaimInv, CallInv, NEW defaulted \in BOOLEAN, Merges(defaulted)
  PROVE  AtDevice /\ CacheInv' /\ ClaimInv' /\ claims' = claims
<1>1. AtDevice /\ claims' = claims /\ acked' = acked /\ providerConfig' = providerConfig
  BY DEF Merges, Unprepared, nodeVars
<1>2. ClaimInv'
  BY <1>1 DEF ClaimInv
<1>3. PICK u \in NetworkConfigs : u = CurrentUser
  BY <1>1, AtDeviceFacts
<1>4. deviceConfigStore' = CacheAfterMerge(Current, u, defaulted)
  BY <1>3 DEF Merges
<1>5. DOMAIN deviceConfigStore' \subseteq Devices /\ deviceConfigStore' \in [DOMAIN deviceConfigStore' -> NetworkConfigs]
  <2>1. CASE Current \in DOMAIN deviceConfigStore
    <3>1. PICK c \in NetworkConfigs : c = deviceConfigStore[Current]
      BY <2>1 DEF CacheInv
    <3>2. PICK w \in NetworkConfigs : w = After(u, c, defaulted)
      BY AfterIsConfig
    <3>3. deviceConfigStore' = [deviceConfigStore EXCEPT ![Current] = w]
      BY <1>4, <2>1, <3>1, <3>2 DEF CacheAfterMerge, After
    <3> QED
      BY <3>3 DEF CacheInv
  <2>2. CASE Current \notin DOMAIN deviceConfigStore
    BY <1>4, <2>2 DEF CacheAfterMerge, CacheInv
  <2> QED
    BY <2>1, <2>2
<1>6. CacheInv'
  BY <1>1, <1>5 DEF CacheInv
<1> QED
  BY <1>1, <1>2, <1>6

\* What a device of the running call is resolved to.
LEMMA ResolvedOfCall ==
  ASSUME CacheInv, ClaimInv, CallInv, AtDevice, NEW profile \in Profiles
  PROVE  /\ Resolved(Current, CurrentUser, profile) \in NetworkConfigs
         /\ Over(CurrentUser, Resolved(Current, CurrentUser, profile))
<1>1. PICK u \in NetworkConfigs : u = CurrentUser
  BY AtDeviceFacts
<1>2. profile \in NetworkConfigs
  BY EmptyIsConfig, ConfigAssumption DEF Profiles
<1> QED
  BY <1>1, <1>2, ResolvedIsOver

\* A device without a network interface is prepared, or refused.
LEMMA PrepareIBOnlyKeeps ==
  ASSUME ConfigInv, NEW profile \in Profiles, NEW persisted \in BOOLEAN, PrepareIBOnly(profile, persisted)
  PROVE  ConfigInv'
<1>1. CacheInv /\ ClaimInv /\ CallInv /\ EntryInv /\ Merges(profile.vrf = NoVRF)
  BY DEF ConfigInv, PrepareIBOnly, MergesAndDefaults
<1>2. AtDevice /\ CacheInv' /\ ClaimInv' /\ claims' = claims
  BY <1>1, MergesKeeps
<1>3. PICK ok \in BOOLEAN :
        /\ NextDevice(ok)
        /\ committed' = IF ok
              THEN With(committed, <<call.claim, Current>>,
                        [conf |-> Resolved(Current, CurrentUser, profile),
                         own |-> Len(Resolved(Current, CurrentUser, profile).routes)])
              ELSE committed
  BY DEF PrepareIBOnly
<1>4. CallInv'
  BY <1>1, <1>2, <1>3, NextDeviceKeepsCall
<1>5. EntryInv'
  <2>1. CASE ~ok
    BY <1>1, <1>2, <1>3, <2>1, SameEntries
  <2>2. CASE ok
    <3>1. PICK conf \in NetworkConfigs : conf = Resolved(Current, CurrentUser, profile) /\ Over(CurrentUser, conf)
      BY <1>1, <1>2, ResolvedOfCall
    <3>2. PICK e : e = [conf |-> conf, own |-> Len(conf.routes)]
      OBVIOUS
    <3>3. e \in Stored /\ Wins(CurrentUser, e) /\ Sourced(e)
      BY <1>1, <1>2, <3>1, <3>2, AsItIsWins, AtDeviceFacts
    <3>4. committed' = With(committed, <<call.claim, Current>>, e)
      BY <1>3, <2>2, <3>1, <3>2
    <3>5. Current \in IBOnly
      BY DEF PrepareIBOnly
    <3> QED
      BY <1>1, <1>2, <3>3, <3>4, <3>5, NewEntry
  <2> QED
    BY <2>1, <2>2
<1> QED
  BY <1>2, <1>4, <1>5 DEF ConfigInv

\* A network interface is prepared, or one of the last checks fails.
LEMMA PrepareDeviceKeeps ==
  ASSUME ConfigInv, NEW profile \in Profiles, NEW persisted \in BOOLEAN, PrepareDevice(profile, persisted)
  PROVE  ConfigInv'
<1>1. CacheInv /\ ClaimInv /\ CallInv /\ EntryInv
  BY DEF ConfigInv
<1>2. PICK conf, lease, done, taken, ok :
        /\ conf = Resolved(Current, CurrentUser, profile)
        /\ lease \in Leases(conf)
        /\ done = Completed(Current, conf, lease)
        /\ ok = (Numbered(done.conf) /\ ShareableRDMA(Current, conf) /\ persisted)
        /\ Reaches(profile, conf)
        /\ call' = [call EXCEPT !.at = @ + 1, !.failed = @ \/ ~ok, !.rules = @ \ taken]
        /\ committed' = IF ok THEN With(committed, <<call.claim, Current>>, done) ELSE committed
  BY DEF PrepareDevice
<1>3. Merges(profile.vrf = NoVRF) /\ Valid(conf)
  BY <1>2 DEF Reaches, MergesAndDefaults, AcceptMerged
<1>4. AtDevice /\ CacheInv' /\ ClaimInv' /\ claims' = claims
  BY <1>1, <1>3, MergesKeeps
<1>5. CallInv'
  <2>1. call \in [claim : Claims \union {NoCall}, at : Int, rules : SUBSET Int, failed : BOOLEAN]
    BY <1>1 DEF CallInv
  <2>2. PICK failed \in BOOLEAN, rules \in SUBSET Int : failed = (call.failed \/ ~ok) /\ rules = call.rules \ taken
    BY <2>1
  <2>3. call' = [call EXCEPT !.at = call.at + 1, !.failed = failed, !.rules = rules]
    BY <1>2, <2>1, <2>2
  <2> QED
    BY <1>1, <1>4, <2>2, <2>3, NextKeepsCall
<1>6. EntryInv'
  <2>1. CASE ~ok
    BY <1>1, <1>2, <1>4, <2>1, SameEntries
  <2>2. CASE ok
    <3>1. conf \in NetworkConfigs /\ Over(CurrentUser, conf)
      BY <1>1, <1>2, <1>4, ResolvedOfCall
    <3>2. /\ Current \in Devices /\ CurrentUser \in NetworkConfigs
          /\ CurrentUser.vrf # NoVRF => CurrentUser.vrf.name # "" /\ CurrentUser.vrf.table \notin {Nil, 0}
      BY <1>1, <1>4, AtDeviceFacts
    <3>3. Wins(CurrentUser, done)
      BY <1>2, <1>3, <3>1, <3>2, CompletedWins
    <3>4. Applies(done) /\ Sourced(done) /\ done \in Stored
      BY <1>2, <1>3, <2>2, <3>1, <3>2, CompletedApplies
    <3>5. committed' = With(committed, <<call.claim, Current>>, done)
      BY <1>2, <2>2
    <3> QED
      BY <1>1, <1>4, <3>3, <3>4, <3>5, NewEntry
  <2> QED
    BY <1>2, <2>1, <2>2
<1> QED
  BY <1>4, <1>5, <1>6 DEF ConfigInv

\* A claim that is new says nothing about the devices stored so far.
LEMMA ClaimArrivesKeeps ==
  ASSUME ConfigInv, NEW c \in Claims, c \notin DOMAIN claims, NEW raws \in RawConfigs, ClaimArrives(c, raws)
  PROVE  ConfigInv'
<1>1. CacheInv /\ ClaimInv /\ CallInv /\ EntryInv
  BY DEF ConfigInv
<1>2. /\ claims' = With(claims, c, raws) /\ providerConfig' = providerConfig
      /\ deviceConfigStore' = deviceConfigStore /\ call' = call /\ committed' = committed
      /\ acked' = acked
  BY DEF ClaimArrives, nodeVars
<1>3. /\ DOMAIN claims' = DOMAIN claims \union {c}
      /\ \A b \in DOMAIN claims : claims'[b] = claims[b]
  BY <1>2 DEF With
<1>4. claims' \in [DOMAIN claims' -> RawConfigs]
  <2>1. PICK f : f = claims
    OBVIOUS
  <2>2. With(f, c, raws) \in [DOMAIN With(f, c, raws) -> RawConfigs]
    BY <1>1, <2>1, WithTyped DEF ClaimInv
  <2> QED
    BY <1>2, <2>1, <2>2
<1>5. CacheInv'
  BY <1>1, <1>2 DEF CacheInv
<1>6. ClaimInv'
  BY <1>1, <1>2, <1>3, <1>4 DEF ClaimInv
<1>7. CallInv'
  BY <1>1, <1>2, <1>3 DEF CallInv
<1>8. EntryInv'
  <2>1. ASSUME NEW p \in DOMAIN committed
        PROVE  /\ p[1] \in DOMAIN claims'
               /\ Wins(UserConfig(claims'[p[1]]), committed[p])
               /\ p[2] \notin IBOnly => Applies(committed[p])
               /\ Sourced(committed[p])
    <3>1. p[1] \in DOMAIN claims
      BY <1>1 DEF EntryInv
    <3>2. p[1] \in DOMAIN claims' /\ claims'[p[1]] = claims[p[1]]
      BY <1>3, <3>1
    <3> QED
      BY <1>1, <3>2 DEF EntryInv
  <2>2. DOMAIN committed \subseteq Pairs /\ committed \in [DOMAIN committed -> Stored]
    BY <1>1 DEF EntryInv
  <2> QED
    BY <1>2, <2>1, <2>2 DEF EntryInv
<1> QED
  BY <1>5, <1>6, <1>7, <1>8 DEF ConfigInv

\* A claim goes with the devices stored for it.
LEMMA UnprepareKeeps ==
  ASSUME ConfigInv, NEW c \in Claims, Unprepare(c)
  PROVE  ConfigInv'
<1>1. CacheInv /\ ClaimInv /\ CallInv /\ EntryInv
  BY DEF ConfigInv
<1>2. /\ call = Idle /\ call' = call /\ providerConfig' = providerConfig
      /\ deviceConfigStore' = deviceConfigStore /\ acked' = acked \ {c}
      /\ claims' = [b \in DOMAIN claims \ {c} |-> claims[b]]
      /\ committed' = [p \in {q \in DOMAIN committed : q[1] # c} |-> committed[p]]
  BY DEF Unprepare, nodeVars
<1>3. /\ DOMAIN claims' = DOMAIN claims \ {c} /\ claims' \in [DOMAIN claims' -> RawConfigs]
      /\ \A b \in DOMAIN claims : b # c => claims'[b] = claims[b]
  BY <1>1, <1>2 DEF ClaimInv
<1>4. /\ DOMAIN committed' = {q \in DOMAIN committed : q[1] # c}
      /\ \A p \in DOMAIN committed' : committed'[p] = committed[p]
      /\ committed' \in [DOMAIN committed' -> Stored]
  BY <1>1, <1>2 DEF EntryInv
<1>5. CacheInv'
  BY <1>1, <1>2 DEF CacheInv
<1>6. ClaimInv'
  BY <1>1, <1>2, <1>3 DEF ClaimInv
<1>7. CallInv'
  BY <1>1, <1>2 DEF CallInv
<1>8. ASSUME NEW p \in DOMAIN committed'
      PROVE  /\ p \in Pairs /\ p[1] \in DOMAIN claims'
             /\ Wins(UserConfig(claims'[p[1]]), committed'[p])
             /\ p[2] \notin IBOnly => Applies(committed'[p])
             /\ Sourced(committed'[p])
  <2>1. p \in DOMAIN committed /\ p[1] # c /\ committed'[p] = committed[p]
    BY <1>4
  <2>2. p[1] \in DOMAIN claims'  /\ claims'[p[1]] = claims[p[1]]
    BY <1>1, <1>3, <2>1 DEF EntryInv
  <2> QED
    BY <1>1, <2>1, <2>2 DEF EntryInv
<1>9. EntryInv'
  BY <1>4, <1>8 DEF EntryInv
<1> QED
  BY <1>5, <1>6, <1>7, <1>9 DEF ConfigInv

LEMMA RuleTablesAreTables == GetRuleInfo \in SUBSET Int
<1>1. HostRules \in Seq(Rules)
  BY HostAssumption
<1>2. \A i \in DOMAIN HostRules : HostRules[i] \in Rules
  BY <1>1
<1>3. \A i \in DOMAIN HostRules : HostRules[i].table \in Int
  BY <1>2 DEF Rules
<1> QED
  BY <1>3 DEF GetRuleInfo

LEMMA ConfigStepInv == ConfigInv /\ [ConfigNext]_configVars => ConfigInv'
<1> SUFFICES ASSUME ConfigInv, [ConfigNext]_configVars PROVE ConfigInv'
  OBVIOUS
<1>0. CacheInv /\ ClaimInv /\ CallInv /\ EntryInv
  BY DEF ConfigInv
<1>1. CASE UpdateDeviceStore
  <2>1. /\ deviceConfigStore' = Cached /\ providerConfig' = providerConfig /\ claims' = claims
        /\ call' = call /\ committed' = committed /\ acked' = acked
    BY <1>1 DEF UpdateDeviceStore, nodeVars
  <2>2. CacheInv'
    BY <1>0, <2>1, CachedIsCache DEF CacheInv
  <2>3. ClaimInv' /\ CallInv'
    BY <1>0, <2>1 DEF ClaimInv, CallInv
  <2> QED
    BY <1>0, <2>1, <2>2, <2>3, SameEntries DEF ConfigInv
<1>2. ASSUME NEW c \in Claims \ DOMAIN claims, NEW raws \in RawConfigs, ClaimArrives(c, raws)
      PROVE  ConfigInv'
  BY <1>2, ClaimArrivesKeeps
<1>3. ASSUME NEW c \in Claims, BeginPrepare(c) PROVE ConfigInv'
  <2>1. /\ c \in DOMAIN claims /\ call' = [claim |-> c, at |-> 1, rules |-> GetRuleInfo, failed |-> FALSE]
        /\ deviceConfigStore' = deviceConfigStore /\ providerConfig' = providerConfig
        /\ claims' = claims /\ committed' = committed /\ acked' = acked
    BY <1>3 DEF BeginPrepare, nodeVars
  <2>2. CacheInv' /\ ClaimInv'
    BY <1>0, <2>1 DEF CacheInv, ClaimInv
  <2>3. CallInv'
    <3>1. call' \in [claim : Claims \union {NoCall}, at : Int, rules : SUBSET Int, failed : BOOLEAN]
      BY <2>1, RuleTablesAreTables
    <3>2. Len(ClaimDevices[c]) \in Nat
      <4>1. PICK s \in Seq(Devices) : s = ClaimDevices[c]
        BY ConfigAssumption
      <4> QED
        BY <4>1
    <3>3. call'.claim \in DOMAIN claims' /\ call'.at \in 1 .. Len(ClaimDevices[call'.claim]) + 1
      BY <2>1, <3>2
    <3> QED
      BY <3>1, <3>3 DEF CallInv
  <2> QED
    BY <1>0, <2>1, <2>2, <2>3, SameEntries DEF ConfigInv
<1>4. ASSUME NEW ok \in BOOLEAN, AtDevice, NextDevice(ok), UNCHANGED <<nodeVars, deviceConfigStore, claims, committed, acked>>
      PROVE  ConfigInv'
  <2>1. /\ deviceConfigStore' = deviceConfigStore /\ providerConfig' = providerConfig
        /\ claims' = claims /\ committed' = committed /\ acked' = acked
    BY <1>4 DEF nodeVars
  <2>2. CacheInv' /\ ClaimInv'
    BY <1>0, <2>1 DEF CacheInv, ClaimInv
  <2>3. CallInv'
    BY <1>0, <1>4, <2>1, NextDeviceKeepsCall
  <2> QED
    BY <1>0, <2>1, <2>2, <2>3, SameEntries DEF ConfigInv
<1>5. CASE ReusePrepared
  BY <1>4, <1>5 DEF ReusePrepared
<1>6. CASE RejectUserConfig
  BY <1>4, <1>6 DEF RejectUserConfig, Unprepared
<1>7. ASSUME NEW defaulted \in BOOLEAN, Merges(defaulted), NextDevice(FALSE), UNCHANGED committed
      PROVE  ConfigInv'
  <2>1. AtDevice /\ CacheInv' /\ ClaimInv' /\ claims' = claims
    BY <1>0, <1>7, MergesKeeps
  <2>2. CallInv'
    BY <1>0, <1>7, <2>1, NextDeviceKeepsCall
  <2> QED
    BY <1>0, <1>7, <2>1, <2>2, SameEntries DEF ConfigInv
<1>8. CASE ProfileFails
  BY <1>7, <1>8 DEF ProfileFails
<1>9. ASSUME NEW profile \in Profiles, RejectMerged(profile) PROVE ConfigInv'
  BY <1>7, <1>9 DEF RejectMerged, MergesAndDefaults
<1>10. ASSUME NEW profile \in Profiles, NEW persisted \in BOOLEAN, PrepareIBOnly(profile, persisted)
       PROVE  ConfigInv'
  BY <1>10, PrepareIBOnlyKeeps
<1>11. ASSUME NEW profile \in Profiles, HostFails(profile) PROVE ConfigInv'
  BY <1>7, <1>11 DEF HostFails, Reaches, MergesAndDefaults
<1>12. ASSUME NEW profile \in Profiles, NEW persisted \in BOOLEAN, PrepareDevice(profile, persisted)
       PROVE  ConfigInv'
  BY <1>12, PrepareDeviceKeeps
<1>13. CASE FinishPrepare
  <2>1. /\ call # Idle /\ call' = Idle /\ deviceConfigStore' = deviceConfigStore
        /\ providerConfig' = providerConfig /\ claims' = claims /\ committed' = committed
        /\ acked' \subseteq acked \union {call.claim}
    BY <1>13 DEF FinishPrepare, nodeVars
  <2>2. CacheInv'
    BY <1>0, <2>1 DEF CacheInv
  <2>3. ClaimInv'
    BY <1>0, <2>1 DEF ClaimInv, CallInv
  <2>4. CallInv'
    BY <2>1 DEF CallInv, Idle
  <2> QED
    BY <1>0, <2>1, <2>2, <2>3, <2>4, SameEntries DEF ConfigInv
<1>14. ASSUME NEW c \in Claims, Unprepare(c) PROVE ConfigInv'
  BY <1>14, UnprepareKeeps
<1>15. CASE UNCHANGED configVars
  <2>1. /\ deviceConfigStore' = deviceConfigStore /\ providerConfig' = providerConfig
        /\ claims' = claims /\ committed' = committed /\ acked' = acked /\ call' = call
    BY <1>15 DEF configVars
  <2>2. CacheInv' /\ ClaimInv' /\ CallInv'
    BY <1>0, <2>1 DEF CacheInv, ClaimInv, CallInv
  <2> QED
    BY <1>0, <2>1, <2>2, SameEntries DEF ConfigInv
<1> QED
  BY <1>1, <1>2, <1>3, <1>5, <1>6, <1>8, <1>9, <1>10, <1>11, <1>12, <1>13, <1>14, <1>15 DEF ConfigNext

LEMMA ConfigAlways == ConfigSpec => []ConfigInv
BY ConfigInitInv, ConfigStepInv, PTL DEF ConfigSpec

\* prepareDevice: what the user's claim says survives the merges with whatever
\* the provider and the profile answer, and what the host adds.
THEOREM UserAlwaysWins == ConfigSpec => []UserWins
<1>1. ConfigInv => UserWins
  <2> SUFFICES ASSUME ConfigInv, NEW p \in DOMAIN committed
               PROVE  LET user == UserConfig(claims[p[1]])
                          conf == committed[p].conf
                          keys == {RouteKey(r) : r \in ToSet(user.routes)}
                      IN
                      /\ \A f \in Scalars : user.scalars[f] \notin {Nil, 0} => conf.scalars[f] = user.scalars[f]
                      /\ user.scalars["addrGenMode"] # Nil => conf.scalars["addrGenMode"] = user.scalars["addrGenMode"]
                      /\ user.type # "" => conf.type = user.type
                      /\ user.vrf # NoVRF => conf.vrf = user.vrf
                      /\ ToSet(user.addresses) \subseteq ToSet(conf.addresses)
                      /\ ToSet(user.rules) \subseteq ToSet(conf.rules)
                      /\ \A n \in ToSet(user.neighbors) :
                           \E m \in ToSet(user.neighbors) \intersect ToSet(conf.neighbors) : m.dst = n.dst
                      /\ keys \subseteq {RouteKey(r) : r \in ToSet(OwnRoutes(p))}
                      /\ conf.addressing # "DHCP" =>
                           \A r \in ToSet(OwnRoutes(p)) : RouteKey(r) \in keys => r \in ToSet(user.routes)
    BY DEF UserWins
  <2>1. PICK user, e : user = UserConfig(claims[p[1]]) /\ e = committed[p]
    OBVIOUS
  <2>2. Wins(user, e)
    BY <2>1 DEF ConfigInv, EntryInv
  <2>3. OwnRoutes(p) = Own(e)
    BY <2>1 DEF OwnRoutes, Own
  <2> QED
    BY <2>1, <2>2, <2>3 DEF Wins, KeysOf
<1> QED
  BY <1>1, ConfigAlways, PTL

\* getDeviceNetworkConfig validates before the host's state is added, and what is
\* stored can nevertheless be applied.
THEOREM CommittedAlwaysApplies == ConfigSpec => []CommittedApplies
<1>1. ConfigInv => CommittedApplies
  <2> SUFFICES ASSUME ConfigInv, NEW p \in DOMAIN committed, p[2] \notin IBOnly
               PROVE  LET conf == committed[p].conf IN
                      /\ conf.vrf # NoVRF => conf.rules = <<>> /\ ValidVRF(conf.vrf)
                      /\ ValidAddresses(conf.addresses)
                      /\ IsSubinterface(conf) => (conf.addresses = <<>>) = (conf.addressing = "Unnumbered")
                      /\ conf.addressing = "DHCP" => Len(conf.addresses) = 1 /\ ~IsSubinterface(conf)
                      /\ ValidRoutes(OwnRoutes(p))
                      /\ (conf.scalars["addrGenMode"] # Nil \/ conf.scalars["acceptRA"] # Nil)
                           /\ conf.scalars["mtu"] # Nil => conf.scalars["mtu"] >= MinIPv6MTU
    BY DEF CommittedApplies
  <2>1. PICK e : e = committed[p]
    OBVIOUS
  <2>2. Applies(e)
    BY <2>1 DEF ConfigInv, EntryInv
  <2>3. OwnRoutes(p) = Own(e)
    BY <2>1 DEF OwnRoutes, Own
  <2> QED
    BY <2>1, <2>2, <2>3 DEF Applies
<1> QED
  BY <1>1, ConfigAlways, PTL

\* clearStaleRouteSources: no stored route from the host prefers a source that
\* the pod's interface does not have.
THEOREM CopiedSourcesAlwaysLocal == ConfigSpec => []CopiedSourcesAreLocal
<1>1. ConfigInv => CopiedSourcesAreLocal
  BY DEF ConfigInv, EntryInv, Sourced, CopiedSourcesAreLocal
<1> QED
  BY <1>1, ConfigAlways, PTL

----------------------------------------------------------------------------
(* The rules of the host follow the routes.                                *)

----------------------------------------------------------------------------
(* Calls that are repeated.                                                *)

AckedInv ==
  \A c \in acked : \A d \in ToSet(ClaimDevices[c]) : <<c, d>> \in DOMAIN committed

\* A call that has not failed has stored the devices it passed, and the repeated
\* call of a claim that is prepared has not failed.
PassedInv ==
  call # Idle =>
    /\ ~call.failed => \A i \in 1 .. call.at - 1 :
         <<call.claim, ClaimDevices[call.claim][i]>> \in DOMAIN committed
    /\ call.claim \in acked => ~call.failed

PreparedInv == AckedInv /\ PassedInv

\* What a prepared claim keeps in a step.
Keeps ==
  \A c \in acked : c \in DOMAIN claims' =>
    /\ c \in acked'
    /\ \A d \in ToSet(ClaimDevices[c]) :
         /\ <<c, d>> \in DOMAIN committed /\ <<c, d>> \in DOMAIN committed'
         /\ committed'[<<c, d>>] = committed[<<c, d>>]

\* The call goes on from a device, which is stored if there was no error.
Passes(ok) ==
  /\ AtDevice /\ claims' = claims /\ acked' = acked
  /\ call'.claim = call.claim /\ call'.at = call.at + 1 /\ (call'.failed <=> call.failed \/ ~ok)
  /\ DOMAIN committed \subseteq DOMAIN committed'
  /\ \A p \in DOMAIN committed : committed'[p] = committed[p]
  /\ ok => <<call.claim, Current>> \in DOMAIN committed'
  /\ ~ok => <<call.claim, Current>> \notin DOMAIN committed

LEMMA PassesKeeps ==
  ASSUME ConfigInv, PreparedInv, NEW ok \in BOOLEAN, Passes(ok)
  PROVE  PreparedInv' /\ Keeps
<1>1. CallInv /\ ClaimInv /\ AtDevice /\ AckedInv /\ PassedInv
  BY DEF ConfigInv, PreparedInv, Passes
<1>2. PICK c, at, s : c = call.claim /\ at = call.at /\ s = ClaimDevices[c]
  OBVIOUS
<1>3. s \in Seq(Devices) /\ at \in 1 .. Len(s) /\ c \in DOMAIN claims
  <2>1. c \in Claims /\ c \in DOMAIN claims
    BY <1>1, <1>2 DEF CallInv, ClaimInv, AtDevice
  <2>2. s \in Seq(Devices)
    BY <1>2, <2>1, ConfigAssumption
  <2>3. at \in 1 .. Len(s) + 1 /\ at <= Len(s) /\ Len(s) \in Nat
    BY <1>1, <1>2, <2>2 DEF CallInv, AtDevice
  <2> QED
    BY <2>1, <2>2, <2>3
<1>4. Current = s[at] /\ s[at] \in ToSet(s)
  <2>1. Current = s[at]
    BY <1>2 DEF Current
  <2>2. s[at] \in ToSet(s)
    BY <1>3 DEF ToSet
  <2> QED
    BY <2>1, <2>2
<1>5. Keeps
  BY <1>1 DEF Keeps, Passes, AckedInv
<1>6. AckedInv'
  BY <1>1 DEF Passes, AckedInv
<1>7. PassedInv'
  <2>1. ASSUME ~call'.failed, NEW i \in 1 .. call'.at - 1
        PROVE  <<c, s[i]>> \in DOMAIN committed'
    <3>1. ~call.failed /\ ok
      BY <2>1 DEF Passes
    <3>2. i \in 1 .. at - 1 \/ i = at
      BY <1>2, <1>3, <2>1 DEF Passes
    <3>3. CASE i \in 1 .. at - 1
      BY <1>1, <1>2, <3>1, <3>3 DEF PassedInv, Passes, AtDevice
    <3>4. CASE i = at
      BY <1>2, <1>4, <3>1, <3>4 DEF Passes
    <3> QED
      BY <3>2, <3>3, <3>4
  <2>2. ASSUME c \in acked' PROVE ~call'.failed
    <3>1. <<c, Current>> \in DOMAIN committed
      BY <1>1, <1>2, <1>4, <2>2 DEF AckedInv, Passes
    <3>2. ~call.failed /\ ok
      BY <1>1, <1>2, <2>2, <3>1 DEF PassedInv, Passes, AtDevice
    <3> QED
      BY <3>2 DEF Passes
  <2>3. call'.claim = c
    BY <1>2 DEF Passes
  <2> QED
    BY <1>2, <2>1, <2>2, <2>3 DEF PassedInv
<1> QED
  BY <1>5, <1>6, <1>7 DEF PreparedInv

\* No call goes on, nothing is stored or forgotten.
LEMMA SamePrepared ==
  ASSUME PreparedInv, call' = call, committed' = committed, acked' = acked
  PROVE  PreparedInv' /\ Keeps
BY DEF PreparedInv, AckedInv, PassedInv, Keeps

\* The steps of a call at a device.
LEMMA StoresOrNot ==
  ASSUME ConfigInv, Unprepared, NEW ok \in BOOLEAN, NEW e, claims' = claims, acked' = acked,
         call'.claim = call.claim, call'.at = call.at + 1, call'.failed <=> call.failed \/ ~ok,
         committed' = IF ok THEN With(committed, <<call.claim, Current>>, e) ELSE committed
  PROVE  Passes(ok)
<1>1. AtDevice /\ <<call.claim, Current>> \notin DOMAIN committed
  BY DEF Unprepared
<1>2. CASE ok
  BY <1>1, <1>2 DEF Passes, With
<1>3. CASE ~ok
  BY <1>1, <1>3 DEF Passes
<1> QED
  BY <1>2, <1>3

LEMMA NextDevicePasses ==
  ASSUME ConfigInv, NEW ok \in BOOLEAN, NextDevice(ok)
  PROVE  call'.claim = call.claim /\ call'.at = call.at + 1 /\ (call'.failed <=> call.failed \/ ~ok)
BY DEF ConfigInv, CallInv, NextDevice

LEMMA PreparedStep ==
  ASSUME ConfigInv, PreparedInv, [ConfigNext]_configVars
  PROVE  PreparedInv' /\ Keeps
<1>0. CallInv /\ ClaimInv /\ AckedInv /\ PassedInv
  BY DEF ConfigInv, PreparedInv
<1>1. CASE UpdateDeviceStore
  BY <1>1, SamePrepared DEF UpdateDeviceStore
<1>2. ASSUME NEW c \in Claims \ DOMAIN claims, NEW raws \in RawConfigs, ClaimArrives(c, raws)
      PROVE  PreparedInv' /\ Keeps
  BY <1>2, SamePrepared DEF ClaimArrives
<1>3. ASSUME NEW c \in Claims, BeginPrepare(c) PROVE PreparedInv' /\ Keeps
  <2>1. /\ call' = [claim |-> c, at |-> 1, rules |-> GetRuleInfo, failed |-> FALSE]
        /\ committed' = committed /\ acked' = acked
    BY <1>3 DEF BeginPrepare
  <2>2. AckedInv' /\ Keeps
    BY <1>0, <2>1 DEF AckedInv, Keeps
  <2>3. 1 .. call'.at - 1 = {} /\ ~call'.failed
    BY <2>1
  <2> QED
    BY <2>2, <2>3 DEF PreparedInv, PassedInv
<1>4. CASE ReusePrepared
  <2>1. /\ AtDevice /\ <<call.claim, Current>> \in DOMAIN committed /\ NextDevice(TRUE)
        /\ claims' = claims /\ committed' = committed /\ acked' = acked
    BY <1>4 DEF ReusePrepared
  <2>2. Passes(TRUE)
    BY <2>1, NextDevicePasses DEF Passes
  <2> QED
    BY <2>2, PassesKeeps
<1>5. ASSUME Unprepared, NextDevice(FALSE), claims' = claims, committed' = committed, acked' = acked
      PROVE  PreparedInv' /\ Keeps
  <2>1. Passes(FALSE)
    BY <1>5, NextDevicePasses DEF Passes, Unprepared
  <2> QED
    BY <2>1, PassesKeeps
<1>6. CASE RejectUserConfig
  BY <1>5, <1>6 DEF RejectUserConfig
<1>7. ASSUME NEW defaulted \in BOOLEAN, Merges(defaulted), NextDevice(FALSE), UNCHANGED committed
      PROVE  PreparedInv' /\ Keeps
  BY <1>5, <1>7 DEF Merges
<1>8. CASE ProfileFails
  BY <1>7, <1>8 DEF ProfileFails
<1>9. ASSUME NEW profile \in Profiles, RejectMerged(profile) PROVE PreparedInv' /\ Keeps
  BY <1>7, <1>9 DEF RejectMerged, MergesAndDefaults
<1>10. ASSUME NEW profile \in Profiles, HostFails(profile) PROVE PreparedInv' /\ Keeps
  BY <1>7, <1>10 DEF HostFails, Reaches, MergesAndDefaults
<1>11. ASSUME NEW profile \in Profiles, NEW persisted \in BOOLEAN, PrepareIBOnly(profile, persisted)
       PROVE  PreparedInv' /\ Keeps
  <2>1. PICK ok, e :
          /\ ok \in BOOLEAN /\ NextDevice(ok)
          /\ committed' = IF ok THEN With(committed, <<call.claim, Current>>, e) ELSE committed
    BY <1>11 DEF PrepareIBOnly
  <2>2. Unprepared /\ claims' = claims /\ acked' = acked
    BY <1>11 DEF PrepareIBOnly, MergesAndDefaults, Merges
  <2>3. call'.claim = call.claim /\ call'.at = call.at + 1 /\ (call'.failed <=> call.failed \/ ~ok)
    BY <2>1, NextDevicePasses
  <2>4. Passes(ok)
    BY <2>1, <2>2, <2>3, StoresOrNot
  <2> QED
    BY <2>1, <2>4, PassesKeeps
<1>12. ASSUME NEW profile \in Profiles, NEW persisted \in BOOLEAN, PrepareDevice(profile, persisted)
       PROVE  PreparedInv' /\ Keeps
  <2>1. PICK conf, done, taken, ok :
          /\ ok = (Numbered(done.conf) /\ ShareableRDMA(Current, conf) /\ persisted)
          /\ Reaches(profile, conf)
          /\ call' = [call EXCEPT !.at = @ + 1, !.failed = @ \/ ~ok, !.rules = @ \ taken]
          /\ committed' = IF ok THEN With(committed, <<call.claim, Current>>, done) ELSE committed
    BY <1>12 DEF PrepareDevice
  <2>2. Unprepared /\ claims' = claims /\ acked' = acked
    BY <2>1 DEF Reaches, MergesAndDefaults, Merges
  <2>3. ok \in BOOLEAN
    BY <2>1
  <2>4. call'.claim = call.claim /\ call'.at = call.at + 1 /\ (call'.failed <=> call.failed \/ ~ok)
    <3>1. call \in [claim : Claims \union {NoCall}, at : Int, rules : SUBSET Int, failed : BOOLEAN]
      BY <1>0 DEF CallInv
    <3>2. call'.claim = call.claim /\ call'.at = call.at + 1
      BY <2>1, <3>1
    <3>3. call'.failed = (call.failed \/ ~ok)
      BY <2>1, <3>1
    <3> QED
      BY <3>2, <3>3
  <2>5. Passes(ok)
    BY <2>1, <2>2, <2>3, <2>4, StoresOrNot
  <2> QED
    BY <2>3, <2>5, PassesKeeps
<1>13. CASE FinishPrepare
  <2>1. /\ call # Idle /\ call' = Idle /\ claims' = claims /\ committed' = committed
        /\ call.at > Len(ClaimDevices[call.claim])
        /\ acked' = IF call.failed THEN acked \ {call.claim} ELSE acked \union {call.claim}
    BY <1>13 DEF FinishPrepare
  <2>2. acked \subseteq acked'
    BY <1>0, <2>1 DEF PassedInv
  <2>3. Keeps
    BY <1>0, <2>1, <2>2 DEF Keeps, AckedInv
  <2>4. ASSUME NEW c \in acked', NEW d \in ToSet(ClaimDevices[c]) PROVE <<c, d>> \in DOMAIN committed
    <3>1. CASE c \in acked
      BY <1>0, <3>1 DEF AckedInv
    <3>2. CASE c \notin acked
      <4>1. c = call.claim /\ ~call.failed
        BY <2>1, <2>4, <3>2
      <4>2. PICK s \in Seq(Devices) : s = ClaimDevices[c]
        BY <1>0, <2>1, <4>1, ConfigAssumption DEF CallInv, ClaimInv
      <4>3. PICK i \in 1 .. Len(s) : d = s[i]
        BY <4>2 DEF ToSet
      <4>4. i \in 1 .. call.at - 1
        BY <1>0, <2>1, <4>1, <4>2 DEF CallInv
      <4> QED
        BY <1>0, <2>1, <4>1, <4>2, <4>3, <4>4 DEF PassedInv
    <3> QED
      BY <3>1, <3>2
  <2>5. AckedInv'
    BY <2>1, <2>4 DEF AckedInv
  <2>6. PassedInv'
    BY <2>1 DEF PassedInv
  <2> QED
    BY <2>3, <2>5, <2>6 DEF PreparedInv
<1>14. ASSUME NEW c \in Claims, Unprepare(c) PROVE PreparedInv' /\ Keeps
  <2>1. /\ call = Idle /\ call' = call /\ acked' = acked \ {c}
        /\ claims' = [b \in DOMAIN claims \ {c} |-> claims[b]]
        /\ committed' = [p \in {q \in DOMAIN committed : q[1] # c} |-> committed[p]]
    BY <1>14 DEF Unprepare
  <2>2. /\ DOMAIN committed' = {q \in DOMAIN committed : q[1] # c}
        /\ \A p \in DOMAIN committed' : committed'[p] = committed[p]
        /\ c \notin DOMAIN claims'
    BY <2>1
  <2>3. ASSUME NEW b \in acked, b # c, NEW d \in ToSet(ClaimDevices[b])
        PROVE  <<b, d>> \in DOMAIN committed /\ <<b, d>> \in DOMAIN committed'
    BY <1>0, <2>2, <2>3 DEF AckedInv
  <2>4. AckedInv'
    BY <2>1, <2>3 DEF AckedInv
  <2>5. Keeps
    BY <2>1, <2>2, <2>3 DEF Keeps
  <2> QED
    BY <2>1, <2>4, <2>5 DEF PreparedInv, PassedInv
<1>15. CASE UNCHANGED configVars
  BY <1>15, SamePrepared DEF configVars
<1> QED
  BY <1>1, <1>2, <1>3, <1>4, <1>6, <1>8, <1>9, <1>10, <1>11, <1>12, <1>13, <1>14, <1>15 DEF ConfigNext

\* prepareResourceClaim and prepareDevice: once a call for a claim returned no
\* error, all of its devices are stored, and a repeated call succeeds and leaves
\* them as they are, whatever has become of the host, the disk or the inventory.
THEOREM PreparedAlwaysStays == ConfigSpec => PreparedStaysPrepared
<1>1. ConfigInit => PreparedInv
  BY DEF ConfigInit, PreparedInv, AckedInv, PassedInv
<1>2. ConfigInv /\ PreparedInv /\ [ConfigNext]_configVars => PreparedInv' /\ [Keeps]_configVars
  BY PreparedStep
<1>3. [Keeps]_configVars => [\A c \in acked : c \in DOMAIN claims' =>
       /\ c \in acked'
       /\ \A d \in ToSet(ClaimDevices[c]) :
            /\ <<c, d>> \in DOMAIN committed /\ <<c, d>> \in DOMAIN committed'
            /\ committed'[<<c, d>>] = committed[<<c, d>>]]_configVars
  BY DEF Keeps
<1> QED
  BY <1>1, <1>2, <1>3, ConfigAlways, PTL DEF ConfigSpec, PreparedStaysPrepared

----------------------------------------------------------------------------
(* The rules of a table.                                                   *)

\* What the profile answers when it is asked again makes no other interface of a
\* device, and a claim has a device once.
ProfilesAgree ==
  \A a, b \in ProfileConfigs : a.type = b.type /\ (a.vrf = NoVRF <=> b.vrf = NoVRF)
DevicesOnce ==
  \A c \in Claims : \A i, j \in DOMAIN ClaimDevices[c] : ClaimDevices[c][i] = ClaimDevices[c][j] => i = j

\* What the provider says of a device when nothing was written through.
Cloud(d) == IF d \in DOMAIN Cached THEN Cached[d] ELSE EmptyConfig
Asked(d, user) == Override(user.profile, Cloud(d).profile, {""})
TypeWith(d, user, profile) ==
  LET t == Override(user.type, Cloud(d).type, {""})
  IN  IF Asked(d, user) # "" THEN Override(t, profile.type, {""}) ELSE t
BareWith(d, user, profile) ==
  /\ user.vrf = NoVRF /\ Cloud(d).vrf = NoVRF
  /\ Asked(d, user) # "" => profile.vrf = NoVRF

\* The device is the pod's as a whole and in no VRF, whenever it is resolved.
Plain(d, user) ==
  \A profile \in IF Asked(d, user) = "" THEN {EmptyConfig} ELSE ProfileConfigs :
    TypeWith(d, user, profile) # "IPVLAN" /\ BareWith(d, user, profile)

\* A device of the claim that the rules of table t are with, or will be when it
\* is prepared.
Carries(c, d, t) ==
  /\ d \in Devices /\ d \notin IBOnly /\ Plain(d, UserConfig(claims[c]))
  /\ t \in RouteTables(GetRouteInfo(d))
  /\ <<c, d>> \in DOMAIN committed => HasRules(committed[<<c, d>>], t)

\* What a merge writes through does not change what interface a device becomes.
RoleInv ==
  /\ DOMAIN deviceConfigStore = DOMAIN Cached
  /\ \A d \in DOMAIN deviceConfigStore :
       /\ deviceConfigStore[d].type = Cached[d].type
       /\ deviceConfigStore[d].profile = Cached[d].profile
       /\ deviceConfigStore[d].vrf = NoVRF <=> Cached[d].vrf = NoVRF

\* The tables of a stored device's copied routes have a carrier.
Carried(p) ==
  p[2] \notin IBOnly /\ committed[p].conf.vrf = NoVRF =>
    \A i \in DOMAIN committed[p].conf.routes :
      i > committed[p].own /\ committed[p].conf.routes[i].table \in GetRuleInfo =>
        \E d \in ToSet(ClaimDevices[p[1]]) : Carries(p[1], d, committed[p].conf.routes[i].table)

\* So have the tables whose rules the running call has given away, among the
\* devices it has passed.
TakenInv ==
  call # Idle =>
    /\ \A t \in GetRuleInfo \ call.rules : \E i \in 1 .. call.at - 1 :
         Carries(call.claim, ClaimDevices[call.claim][i], t)
    /\ ~call.failed => \A i \in 1 .. call.at - 1 :
         <<call.claim, ClaimDevices[call.claim][i]>> \in DOMAIN committed

RulesInv == RoleInv /\ TakenInv /\ AckedInv /\ \A p \in DOMAIN committed : Carried(p)

\* What interface a merge makes of two configurations.
LEMMA MergedRole ==
  ASSUME NEW u \in NetworkConfigs, NEW c \in NetworkConfigs
  PROVE  /\ MergeNetworkConfig(u, c).profile = Override(u.profile, c.profile, {""})
         /\ MergeNetworkConfig(u, c).type = Override(u.type, c.type, {""})
         /\ MergeNetworkConfig(u, c).vrf = NoVRF <=> u.vrf = NoVRF /\ c.vrf = NoVRF
<1>1. /\ u.vrf \in [name : DOMAIN TableHash \union {""}, table : Int]
      /\ c.vrf \in [name : DOMAIN TableHash \union {""}, table : Int]
  BY DEF NetworkConfigs
<1>2. MergeVRF(u.vrf, c.vrf) = NoVRF <=> u.vrf = NoVRF /\ c.vrf = NoVRF
  BY <1>1, VRFsMerged
<1> QED
  BY <1>2 DEF MergeNetworkConfig

LEMMA DefaultRole ==
  ASSUME NEW m \in NetworkConfigs
  PROVE  Default(m).type = m.type /\ (Default(m).vrf = NoVRF <=> m.vrf = NoVRF)
<1>1. PICK v \in [name : DOMAIN TableHash \union {""}, table : Int] : v = m.vrf
  BY DEF NetworkConfigs
<1>2. Default(m).type = m.type /\ Default(m).vrf = DefaultVRF(v)
  BY <1>1 DEF Default, NetworkConfigs
<1> QED
  BY <1>1, <1>2, DefaultedVRF

LEMMA WrittenRole ==
  ASSUME NEW u \in NetworkConfigs, NEW c \in NetworkConfigs
  PROVE  /\ WrittenThrough(u, c).type = c.type /\ WrittenThrough(u, c).profile = c.profile
         /\ WrittenThrough(u, c).vrf = NoVRF <=> c.vrf = NoVRF
<1>1. /\ u.vrf \in [name : DOMAIN TableHash \union {""}, table : Int]
      /\ c.vrf \in [name : DOMAIN TableHash \union {""}, table : Int]
  BY DEF NetworkConfigs
<1>2. MergeVRF(u.vrf, c.vrf) = NoVRF => c.vrf = NoVRF
  BY <1>1, VRFsMerged
<1>3. /\ WrittenThrough(u, c).type = c.type /\ WrittenThrough(u, c).profile = c.profile
      /\ WrittenThrough(u, c).vrf = IF c.vrf = NoVRF THEN NoVRF ELSE MergeVRF(u.vrf, c.vrf)
  BY DEF WrittenThrough, NetworkConfigs
<1> QED
  BY <1>2, <1>3

\* What interface a claim, the cache and the profile make of a device.
LEMMA ResolvedRole ==
  ASSUME CacheInv, RoleInv, NEW d \in Devices, NEW user \in NetworkConfigs, NEW profile \in NetworkConfigs
  PROVE  /\ WithProvider(d, user).profile = Asked(d, user)
         /\ Resolved(d, user, profile).type = TypeWith(d, user, profile)
         /\ Resolved(d, user, profile).vrf = NoVRF <=> BareWith(d, user, profile)
<1>1. PICK w : w = WithProvider(d, user)
  OBVIOUS
<1>2. PICK cloud : cloud = Cloud(d)
  OBVIOUS
<1>3. /\ w \in NetworkConfigs /\ w.profile = Override(user.profile, cloud.profile, {""})
      /\ w.type = Override(user.type, cloud.type, {""})
      /\ w.vrf = NoVRF <=> user.vrf = NoVRF /\ cloud.vrf = NoVRF
  <2>1. CASE d \in DOMAIN deviceConfigStore
    <3>1. PICK c \in NetworkConfigs : c = deviceConfigStore[d]
      BY <2>1 DEF CacheInv
    <3>2. w = MergeNetworkConfig(user, c)
      BY <1>1, <2>1, <3>1 DEF WithProvider
    <3>3. w \in NetworkConfigs
      BY <3>2, MergeIsOver
    <3>4. cloud.profile = c.profile /\ cloud.type = c.type /\ (cloud.vrf = NoVRF <=> c.vrf = NoVRF)
      BY <1>2, <2>1, <3>1 DEF Cloud, RoleInv
    <3> QED
      BY <3>2, <3>3, <3>4, MergedRole
  <2>2. CASE d \notin DOMAIN deviceConfigStore
    <3>1. w = user /\ cloud = EmptyConfig
      BY <1>1, <1>2, <2>2 DEF WithProvider, Cloud, RoleInv
    <3>2. cloud.profile = "" /\ cloud.type = "" /\ cloud.vrf = NoVRF
      BY <3>1 DEF EmptyConfig
    <3> QED
      BY <3>1, <3>2 DEF Override
  <2> QED
    BY <2>1, <2>2
<1>4. PICK m : m = IF w.profile # "" THEN MergeNetworkConfig(w, profile) ELSE w
  OBVIOUS
<1>5. /\ m \in NetworkConfigs
      /\ m.type = IF w.profile # "" THEN Override(w.type, profile.type, {""}) ELSE w.type
      /\ m.vrf = NoVRF <=> w.vrf = NoVRF /\ (w.profile # "" => profile.vrf = NoVRF)
  BY <1>3, <1>4, MergeIsOver, MergedRole
<1>6. Resolved(d, user, profile) = Default(m)
  BY <1>1, <1>4 DEF Resolved
<1>7. Default(m).type = m.type /\ (Default(m).vrf = NoVRF <=> m.vrf = NoVRF)
  BY <1>5, DefaultRole
<1>8. w.profile = Asked(d, user)
  BY <1>2, <1>3 DEF Asked
<1> QED
  BY <1>1, <1>2, <1>3, <1>5, <1>6, <1>7, <1>8 DEF TypeWith, BareWith

\* The running call resolves its device to an interface that needs the rules of
\* its tables exactly when any other call would.
LEMMA PlainOfCall ==
  ASSUME ConfigInv, RoleInv, ProfilesAgree, AtDevice, NEW profile \in Profiles,
         NEW conf, conf = Resolved(Current, CurrentUser, profile)
  PROVE  Plain(Current, CurrentUser) <=> ~IsSubinterface(conf) /\ conf.vrf = NoVRF
<1>1. CacheInv /\ ClaimInv /\ CallInv
  BY DEF ConfigInv
<1>2. PICK d \in Devices, u \in NetworkConfigs : d = Current /\ u = CurrentUser
  BY <1>1, AtDeviceFacts
<1>3. profile \in NetworkConfigs
  BY EmptyIsConfig, ConfigAssumption DEF Profiles
<1>4. /\ WithProvider(d, u).profile = Asked(d, u)
      /\ conf.type = TypeWith(d, u, profile)
      /\ conf.vrf = NoVRF <=> BareWith(d, u, profile)
  BY <1>1, <1>2, <1>3, ResolvedRole
<1>5. profile \in IF Asked(d, u) = "" THEN {EmptyConfig} ELSE ProfileConfigs
  BY <1>2, <1>4 DEF Profiles
<1>6. \A other \in IF Asked(d, u) = "" THEN {EmptyConfig} ELSE ProfileConfigs :
        /\ TypeWith(d, u, other) = TypeWith(d, u, profile)
        /\ BareWith(d, u, other) <=> BareWith(d, u, profile)
  <2> SUFFICES ASSUME NEW other \in IF Asked(d, u) = "" THEN {EmptyConfig} ELSE ProfileConfigs
               PROVE  /\ TypeWith(d, u, other) = TypeWith(d, u, profile)
                      /\ BareWith(d, u, other) <=> BareWith(d, u, profile)
    OBVIOUS
  <2>1. other.type = profile.type /\ (other.vrf = NoVRF <=> profile.vrf = NoVRF)
    BY <1>5 DEF ProfilesAgree
  <2> QED
    BY <2>1 DEF TypeWith, BareWith
<1>7. Plain(d, u) <=> TypeWith(d, u, profile) # "IPVLAN" /\ BareWith(d, u, profile)
  <2>1. PICK S : S = IF Asked(d, u) = "" THEN {EmptyConfig} ELSE ProfileConfigs
    OBVIOUS
  <2>2. Plain(d, u) <=> \A other \in S : TypeWith(d, u, other) # "IPVLAN" /\ BareWith(d, u, other)
    BY <2>1 DEF Plain
  <2>3. profile \in S /\ \A other \in S : /\ TypeWith(d, u, other) = TypeWith(d, u, profile)
                                        /\ BareWith(d, u, other) <=> BareWith(d, u, profile)
    BY <1>5, <1>6, <2>1
  <2> QED
    BY <2>2, <2>3
<1> QED
  BY <1>2, <1>4, <1>7 DEF IsSubinterface

LEMMA RoleStep ==
  ASSUME ConfigInv, RoleInv, nodeVars' = nodeVars,
         deviceConfigStore' = deviceConfigStore \/ deviceConfigStore' = Cached \/ \E b \in BOOLEAN : Merges(b)
  PROVE  RoleInv' /\ Cached' = Cached
<1>1. Cached' = Cached
  <2>1. providerConfig' = providerConfig /\ profileProvider' = profileProvider
    BY DEF nodeVars
  <2> QED
    BY <2>1 DEF Cached, Cacheable
<1>2. CASE deviceConfigStore' = deviceConfigStore \/ deviceConfigStore' = Cached
  BY <1>1, <1>2 DEF RoleInv
<1>3. ASSUME NEW defaulted \in BOOLEAN, Merges(defaulted) PROVE RoleInv'
  <2>1. CacheInv /\ ClaimInv /\ CallInv /\ AtDevice
    BY <1>3 DEF ConfigInv, Merges, Unprepared
  <2>2. PICK u \in NetworkConfigs : u = CurrentUser
    BY <2>1, AtDeviceFacts
  <2>3. deviceConfigStore' = CacheAfterMerge(Current, u, defaulted)
    BY <1>3, <2>2 DEF Merges
  <2>4. CASE Current \in DOMAIN deviceConfigStore
    <3>1. PICK c \in NetworkConfigs : c = deviceConfigStore[Current]
      BY <2>1, <2>4 DEF CacheInv
    <3>2. PICK w : w = After(u, c, defaulted)
      OBVIOUS
    <3>3. w.type = c.type /\ w.profile = c.profile /\ (w.vrf = NoVRF <=> c.vrf = NoVRF)
      <4>1. PICK x : x = WrittenThrough(u, c)
        OBVIOUS
      <4>2. x.type = c.type /\ x.profile = c.profile /\ (x.vrf = NoVRF <=> c.vrf = NoVRF)
        BY <4>1, WrittenRole
      <4>3. w.type = x.type /\ w.profile = x.profile /\ (w.vrf = NoVRF <=> x.vrf = NoVRF)
        BY <3>2, <4>1, AfterIsConfig
      <4> QED
        BY <4>2, <4>3
    <3>4. deviceConfigStore' = [deviceConfigStore EXCEPT ![Current] = w]
      BY <2>3, <2>4, <3>1, <3>2 DEF CacheAfterMerge, After
    <3>5. /\ DOMAIN deviceConfigStore' = DOMAIN deviceConfigStore
          /\ \A d \in DOMAIN deviceConfigStore : deviceConfigStore'[d] = IF d = Current THEN w ELSE deviceConfigStore[d]
      BY <3>4
    <3> QED
      BY <1>1, <3>1, <3>3, <3>5 DEF RoleInv
  <2>5. CASE Current \notin DOMAIN deviceConfigStore
    BY <1>1, <2>3, <2>5 DEF CacheAfterMerge, RoleInv
  <2> QED
    BY <2>4, <2>5
<1> QED
  BY <1>1, <1>2, <1>3

\* A carrier stays one while its claim is known and nothing else is stored for it.
LEMMA CarrierStays ==
  ASSUME Cached' = Cached, NEW c, NEW d, NEW t, Carries(c, d, t), claims'[c] = claims[c],
         <<c, d>> \in DOMAIN committed' =>
           <<c, d>> \in DOMAIN committed /\ committed'[<<c, d>>] = committed[<<c, d>>]
  PROVE  Carries(c, d, t)'
<1>1. Plain(d, UserConfig(claims[c]))' <=> Plain(d, UserConfig(claims[c]))
  BY DEF Plain, TypeWith, BareWith, Asked, Cloud
<1> QED
  BY <1>1 DEF Carries, HasRules

LEMMA DevicePassed ==
  ASSUME ClaimInv, CallInv, AtDevice, DevicesOnce, NEW i \in 1 .. call.at - 1
  PROVE  /\ ClaimDevices[call.claim][i] \in ToSet(ClaimDevices[call.claim])
         /\ ClaimDevices[call.claim][i] # Current
<1>1. call.claim \in Claims
  BY AtDeviceFacts
<1>2. PICK s \in Seq(Devices) : s = ClaimDevices[call.claim]
  BY <1>1, ConfigAssumption
<1>3. call.at \in 1 .. Len(s) /\ DOMAIN s = 1 .. Len(s) /\ Len(s) \in Nat
  BY <1>2 DEF AtDevice, CallInv
<1>4. i \in DOMAIN s /\ call.at \in DOMAIN s /\ i # call.at
  BY <1>3
<1>5. s[i] # s[call.at]
  BY <1>1, <1>2, <1>4 DEF DevicesOnce
<1> QED
  BY <1>2, <1>4, <1>5 DEF Current, ToSet

\* The call goes on and nothing is stored: the tables whose rules are lost with
\* the device have it for a carrier.
LEMMA PassKeepsRules ==
  ASSUME ConfigInv, RulesInv, AtDevice, RoleInv', Cached' = Cached,
         claims' = claims, committed' = committed, acked' = acked,
         NEW c, c = call.claim, NEW d, d = Current,
         NEW taken, call'.claim = c, call'.at = call.at + 1, call'.rules = call.rules \ taken,
         \A t \in taken : Carries(c, d, t),
         ~call'.failed => ~call.failed /\ <<c, d>> \in DOMAIN committed
  PROVE  RulesInv'
<1>1. ClaimInv /\ CallInv /\ TakenInv /\ AckedInv /\ call # Idle
  BY DEF ConfigInv, RulesInv, AtDevice
<1>2. \A b, x, t : Carries(b, x, t) => Carries(b, x, t)'
  BY CarrierStays
<1>3. call.at \in Nat /\ call.at >= 1
  BY <1>1 DEF CallInv
<1>4. d = ClaimDevices[c][call.at]
  BY DEF Current
<1>5. ASSUME NEW t \in GetRuleInfo \ call'.rules
      PROVE  \E i \in 1 .. call'.at - 1 : Carries(c, ClaimDevices[c][i], t)'
  <2>1. CASE t \in taken
    <3>1. Carries(c, d, t)'
      BY <1>2, <2>1
    <3>2. PICK k \in 1 .. call'.at - 1 : k = call.at
      BY <1>3
    <3>3. d = ClaimDevices[c][k]
      BY <1>4, <3>2
    <3> QED
      BY <3>1, <3>3
  <2>2. CASE t \notin taken
    <3>1. t \in GetRuleInfo \ call.rules
      BY <2>2
    <3>2. PICK i \in 1 .. call.at - 1 : Carries(c, ClaimDevices[c][i], t)
      BY <1>1, <3>1 DEF TakenInv
    <3>3. i \in 1 .. call'.at - 1
      BY <1>3
    <3> QED
      BY <1>2, <3>2, <3>3
  <2> QED
    BY <2>1, <2>2
<1>6. ASSUME ~call'.failed, NEW i \in 1 .. call'.at - 1
      PROVE  <<c, ClaimDevices[c][i]>> \in DOMAIN committed'
  <2>1. i \in 1 .. call.at - 1 \/ i = call.at
    BY <1>3
  <2> QED
    BY <1>1, <1>4, <1>6, <2>1 DEF TakenInv
<1>7. TakenInv'
  BY <1>5, <1>6 DEF TakenInv
<1>8. AckedInv'
  BY <1>1 DEF AckedInv
<1>9. \A p \in DOMAIN committed' : Carried(p)'
  BY <1>2 DEF RulesInv, Carried
<1> QED
  BY <1>7, <1>8, <1>9 DEF RulesInv

\* The device is stored.
LEMMA StoreKeepsRules ==
  ASSUME ConfigInv, RulesInv, DevicesOnce, Unprepared, RoleInv', Cached' = Cached,
         claims' = claims, acked' = acked,
         NEW c, c = call.claim, NEW d, d = Current,
         NEW e, committed' = With(committed, <<c, d>>, e),
         NEW taken, call'.claim = c, call'.at = call.at + 1, call'.rules = call.rules \ taken,
         ~call'.failed => ~call.failed,
         \A t \in taken : Carries(c, d, t)',
         \A t \in GetRuleInfo \intersect call.rules : Carries(c, d, t) => Carries(c, d, t)',
         d \notin IBOnly /\ e.conf.vrf = NoVRF =>
           \A i \in DOMAIN e.conf.routes : i > e.own /\ e.conf.routes[i].table \in GetRuleInfo =>
             Carries(c, d, e.conf.routes[i].table)
  PROVE  RulesInv'
<1>1. ClaimInv /\ CallInv /\ EntryInv /\ TakenInv /\ AckedInv /\ AtDevice /\ call # Idle
  BY DEF ConfigInv, RulesInv, Unprepared, AtDevice
<1>3. PICK q : q = <<c, d>>
  OBVIOUS
<1>4. /\ q \notin DOMAIN committed /\ DOMAIN committed' = DOMAIN committed \union {q}
      /\ committed'[q] = e /\ \A p \in DOMAIN committed : committed'[p] = committed[p]
  <2>1. PICK f, g : f = committed /\ g = With(f, q, e)
    OBVIOUS
  <2>2. q \notin DOMAIN f
    BY <1>3, <2>1 DEF Unprepared
  <2>3. /\ DOMAIN g = DOMAIN f \union {q} /\ g[q] = e
        /\ \A p \in DOMAIN f : g[p] = f[p]
    BY <2>1, <2>2 DEF With
  <2>4. committed' = g
    BY <1>3, <2>1
  <2> QED
    BY <2>1, <2>2, <2>3, <2>4
<1>5. \A b, x, t : Carries(b, x, t) /\ <<b, x>> # q => Carries(b, x, t)'
  <2> SUFFICES ASSUME NEW b, NEW x, NEW t, Carries(b, x, t), <<b, x>> # q PROVE Carries(b, x, t)'
    OBVIOUS
  <2>1. <<b, x>> \in DOMAIN committed' =>
          <<b, x>> \in DOMAIN committed /\ committed'[<<b, x>>] = committed[<<b, x>>]
    BY <1>4
  <2> QED
    BY <2>1, CarrierStays
<1>6. call.at \in Nat /\ call.at >= 1
  BY <1>1 DEF CallInv
<1>7. \A t \in GetRuleInfo \ call.rules : \E i \in 1 .. call.at - 1 :
        /\ Carries(c, ClaimDevices[c][i], t)'
        /\ ClaimDevices[c][i] \in ToSet(ClaimDevices[c])
  <2> SUFFICES ASSUME NEW t \in GetRuleInfo \ call.rules
               PROVE  \E i \in 1 .. call.at - 1 : /\ Carries(c, ClaimDevices[c][i], t)'
                                                  /\ ClaimDevices[c][i] \in ToSet(ClaimDevices[c])
    OBVIOUS
  <2>1. PICK i \in 1 .. call.at - 1 : Carries(c, ClaimDevices[c][i], t)
    BY <1>1 DEF TakenInv
  <2>2. ClaimDevices[c][i] \in ToSet(ClaimDevices[c]) /\ ClaimDevices[c][i] # d
    BY <1>1, DevicePassed
  <2>3. <<c, ClaimDevices[c][i]>> # q
    BY <1>3, <2>2
  <2> QED
    BY <1>5, <2>1, <2>2, <2>3
<1>8. d \in ToSet(ClaimDevices[c])
  <2>1. q \in Pairs
    BY <1>1, <1>3, AtDeviceFacts
  <2> QED
    BY <1>3, <2>1 DEF Pairs
<1>9. ASSUME NEW t \in GetRuleInfo, Carries(c, d, t)
      PROVE  \E x \in ToSet(ClaimDevices[c]) : Carries(c, x, t)'
  <2>1. CASE t \in call.rules
    <3>1. Carries(c, d, t)'
      BY <1>9, <2>1
    <3> QED
      BY <1>8, <3>1
  <2>2. CASE t \notin call.rules
    BY <1>7, <2>2
  <2> QED
    BY <2>1, <2>2
<1>10. ASSUME NEW p \in DOMAIN committed', p[2] \notin IBOnly, committed'[p].conf.vrf = NoVRF,
              NEW i \in DOMAIN committed'[p].conf.routes,
              i > committed'[p].own, NEW t \in GetRuleInfo, t = committed'[p].conf.routes[i].table
       PROVE  \E x \in ToSet(ClaimDevices[p[1]]) : Carries(p[1], x, t)'
  <2>2. CASE p = q
    <3>1. p[1] = c /\ p[2] = d /\ committed'[p] = e
      BY <1>3, <1>4, <2>2
    <3>2. Carries(c, d, t)
      BY <1>10, <3>1
    <3>3. \E x \in ToSet(ClaimDevices[c]) : Carries(c, x, t)'
      BY <1>9, <3>2
    <3> QED
      BY <3>1, <3>3
  <2>3. CASE p # q
    <3>1. p \in DOMAIN committed /\ committed'[p] = committed[p]
      BY <1>4, <2>3
    <3>2. PICK x \in ToSet(ClaimDevices[p[1]]) : Carries(p[1], x, t)
      BY <1>10, <3>1 DEF RulesInv, Carried
    <3>3. CASE <<p[1], x>> = q
      <4>1. p[1] = c /\ x = d
        BY <1>3, <3>3
      <4>2. \E y \in ToSet(ClaimDevices[c]) : Carries(c, y, t)'
        BY <1>9, <3>2, <4>1
      <4> QED
        BY <4>1, <4>2
    <3>4. CASE <<p[1], x>> # q
      <4>1. Carries(p[1], x, t)'
        BY <1>5, <3>2, <3>4
      <4> QED
        BY <3>2, <4>1
    <3> QED
      BY <3>3, <3>4
  <2> QED
    BY <2>2, <2>3
<1>11. \A p \in DOMAIN committed' : Carried(p)'
  BY <1>10 DEF Carried
<1>12. ASSUME NEW t \in GetRuleInfo \ call'.rules
       PROVE  \E i \in 1 .. call'.at - 1 : Carries(c, ClaimDevices[c][i], t)'
  <2>1. CASE t \in taken
    <3>1. Carries(c, d, t)'
      BY <2>1
    <3>2. PICK k \in 1 .. call'.at - 1 : k = call.at
      BY <1>6
    <3>3. d = ClaimDevices[c][k]
      BY <3>2 DEF Current
    <3> QED
      BY <3>1, <3>3
  <2>2. CASE t \notin taken
    <3>1. PICK i \in 1 .. call.at - 1 : Carries(c, ClaimDevices[c][i], t)'
      BY <1>7, <2>2
    <3>2. i \in 1 .. call'.at - 1
      BY <1>6
    <3> QED
      BY <3>1, <3>2
  <2> QED
    BY <2>1, <2>2
<1>13. ASSUME ~call'.failed, NEW i \in 1 .. call'.at - 1
       PROVE  <<c, ClaimDevices[c][i]>> \in DOMAIN committed'
  <2>1. i \in 1 .. call.at - 1 \/ i = call.at
    BY <1>6
  <2>2. CASE i = call.at
    BY <1>3, <1>4, <2>2 DEF Current
  <2>3. CASE i \in 1 .. call.at - 1
    BY <1>1, <1>4, <1>13, <2>3 DEF TakenInv
  <2> QED
    BY <2>1, <2>2, <2>3
<1>14. TakenInv'
  BY <1>12, <1>13 DEF TakenInv
<1>15. AckedInv'
  BY <1>1, <1>4 DEF AckedInv
<1> QED
  BY <1>11, <1>14, <1>15 DEF RulesInv

\* A network interface is prepared, or one of the last checks fails.
LEMMA PrepareDeviceKeepsRules ==
  ASSUME ConfigInv, RulesInv, ProfilesAgree, DevicesOnce,
         NEW profile \in Profiles, NEW persisted \in BOOLEAN, PrepareDevice(profile, persisted)
  PROVE  RulesInv'
<1>1. CacheInv /\ ClaimInv /\ CallInv /\ RoleInv
  BY DEF ConfigInv, RulesInv
<1>2. PICK conf, lease, done, taken, ok :
        /\ conf = Resolved(Current, CurrentUser, profile)
        /\ lease \in Leases(conf)
        /\ done = Completed(Current, conf, lease)
        /\ taken = IF IsSubinterface(conf) THEN {} ELSE TablesTaken(conf, GetRouteInfo(Current))
        /\ ok = (Numbered(done.conf) /\ ShareableRDMA(Current, conf) /\ persisted)
        /\ Reaches(profile, conf)
        /\ call' = [call EXCEPT !.at = @ + 1, !.failed = @ \/ ~ok, !.rules = @ \ taken]
        /\ committed' = IF ok THEN With(committed, <<call.claim, Current>>, done) ELSE committed
  BY DEF PrepareDevice
<1>3. Merges(profile.vrf = NoVRF) /\ Current \notin IBOnly
  BY <1>2 DEF Reaches, MergesAndDefaults
<1>4. Unprepared /\ AtDevice /\ claims' = claims /\ acked' = acked /\ nodeVars' = nodeVars
  BY <1>3 DEF Merges, Unprepared, nodeVars
<1>5. RoleInv' /\ Cached' = Cached
  BY <1>1, <1>3, <1>4, RoleStep
<1>6. PICK c, d, u : c = call.claim /\ d = Current /\ u = CurrentUser
  OBVIOUS
<1>7. /\ d \in Devices /\ d \notin IBOnly /\ u = UserConfig(claims[c]) /\ <<c, d>> \notin DOMAIN committed
      /\ conf \in NetworkConfigs
  BY <1>1, <1>2, <1>3, <1>4, <1>6, AtDeviceFacts, ResolvedOfCall DEF CurrentUser, CurrentRaws, Unprepared
<1>8. Plain(d, u) <=> ~IsSubinterface(conf) /\ conf.vrf = NoVRF
  BY <1>1, <1>2, <1>4, <1>6, PlainOfCall
<1>9. \A t : t \in taken <=> Plain(d, u) /\ t \in RouteTables(GetRouteInfo(d)) /\ t \in call.rules
  BY <1>2, <1>6, <1>8 DEF TablesTaken
<1>10. \A t : Carries(c, d, t) <=> Plain(d, u) /\ t \in RouteTables(GetRouteInfo(d))
  BY <1>7 DEF Carries
<1>11. call'.claim = c /\ call'.at = call.at + 1 /\ call'.rules = call.rules \ taken
  BY <1>1, <1>2, <1>6 DEF CallInv
<1>12. call'.failed <=> call.failed \/ ~ok
  BY <1>1, <1>2 DEF CallInv
<1>13. CASE ~ok
  <2>1. committed' = committed /\ (~call'.failed => ~call.failed /\ <<c, d>> \in DOMAIN committed)
    BY <1>2, <1>12, <1>13
  <2>2. \A t \in taken : Carries(c, d, t)
    BY <1>9, <1>10
  <2> QED
    BY <1>4, <1>5, <1>6, <1>11, <2>1, <2>2, PassKeepsRules
<1>14. CASE ok
  <2>1. Parts(d, conf, lease, done)
    BY <1>2, <1>6, <1>7, LeaseIsLease, CompletedParts
  <2>2. committed' = With(committed, <<c, d>>, done)
    BY <1>2, <1>6, <1>14
  <2>3. <<c, d>> \in DOMAIN committed' /\ committed'[<<c, d>>] = done
    <3>1. PICK q, f, g : q = <<c, d>> /\ f = committed /\ g = With(f, q, done)
      OBVIOUS
    <3>2. q \in DOMAIN g /\ g[q] = done
      BY <3>1 DEF With
    <3> QED
      BY <2>2, <3>1, <3>2
  <2>4. Plain(d, UserConfig(claims[c]))' <=> Plain(d, u)
    BY <1>4, <1>5, <1>7 DEF Plain, TypeWith, BareWith, Asked, Cloud
  <2>5. \A t \in taken : HasRules(done, t)
    BY <1>8, <1>9, <2>1 DEF Parts
  <2>6. \A t \in taken : Carries(c, d, t)'
    BY <1>7, <1>9, <2>3, <2>4, <2>5 DEF Carries, HasRules
  <2>7. \A t \in GetRuleInfo \intersect call.rules : Carries(c, d, t) => Carries(c, d, t)'
    BY <1>9, <1>10, <2>6
  <2>8. d \notin IBOnly /\ done.conf.vrf = NoVRF =>
          \A i \in DOMAIN done.conf.routes : i > done.own /\ done.conf.routes[i].table \in GetRuleInfo =>
            Carries(c, d, done.conf.routes[i].table)
    <3> SUFFICES ASSUME done.conf.vrf = NoVRF, NEW i \in DOMAIN done.conf.routes, i > done.own,
                        done.conf.routes[i].table \in GetRuleInfo
                 PROVE  Carries(c, d, done.conf.routes[i].table)
      OBVIOUS
    <3>1. done.conf.routes[i].table # 0
      BY DEF GetRuleInfo
    <3>2. ~IsSubinterface(conf) /\ done.conf.routes[i].table \in RouteTables(GetRouteInfo(d)) /\ conf.vrf = NoVRF
      BY <2>1, <3>1 DEF Parts
    <3> QED
      BY <1>8, <1>10, <3>2
  <2>9. ~call'.failed => ~call.failed
    BY <1>12
  <2> QED
    BY <1>4, <1>5, <1>6, <1>11, <2>2, <2>6, <2>7, <2>8, <2>9, StoreKeepsRules
<1> QED
  BY <1>2, <1>13, <1>14

\* A device without a network interface is prepared, or refused.
LEMMA PrepareIBOnlyKeepsRules ==
  ASSUME ConfigInv, RulesInv, DevicesOnce, NEW profile \in Profiles, NEW persisted \in BOOLEAN,
         PrepareIBOnly(profile, persisted)
  PROVE  RulesInv'
<1>1. CallInv /\ RoleInv /\ Merges(profile.vrf = NoVRF) /\ Current \in IBOnly
  BY DEF ConfigInv, RulesInv, PrepareIBOnly, MergesAndDefaults
<1>2. Unprepared /\ AtDevice /\ claims' = claims /\ acked' = acked /\ nodeVars' = nodeVars
  BY <1>1 DEF Merges, Unprepared, nodeVars
<1>3. RoleInv' /\ Cached' = Cached
  BY <1>1, <1>2, RoleStep
<1>4. PICK ok, e :
        /\ ok \in BOOLEAN /\ NextDevice(ok)
        /\ committed' = IF ok THEN With(committed, <<call.claim, Current>>, e) ELSE committed
  BY DEF PrepareIBOnly
<1>5. PICK c, d, none : c = call.claim /\ d = Current /\ none = {}
  OBVIOUS
<1>6. call'.claim = c /\ call'.at = call.at + 1 /\ call'.rules = call.rules \ none
  BY <1>1, <1>4, <1>5 DEF CallInv, NextDevice
<1>7. call'.failed <=> call.failed \/ ~ok
  BY <1>1, <1>4 DEF CallInv, NextDevice
<1>8. CASE ~ok
  <2>1. committed' = committed /\ (~call'.failed => ~call.failed /\ <<c, d>> \in DOMAIN committed)
    BY <1>4, <1>7, <1>8
  <2>2. \A t \in none : Carries(c, d, t)
    BY <1>5
  <2> QED
    BY <1>2, <1>3, <1>5, <1>6, <2>1, <2>2, PassKeepsRules
<1>9. CASE ok
  <2>1. committed' = With(committed, <<c, d>>, e) /\ (~call'.failed => ~call.failed)
    BY <1>4, <1>5, <1>7, <1>9
  <2>2. \A t \in none : Carries(c, d, t)'
    BY <1>5
  <2>3. \A t \in GetRuleInfo \intersect call.rules : Carries(c, d, t) => Carries(c, d, t)'
    BY <1>1, <1>5 DEF Carries
  <2>4. d \in IBOnly
    BY <1>1, <1>5
  <2> QED
    BY <1>2, <1>3, <1>5, <1>6, <2>1, <2>2, <2>3, <2>4, StoreKeepsRules
<1> QED
  BY <1>8, <1>9

\* Nothing is stored and no call goes on.
LEMMA SameRules ==
  ASSUME RulesInv, RoleInv', Cached' = Cached, call' = call, committed' = committed, acked' = acked,
         \A b : b = call.claim \/ (\E p \in DOMAIN committed : p[1] = b) => claims'[b] = claims[b]
  PROVE  RulesInv'
<1>1. \A b, d, t : (b = call.claim \/ \E p \in DOMAIN committed : p[1] = b) /\ Carries(b, d, t) => Carries(b, d, t)'
  BY CarrierStays
<1>2. PICK c : c = call.claim
  OBVIOUS
<1>3. TakenInv'
  BY <1>1 DEF RulesInv, TakenInv
<1>4. AckedInv'
  BY DEF RulesInv, AckedInv
<1>5. \A p \in DOMAIN committed' : Carried(p)'
  BY <1>1 DEF RulesInv, Carried
<1> QED
  BY <1>3, <1>4, <1>5 DEF RulesInv

LEMMA RulesStep ==
  ASSUME ProfilesAgree, DevicesOnce, ConfigInv, RulesInv, [ConfigNext]_configVars
  PROVE  RulesInv'
<1>0. CacheInv /\ ClaimInv /\ CallInv /\ EntryInv /\ RoleInv /\ TakenInv /\ AckedInv
  BY DEF ConfigInv, RulesInv
<1>1. CASE UpdateDeviceStore
  <2>1. /\ deviceConfigStore' = Cached /\ nodeVars' = nodeVars /\ claims' = claims
        /\ call' = call /\ committed' = committed /\ acked' = acked
    BY <1>1 DEF UpdateDeviceStore, nodeVars
  <2>2. RoleInv' /\ Cached' = Cached
    BY <1>0, <2>1, RoleStep
  <2> QED
    BY <2>1, <2>2, SameRules
<1>2. ASSUME NEW c \in Claims \ DOMAIN claims, NEW raws \in RawConfigs, ClaimArrives(c, raws)
      PROVE  RulesInv'
  <2>1. /\ deviceConfigStore' = deviceConfigStore /\ nodeVars' = nodeVars /\ claims' = With(claims, c, raws)
        /\ call' = call /\ committed' = committed /\ acked' = acked
    BY <1>2 DEF ClaimArrives, nodeVars
  <2>2. RoleInv' /\ Cached' = Cached
    BY <1>0, <2>1, RoleStep
  <2>3. \A b \in DOMAIN claims : claims'[b] = claims[b]
    BY <2>1 DEF With
  <2>4. \A p \in DOMAIN committed : p[1] \in DOMAIN claims
    BY <1>0 DEF EntryInv
  <2>5. CASE call # Idle
    <3>1. call.claim \in DOMAIN claims
      BY <1>0, <2>5 DEF CallInv
    <3> QED
      BY <2>1, <2>2, <2>3, <2>4, <3>1, SameRules
  <2>6. CASE call = Idle
    <3>1. TakenInv'
      BY <2>1, <2>6 DEF TakenInv
    <3>2. AckedInv'
      BY <1>0, <2>1 DEF AckedInv
    <3>3. \A b, d, t : b \in DOMAIN claims /\ Carries(b, d, t) => Carries(b, d, t)'
      BY <2>1, <2>2, <2>3, CarrierStays
    <3>4. \A p \in DOMAIN committed' : Carried(p)'
      BY <2>1, <2>4, <3>3 DEF RulesInv, Carried
    <3> QED
      BY <2>2, <3>1, <3>2, <3>4 DEF RulesInv
  <2> QED
    BY <2>5, <2>6
<1>3. ASSUME NEW c \in Claims, BeginPrepare(c) PROVE RulesInv'
  <2>1. /\ deviceConfigStore' = deviceConfigStore /\ nodeVars' = nodeVars /\ claims' = claims
        /\ call' = [claim |-> c, at |-> 1, rules |-> GetRuleInfo, failed |-> FALSE]
        /\ committed' = committed /\ acked' = acked
    BY <1>3 DEF BeginPrepare, nodeVars
  <2>2. RoleInv' /\ Cached' = Cached
    BY <1>0, <2>1, RoleStep
  <2>3. \A b, d, t : Carries(b, d, t) => Carries(b, d, t)'
    BY <2>1, <2>2, CarrierStays
  <2>4. TakenInv'
    <3>1. GetRuleInfo \ call'.rules = {} /\ 1 .. call'.at - 1 = {}
      BY <2>1
    <3> QED
      BY <3>1 DEF TakenInv
  <2>5. AckedInv' /\ \A p \in DOMAIN committed' : Carried(p)'
    BY <1>0, <2>1, <2>3 DEF RulesInv, AckedInv, Carried
  <2> QED
    BY <2>2, <2>4, <2>5 DEF RulesInv
<1>4. ASSUME NEW ok \in BOOLEAN, AtDevice, NextDevice(ok), nodeVars' = nodeVars,
             deviceConfigStore' = deviceConfigStore \/ \E b \in BOOLEAN : Merges(b),
             claims' = claims, committed' = committed, acked' = acked,
             ok => <<call.claim, Current>> \in DOMAIN committed
      PROVE  RulesInv'
  <2>1. RoleInv' /\ Cached' = Cached
    BY <1>0, <1>4, RoleStep
  <2>2. PICK c, d, none : c = call.claim /\ d = Current /\ none = {}
    OBVIOUS
  <2>3. call'.claim = c /\ call'.at = call.at + 1 /\ call'.rules = call.rules \ none
    BY <1>0, <1>4, <2>2 DEF CallInv, NextDevice
  <2>4. call'.failed <=> call.failed \/ ~ok
    BY <1>0, <1>4 DEF CallInv, NextDevice
  <2>5. ~call'.failed => ~call.failed /\ <<c, d>> \in DOMAIN committed
    BY <1>4, <2>2, <2>4
  <2>6. \A t \in none : Carries(c, d, t)
    BY <2>2
  <2> QED
    BY <1>4, <2>1, <2>2, <2>3, <2>5, <2>6, PassKeepsRules
<1>5. CASE ReusePrepared
  BY <1>4, <1>5 DEF ReusePrepared, nodeVars
<1>6. CASE RejectUserConfig
  BY <1>4, <1>6 DEF RejectUserConfig, Unprepared, nodeVars
<1>7. ASSUME NEW defaulted \in BOOLEAN, Merges(defaulted), NextDevice(FALSE), committed' = committed
      PROVE  RulesInv'
  <2>1. AtDevice /\ nodeVars' = nodeVars /\ claims' = claims /\ acked' = acked
    BY <1>7 DEF Merges, Unprepared, nodeVars
  <2> QED
    BY <1>4, <1>7, <2>1
<1>8. CASE ProfileFails
  BY <1>7, <1>8 DEF ProfileFails
<1>9. ASSUME NEW profile \in Profiles, RejectMerged(profile) PROVE RulesInv'
  BY <1>7, <1>9 DEF RejectMerged, MergesAndDefaults
<1>10. ASSUME NEW profile \in Profiles, NEW persisted \in BOOLEAN, PrepareIBOnly(profile, persisted)
       PROVE  RulesInv'
  BY <1>10, PrepareIBOnlyKeepsRules
<1>11. ASSUME NEW profile \in Profiles, HostFails(profile) PROVE RulesInv'
  BY <1>7, <1>11 DEF HostFails, Reaches, MergesAndDefaults
<1>12. ASSUME NEW profile \in Profiles, NEW persisted \in BOOLEAN, PrepareDevice(profile, persisted)
       PROVE  RulesInv'
  BY <1>12, PrepareDeviceKeepsRules
<1>13. CASE FinishPrepare
  <2>1. /\ call # Idle /\ call' = Idle /\ deviceConfigStore' = deviceConfigStore /\ nodeVars' = nodeVars
        /\ claims' = claims /\ committed' = committed /\ call.at > Len(ClaimDevices[call.claim])
        /\ acked' = IF call.failed THEN acked \ {call.claim} ELSE acked \union {call.claim}
    BY <1>13 DEF FinishPrepare, nodeVars
  <2>2. RoleInv' /\ Cached' = Cached
    BY <1>0, <2>1, RoleStep
  <2>3. \A b, d, t : Carries(b, d, t) => Carries(b, d, t)'
    BY <2>1, <2>2, CarrierStays
  <2>4. TakenInv'
    BY <2>1 DEF TakenInv
  <2>5. \A p \in DOMAIN committed' : Carried(p)'
    BY <2>1, <2>3 DEF RulesInv, Carried
  <2>6. ASSUME NEW c \in acked', NEW d \in ToSet(ClaimDevices[c]) PROVE <<c, d>> \in DOMAIN committed
    <3>1. CASE c \in acked
      BY <1>0, <3>1 DEF AckedInv
    <3>2. CASE c \notin acked
      <4>1. c = call.claim /\ ~call.failed
        BY <2>1, <2>6, <3>2
      <4>2. PICK s \in Seq(Devices) : s = ClaimDevices[c]
        BY <1>0, <2>1, <4>1, ConfigAssumption DEF CallInv, ClaimInv
      <4>3. PICK i \in 1 .. Len(s) : d = s[i]
        BY <4>2 DEF ToSet
      <4>4. i \in 1 .. call.at - 1
        BY <1>0, <2>1, <4>1, <4>2 DEF CallInv
      <4> QED
        BY <1>0, <2>1, <4>1, <4>2, <4>3, <4>4 DEF TakenInv
    <3> QED
      BY <3>1, <3>2
  <2>7. AckedInv'
    BY <2>1, <2>6 DEF AckedInv
  <2> QED
    BY <2>2, <2>4, <2>5, <2>7 DEF RulesInv
<1>14. ASSUME NEW c \in Claims, Unprepare(c) PROVE RulesInv'
  <2>1. /\ call = Idle /\ call' = call /\ deviceConfigStore' = deviceConfigStore /\ nodeVars' = nodeVars
        /\ claims' = [b \in DOMAIN claims \ {c} |-> claims[b]] /\ acked' = acked \ {c}
        /\ committed' = [p \in {q \in DOMAIN committed : q[1] # c} |-> committed[p]]
    BY <1>14 DEF Unprepare, nodeVars
  <2>2. RoleInv' /\ Cached' = Cached
    BY <1>0, <2>1, RoleStep
  <2>3. /\ DOMAIN committed' = {q \in DOMAIN committed : q[1] # c}
        /\ \A p \in DOMAIN committed' : committed'[p] = committed[p]
        /\ \A b \in DOMAIN claims : b # c => claims'[b] = claims[b]
    BY <2>1
  <2>4. \A b, d, t : b \in DOMAIN claims /\ b # c /\ Carries(b, d, t) => Carries(b, d, t)'
    <3> SUFFICES ASSUME NEW b \in DOMAIN claims, b # c, NEW d, NEW t, Carries(b, d, t)
                 PROVE  Carries(b, d, t)'
      OBVIOUS
    <3>1. claims'[b] = claims[b]
      BY <2>3
    <3>2. <<b, d>> \in DOMAIN committed' =>
            <<b, d>> \in DOMAIN committed /\ committed'[<<b, d>>] = committed[<<b, d>>]
      BY <2>3
    <3> QED
      BY <2>2, <3>1, <3>2, CarrierStays
  <2>5. \A p \in DOMAIN committed' : Carried(p)'
    <3>1. \A p \in DOMAIN committed' :
            p \in DOMAIN committed /\ p[1] # c /\ p[1] \in DOMAIN claims /\ committed'[p] = committed[p]
      BY <1>0, <2>3 DEF EntryInv
    <3> QED
      BY <2>4, <3>1 DEF RulesInv, Carried
  <2>6. TakenInv'
    BY <2>1 DEF TakenInv
  <2>7. AckedInv'
    <3> SUFFICES ASSUME NEW b \in acked', NEW d \in ToSet(ClaimDevices[b]) PROVE <<b, d>> \in DOMAIN committed'
      BY DEF AckedInv
    <3>1. <<b, d>> \in DOMAIN committed /\ b # c
      BY <1>0, <2>1 DEF AckedInv
    <3> QED
      BY <2>3, <3>1
  <2> QED
    BY <2>2, <2>5, <2>6, <2>7 DEF RulesInv
<1>15. CASE UNCHANGED configVars
  <2>1. /\ deviceConfigStore' = deviceConfigStore /\ nodeVars' = nodeVars /\ claims' = claims
        /\ call' = call /\ committed' = committed /\ acked' = acked
    BY <1>15 DEF configVars, nodeVars
  <2>2. RoleInv' /\ Cached' = Cached
    BY <1>0, <2>1, RoleStep
  <2> QED
    BY <2>1, <2>2, SameRules
<1> QED
  BY <1>1, <1>2, <1>3, <1>5, <1>6, <1>8, <1>9, <1>10, <1>11, <1>12, <1>13, <1>14, <1>15 DEF ConfigNext

\* prepareDevice: the host's rules of a table come with the first device that
\* brings routes of it, also when that device had to be tried again after others
\* were stored, if the profile makes no other interface of a device when it is
\* asked again.
THEOREM RulesAlwaysFollowRoutes == ConfigSpec /\ ProfilesAgree /\ DevicesOnce => []RulesFollowRoutes
<1> SUFFICES ASSUME ProfilesAgree, DevicesOnce PROVE ConfigSpec => []RulesFollowRoutes
  OBVIOUS
<1>1. ConfigInit => RulesInv
  <2> SUFFICES ASSUME ConfigInit PROVE RulesInv
    OBVIOUS
  <2>1. DOMAIN committed = {} /\ acked = {} /\ call = Idle /\ deviceConfigStore = Cached
    BY DEF ConfigInit
  <2> QED
    BY <2>1 DEF RulesInv, RoleInv, TakenInv, AckedInv
<1>2. ConfigInv /\ RulesInv => RulesFollowRoutes
  <2> SUFFICES ASSUME ConfigInv, RulesInv, NEW p \in DOMAIN committed, p[1] \in acked, p[2] \notin IBOnly,
                      committed[p].conf.vrf = NoVRF, NEW i \in DOMAIN committed[p].conf.routes,
                      i > committed[p].own, NEW t \in GetRuleInfo, t = committed[p].conf.routes[i].table
               PROVE  \E q \in DOMAIN committed :
                        q[1] = p[1] /\ ToSet(RulesOf({t})) \subseteq ToSet(committed[q].conf.rules)
    BY DEF RulesFollowRoutes
  <2>1. PICK d \in ToSet(ClaimDevices[p[1]]) : Carries(p[1], d, t)
    BY DEF RulesInv, Carried
  <2>2. PICK q \in DOMAIN committed : q = <<p[1], d>>
    BY <2>1 DEF RulesInv, AckedInv
  <2>3. q[1] = p[1] /\ HasRules(committed[q], t)
    BY <2>1, <2>2 DEF Carries
  <2> QED
    BY <2>3 DEF HasRules
<1> QED
  BY <1>1, <1>2, RulesStep, ConfigAlways, PTL DEF ConfigSpec
=============================================================================

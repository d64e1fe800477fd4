-------------------------- MODULE InventoryProofs --------------------------
(***************************************************************************)
(* The inventory never loses a wake-up, and an allocated device that a     *)
(* publication drops comes back, for any devices, lookups and changes.     *)
(***************************************************************************)
EXTENDS Inventory, TLAPS

\* The inductive invariant: every undelivered link update is due to a change
\* of the host of its own, which bounds their number.
InventoryInv ==
  /\ InventoryTypeOK
  /\ links <= changes
  /\ NoLostWakeup

LEMMA InitInventoryInv == Init => InventoryInv
<1> SUFFICES ASSUME Init PROVE InventoryInv
  OBVIOUS
<1>1. lookup \in [Lookups -> {"idle", "missed", "scanned", "retry", "hit", "error"}]
  BY DEF Init
<1>2. seen \in [Lookups -> SUBSET Devices]
  BY DEF Init
<1>3. changes \in 0..MaxChanges /\ links \in 0..MaxChanges /\ links <= changes
  BY ChangesAssumption DEF Init
<1>4. InventoryTypeOK
  BY <1>1, <1>2, <1>3, Zenon DEF Init, InventoryTypeOK
<1>5. QED
  BY <1>3, <1>4, Zenon DEF Init, InventoryInv, NoLostWakeup, Woken

\* Every step keeps the types, and the link updates within the changes.
LEMMA NextKeepsType ==
  ASSUME InventoryInv, Next
  PROVE  InventoryTypeOK' /\ links' <= changes'
<1> USE ChangesAssumption DEF InventoryInv, InventoryTypeOK
<1>1. ASSUME NEW d \in Devices, DeviceLeaves(d) \/ DeviceReturns(d) \/ DeviceReturnsSilently(d)
                                   \/ DeviceReturnsUnannounced(d)
      PROVE  InventoryTypeOK' /\ links' <= changes'
  <2>1. changes' \in 0..MaxChanges /\ links' \in 0..MaxChanges /\ links' <= changes'
    BY <1>1 DEF DeviceLeaves, DeviceReturns, DeviceReturnsSilently, DeviceReturnsUnannounced, Changed
  <2>2. host' \subseteq Devices
    BY <1>1 DEF DeviceLeaves, DeviceReturns, DeviceReturnsSilently, DeviceReturnsUnannounced, Changed
  <2>3. /\ owed' \in BOOLEAN
        /\ UNCHANGED <<allocated, late, rescanCh, deviceStore, runPc, found, hasDevices, lookupVars, pubVars>>
    BY <1>1, Zenon DEF DeviceLeaves, DeviceReturns, DeviceReturnsSilently, DeviceReturnsUnannounced, Changed
  <2>4. unannounced' \subseteq Devices
    BY <1>1 DEF DeviceLeaves, DeviceReturns, DeviceReturnsSilently, DeviceReturnsUnannounced
  <2>5. QED
    BY <2>1, <2>2, <2>3, <2>4, Zenon DEF lookupVars, pubVars
<1>2. ASSUME NEW d \in Devices, Allocated(d) \/ Unallocated(d)
      PROVE  InventoryTypeOK' /\ links' <= changes'
  BY <1>2 DEF Allocated, Unallocated, runVars, lookupVars, pubVars
<1>3. CASE RequestRescan
  BY <1>3 DEF RequestRescan, runVars, lookupVars, pubVars
<1>4. CASE RunReads \/ RunUpdates
  BY <1>4 DEF RunReads, RunUpdates, Reported, worldVars, lookupVars, pubVars
<1>5. CASE Notify
  BY <1>5 DEF Notify, worldVars, lookupVars
<1>6. CASE LinkUpdate
  BY <1>6 DEF LinkUpdate, lookupVars, pubVars
<1>7. CASE Rescan \/ Poll
  BY <1>7 DEF Rescan, Poll, worldVars, lookupVars, pubVars
<1>8. CASE PublishStep
  BY <1>8 DEF PublishStep, ReadSnapshots, Publish, PublishFails, PublisherStep, Snapshots, runVars, lookupVars
<1>9. ASSUME NEW l \in Lookups, LookupAction(l)
      PROVE  InventoryTypeOK' /\ links' <= changes'
  <2> USE DEF LookupStep, worldVars, runVars, pubVars
  <2>1. CASE FirstLookup(l)
    BY <2>1 DEF FirstLookup
  <2>2. CASE LookupReads(l)
    BY <2>2 DEF LookupReads
  <2>3. CASE LookupUpdates(l)
    BY <2>3 DEF LookupUpdates
  <2>4. CASE SecondLookup(l)
    BY <2>4 DEF SecondLookup
  <2>5. CASE LookupReturns(l)
    BY <2>5 DEF LookupReturns
  <2>6. QED
    BY <1>9, <2>1, <2>2, <2>3, <2>4, <2>5 DEF LookupAction
<1>10. QED
  BY <1>1, <1>2, <1>3, <1>4, <1>5, <1>6, <1>7, <1>8, <1>9 DEF Next, WorldStep, RunStep

\* A change of the host leaves a wake-up behind, and the loop gives one up only
\* by going back to its scan.
LEMMA NextKeepsWakeup ==
  ASSUME InventoryInv, Next
  PROVE  NoLostWakeup'
<1> USE DEF InventoryInv, InventoryTypeOK, NoLostWakeup, Woken
<1>1. ASSUME NEW d \in Devices, DeviceLeaves(d) \/ DeviceReturns(d) \/ DeviceReturnsSilently(d)
                                   \/ DeviceReturnsUnannounced(d)
      PROVE  NoLostWakeup'
  BY <1>1 DEF DeviceLeaves, DeviceReturns, DeviceReturnsSilently, DeviceReturnsUnannounced, Changed
<1>2. ASSUME NEW d \in Devices, Allocated(d) \/ Unallocated(d)
      PROVE  NoLostWakeup'
  BY <1>2 DEF Allocated, Unallocated, runVars
<1>3. CASE RequestRescan
  BY <1>3 DEF RequestRescan
<1>4. CASE RunReads
  BY <1>4 DEF RunReads, worldVars
<1>5. CASE RunUpdates
  BY <1>5 DEF RunUpdates, worldVars
<1>6. CASE Notify
  BY <1>6 DEF Notify, worldVars
<1>7. CASE LinkUpdate \/ Rescan \/ Poll
  BY <1>7 DEF LinkUpdate, Rescan, Poll
<1>8. CASE PublishStep
  BY <1>8 DEF PublishStep, ReadSnapshots, Publish, PublishFails, PublisherStep, runVars
<1>9. ASSUME NEW l \in Lookups, LookupAction(l)
      PROVE  NoLostWakeup'
  BY <1>9 DEF LookupAction, FirstLookup, LookupReads, LookupUpdates, SecondLookup,
              LookupReturns, LookupStep, worldVars, runVars
<1>10. QED
  BY <1>1, <1>2, <1>3, <1>4, <1>5, <1>6, <1>7, <1>8, <1>9 DEF Next, WorldStep, RunStep

\* The invariant holds in every behaviour.
THEOREM InventoryInvariant == Spec => []InventoryInv
<1>1. InventoryInv /\ UNCHANGED vars => InventoryInv'
  BY DEF InventoryInv, InventoryTypeOK, NoLostWakeup, Woken, vars, worldVars, runVars, lookupVars, pubVars
<1>2. InventoryInv /\ [Next]_vars => InventoryInv'
  BY <1>1, NextKeepsType, NextKeepsWakeup DEF InventoryInv
<1>3. QED
  BY InitInventoryInv, <1>2, PTL DEF Spec

\* The loop, the lookups and the publisher keep the types of their state; there
\* are never more undelivered link updates than changes of the host.
THEOREM InventoryTypeCorrect == Spec => []InventoryTypeOK
<1>1. InventoryInv => InventoryTypeOK
  BY DEF InventoryInv
<1>2. QED
  BY InventoryInvariant, <1>1, PTL

\* No link update and no RequestRescan is lost, whatever Run is doing when it
\* arrives.
THEOREM WakeupsAreNotLost == Spec => []NoLostWakeup
<1>1. InventoryInv => NoLostWakeup
  BY DEF InventoryInv
<1>2. QED
  BY InventoryInvariant, <1>1, PTL

-----------------------------------------------------------------------------
(* The devices of the pods in the ResourceSlice.                           *)

\* A publication that shows the device will follow without waiting for the poll,
\* but for a device that nothing announced and for a host without devices.
Coming(d) == Woken \/ runPc # "select" \/ d \in unannounced \/ ~Reported(found)

\* What Run knows and what the publisher works on: while Run waits for an event,
\* the publisher has its last scan, and hasDevices is about the list that was sent.
SentIsKnown ==
  /\ runPc = "send" => (hasDevices <=> Reported(found))
  /\ pubPc # "receive" /\ runPc = "select" => live = found
  /\ pubPc # "receive" /\ runPc # "send" => (hasDevices <=> Reported(live))

\* What the publication under way leaves out was prepared too late for it, and
\* is coming.
LeftOutIsComing ==
  PersistentAttributes /\ pubPc = "merged" =>
    /\ live \subseteq merged
    /\ \A d \in allocated \ merged : d \in late /\ Coming(d)

LEMMA SentIsKnownKept ==
  ASSUME InventoryInv, SentIsKnown, [Next]_vars
  PROVE  SentIsKnown'
<1> USE DEF InventoryInv, InventoryTypeOK, SentIsKnown
<1>1. CASE RunReads
  BY <1>1 DEF RunReads, worldVars, pubVars
<1>2. CASE RunUpdates
  <2>1. /\ runPc = "scanned" /\ (hasDevices' <=> Reported(found))
        /\ runPc' = IF Reported(found) \/ hasDevices THEN "send" ELSE "select"
        /\ UNCHANGED <<found, pubPc, live>>
    BY <1>2 DEF RunUpdates, pubVars
  <2>2. CASE runPc' = "send"
    BY <2>1, <2>2 DEF Reported
  <2>3. CASE runPc' = "select" /\ pubPc # "receive"
    <3>1. ~Reported(found) /\ ~hasDevices
      BY <2>1, <2>3
    <3>2. ~Reported(live)
      BY <2>1, <2>3, <3>1
    <3>3. live = found
      BY <3>1, <3>2 DEF Reported
    <3>4. QED
      BY <2>1, <2>3, <3>1, <3>2, <3>3
  <2>4. CASE runPc' = "select" /\ pubPc = "receive"
    BY <2>1, <2>4
  <2>5. QED
    BY <2>1, <2>2, <2>3, <2>4
<1>3. CASE Notify
  <2>1. /\ runPc = "send" /\ live' = found /\ runPc' = "select"
        /\ UNCHANGED <<found, hasDevices>>
    BY <1>3 DEF Notify
  <2>2. QED
    BY <2>1 DEF Reported
<1>4. CASE LinkUpdate \/ Rescan \/ Poll
  <2>1. runPc = "select" /\ runPc' = "wait" /\ UNCHANGED <<found, hasDevices, pubPc, live>>
    BY <1>4 DEF LinkUpdate, Rescan, Poll, pubVars
  <2>2. QED
    BY <2>1 DEF Reported
<1>5. CASE PublishStep
  <2>1. /\ UNCHANGED <<runPc, found, hasDevices>> /\ pubPc # "receive"
        /\ pubPc' = "receive" \/ UNCHANGED live
    BY <1>5 DEF PublishStep, ReadSnapshots, Publish, PublishFails, PublisherStep, runVars
  <2>2. QED
    BY <2>1 DEF Reported
<1>6. ASSUME UNCHANGED <<runPc, found, hasDevices, pubPc, live>> PROVE SentIsKnown'
  BY <1>6 DEF Reported
<1>7. CASE WorldStep
  BY <1>6, <1>7 DEF WorldStep, Allocated, Unallocated, DeviceLeaves, DeviceReturns,
                    DeviceReturnsSilently, DeviceReturnsUnannounced, RequestRescan, Changed, runVars, pubVars
<1>8. ASSUME NEW l \in Lookups, LookupAction(l) PROVE SentIsKnown'
  BY <1>6, <1>8 DEF LookupAction, FirstLookup, LookupReads, LookupUpdates, SecondLookup,
                    LookupReturns, LookupStep, runVars, pubVars
<1>9. CASE UNCHANGED vars
  BY <1>6, <1>9 DEF vars, runVars, pubVars
<1>10. QED
  BY <1>1, <1>2, <1>3, <1>4, <1>5, <1>7, <1>8, <1>9 DEF Next, RunStep

\* A device that is coming stays so until a publisher that has not read the
\* snapshots has the list.
LEMMA ComingKept ==
  ASSUME InventoryInv, SentIsKnown, [Next]_vars, NEW d \in Devices, Coming(d)
  PROVE  Coming(d)' \/ pubPc' = "publish"
<1> USE DEF InventoryInv, InventoryTypeOK, Coming, Woken
<1>1. CASE RunReads \/ LinkUpdate \/ Rescan \/ Poll
  BY <1>1 DEF RunReads, LinkUpdate, Rescan, Poll
<1>2. CASE RunUpdates
  BY <1>2 DEF RunUpdates, Reported
<1>3. CASE Notify
  BY <1>3 DEF Notify
<1>4. ASSUME UNCHANGED <<runPc, found>>, links' >= links, unannounced \subseteq unannounced',
             (rescanCh \/ owed) => (rescanCh' \/ owed')
      PROVE  Coming(d)'
  <2>1. CASE links > 0
    <3>1. links \in 0..MaxChanges /\ links' \in 0..MaxChanges
      BY NextKeepsType, ChangesAssumption DEF vars, worldVars
    <3>2. links' > 0
      BY <1>4, <2>1, <3>1, ChangesAssumption
    <3>3. QED
      BY <3>2, Zenon
  <2>2. CASE rescanCh \/ owed
    BY <1>4, <2>2, Zenon
  <2>3. CASE runPc = "wait" \/ runPc # "select" \/ d \in unannounced \/ ~Reported(found)
    BY <1>4, <2>3 DEF Reported
  <2>4. QED
    BY <2>1, <2>2, <2>3
<1>5. CASE PublishStep
  BY <1>4, <1>5 DEF PublishStep, ReadSnapshots, Publish, PublishFails, PublisherStep, runVars
<1>6. CASE WorldStep
  <2>1. ASSUME NEW e \in Devices, Allocated(e) \/ Unallocated(e)
        PROVE  UNCHANGED <<runPc, found, links, unannounced, rescanCh, owed>>
    BY <2>1 DEF Allocated, Unallocated, runVars
  <2>2. ASSUME NEW e \in Devices, \/ DeviceLeaves(e) \/ DeviceReturns(e) \/ DeviceReturnsSilently(e)
                                  \/ DeviceReturnsUnannounced(e)
        PROVE  /\ UNCHANGED <<runPc, found, rescanCh>> /\ links' >= links
               /\ unannounced \subseteq unannounced' /\ (owed => owed')
    BY <2>2 DEF DeviceLeaves, DeviceReturns, DeviceReturnsSilently, DeviceReturnsUnannounced, Changed
  <2>3. CASE RequestRescan
    BY <1>4, <2>3 DEF RequestRescan, runVars
  <2>4. QED
    BY <1>4, <1>6, <2>1, <2>2, <2>3 DEF WorldStep
<1>7. ASSUME NEW l \in Lookups, LookupAction(l) PROVE Coming(d)'
  BY <1>4, <1>7 DEF LookupAction, FirstLookup, LookupReads, LookupUpdates, SecondLookup,
                    LookupReturns, LookupStep, worldVars, runVars
<1>8. CASE UNCHANGED vars
  BY <1>4, <1>8 DEF vars, worldVars, runVars
<1>9. QED
  BY <1>1, <1>2, <1>3, <1>5, <1>6, <1>7, <1>8 DEF Next, RunStep

LEMMA LeftOutKept ==
  ASSUME InventoryInv, SentIsKnown, LeftOutIsComing, [Next]_vars
  PROVE  LeftOutIsComing'
<1> SUFFICES ASSUME PersistentAttributes, pubPc' = "merged"
             PROVE  live' \subseteq merged' /\ \A d \in allocated' \ merged' : (d \in late /\ Coming(d))'
  BY DEF LeftOutIsComing
<1> USE DEF InventoryInv, InventoryTypeOK
<1>1. CASE ReadSnapshots
  BY <1>1 DEF ReadSnapshots, PublisherStep, Snapshots
<1>2. ASSUME UNCHANGED <<live, merged, pubPc>>, allocated' \subseteq allocated, late \subseteq late'
      PROVE  live' \subseteq merged' /\ \A d \in allocated' \ merged' : (d \in late /\ Coming(d))'
  <2>1. pubPc = "merged" /\ live \subseteq merged /\ \A d \in allocated \ merged : d \in late /\ Coming(d)
    BY <1>2 DEF LeftOutIsComing
  <2>2. ASSUME NEW d \in allocated' \ merged' PROVE (d \in late /\ Coming(d))'
    <3>1. d \in Devices /\ d \in late /\ Coming(d)
      BY <1>2, <2>1, <2>2
    <3>2. Coming(d)'
      BY <3>1, ComingKept
    <3>3. QED
      BY <1>2, <3>1, <3>2
  <2>3. QED
    BY <1>2, <2>1, <2>2
<1>3. ASSUME NEW e \in Devices, Allocated(e)
      PROVE  live' \subseteq merged' /\ \A d \in allocated' \ merged' : (d \in late /\ Coming(d))'
  <2>1. /\ e \in host /\ allocated' = allocated \cup {e} /\ late' = late \cup ({e} \ allocated)
        /\ UNCHANGED <<live, merged, pubPc, runPc, found, host, links, rescanCh, owed, unannounced>>
    BY <1>3 DEF Allocated, runVars, pubVars
  <2>2. pubPc = "merged" /\ live \subseteq merged /\ \A d \in allocated \ merged : d \in late /\ Coming(d)
    BY <2>1 DEF LeftOutIsComing
  <2>3. ASSUME NEW d \in Devices, Coming(d) PROVE Coming(d)'
    BY <2>1, <2>3 DEF Coming, Woken, Reported
  <2>4. ASSUME e \notin merged PROVE Coming(e)
    <3>1. CASE runPc # "select" \/ e \in unannounced
      BY <3>1 DEF Coming
    <3>2. CASE runPc = "select" /\ e \notin unannounced
      <4>1. e \notin found
        BY <2>2, <2>4, <3>2 DEF SentIsKnown
      <4>2. found \ unannounced # host \ unannounced
        BY <2>1, <3>2, <4>1
      <4>3. QED
        BY <4>2 DEF NoLostWakeup, Coming
    <3>3. QED
      BY <3>1, <3>2
  <2>5. ASSUME NEW d \in allocated' \ merged' PROVE (d \in late /\ Coming(d))'
    <3>1. CASE d \in allocated
      BY <2>1, <2>2, <2>3, <2>5, <3>1
    <3>2. CASE d = e /\ e \notin allocated
      BY <2>1, <2>3, <2>4, <2>5, <3>2
    <3>3. QED
      BY <2>1, <2>5, <3>1, <3>2
  <2>6. QED
    BY <2>1, <2>2, <2>5
<1>4. ASSUME NEW e \in Devices, Unallocated(e)
      PROVE  UNCHANGED <<live, merged, pubPc>> /\ allocated' \subseteq allocated /\ late \subseteq late'
  BY <1>4 DEF Unallocated, pubVars
<1>5. ASSUME NEW e \in Devices, \/ DeviceLeaves(e) \/ DeviceReturns(e) \/ DeviceReturnsSilently(e)
                                \/ DeviceReturnsUnannounced(e)
      PROVE  UNCHANGED <<live, merged, pubPc>> /\ allocated' \subseteq allocated /\ late \subseteq late'
  BY <1>5 DEF DeviceLeaves, DeviceReturns, DeviceReturnsSilently, DeviceReturnsUnannounced, Changed, pubVars
<1>6. CASE RequestRescan
  BY <1>2, <1>6 DEF RequestRescan, pubVars
<1>7. CASE RunReads \/ RunUpdates \/ LinkUpdate \/ Rescan \/ Poll
  BY <1>2, <1>7 DEF RunReads, RunUpdates, LinkUpdate, Rescan, Poll, worldVars, pubVars
<1>8. CASE Notify \/ Publish \/ PublishFails
  BY <1>8 DEF Notify, Publish, PublishFails, PublisherStep
<1>9. ASSUME NEW l \in Lookups, LookupAction(l)
      PROVE  UNCHANGED <<live, merged, pubPc, allocated, late>>
  BY <1>9 DEF LookupAction, FirstLookup, LookupReads, LookupUpdates, SecondLookup,
              LookupReturns, LookupStep, worldVars, pubVars
<1>10. CASE UNCHANGED vars
  BY <1>2, <1>10 DEF vars, worldVars, pubVars
<1>11. QED
  BY <1>1, <1>2, <1>3, <1>4, <1>5, <1>6, <1>7, <1>8, <1>9, <1>10
     DEF Next, WorldStep, RunStep, PublishStep

LEMMA StaysPublishedKept ==
  ASSUME InventoryInv, SentIsKnown, LeftOutIsComing, AllocatedStaysPublished, [Next]_vars
  PROVE  AllocatedStaysPublished'
<1> DEFINE Shown(d) == \/ refused
                       \/ pubPc = "publish" \/ (pubPc = "merged" /\ d \in merged)
                       \/ d \in late /\ Coming(d)
<1>1. PersistentAttributes => \A d \in allocated \ published : Shown(d)
  BY DEF AllocatedStaysPublished, Coming
<1>2. SUFFICES ASSUME PersistentAttributes, NEW d \in allocated' \ published' PROVE Shown(d)'
  BY DEF AllocatedStaysPublished, Coming
<1> USE DEF InventoryInv, InventoryTypeOK
<1>3. ASSUME UNCHANGED <<published, refused, merged>>, d \in allocated, late \subseteq late',
             pubPc' = pubPc \/ pubPc' = "publish"
      PROVE  Shown(d)'
  <2>1. d \in Devices /\ Shown(d)
    BY <1>1, <1>2, <1>3
  <2>2. Coming(d) => Coming(d)' \/ pubPc' = "publish"
    BY <2>1, ComingKept
  <2>3. QED
    BY <1>3, <2>1, <2>2
<1>4. ASSUME NEW e \in Devices, Allocated(e) PROVE Shown(d)'
  <2>1. /\ e \in published /\ allocated' = allocated \cup {e} /\ late \subseteq late'
        /\ UNCHANGED <<published, refused, merged, pubPc>>
    BY <1>4 DEF Allocated, pubVars
  <2>2. QED
    BY <1>2, <1>3, <2>1
<1>5. ASSUME NEW e \in Devices, Unallocated(e) PROVE Shown(d)'
  <2>1. /\ allocated' \subseteq allocated /\ late \subseteq late'
        /\ UNCHANGED <<published, refused, merged, pubPc>>
    BY <1>5 DEF Unallocated, pubVars
  <2>2. QED
    BY <1>2, <1>3, <2>1
<1>6. ASSUME NEW e \in Devices, \/ DeviceLeaves(e) \/ DeviceReturns(e) \/ DeviceReturnsSilently(e)
                                \/ DeviceReturnsUnannounced(e)
      PROVE  Shown(d)'
  <2>1. UNCHANGED <<published, refused, merged, pubPc, allocated, late>>
    BY <1>6 DEF DeviceLeaves, DeviceReturns, DeviceReturnsSilently, DeviceReturnsUnannounced, Changed, pubVars
  <2>2. QED
    BY <1>2, <1>3, <2>1
<1>7. CASE RequestRescan \/ RunReads \/ RunUpdates \/ LinkUpdate \/ Rescan \/ Poll \/ Notify
  <2>1. /\ UNCHANGED <<published, refused, merged, allocated, late>>
        /\ pubPc' = pubPc \/ pubPc' = "publish"
    BY <1>7 DEF RequestRescan, RunReads, RunUpdates, LinkUpdate, Rescan, Poll, Notify, worldVars, pubVars
  <2>2. QED
    BY <1>2, <1>3, <2>1
<1>8. CASE ReadSnapshots
  BY <1>2, <1>8 DEF ReadSnapshots, PublisherStep, Snapshots
<1>9. CASE Publish
  <2>1. pubPc = "merged" /\ published' = merged /\ UNCHANGED <<allocated, late>>
    BY <1>9 DEF Publish, PublisherStep
  <2>2. d \in Devices /\ d \in late /\ Coming(d)
    BY <1>2, <2>1 DEF LeftOutIsComing
  <2>3. Coming(d)'
    BY <1>9, <2>2, ComingKept DEF Publish, PublisherStep
  <2>4. QED
    BY <2>1, <2>2, <2>3
<1>10. CASE PublishFails
  BY <1>10 DEF PublishFails
<1>11. ASSUME NEW l \in Lookups, LookupAction(l) PROVE Shown(d)'
  <2>1. UNCHANGED <<published, refused, merged, pubPc, allocated, late>>
    BY <1>11 DEF LookupAction, FirstLookup, LookupReads, LookupUpdates, SecondLookup,
                 LookupReturns, LookupStep, worldVars, pubVars
  <2>2. QED
    BY <1>2, <1>3, <2>1
<1>12. CASE UNCHANGED vars
  <2>1. UNCHANGED <<published, refused, merged, pubPc, allocated, late>>
    BY <1>12 DEF vars, worldVars, pubVars
  <2>2. QED
    BY <1>2, <1>3, <2>1
<1>13. QED
  BY <1>4, <1>5, <1>6, <1>7, <1>8, <1>9, <1>10, <1>11, <1>12 DEF Next, WorldStep, RunStep, PublishStep

\* A device that is prepared for a pod is in the ResourceSlice, or a publication
\* with it is on its way or was refused; one that a publication dropped, since it
\* was prepared after the snapshots were read, comes back without waiting for the
\* poll, but for the two exceptions the property names.
THEOREM AllocatedAlwaysComesBack == Spec => []AllocatedStaysPublished
<1>1. Init => SentIsKnown /\ LeftOutIsComing /\ AllocatedStaysPublished
  BY DEF Init, SentIsKnown, LeftOutIsComing, AllocatedStaysPublished
<1>2. InventoryInv /\ SentIsKnown /\ [Next]_vars => SentIsKnown'
  BY SentIsKnownKept
<1>3. InventoryInv /\ SentIsKnown /\ LeftOutIsComing /\ [Next]_vars => LeftOutIsComing'
  BY LeftOutKept
<1>4. InventoryInv /\ SentIsKnown /\ LeftOutIsComing /\ AllocatedStaysPublished /\ [Next]_vars
        => AllocatedStaysPublished'
  BY StaysPublishedKept
<1>5. QED
  BY <1>1, <1>2, <1>3, <1>4, InventoryInvariant, PTL DEF Spec
=============================================================================

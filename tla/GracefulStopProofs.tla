------------------------- MODULE GracefulStopProofs -------------------------
(***************************************************************************)
(* Stop does not take the NRI plugin away from prompt pods, for any pods,  *)
(* numbers of containers, grace period, poll interval and fallback.        *)
(***************************************************************************)
EXTENDS GracefulStop, TLAPS

\* The pods Stop is to wait for: prompt ones that were prepared before it.
Awaited == (Prompt \cap configs) \ inFlight

\* Only stored pods have activity, and it is the time of their last progress.
ActivityIsProgress ==
  \A p \in Pods : activity[p] # Never => p \in configs /\ activity[p] = since[p]

\* Progress is never in the future, and for a pod without activity that was
\* prepared before Stop it is not after Stop began.
ProgressBeforeStop ==
  /\ \A p \in Pods : since[p] <= now
  /\ phase # "running" =>
       \A p \in configs \ inFlight : activity[p] = Never => since[p] <= base

\* A prompt pod with containers to create made progress within the grace period.
PromptArePrompt ==
  \A p \in Awaited : left[p] > 0 => now - since[p] < Grace

\* Calls in progress matter from Stop on.
InFlightSinceStop == phase = "running" => inFlight = {}

\* Once Stop has decided, nothing is left to be created.
DecisionStands ==
  phase \in {"cancelled", "stopped"} /\ ~byFallback => \A p \in Awaited : left[p] = 0

StopInv ==
  /\ StopTypeOK
  /\ ActivityIsProgress
  /\ ProgressBeforeStop
  /\ PromptArePrompt
  /\ InFlightSinceStop
  /\ DecisionStands

LEMMA TimesAreNat == MaxTime \in Nat /\ Times \subseteq Nat /\ 0 \in Times
BY StopAssumption DEF MaxTime, Times

LEMMA InitStopInv == Init => StopInv
<1> SUFFICES ASSUME Init PROVE StopInv
  OBVIOUS
<1>1. activity \in [Pods -> Times \cup {Never}] /\ since \in [Pods -> Times]
  BY TimesAreNat DEF Init
<1>2. left \in [Pods -> 0..Containers]
  BY StopAssumption DEF Init
<1>3. now \in Times /\ base \in Times /\ tickAt \in 0..MaxTime + Interval
  BY TimesAreNat, StopAssumption DEF Init
<1>4. StopTypeOK
  BY <1>1, <1>2, <1>3, Zenon DEF Init, StopTypeOK
<1>5. ActivityIsProgress
  BY DEF Init, ActivityIsProgress
<1>6. ProgressBeforeStop
  BY DEF Init, ProgressBeforeStop
<1>7. PromptArePrompt /\ InFlightSinceStop /\ DecisionStands
  BY DEF Init, PromptArePrompt, InFlightSinceStop, DecisionStands, Awaited
<1>8. QED
  BY <1>4, <1>5, <1>6, <1>7 DEF StopInv

\* The steps of a pod.
LEMMA PrepareKeeps ==
  ASSUME StopInv, NEW p \in Pods, Prepare(p)
  PROVE  StopInv'
<1> USE DEF StopInv, StopTypeOK
<1>1. /\ configs' = configs \cup {p} /\ p \notin configs
      /\ since' = [since EXCEPT ![p] = now]
      /\ UNCHANGED <<now, phase, base, tickAt, byFallback, inFlight, activity, ran, left>>
  BY DEF Prepare, stopVars
<1>2. phase = "running" \/ p \in inFlight
  BY DEF Prepare
<1>3. since' \in [Pods -> Times]
  BY <1>1
<1>4. StopTypeOK'
  BY <1>1, <1>3, Zenon DEF Times
<1>5. ActivityIsProgress'
  BY <1>1 DEF ActivityIsProgress
<1>6. ProgressBeforeStop'
  BY <1>1, <1>2, TimesAreNat DEF ProgressBeforeStop
<1>7. PromptArePrompt'
  BY <1>1, <1>2, TimesAreNat, StopAssumption DEF PromptArePrompt, Awaited
<1>8. InFlightSinceStop' /\ DecisionStands'
  BY <1>1, <1>2 DEF InFlightSinceStop, DecisionStands, Awaited
<1>9. QED
  BY <1>4, <1>5, <1>6, <1>7, <1>8

LEMMA CreateContainerKeeps ==
  ASSUME StopInv, NEW p \in Pods, CreateContainer(p)
  PROVE  StopInv'
<1> USE DEF StopInv, StopTypeOK
<1>1. /\ p \in configs /\ (left[p] > 0 \/ p \in Restless)
      /\ activity' = [activity EXCEPT ![p] = now]
      /\ since' = [since EXCEPT ![p] = now]
      /\ left' = [left EXCEPT ![p] = IF p \in Restless THEN left[p] ELSE left[p] - 1]
      /\ UNCHANGED <<now, phase, base, tickAt, byFallback, inFlight, configs, ran>>
  BY DEF CreateContainer, stopVars
<1>2. activity' \in [Pods -> Times \cup {Never}] /\ since' \in [Pods -> Times]
  BY <1>1
<1>3. left' \in [Pods -> 0..Containers]
  BY <1>1, StopAssumption
<1>4. StopTypeOK'
  BY <1>1, <1>2, <1>3, Zenon DEF Times
<1>5. now # Never
  BY TimesAreNat, StopAssumption
<1>6. ActivityIsProgress'
  BY <1>1 DEF ActivityIsProgress
<1>7. ProgressBeforeStop'
  BY <1>1, <1>5, TimesAreNat DEF ProgressBeforeStop
<1>8. PromptArePrompt'
  BY <1>1, TimesAreNat, StopAssumption DEF PromptArePrompt, Awaited
<1>9. InFlightSinceStop' /\ DecisionStands'
  BY <1>1, StopAssumption DEF InFlightSinceStop, DecisionStands, Awaited
<1>10. QED
  BY <1>4, <1>6, <1>7, <1>8, <1>9

\* The check of Stop ends the wait only when no awaited pod has a container left.
LEMMA CheckKeeps ==
  ASSUME StopInv, Check
  PROVE  StopInv'
<1> USE DEF StopInv, StopTypeOK
<1>1. /\ phase = "waiting" /\ now >= tickAt /\ tickAt' = tickAt + Interval
      /\ UNCHANGED <<now, base, inFlight, configs, activity, ran, left, since>>
  BY DEF Check, podVars
<1>2. byFallback' \in BOOLEAN /\ (~byFallback' => ~FallbackReached)
  <2>1. FallbackReached \in BOOLEAN
    BY DEF FallbackReached
  <2>2. byFallback' = FallbackReached
    BY DEF Check
  <2>3. QED
    BY <2>1, <2>2, Zenon
<1>3. phase' \in {"waiting", "cancelled"}
  BY DEF Check
<1>4. tickAt' \in 0..MaxTime + Interval
  BY <1>1, TimesAreNat, StopAssumption DEF Times
<1>5. StopTypeOK'
  BY <1>1, <1>2, <1>3, <1>4, Zenon DEF Times
<1>6. ASSUME phase' = "cancelled", ~byFallback', NEW p \in Awaited
      PROVE  left[p] = 0
  <2>1. p \in Pods /\ p \in configs /\ p \notin WaitingForGrace
    BY <1>2, <1>6 DEF Check, Awaited
  <2>2. ~(now - PreviousActivity(p) < Grace)
    BY <2>1 DEF WaitingForGrace
  <2>3. PreviousActivity(p) \in Nat /\ since[p] \in Nat /\ now \in Nat
    BY <2>1, TimesAreNat DEF PreviousActivity
  <2>4. since[p] <= PreviousActivity(p)
    BY <1>1, <1>6, <2>1, <2>3 DEF PreviousActivity, ActivityIsProgress, ProgressBeforeStop, Awaited
  <2>5. ~(left[p] > 0)
    BY <1>6, <2>2, <2>3, <2>4, StopAssumption DEF PromptArePrompt
  <2>6. QED
    BY <2>1, <2>5
<1>7. InFlightSinceStop' /\ DecisionStands'
  BY <1>1, <1>3, <1>6 DEF InFlightSinceStop, DecisionStands, Awaited
<1>8. ActivityIsProgress'
  BY <1>1 DEF ActivityIsProgress
<1>9. ProgressBeforeStop'
  BY <1>1 DEF ProgressBeforeStop
<1>10. PromptArePrompt'
  BY <1>1 DEF PromptArePrompt, Awaited
<1>11. QED
  BY <1>5, <1>7, <1>8, <1>9, <1>10

LEMMA OtherStepsKeep ==
  ASSUME StopInv,
         StopBegins \/ StopNRI \/ Tick \/ (\E p \in Pods : RunPodSandbox(p))
  PROVE  StopInv'
<1> USE DEF StopInv, StopTypeOK
<1>1. CASE StopBegins
  <2>1. /\ phase = "running" /\ phase' = "waiting" /\ base' = now /\ tickAt' = now
        /\ inFlight' \subseteq Pods /\ inFlight' \cap configs = {}
        /\ UNCHANGED <<now, byFallback, configs, activity, ran, left, since>>
    BY <1>1 DEF StopBegins, podVars
  <2>2. tickAt' \in 0..MaxTime + Interval
    BY <2>1, TimesAreNat, StopAssumption DEF Times
  <2>3. StopTypeOK'
    BY <2>1, <2>2, Zenon DEF Times
  <2>4. ActivityIsProgress' /\ ProgressBeforeStop'
    BY <2>1 DEF ActivityIsProgress, ProgressBeforeStop
  <2>5. PromptArePrompt' /\ InFlightSinceStop' /\ DecisionStands'
    BY <2>1 DEF PromptArePrompt, InFlightSinceStop, DecisionStands, Awaited
  <2>6. QED
    BY <2>3, <2>4, <2>5
<1>2. CASE StopNRI
  <2>1. /\ phase = "cancelled" /\ phase' = "stopped"
        /\ UNCHANGED <<now, base, tickAt, byFallback, inFlight, configs, activity, ran, left, since>>
    BY <1>2 DEF StopNRI, podVars
  <2>2. StopTypeOK'
    BY <2>1, Zenon DEF Times
  <2>3. ActivityIsProgress' /\ ProgressBeforeStop' /\ PromptArePrompt'
        /\ InFlightSinceStop' /\ DecisionStands'
    BY <2>1 DEF ActivityIsProgress, ProgressBeforeStop, PromptArePrompt, InFlightSinceStop,
                DecisionStands, Awaited
  <2>4. QED
    BY <2>2, <2>3
<1>3. CASE Tick
  <2>1. /\ now' = now + 1 /\ now < MaxTime /\ \A p \in Pods : ~MustAct(p)
        /\ UNCHANGED <<phase, base, tickAt, byFallback, inFlight, configs, activity, ran, left, since>>
    BY <1>3 DEF Tick, stopVars, podVars
  <2>2. now' \in Times
    BY <2>1, TimesAreNat DEF Times
  <2>3. StopTypeOK'
    BY <2>1, <2>2, Zenon DEF Times
  <2>4. ActivityIsProgress' /\ InFlightSinceStop' /\ DecisionStands'
    BY <2>1 DEF ActivityIsProgress, InFlightSinceStop, DecisionStands, Awaited
  <2>5. ProgressBeforeStop'
    <3>1. \A p \in Pods : since[p] \in Nat /\ since[p] <= now
      BY TimesAreNat DEF ProgressBeforeStop
    <3>2. now \in Nat
      BY TimesAreNat
    <3>3. \A p \in Pods : since'[p] <= now'
      BY <2>1, <3>1, <3>2
    <3>4. QED
      BY <2>1, <3>3 DEF ProgressBeforeStop
  <2>6. PromptArePrompt'
    <3>1. Awaited' = Awaited
      BY <2>1 DEF Awaited
    <3> SUFFICES ASSUME NEW p \in Awaited, left[p] > 0
                 PROVE  now' - since'[p] < Grace
      BY <2>1, <3>1, Zenon DEF PromptArePrompt
    <3>2. p \in Pods /\ ~MustAct(p)
      BY <2>1 DEF Awaited
    <3>3. now \in Nat /\ since[p] \in Nat /\ Grace \in Nat
      BY <3>2, TimesAreNat, StopAssumption
    <3>4. QED
      BY <2>1, <3>2, <3>3 DEF Awaited, MustAct
  <2>7. QED
    BY <2>3, <2>4, <2>5, <2>6
<1>4. ASSUME NEW p \in Pods, RunPodSandbox(p)
      PROVE  StopInv'
  <2>1. /\ ran' = ran \cup {p} /\ p \in configs
        /\ UNCHANGED <<now, phase, base, tickAt, byFallback, inFlight, configs, activity, left, since>>
    BY <1>4 DEF RunPodSandbox, stopVars
  <2>2. StopTypeOK'
    BY <2>1, Zenon DEF Times
  <2>3. ActivityIsProgress' /\ ProgressBeforeStop' /\ PromptArePrompt'
        /\ InFlightSinceStop' /\ DecisionStands'
    BY <2>1 DEF ActivityIsProgress, ProgressBeforeStop, PromptArePrompt, InFlightSinceStop,
                DecisionStands, Awaited
  <2>4. QED
    BY <2>2, <2>3
<1>5. QED
  BY <1>1, <1>2, <1>3, <1>4

\* The invariant holds in every behaviour.
THEOREM StopInvariant == Spec => []StopInv
<1>1. StopInv /\ UNCHANGED vars => StopInv'
  <2> SUFFICES ASSUME StopInv, UNCHANGED vars PROVE StopInv'
    OBVIOUS
  <2> USE DEF StopInv, vars, stopVars, podVars
  <2>1. StopTypeOK'
    BY Zenon DEF StopTypeOK, Times
  <2>2. ActivityIsProgress' /\ ProgressBeforeStop' /\ PromptArePrompt'
        /\ InFlightSinceStop' /\ DecisionStands'
    BY DEF ActivityIsProgress, ProgressBeforeStop, PromptArePrompt, InFlightSinceStop,
           DecisionStands, Awaited
  <2>3. QED
    BY <2>1, <2>2
<1>2. StopInv /\ [Next]_vars => StopInv'
  BY <1>1, PrepareKeeps, CreateContainerKeeps, CheckKeeps, OtherStepsKeep DEF Next
<1>3. QED
  BY InitStopInv, <1>2, PTL DEF Spec

\* Stop keeps the types of its state; its clock stays within the time by which
\* it has returned.
THEOREM StopTypeCorrect == Spec => []StopTypeOK
<1>1. StopInv => StopTypeOK
  BY DEF StopInv
<1>2. QED
  BY StopInvariant, <1>1, PTL

\* Unless the fallback timeout ends the wait, every prompt pod that was prepared
\* before Stop has all its containers when the NRI plugin stops.
THEOREM PromptPodsAlwaysServed == Spec => []PromptPodsServed
<1>1. StopInv => PromptPodsServed
  BY DEF StopInv, DecisionStands, PromptPodsServed, Awaited
<1>2. QED
  BY StopInvariant, <1>1, PTL
=============================================================================

---------------------------- MODULE GracefulStop ----------------------------
(***************************************************************************)
(* The graceful stop of the driver: NetworkDriver.Stop halts the DRA       *)
(* plugin, polls until the prepared pods have been quiet for a grace       *)
(* period, and then stops the NRI plugin.  Time is discrete.               *)
(*                                                                         *)
(* A pod is prepared by a DRA call, and its sandbox and its containers     *)
(* then call NRI hooks at times of the runtime's choosing.                 *)
(***************************************************************************)
EXTENDS Integers

CONSTANTS
  Pods,
  Prompt,     \* pods that create each container within the grace period of the
              \* previous one, the first within that of being prepared
  Restless,   \* pods that never stop creating containers
  Containers, \* number of containers of every other pod
  Grace,      \* gracePeriod
  Interval,   \* pollInterval
  Fallback,   \* fallbackTimeout
  MaxStart,   \* bound on the time at which Stop is called
  Never       \* the zero time

ASSUME StopAssumption ==
  /\ Prompt \subseteq Pods /\ Restless \subseteq Pods
  /\ Prompt \cap Restless = {}
  /\ Containers \in Nat /\ MaxStart \in Nat
  /\ Grace \in Nat \ {0} /\ Interval \in Nat \ {0} /\ Fallback \in Nat \ {0}
  /\ Never \notin Nat

\* Later than any Stop called by MaxStart returns.
MaxTime == MaxStart + Fallback + Interval

VARIABLES
  now,
  phase,       \* "running", "waiting", "cancelled", "stopped"
  base,        \* defaultPreviousActivity
  tickAt,      \* when the ticker fires next
  byFallback,  \* the fallback timeout ended the wait
  inFlight,    \* pods whose DRA call was being handled when Stop was called
  configs,     \* pods in the pod configuration store
  activity,    \* LastNRIActivity
  ran,         \* pods whose RunPodSandbox hook has run
  left,        \* containers still to create
  since        \* when a pod last made progress: was prepared or got a container

podVars == <<configs, activity, ran, left, since>>
stopVars == <<phase, base, tickAt, byFallback, inFlight>>
vars == <<now, stopVars, podVars>>

\* The driver has just started; pods of its store have all their containers.
Init ==
  /\ now = 0 /\ phase = "running" /\ base = 0 /\ tickAt = 0
  /\ byFallback = FALSE /\ inFlight = {}
  /\ configs \in SUBSET (Pods \ Prompt)
  /\ activity = [p \in Pods |-> Never]
  /\ ran = configs
  /\ left = [p \in Pods |-> IF p \in configs THEN 0 ELSE Containers]
  /\ since = [p \in Pods |-> 0]

-----------------------------------------------------------------------------
(* The pods.                                                               *)

\* PrepareResourceClaims stores the first configuration of a pod.
Prepare(p) ==
  /\ p \notin configs
  /\ phase = "running" \/ (p \in inFlight /\ phase # "stopped")
  /\ configs' = configs \cup {p}
  /\ since' = [since EXCEPT ![p] = now]
  /\ UNCHANGED <<now, stopVars, activity, ran, left>>

NRIServed == phase # "stopped"

\* The hook leaves LastNRIActivity alone.
RunPodSandbox(p) ==
  /\ NRIServed /\ p \in configs \ ran
  /\ ran' = ran \cup {p}
  /\ UNCHANGED <<now, stopVars, configs, activity, left, since>>

\* A hook that records the time of the pod's first container only.
CreateContainerFirstOnly(p) ==
  /\ NRIServed /\ p \in ran
  /\ left[p] > 0 \/ p \in Restless
  /\ activity' = [activity EXCEPT ![p] = IF @ = Never THEN now ELSE @]
  /\ left' = [left EXCEPT ![p] = IF p \in Restless THEN @ ELSE @ - 1]
  /\ since' = [since EXCEPT ![p] = now]
  /\ UNCHANGED <<now, stopVars, configs, ran>>

\* UpdateLastNRIActivity is deferred to the end of the hook.
CreateContainer(p) ==
  /\ NRIServed /\ p \in ran
  /\ left[p] > 0 \/ p \in Restless
  /\ activity' = [activity EXCEPT ![p] = now]
  /\ left' = [left EXCEPT ![p] = IF p \in Restless THEN @ ELSE @ - 1]
  /\ since' = [since EXCEPT ![p] = now]
  /\ UNCHANGED <<now, stopVars, configs, ran>>

-----------------------------------------------------------------------------
(* Stop.                                                                   *)

\* draPlugin.Stop: no new call is accepted; a call that is being handled may
\* still store its pod.  The first check is made at once.
StopBegins ==
  /\ phase = "running"
  /\ phase' = "waiting"
  /\ base' = now /\ tickAt' = now
  /\ inFlight' \in SUBSET (Pods \ configs)
  /\ UNCHANGED <<now, byFallback, podVars>>

\* A pod without activity counts from the beginning of Stop.
PreviousActivity(p) == IF activity[p] = Never THEN base ELSE activity[p]

WaitingForGrace == {p \in configs : now - PreviousActivity(p) < Grace}

\* A fallback that is measured from the latest activity.
FallbackReachedSliding ==
  /\ now - base >= Fallback
  /\ \A p \in configs : now - PreviousActivity(p) >= Fallback

FallbackReached == now - base >= Fallback

\* The function `done`, when the ticker has fired.
Check ==
  /\ phase = "waiting" /\ now >= tickAt
  /\ byFallback' = FallbackReached
  /\ phase' = IF FallbackReached \/ WaitingForGrace = {} THEN "cancelled" ELSE "waiting"
  /\ tickAt' = tickAt + Interval
  /\ UNCHANGED <<now, base, inFlight, podVars>>

\* ctxCancel and nriPlugin.Stop.
StopNRI ==
  /\ phase = "cancelled"
  /\ phase' = "stopped"
  /\ UNCHANGED <<now, base, tickAt, byFallback, inFlight, podVars>>

\* A prompt pod that has containers to create will not let the next instant be
\* past its grace period; the one whose claim was prepared behind Stop's back
\* has no such promise.
MustAct(p) ==
  /\ p \in (Prompt \cap configs) \ inFlight /\ left[p] > 0
  /\ now + 1 - since[p] >= Grace

\* Time passes; the polling goroutine is not late.
Tick ==
  /\ now < MaxTime
  /\ phase = "running" => now < MaxStart
  /\ phase = "waiting" => now < tickAt
  /\ phase \in {"running", "waiting"}
  /\ \A p \in Pods : ~MustAct(p)
  /\ now' = now + 1
  /\ UNCHANGED <<stopVars, podVars>>

Next ==
  \/ \E p \in Pods : Prepare(p) \/ RunPodSandbox(p) \/ CreateContainer(p)
  \/ StopBegins \/ Check \/ StopNRI
  \/ Tick

\* Time passes, the goroutine of Stop runs, and prompt pods are prompt.
Fairness ==
  /\ WF_vars(Tick) /\ WF_vars(Check) /\ WF_vars(StopNRI)
  /\ \A p \in Prompt : WF_vars(RunPodSandbox(p)) /\ WF_vars(CreateContainer(p))

Spec == Init /\ [][Next]_vars /\ Fairness

-----------------------------------------------------------------------------
(* Properties.                                                             *)

Times == 0..MaxTime

\* Type invariant of the graceful stop.
StopTypeOK ==
  /\ now \in Times /\ base \in Times /\ tickAt \in 0..MaxTime + Interval
  /\ phase \in {"running", "waiting", "cancelled", "stopped"}
  /\ byFallback \in BOOLEAN
  /\ configs \subseteq Pods /\ ran \subseteq configs /\ inFlight \subseteq Pods
  /\ activity \in [Pods -> Times \cup {Never}]
  /\ left \in [Pods -> 0..Containers]
  /\ since \in [Pods -> Times]

\* Unless the fallback timeout cuts it short, Stop does not take the NRI plugin
\* away from a pod prepared before it that creates its containers less than a
\* grace period apart: all of them are created before the plugin stops.
PromptPodsServed ==
  phase = "stopped" /\ ~byFallback =>
    \A p \in (Prompt \cap configs) \ inFlight : left[p] = 0

\* Stop returns, whatever the pods do: "The loop has a fallback timeout".
StopReturns ==
  phase = "waiting" ~> phase = "stopped"
=============================================================================

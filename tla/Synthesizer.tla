---------------------------- MODULE Synthesizer ----------------------------
(***************************************************************************)
(* pkg/synthesizer: from the ResourceSlices of the underlying drivers to   *)
(* the DeviceStore and the composite ResourceSlices of a node.             *)
(*                                                                         *)
(* watcher.go feeds an informer's events through a 500 ms debounce timer   *)
(* into synthesizer.go's recompute.  The timer runs recompute in a         *)
(* goroutine of its own and nothing excludes two of them, so a recompute   *)
(* is a process here: it lists the cache, replaces the DeviceStore and     *)
(* publishes, in three steps.                                              *)
(***************************************************************************)
EXTENDS Naturals, FiniteSets

CONSTANTS
  Slices,      \* ResourceSlice objects in the cluster
  Relevant,    \* those of this node and of a configured source driver
  DevicesIn,   \* [Slices -> SUBSET of underlying devices it can list]
  Groups,      \* composite devices, each the set of its underlying devices
  Runs,        \* recomputes that can be in progress at the same time
  MaxChanges,  \* bound on the changes of slices
  MaxFailures, \* bound on the failures of Publish
  NoSlice      \* a slice that does not exist

ASSUME SynthAssumption ==
  /\ Relevant \subseteq Slices
  /\ \A x \in Slices : \A D \in SUBSET DevicesIn[x] : D # NoSlice
  /\ Runs # {}
  /\ MaxChanges \in Nat /\ MaxFailures \in Nat

VARIABLES
  slices,      \* [Slices -> devices listed, or NoSlice]: the API server
  cache,       \* the same, as the informer has seen it
  timer,       \* the debounce timer is running
  step,        \* [Runs -> StepSet]: where each recompute is
  result,      \* [Runs -> SUBSET Groups]: what its ComputePairs returned
  store,       \* composite devices in the DeviceStore
  published,   \* composite devices in the published ResourceSlices
  changes, failures,
  overlap,     \* [Runs -> BOOLEAN]: another recompute ran beside this one
  tainted      \* the last recompute to end overlapped or failed to publish

\* overlap and tainted are history variables: no action depends on them.
history   == <<overlap, tainted>>
synthVars == <<slices, cache, timer, step, result, store, published, changes, failures, history>>

StepSet == {"idle", "started", "paired", "stored"}

Contents(x) == SUBSET DevicesIn[x] \cup {NoSlice}

\* GetSourceDevices: the devices of the relevant slices in a view of the
\* cluster, whatever other drivers and nodes publish.
GetSourceDevices(view) ==
  UNION {view[x] : x \in {y \in Relevant : view[y] # NoSlice}}

\* ComputePairs as far as this module needs it: a composite device exists
\* when its underlying devices do.
ComputePairs(devices) == {g \in Groups : g \subseteq devices}

\* The first recompute is called by Watcher.Start itself once the cache is
\* synced; the Add events of the initial list have started the timer, too.
SynthInit ==
  /\ slices \in [Slices -> UNION {Contents(x) : x \in Slices}]
  /\ \A x \in Slices : slices[x] \in Contents(x)
  /\ cache = slices
  /\ timer = (\E x \in Relevant : slices[x] # NoSlice)
  /\ \E r \in Runs : step = [q \in Runs |-> IF q = r THEN "started" ELSE "idle"]
  /\ result = [r \in Runs |-> {}]
  /\ store = {} /\ published = {}
  /\ changes = 0 /\ failures = 0
  /\ overlap = [r \in Runs |-> FALSE] /\ tainted = FALSE

----------------------------------------------------------------------------
(* Watcher                                                                 *)

\* An underlying driver creates, updates or deletes a slice (external).
Change(x) ==
  /\ changes < MaxChanges
  /\ \E v \in Contents(x) : v # slices[x] /\ slices' = [slices EXCEPT ![x] = v]
  /\ changes' = changes + 1
  /\ UNCHANGED <<cache, timer, step, result, store, published, failures, history>>

isRelevantSlice(x) == x \in Relevant

\* Mutant: the event of a deleted slice is dropped.
handleEventNotDeleted(x) == timer' = (timer \/ (isRelevantSlice(x) /\ slices[x] # NoSlice))

\* handleEvent with debouncedOnChange: a relevant slice restarts the timer.
handleEvent(x) == timer' = (timer \/ isRelevantSlice(x))

\* The informer updates its cache and calls the event handler.
Deliver(x) ==
  /\ cache[x] # slices[x]
  /\ cache' = [cache EXCEPT ![x] = slices[x]]
  /\ handleEvent(x)
  /\ UNCHANGED <<slices, step, result, store, published, changes, failures, history>>

\* Mutant: the informer is created without resync.
ResyncNever(x) == FALSE /\ UNCHANGED synthVars

\* Every 30 s the informer reports each cached slice as updated.
Resync(x) ==
  /\ cache[x] # NoSlice
  /\ ~timer
  /\ handleEvent(x)
  /\ UNCHANGED <<slices, cache, step, result, store, published, changes, failures, history>>

\* The timer fires: recompute starts in a goroutine of its own.
Fire(r) ==
  /\ timer /\ step[r] = "idle"
  /\ timer' = FALSE
  /\ step' = [step EXCEPT ![r] = "started"]
  /\ LET running == {q \in Runs : step[q] # "idle"}
     IN overlap' = [q \in Runs |-> IF q = r THEN running # {}
                                   ELSE overlap[q] \/ q \in running]
  /\ UNCHANGED <<slices, cache, result, store, published, changes, failures, tainted>>

----------------------------------------------------------------------------
(* Synthesizer.recompute                                                   *)

ListAndPair(r) ==
  /\ step[r] = "started"
  /\ result' = [result EXCEPT ![r] = ComputePairs(GetSourceDevices(cache))]
  /\ step' = [step EXCEPT ![r] = "paired"]
  /\ UNCHANGED <<slices, cache, timer, store, published, changes, failures, history>>

\* Mutant: the underlying devices are stored instead of the composite ones.
ReplaceAllDevices(r) ==
  /\ step[r] = "paired"
  /\ store' = GetSourceDevices(cache)
  /\ step' = [step EXCEPT ![r] = "stored"]
  /\ UNCHANGED <<slices, cache, timer, result, published, changes, failures, history>>

\* DeviceStore.ReplaceAll
ReplaceAll(r) ==
  /\ step[r] = "paired"
  /\ store' = result[r]
  /\ step' = [step EXCEPT ![r] = "stored"]
  /\ UNCHANGED <<slices, cache, timer, result, published, changes, failures, history>>

\* Publisher.Publish; an error is only logged.
Publish(r) ==
  /\ step[r] = "stored"
  /\ \/ published' = result[r] /\ UNCHANGED failures
     \/ failures < MaxFailures /\ failures' = failures + 1 /\ UNCHANGED published
  /\ tainted' = (overlap[r] \/ failures' # failures)
  /\ step' = [step EXCEPT ![r] = "idle"]
  /\ result' = [result EXCEPT ![r] = {}]
  /\ UNCHANGED <<slices, cache, timer, store, changes, overlap>>

----------------------------------------------------------------------------
Recomputes == \E r \in Runs : ListAndPair(r) \/ ReplaceAll(r) \/ Publish(r)

SynthNext ==
  \/ \E x \in Slices : Change(x) \/ Deliver(x) \/ Resync(x)
  \/ \E r \in Runs : Fire(r)
  \/ Recomputes

\* Informer and goroutines make progress, resyncs come, and the timer gets
\* its 500 ms of silence; nothing is assumed of the underlying drivers.
SynthFairness ==
  /\ \A x \in Slices : WF_synthVars(Deliver(x)) /\ WF_synthVars(Resync(x))
  /\ WF_synthVars(\E r \in Runs : Fire(r))
  /\ \A r \in Runs : WF_synthVars(ListAndPair(r) \/ ReplaceAll(r) \/ Publish(r))

SynthSpec == SynthInit /\ [][SynthNext]_synthVars

FairSynthSpec == SynthSpec /\ SynthFairness

----------------------------------------------------------------------------
(* Properties                                                              *)

\* Type correctness of the synthesizer.
SynthTypeOK ==
  /\ DOMAIN slices = Slices /\ DOMAIN cache = Slices
  /\ \A x \in Slices : slices[x] \in Contents(x) /\ cache[x] \in Contents(x)
  /\ timer \in BOOLEAN
  /\ step \in [Runs -> StepSet]
  /\ result \in [Runs -> SUBSET Groups]
  /\ store \in SUBSET Groups
  /\ published \in SUBSET Groups
  /\ changes \in 0 .. MaxChanges
  /\ failures \in 0 .. MaxFailures
  /\ overlap \in [Runs -> BOOLEAN]
  /\ tainted \in BOOLEAN

Actual == ComputePairs(GetSourceDevices(slices))

\* What the informer has told the driver.
Known == ComputePairs(GetSourceDevices(cache))

(* The strengthening that makes QuiescentCurrent inductive.                *)

\* Recomputes that run at the same time have overlapped.
OverlapNoted ==
  \A q, r \in Runs : q # r /\ step[q] # "idle" /\ step[r] # "idle" => overlap[q]

\* A recompute that runs alone has paired what is known, unless the timer
\* runs again, and has stored what it paired.
SoloCurrent ==
  \A r \in Runs : ~overlap[r] =>
    /\ step[r] \in {"paired", "stored"} /\ ~timer => result[r] = Known
    /\ step[r] = "stored" => store = result[r]

\* What the last recompute left is what is known, unless there is more to do.
IdleCurrent ==
  (~timer /\ ~tainted /\ \A r \in Runs : step[r] = "idle")
    => store = Known /\ published = Known

\* The events that the debounce timer and the recomputes have still to handle
\* account for all that DeviceStore and published slices do not show.
EventsInv == OverlapNoted /\ SoloCurrent /\ IdleCurrent

\* No event is lost between informer, debounce timer and recompute: when
\* nothing is pending and the last recompute ran alone and could publish,
\* DeviceStore and published slices show the inventory as it is
\* (debouncedOnChange, recompute), whatever overlapped or failed before.
QuiescentCurrent ==
  (cache = slices /\ ~timer /\ ~tainted /\ \A r \in Runs : step[r] = "idle")
    => store = Actual /\ published = Actual

\* Once the underlying slices stop changing, DeviceStore and published slices
\* come to show them and keep doing so, provided that a slice is left whose
\* resync repairs what an overlap or a failed Publish did.
InventoryConverges ==
  <>[](\E x \in Relevant : slices[x] # NoSlice)
    => <>[](store = Actual /\ published = Actual)
============================================================================

# Verification of the composite DRA driver

TLA+ models of `openshift-psap/composite-dra-driver`, checked with TLC, and
theorems about them checked with TLAPS. Paths such as `pkg/plugin/plugin.go` are
relative to the repository's root; line-by-line correspondence is in
`PROJECT.json` (`map`).

## 1. The system

A composite device groups devices of several DRA drivers (a GPU and a NIC on one
NUMA node, say) into one device that Kubernetes can allocate. One driver process
runs on each node; a webhook in the control plane rewrites pods.

| Part | Code | State it keeps | Operations |
|---|---|---|---|
| shadow claims | `pkg/shadow/claims.go` | `ResourceClaim` objects, one per underlying device of a composite claim: deterministic name, `OwnerReference`, label, pre-filled allocation | `Create` (POST, then `UpdateStatus`, then `Delete` if that fails), `Get`, `Delete`, `DeleteForCompositeClaim`, `ListAll` |
| node plugin | `pkg/plugin/plugin.go` | map claim uid -> shadows (`shadowClaims`), gauge | `prepareClaim` (create shadows in parallel, gRPC Prepare in parallel, record), `cleanupShadows`, `unprepareClaim`, `restoreFromState` |
| gRPC client | `pkg/plugin/grpc_client.go` | connection per driver | `Prepare`, `Unprepare`, connection cache |
| state store | `pkg/store/state.go` | bolt file: claim uid -> JSON record | `SaveShadows`, `DeleteShadows`, `GetShadows`, `ListAll` |
| device store | `pkg/store/device_store.go` | composite device -> members | `ReplaceAll`, `Get` (others have no caller) |
| orphan reconciler | `pkg/plugin/reconciler.go` | none (one list result) | one pass per tick |
| synthesizer, watcher | `pkg/synthesizer/{synthesizer,watcher}.go` | informer cache, debounce timer | event handlers, `recompute` |
| pairer | `pkg/synthesizer/pairer.go` | node labels (fetched once) | pairing of one source, by attribute, explicit |
| publisher | `pkg/synthesizer/publisher.go` | composite `ResourceSlice`s | `Publish` |
| device parameters, CEL filters | `pkg/shadow/params.go`, `pkg/synthesizer/cel.go` | compiled programs | resolve, evaluate |
| webhook mutator, template reconciler | `pkg/webhook` | none; `ResourceClaimTemplate` objects | mutate a pod, keep templates |
| configuration, metrics, wiring | `pkg/config`, `pkg/metrics`, `cmd` | config, counters | load and validate, start and stop |

How they interact. The kubelet calls the plugin over gRPC, one call at a time
(the kubeletplugin helper serialises). The plugin reads the device store, which
the synthesizer replaces at any moment; creates shadow claims at the API server,
which the reconciler of *every* node's driver and the garbage collector may
delete; and calls the underlying drivers, which in turn read the shadow claims.
A crash may come between any two of these requests, and what survives it is the
bolt file, the API objects and the underlying drivers' own state.

What is hard here:

* three stores of the same fact (map, bolt file, API objects) and a fourth one,
  the underlying drivers, updated one after another with errors that are
  ignored, logged or returned depending on the place;
* retries by the kubelet meet whatever the failed attempt left (`AlreadyExists`);
* shadows are addressed by *name*, owners are looked up by *name*, while
  records, underlying drivers and garbage collection go by *uid*;
* reconcilers of all nodes run beside the calls, with stale list results;
* the debounce timer starts `recompute` without excluding an earlier one;
* composite devices are recomputed from lists in any order, and an allocation
  refers to one by a *name* made of its members' names, cut at 63 bytes;
* admissions share templates by name, and the template reconciler decides from two
  lists taken one after the other, with a grace period for pods still in admission.

What makes each part correct:

* plugin: what it records is its own; what a running pod uses stays; what is
  prepared is released; retries converge; termination completes;
* reconciler: it collects what is orphaned and nothing else;
* synthesizer: no change of the underlying slices is lost; the published
  inventory converges;
* configuration, pairer and publisher: what is offered is exactly what a valid
  configuration asks for; an offer and an allocation survive recomputes; explicit
  pairs are exclusive; published pools and device store agree;
* device parameters: the strongest layer that applies to device and node wins;
* webhook: a stored pod refers to the devices it asked for; templates stay while
  their pod needs them and are collected afterwards.

`PROJECT.json` lists the hazards, each at its line, with the property that
covers it or the reason why none does: left-over shadows of a deallocated claim, adopted shadows of a namesake, colliding cut names,
a template with another count and two sources of one driver are what the code leaves open, and the properties suppose them away.

## 2. Modules

| Module | Models | Extends |
|---|---|---|
| `ShadowClaims` | composite and shadow claims, names, `claims.go`'s requests | |
| `CompositePlugin` | `plugin.go`, `grpc_client.go`, `state.go`, the underlying drivers (external) | `ShadowClaims` |
| `OrphanReconciler` | `reconciler.go` | `CompositePlugin` |
| `NodeLifecycle` | one node: plugin and reconciler with kubelet, scheduler, claim controller, garbage collector (all external); specification, fairness, properties | `OrphanReconciler` |
| `DeviceLease` | abstract specification: what a node promises its pods | |
| `LeaseRefinement` | the refinement mapping from `NodeLifecycle` to `DeviceLease` | `NodeLifecycle` |
| `NodeInvariants` | the inductive invariants of the node and the assumptions on faults and devices they hold under | `LeaseRefinement` |
| `Synthesizer` | `watcher.go`, `synthesizer.go`, `ReplaceAll`, `Publish`: events, timer, overlapping recomputes | |
| `Config` | `pkg/config`: the configuration file and `Validate` | |
| `Pairer` | `pairer.go`, `CELFilter.Match` | `Config` |
| `DeviceParams` | `params.go` | `Pairer` |
| `Inventory` | from configuration and slices to work list: `main`, `recompute`, `buildSlices`, the first part of `prepareClaim`; scheduler (external) | `DeviceParams` |
| `Webhook` | `mutator.go`, `claim_builder.go`, `handler.go` and `reconciler.go` of `pkg/webhook` | |
| `NodeLifecycleProofs` | proofs: types and ownership of shadows | `NodeLifecycle` |
| `RunningPodProofs` | proofs: what a running pod relies on | `NodeInvariants`, `NodeLifecycleProofs` |
| `LeaseProofs` | proofs: refinement of `DeviceLease` | `RunningPodProofs` |
| `ReleaseProofs` | proofs: tracking and release of devices, the gauge | `LeaseProofs` |
| `SynthesizerProofs` | proofs: no event is lost | `Synthesizer` |
| `WebhookProofs` | proofs: templates are kept, a pod gets what it asked for, types | `Webhook` |
| `PairerProofs` | lemmas: induction in the form the provers accept, what `Keep`, `FlattenSeq`, `Sorted` and the pairing and parameter operators return, that the enumerations are complete and without repetition | `DeviceParams` |
| `InventoryProofs` | proofs: the device store, what it offers compared with what is asked for, published pools, allocations and parameters | `Inventory`, `PairerProofs` |
| `MCNodeLifecycle`, `MCSynthesizer`, `MCInventory`, `MCWebhook` | instances for TLC; the first extends `NodeInvariants`, the third assumes `DevicesNamedOnce` of its devices | |

In the modules, an operator whose comment starts with "Mutant:" is a deliberately
wrong variant of the definition that follows it. No specification uses one;
they serve to show that a property notices such a mistake.

### CompositePlugin

A call in flight is `pc` (where it is), `cur` (its claim) and its local variables:
`stat` and `info` per slot, `todo`, `err`. Slot *i* is the *i*-th entry of the work
list that `prepareClaim` builds from the allocation results.

| Action | Code |
|---|---|
| `PrepareBegin` | checks and work list at the start of `prepareClaim`; both early errors come before any side effect |
| `PostShadow`, `UpdateStatus`, `UndoCreate` | the three requests of `ClaimManager.Create` |
| `GetExisting` | `AlreadyExists`: the object is fetched by name and used as it is |
| `JoinCreate` | `wg.Wait` of phase one; on any failure `cleanupShadows` of what was obtained |
| `GrpcPrepare`, `JoinGrpc` | phase two |
| `Record` | map, `persistShadows`, gauge |
| `CleanupUnprepare`, `CleanupDelete` | `cleanupShadows`, errors ignored |
| `UnprepareBegin` | takes the record out of the map |
| `UnprepareShadow`, `DeleteShadow` | the loop of `unprepareClaim`, errors remembered |
| `SweepList`, `SweepDelete` | `DeleteForCompositeClaim` when there is no record |
| `Drop` | `deleteShadowState` (always) and the gauge (only without error) |
| `Crash`, `Restart` | process death, `NewCompositePlugin` with `restoreFromState` |
| `Recompute` | the device store is replaced (detailed in `Synthesizer`) |

The goroutines of a phase are interleaved request by request. A request that
fails may have taken effect before its answer was lost. A failed bolt write
changes nothing; a failed or partly undecodable `ListAll` restores any subset of
the claims' records.

Underlying drivers are external. They read the shadow by name, refuse a different
uid or a missing allocation (the kubeletplugin helper does), prepare the
allocated device for the shadow's uid, and release what is held for a uid. A driver
in `Exclusive` refuses a device that another uid holds; the others overwrite.

### OrphanReconciler and NodeLifecycle

A reconciler pass is `ReconcileList`, a `ReconcileCheck` for each listed object
(the result may be stale by then) and `ReconcileDelete`. It runs also while
this node's driver is down, since it may be another node's. The owner lookup is by name and
treats every error as "not found".

A pod goes none, pending, running, terminating, gone. `KubeletPrepare` repeats
until it succeeds, and once more for a running pod after a kubelet restart;
`KubeletUnprepare` repeats until it succeeds. A reply may come after the kubelet
has given up. A pod may be deleted while its Prepare is still in progress.
`Schedule` gives a composite device to one allocated claim at a time.

### Faults

`Faults` names the kinds a run allows and `MaxFaults` how many of them a behaviour
may contain: `api` (API request), `grpc` (underlying driver call), `bolt` (state
file), `crash` (driver process), `devices` (device store temporarily smaller),
`timeout` (kubelet gives up before the answer), `kubelet` (kubelet restart),
`force` (allocated claim deleted by force), `reconcile` (transient error of the
owner lookup). Faults are budgeted instead of free so that the model is finite
and so that liveness is asked of behaviours in which faults stop.

### Synthesizer

Slices change at the API server (`Change`), reach the cache and the event handler
(`Deliver`) or are reported again (`Resync`, 30 s); a relevant one starts the debounce
timer; `Fire` starts a recompute in a free member of `Runs`: `ListAndPair`, `ReplaceAll`,
`Publish`. Recomputes may overlap, as in the code; the history variables `overlap` and
`tainted` say whether the last one to end ran alone and published. Pairing is
abstracted to "a group exists when its devices do"; `Inventory` has the details, and the same
overlapping recomputes without the events that start them.

### Config, Pairer, DeviceParams and Inventory

Underlying devices are atoms with a name (a number, so that names can be sorted)
and typed attributes; a device whose attributes change is another atom with the same
name. A CEL expression is the set of devices it accepts, or `Broken`. A
composite name is the sequence of its members' names, of which `NameParts` fit.
Loops over lists are `Keep` (the elements that are in a set, in their order), `Over` (a map copied
into another) and recursive functions over the number of elements done; no module has a `RECURSIVE` operator, so
that all of them can be proved about.

| Definition | Code |
|---|---|
| `Validate` and its parts | `validation.go`; it says nothing of sources that share a driver or of a source listed twice, so both occur in the instance |
| `chooseCombinations`, `generateCombinations` | combinations, recursive in the code, recursive functions here |
| `pairSingleSource`, `pairWithMatchAttribute`, `pairWithExplicit` | the three pairing functions; only the first constraint counts |
| `explicitPairs`, `explicitPair` | explicit pairs one after the other, each consuming the devices it takes |
| `Sorted` | `sort.Slice` by name: the devices that have *i* - 1 names before theirs, for each *i* |
| `numaKeys`, `numaNodes`, `detectNUMANode` | a device may have several attributes whose name ends in `numaNode` (`NumaAttrs`), one per domain; the answer is the set of their values, since the code returns the first one of an iteration over maps of devices and of attributes; `Outcomes` picks |
| `GetSourceDevices`, `driverToSource` | any order of the lister, any of the sources that share a driver |
| `Start` | `main`: `Validate`, node labels or none, early exits |
| `ListSlices`, `ReplaceStore`, `Publish` | `recompute` in three steps of a process in `Runs`: it lists the slices, computes the devices and replaces the device store (`Mappings`), and publishes them (`Pools`, slices of at most `MaxPerSlice`), which may fail. Nothing excludes another recompute between the steps |
| `Prepare` | the work list of `prepareClaim`, by the positions of device and member, with ordinals and `ResolveForDevice`; `Nil` are the parameters of a device no entry matches |

Reference definitions (`AutoGroups`, `MeantGroups`, `Layers`) say what a configuration
asks for with sets and quantifiers only; the properties compare. `CountOf` is the number of
devices a source gives: when a composition lists it twice, the first member counts in an automatic
composition and the last one in an explicit one, as in the code. `NamesFit` says that the name has room for all
members; `Plain` also that no source is listed twice. `seen`, `offer`, `clean` and
`meant` are history variables: the slices behind the store, the mappings of the recompute that published
the pools, whether the last recompute to begin ran alone and published, and what an allocation stood for.

Two simplifications of names: members' names are joined with `--` in the code, which is not
injective for names that contain `--` themselves, while a composite name is a sequence here; and a name has
room for `NameParts` members instead of 63 bytes.

### DeviceLease

`lease` gives each underlying device to one claim or none, `running` are the claims whose
pod runs. A device is granted or revoked only while its lessee has no running pod, and a
pod starts only with all its devices. In the mapping, a device is leased to the
owner of the shadow that its driver has prepared it for, as long as that
shadow exists and allocates the device; a pod counts as running while its claim is
allocated.

### Webhook

Each pod creation is an admission of its own: `Admit`, one `CreateTemplate` per
composition in sorted order (`todo` are those left, the smallest is next; an existing template is used as it is, another error
refuses the pod), `Respond` with the patch. The devices a pod asks for are the elements of
`Units`, one for each unit of each container's request, so that totals are cardinalities. `patchedRefs` and `patchedClaims` are the pod after
`buildPatches`' JSON patch: an "add" of a container's claims list replaces the list,
an "add" at `/-` appends. The API server stores or refuses the pod (`Store`), the
resource claim controller makes a claim from each template the pod names
(`MakeClaim`). A reconciler pass is `ListTemplates`, `ListPods`, `DeleteTemplate`.
A template ages past the grace period (2 min) only when the admission that made
it has been answered (10 s server timeout); `by` records that admission and is no field of the object.

## 3. Runs

All `MCNodeLifecycle` runs have composite devices of one GPU (exclusive driver) and
one NIC (sharing driver).

Passing:

| Run | Checks | Instance |
|---|---|---|
| `running_pod` | `TypeOK`; `OwnershipInv`, `RecordOwnsShadow`: a recorded uid never denotes another claim's shadow or another device; `RunningPodBacked`, `LiveShadowRemovedOnlyByItsHandler`: what a running pod relies on stays, and only its own call removes an allocated claim's shadow; `ImplementsLease`: the node implements `DeviceLease` | 2 claims in turn, 2 faults (api, grpc, bolt, crash, timeout, devices) |
| `release` | `PreparedDeviceTracked`, `DevicesReleased`: nothing stays prepared; `GaugeCoversRecords` | 2 claims, one with the same device twice, so that its second `Delete` always fails; 2 faults (api, timeout, kubelet, reconcile, force) |
| `retries` | `PrepareConverges`, `UnprepareCompletes`, `OrphansCollected` | 1 claim, 2 faults of any of the nine kinds |
| `synth_events` | `SynthTypeOK`, `QuiescentCurrent`: no change is lost; `InventoryConverges` | 3 slices (1 foreign), 2 changes, 1 Publish failure, 2 overlapping runs |
| `pairing` | `InvTypeOK`; `AutoPairsExact`, `MultiSourceRelated`, `ExplicitExclusive`, `ExplicitAsConfigured`, `NumaOfMembers`: what is offered; `PublishedMatchesStore`, `PublishedOnce`, `OfferStable`: how it is published and kept; `PreparedAsAllocated`, `ParamsLastWins`: what `prepareClaim` gets | 11 configurations (2 invalid, 2 with gaps of `Validate`), 5 devices in 3 slices, 1 change, 2 overlapping recomputes, 1 Publish failure, 1 claim of up to 2 composite devices |
| `templates` | `WebhookTypeOK`, `PodGetsItsDevices`, `OwnTemplateKept`, `TemplatesCollected` | 2 pods sharing templates, 1 pod without, 1 failing request |

Violations, where the code departs from what its documentation or comments say
(each is a finding in `PROJECT.json`, with the quotation):

| Run | Shows |
|---|---|
| `lost_unprepare` | One failed `NodeUnprepareResources` leaves a device prepared for good: the record leaves map and disk anyway, and the retry only deletes API objects. |
| `crash_mid_prepare` | A crash after phase two and before the record is written, followed by pod deletion, leaves a device prepared. |
| `failed_reprepare` | A repeated Prepare of a running pod that fails at one driver unprepares and deletes what the pod uses. |
| `reconciler_error` | A transient error of the owner lookup deletes a live claim's shadow. |
| `two_compositions` | A container that asks for two compositions keeps the references to the last one only. |
| `one_composition` | Two GPUs and one NIC on a PCIe root give two composite devices with the same NIC in one pool; two claims get one each. |

Why the passing runs leave out some faults: `release` has no crash and no gRPC
failure because of `crash_mid_prepare` and `lost_unprepare`; `running_pod` has no
kubelet restart and no reconciler error because of `failed_reprepare` and
`reconciler_error`, and no forced deletion, which triples the number of states and
about which its properties say little. `PrepareConverges` exempts a device that is
`Stranded`: an exclusive driver holds it for a shadow that is gone, which a failed Unprepare in
`cleanupShadows` followed by the deletion of the shadow brings about, and no retry
names the old uid again. Disk and inventory faults have no influence on the
properties of `release` without a crash.

Further consequences of the code that the model makes visible and no run
keeps: a claim with the name of a deleted one adopts a left-over shadow
of the deleted claim (`NamesDistinct` excludes it); shadows of a claim
that is deallocated but not deleted are collected by nobody; the gauge
`ClaimsActive` ignores restored claims and can become negative after a restart; of two
overlapping recomputes one may replace the store last and the other publish last, or the older one do both,
without any failure, which only a later event or resync repairs; a template older than the grace period may be deleted while an
admission reuses it. In the inventory: constraints after the first are ignored; the
name of a composite device with two members of one source depends on the order in which
the lister returns the slices, so that an allocated name may vanish (`OfferStable` promises the name
only for counts of 1); cut names collide, the store keeps one of the devices and the pool lists the name
twice (`NamesFit`); a source listed twice gives devices with doubled members (`Plain`); the
devices of a driver with two sources move between them from recompute to recompute
(`DriversDistinct`). `docs/HA-DESIGN.md` expects a new instance to register while the old
one runs, but `main` opens the bolt file, and waits for its lock, before it registers.

### Bounds

* Two claims that use one device in turn are the smallest instance with a
  successor, a stale record and a foreign shadow; two members the smallest in
  which one goroutine fails and the other does not. One claim is enough where the
  property concerns one claim and its own leftovers; those runs check liveness.
* `Uids` has eight values and a uid may be used again only when nothing refers
  to it (no object, record, call or driver), so the bound does not confuse two
  objects. In the bounds of the runs a fresh uid is always available, so `PostShadow`
  is never blocked by the bound.
* `MaxFaults` 2 lets a failure hit the handling of an earlier one.
* In `synth_events`, `MaxChanges` 2 lets a slice change during the recompute that an
  earlier change started, from every initial inventory; `Runs` of two is the
  smallest number with an overlap.
* In `pairing`, three GPUs in two slices and two NICs are enough for two groups, for a
  group in which two GPUs compete for a NIC, for every list order to matter and for an
  attribute that is missing, of another type or of type version. `NameParts` 2 cuts the name of a device
  with three members, `MaxPerSlice` 2 makes a second slice, full or not. `Runs` of two lets the
  recomputes of the old and of the changed slices replace the store and publish in either order, and each
  of them be repeated, around an allocation; one change is enough for the two to differ (a second one, with overlaps, is
  beyond TLC's time, and the theorems have no bound). NIC `n2` has its `numaNode` as a string, by which it is matched, and the
  attribute of another domain as a number, which gives the NUMA node.
* Two pods with common templates are the smallest number with reuse and a race for
  creation; their two containers ask for 2+1 devices of one composition and 1 of
  another, so that references run on across containers.
* Symmetry: the recomputes of `pairing` are interchangeable, and its properties are invariants and an action
  property. The other runs use none: several check liveness, and the members differ in their driver.

`synth_events` does not check for deadlock, since an inventory without slices gives
the synthesizer nothing to do once changes are used up, nor do the `MCInventory`
runs, since `main` ends the process on an invalid configuration. Everywhere else deadlock is
checked; `Done` is the intended end of a node's life.

### Fairness

`NodeLifecycle`: weak fairness of the plugin's steps and of its reply (a
goroutine that can run does, and each request has a deadline or an answer), of
restart (DaemonSet), of recompute (30 s resync) and of the reconciler
(ticker). Strong fairness of the kubelet's Prepare and Unprepare per claim: pod
workers retry with back-off, and the helper's lock is free again and again, though
not continuously. Nothing is assumed of users, scheduler, claim controller
or garbage collector; `OrphansCollected` therefore is the reconciler's own merit.

`Synthesizer`: weak fairness of informer delivery, resync, timer and each recompute.
That the timer fires assumes 500 ms without events now and then, because every event restarts it;
with changes bounded this is no restriction.

`Webhook`: weak fairness of time (`Age`) and of the reconciler's passes (ticker). Nothing
is assumed of pods, their admission or the claim controller.

## 4. Proofs

Every theorem holds for all values of the constants: any sets of claims, members, uids,
drivers, slices and pods, any work lists, any number of overlapping recomputes and, unless
an assumption excludes a kind, any number of faults of every kind.

| Theorem | Module | States | Assuming |
|---|---|---|---|
| `TypeCorrect` | `NodeLifecycleProofs` | `[]TypeOK` | |
| `ShadowsOwned` | `NodeLifecycleProofs` | `[]OwnershipInv` | `NamesDistinct` |
| `RecordsOwnShadows` | `NodeLifecycleProofs` | `[]RecordOwnsShadow` | `NamesDistinct` |
| `LiveShadowsProtected` | `RunningPodProofs` | `LiveShadowRemovedOnlyByItsHandler` | `NamesDistinct`, `ReconcilerReliable` |
| `RunningPodsBacked` | `RunningPodProofs` | `[]RunningPodBacked` | `NamesDistinct`, `DevicesExclusive`, `ReconcilerReliable`, `PrepareOnce` |
| `NodeImplementsLease` | `LeaseProofs` | `ImplementsLease` | the same four |
| `PreparedDevicesTracked` | `ReleaseProofs` | `[]PreparedDeviceTracked` | `NamesDistinct`, `DriversAnswer` |
| `PodsReleaseDevices` | `ReleaseProofs` | `[]DevicesReleased` | `NamesDistinct`, `DriversAnswer` |
| `GaugeCovers` | `ReleaseProofs` | `[]GaugeCoversRecords` | |
| `SynthTypeCorrect` | `SynthesizerProofs` | `[]SynthTypeOK` | |
| `QuiescenceIsCurrent` | `SynthesizerProofs` | `[]QuiescentCurrent` | |
| `TemplatesKept` | `WebhookProofs` | `OwnTemplateKept` | |
| `WebhookTypeCorrect` | `WebhookProofs` | `[]WebhookTypeOK` | |
| `PodsGetTheirDevices` | `WebhookProofs` | `[]PodGetsItsDevices` | `OneComposition`, `TemplatesAgree` |
| `InventoryTypeCorrect` | `InventoryProofs` | `[]InvTypeOK` | |
| `SourcesAreRelated` | `InventoryProofs` | `[]MultiSourceRelated` | |
| `NumaIsOfMembers` | `InventoryProofs` | `[]NumaOfMembers` | |
| `ExplicitPairsAreExclusive` | `InventoryProofs` | `[]ExplicitExclusive` | |
| `PoolsMatchTheStore` | `InventoryProofs` | `[]PublishedMatchesStore` | |
| `AllocationsKeepTheirMeaning` | `InventoryProofs` | `[]PreparedAsAllocated` | |
| `ParamsAreTheStrongest` | `InventoryProofs` | `[]ParamsLastWins` | |
| `AutoPairsAreExact` | `InventoryProofs` | `[]AutoPairsExact` | `DevicesNamedOnce` |
| `ExplicitPairsAreAsConfigured` | `InventoryProofs` | `[]ExplicitAsConfigured` | `DevicesNamedOnce` |
| `OffersAreStable` | `InventoryProofs` | `OfferStable` | `DevicesNamedOnce` |
| `NamesArePublishedOnce` | `InventoryProofs` | `[]PublishedOnce` | `DevicesNamedOnce` |

All of them use the named assumptions on constants (`ClaimAssumption`, `PluginAssumption`,
`SynthAssumption`, `WebhookAssumption`, `PairerAssumption`, `ParamsAssumption`, `InventoryAssumption`),
which say what the constants are. They are the types of the Go structs (lists are sequences, counts
and device names are numbers), that inventories and requests are finite, that every allocation has a member, that the decimal
text of an int attribute stands for its number, and that slices of different drivers list different
devices (a device is identified by its driver, pool and name). TLC evaluates them on every run.

The hypotheses in the last column are assumptions the code does *not* establish, which is
why they are hypotheses of the theorems and not assumptions on constants:

| Hypothesis | Without it |
|---|---|
| `NamesDistinct` | names are derived from the claim's name, not its uid, and cut to 63 bytes: an adopted shadow may belong to a deleted claim of the same name |
| `DevicesExclusive` (composite devices do not share underlying ones) | `one_composition` |
| `ReconcilerReliable` (no `reconcile` fault) | `reconciler_error` |
| `PrepareOnce` (no `kubelet` fault) | `failed_reprepare` |
| `DriversAnswer` (no `crash` and no `grpc` fault) | `crash_mid_prepare`, `lost_unprepare` |
| `OneComposition` (a container without claims of its own asks for one composition at most) | `two_compositions` |
| `TemplatesAgree` (templates of the same name have the same content) | an existing template is used as it is: names come from the pod's owner or generated name, and a changed request meets the old template |
| `DevicesNamedOnce` (of the devices that a driver lists for the node, no two have the same name) | Kubernetes keeps names unique within a pool only, and the pairer ignores the pool: a driver with several pools could repeat a name, and two composite devices then get the same name |

`running_pod` satisfies the first four, `release` the first and the fifth, `templates` the next two and `pairing` the last one
(`MCNamedOnce`), so the hypotheses can be met, and the runs with violations show that the theorems say as much as is true of
the code. The theorems go further than the runs: `RunningPodsBacked` and
`NodeImplementsLease` allow forced deletion and several composite devices in use at the same
time, the two theorems on release allow failing writes of the state file and a shrinking device store, and
those on the inventory hold for every number of slices, devices, members and pairs and every length of names.

### Arguments

Each invariant below was first checked with TLC on the instance of the run that checks
its property, then proved inductive, with one lemma per action or per group of actions that
change the same things.

*Ownership.* `RecordOwnsShadow` is not inductive: a record is written from `info`, which comes
from an object found by name, allocated by a later request. `OwnershipInv` adds
`ShadowWellFormed` (a shadow is named after its owner and one member and allocates only that
member, so a name found determines owner and allocation), `UniqueShadows` (name and uid
identify a shadow, so a uid carries the fact over deletion and re-creation),
`CallOwnsShadow` (the call in flight holds uids of its own claim's shadows only, and an
accepted one has its allocation, because the driver refuses one without) and `IdleClean`. The
step that needs most care is `PostShadow`: the fresh uid is one that no record, call, object or
driver refers to.

*Running pods.* Two things must be known of the actors that delete shadows.
`ReconcilerInv`: the owner of a shadow has existed, so a pass that does not find it has found
a deleted claim, which never comes back; what the pass goes on to delete, by name and
with a list that may be stale, stays an orphan. `CallInv`: the sequential loops of the
plugin work on slots of their own claim. Then `BackedInv` strengthens `RunningPodBacked`
by what the call has achieved so far (`CallBacked`: an accepted slot is backed already, and stays
so until the reply starts the pod), by `CallSparesPods` (no call is for a running pod, and the
devices a Prepare works on belong to no running pod) and by `AllocationExclusive`. The
delicate step is `GrpcPrepare`, where a sharing driver overwrites the holder of a device: this is where
`DevicesExclusive` is needed. `CleanupAfterError` keeps the clean-up away from a Prepare that succeeds.

*Refinement.* `ShadowInv` says that a device prepared for an existing shadow is the one that
the shadow allocates, so `LeaseOf` is determined by holder and shadows. Each step is then
shown to change the lease of one device at most, and only of one whose lessee has
no running pod (`Grant`, `Revoke`), or to start a pod that `BackedInv` shows to have all its
devices (`StartPod`), or to stop one. A step that deletes a shadow or replaces a holder is
a `Revoke` or a `Grant`, or a stutter when nobody held the lease.

*Release.* `PreparedDeviceTracked` speaks of `InFlight`, which is too weak to be kept: the call
may forget a uid. `Tracked` names the slots (`Pending`) whose devices may still be prepared at
each point of the call; `HeldBySlot` says that a uid is held by the device of its slot
only, so that one Unprepare releases it; `AcceptedHeld` that an accepted slot's device is held
for the call's own uid, so that what goes on record covers what was prepared.
For `DevicesReleased`, `ReleaseInv` adds that records and calls belong to pods that are not
gone.

*Gauge.* `GaugeInv` counts what `Unprepare` owes: between taking the record and lowering the
gauge the gauge is one too high. That it then covers the records is arithmetic on
`Cardinality`, with finiteness of the records as part of the invariant.

*Synthesizer.* `EventsInv`: a recompute that has run alone so far has paired what the informer knows,
or the timer runs again (`SoloCurrent`); recomputes in progress at the same time know that
they overlap (`OverlapNoted`); and at rest what was left is what is known (`IdleCurrent`). An
event of a foreign slice changes nothing that is known (`IrrelevantSlice`).

*Webhook.* `TemplatesInv`: each template, on the server or on the reconciler's list, is one of those its
maker's admission makes, and is not old during that admission; a pod that was let through names
all of them (`ClaimsNameTemplates`); while a pass holds its list nothing on it is deleted and
made anew (`ListedExist`); and what is to be deleted still is the template of a pod
that is no more (`VictimsUnused`). Listing templates *before* pods is what `OrphansUnused` uses. Pods
that merely reuse a template have no such guarantee, which is what the code does.

*Pods' devices.* By `Accounted` and `MadeFor` each template has the content that the admission of some pod
asks for under its name. `PodInv`: a pod that was let through is as the patch left it, and each claim made for
it has the content of a template it names, which by `TemplatesAgree` is the content this pod asked for. What is left
is the arithmetic of the patch: references are numbered across containers without repetition, and
`OneComposition` lets all of them survive the JSON patch.

*Induction over lists.* The library's induction theorems take an operator as parameter, which the
provers cannot instantiate. `Steps` (a *set* that contains 0 and is closed under successor up to *n*) and `Recursion` (a recursive function exists)
are proved once from the well-foundedness of `<` and replace them: what a loop computes is a set of those *i* for
which the claim holds. `FlattenSteps`, `FlattenRange`, `FlattenLen`, `FlattenAlike`, `KeepRange` and `SortedRange`
follow, and everything about pairing rests on them.

*Device store.* `StoreInv`: the store is a mapping that `Outcomes` of `ComputePairs` over some view of the slices allow, and so is what
a recompute is about to publish (`RunsInv`; `RunsStep`: a step of one recompute leaves the others alone). `Computed` shows of
each pairing function that its devices are `Genuine`: made of a selection (`Combo`) of the
composition's, named by `joinedName`, with NUMA nodes of the members or of the pair, and a
selection by attribute shares a value (`Matching`). `SourcesAreRelated` needs `ValidAuto`, which links `Validate` to the choice
of the pairing function. `NumaIsOfMembers` uses that devices which agree on the text of an int attribute have its number; a
device with a `numaNode` attribute of a second domain may answer with that one, so the clause on matched devices
supposes that they have no other. `ExplicitPairsAreExclusive` is the induction over pairs: `Apart` says that the
devices made so far have consumed their names, each its own (`PairApart`, `PairsApart`); that
sources do not share devices comes from `InventoryAssumption`.

*Exact pairs.* `ChooseLists`: `chooseCombinations` lists the increasing sequences of *k* indices (`Rising`), each once; the induction over the
depth says that so far it lists the beginnings of such sequences that leave room for the rest (`Beginnings`).
`PicksAre` turns index sequences into sets of devices, one for each set of the right size, and `GenerateLists`
goes from member to member (`WidenLists`), so that a selection is listed once and determined by its devices (`PickedUnique`).
`SortedLists`: sorting loses and repeats nothing. `AutoExact` puts this together for both
automatic pairing functions; in the one by attribute, groups of different values have no selection in common.
In `InventoryProofs`, `SeenInv` ties the store to the slices of the last recompute through a view that lists
the devices of each source once (`InputsSee`), and names that are not cut tell the devices of a composition
apart (`NamesApart`, from `SameIds`), so that the mapping by name keeps them all (`ExactInStore`).

*Explicit pairs.* A pair's outcome depends on what the pairs before it have consumed. If no two selectors mean the same
device, it does not: `Served` says that after *i* pairs only names of their devices are consumed
and that each complete pair has made the device it would make on its own (`TakenAlone`, `ServedStep`, `PairsServed`). `AloneIs`
says which that is, by counting: a list without repetition that is as long as the selector's set is large is that set.
Names unique within a source are needed here, because the consumed set has names and not devices.

*Stable offers.* From exactness before and after the step: a group of devices that is still listed is asked for
again (`StillWanted`), whatever was stored since the slices were listed, since filters and attributes are the devices' own and a device belongs to one
driver (`ListedApart`). With one device of each source the name does not depend on the order of the lists (`OneOfEach`).

*Names published once.* `FlattenPlaces`: every element of a concatenation has a place of its own in the parts. With names distinct per
composition (`NamedOnce`: automatic pairs by exactness, explicit ones by `ExplicitLists`, since no two use devices of the same
name) and compositions named apart by `Validate`, a pool's list is distinct, and so are its batches.

*Published pools.* `Batches`: the slices of a pool have 1 to `MaxPerSlice` devices and together those of the pool,
which is arithmetic of division (`DivBounds`, `TimesLess`). Which recompute's devices these are is `PoolsInv`, however
recomputes overlap; that the store has the same ones is only true after a recompute that ran alone and published (`clean`), by
`AloneInv`: it is the only one in progress, what it is going to publish is the store, and at rest the offer is the store.

*Allocations.* `AllocInv`: whatever was offered, allocated or prepared under a name was `Made` for it, and so is what is stored and
not yet published (`StoreMeans`), which outlives recomputes, their overlaps and failures of `Publish`; and two devices made for a name that is not cut have the same members (`SameIds`), because
the lengths of the parts are fixed by the composition (`RowsOf`, `FlattenAlike`, `FlattenLen`).

*Parameters.* `MergedAll`: after *n* overrides each variable has the value of the strongest of the layers so far
(`Strongest`). `WorkInv` ties the work lists to `Resolve`.

### Only model-checked

* Liveness: `PrepareConverges`, `UnprepareCompletes`, `OrphansCollected`, `InventoryConverges`,
  `TemplatesCollected`. Fairness is beyond the prover used.
* `AllocationsDisjoint` is not a theorem: `one_composition` refutes it.

Every invariant and action property of the passing runs is stated by a theorem.

## 5. Not modelled

* Underlying drivers, kubelet, scheduler, claim controller and garbage collector are
  external, with the behaviour the driver relies on.
* One kubelet call carries one claim; the helper hands the claims of a batch to the plugin
  one after another, which is the same sequence of calls with a joint answer.
* CDI device ids in the answer, events, logging, log levels, connection cache of the
  gRPC client, metrics other than the gauge.
* One reconciler pass at a time; two drivers on the same state file (bolt's lock excludes them).
* An empty allocation result list (`ClaimAssumption`).
* Init containers (the webhook does not look at them), named pods created again with a different request,
  several namespaces and several webhook replicas.
* The CEL engine with the map it evaluates on, Go templates with `networkCIDR`, decoding of the
  configuration and parameter files, forwarded attributes, `SynthesisDevicesTotal`. An error of the cached lister (it returns none)
  and devices of the same name in two pools of one driver.
* Flags, TLS, HTTP servers, the webhook's `main` beyond the two things it starts.

## 6. Plan

1. Done: the modules of section 2 and the theorems of section 4.
2. Theorems: sharper hypotheses where the runs allow it (`PrepareOnce` for a Prepare that is
   repeated and succeeds); abstract specifications of synthesizer and template reconciler.
3. Two driver instances on one node: start order, bolt lock, registration.

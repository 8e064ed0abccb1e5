----------------------------- MODULE Inventory -----------------------------
(***************************************************************************)
(* The composite devices of a node from configuration to shadow claims:    *)
(* cmd/driver/main.go loads and validates the configuration; recompute     *)
(* turns the underlying ResourceSlices into DeviceStore and published      *)
(* pools; the scheduler (external) allocates published devices; and        *)
(* prepareClaim resolves an allocation to underlying devices and their     *)
(* parameters.                                                             *)
(*                                                                         *)
(* The debounce timer runs recompute in goroutines that nothing excludes   *)
(* from each other, so a recompute is a process in three steps here.       *)
(* Module Synthesizer has the events that start it, and CompositePlugin    *)
(* what prepareClaim does with the devices.                                *)
(***************************************************************************)
EXTENDS DeviceParams

CONSTANTS
  Configs,     \* configuration files, valid and invalid ones
  NodeLabels,  \* the node's labels
  Slices,      \* underlying ResourceSlices of the node
  SliceDriver, \* [Slices -> driver names]
  Contents,    \* [Slices -> set of device lists]
  Initial,     \* [Slices -> device list]: the slices when the process starts
  Runs,        \* recomputes that can be in progress at the same time
  MaxPerSlice, \* devices in a published slice (128)
  Claims,      \* composite claims
  MaxResults,  \* bound on the composite devices allocated to a claim
  MaxChanges,  \* bound on the changes of slices
  MaxFailures  \* bound on the failures of Publish

\* A device belongs to one driver.
ASSUME InventoryAssumption ==
  /\ IsFiniteSet(Slices) /\ DOMAIN Initial = Slices
  /\ \A x \in Slices : Initial[x] \in Contents[x] /\ \A list \in Contents[x] : list \in Seq(Dev)
  /\ \A x, y \in Slices : SliceDriver[x] # SliceDriver[y] =>
       \A list \in Contents[x] : \A other \in Contents[y] : Range(list) \cap Range(other) = {}
  /\ \A file \in Configs : /\ file.compositions \in Seq(Range(file.compositions))
                           /\ \A comp \in Range(file.compositions) : TypedComposition(comp)
  /\ MaxPerSlice \in Nat \ {0} /\ NameParts \in Nat \ {0}
  /\ MaxResults \in Nat /\ MaxChanges \in Nat /\ MaxFailures \in Nat

VARIABLES
  cfg,         \* the configuration file
  proc,        \* "boot", "serving" or "exited"
  pairLabels,  \* the node labels the pairer has
  paramLabels, \* the node labels the parameter resolver has
  slices,      \* [Slices -> device list]; a missing slice lists nothing
  step,        \* [Runs -> StepSet]: where each recompute is
  listing,     \* [Runs -> the slices it listed]
  result,      \* [Runs -> Seq(composite devices)]: what ComputePairs returned
  mappings,    \* [Runs -> newMappings], which it put into the store
  store,       \* DeviceStore: [<<composition, name>> -> composite device]
  published,   \* [compositions -> sequence of slices of names]
  alloc,       \* [Claims -> Seq(keys)]: the allocation results that are this
               \*   driver's (prepareClaim skips the others)
  work,        \* [Claims -> the work list of its last prepareClaim, by the
               \*   positions of device and member]
  changes,
  failures,
  seen,        \* history: the slices from which the store was computed,
  offer,       \*   the mappings of the recompute that published the pools,
  clean,       \*   the last recompute to begin ran alone and could publish,
  meant        \*   [Claims -> what each result meant when it was allocated]

inputs  == <<cfg, slices, changes>>
process == <<proc, pairLabels, paramLabels>>
locals  == <<step, listing, result, mappings>>
pools   == <<store, published, failures, seen, offer, clean>>
users   == <<alloc, work, meant>>
invVars == <<inputs, process, locals, pools, users>>

StepSet == {"idle", "listed", "stored"}

Nothing == [x \in Slices |-> <<>>]

InvInit ==
  /\ cfg \in Configs
  /\ proc = "boot"
  /\ pairLabels = <<>> /\ paramLabels = <<>>
  /\ slices = Initial
  /\ step = [r \in Runs |-> "idle"] /\ listing = [r \in Runs |-> Nothing]
  /\ result = [r \in Runs |-> <<>>] /\ mappings = result
  /\ store = <<>> /\ published = <<>>
  /\ alloc = [c \in Claims |-> <<>>] /\ meant = alloc /\ work = alloc
  /\ changes = 0 /\ failures = 0
  /\ seen = Nothing /\ offer = <<>> /\ clean = TRUE

----------------------------------------------------------------------------
(* Start                                                                   *)

\* FetchNodeLabels: without an answer the labels are empty for good.
FetchNodeLabels == {NodeLabels, <<>>}

\* main: an invalid configuration ends the process, as does anything else
\* it needs and does not get (parameters file, state file, API server).
Start ==
  /\ proc = "boot"
  /\ \/ /\ Validate(cfg)
        /\ proc' = "serving"
        /\ paramLabels' \in IF cfg.params = NoParams THEN {<<>>} ELSE FetchNodeLabels
        /\ pairLabels' \in FetchNodeLabels
     \/ proc' = "exited" /\ UNCHANGED <<pairLabels, paramLabels>>
  /\ UNCHANGED <<inputs, locals, pools, users>>

----------------------------------------------------------------------------
(* Recompute                                                               *)

\* An underlying driver updates a slice (external).
Change(x) ==
  /\ changes < MaxChanges
  /\ \E list \in Contents[x] : list # slices[x] /\ slices' = [slices EXCEPT ![x] = list]
  /\ changes' = changes + 1
  /\ UNCHANGED <<cfg, process, locals, pools, users>>

SourceDrivers == {src.driver : src \in Range(cfg.sources)}
SourcesOf(driver) == {src.name : src \in {r \in Range(cfg.sources) : r.driver = driver}}

\* The functions on S with a value in Of(k) for each k: what an iteration
\* over a map may leave.  Only the k with several values are enumerated.
Selections(S, Of(_)) ==
  LET open == {k \in S : Cardinality(Of(k)) > 1}
  IN {[k \in S |-> IF k \in open THEN pick[k] ELSE CHOOSE v \in Of(k) : TRUE] :
        pick \in {p \in [open -> UNION {Of(k) : k \in open}] : \A k \in open : p[k] \in Of(k)}}

\* Driver to source: of the sources that share a driver, the one that the
\* iteration over the map meets last.
driverToSource == Selections(SourceDrivers, SourcesOf)

\* Mutant: a slice replaces what earlier slices of its driver listed.
GetSourceDevicesLast(listed, order, toSource) ==
  [s \in SourceNames(cfg) |->
     LET mine == SelectSeq(order, LAMBDA x : SliceDriver[x] \in SourceDrivers
                                             /\ toSource[SliceDriver[x]] = s)
     IN IF mine = <<>> THEN <<>> ELSE listed[Last(mine)]]

\* GetSourceDevices, of the slices as listed; the lister returns them in any
\* order.
GetSourceDevices(listed, order, toSource) ==
  [s \in SourceNames(cfg) |->
     LET mine == Keep(order, {x \in Slices : SliceDriver[x] \in SourceDrivers
                                              /\ toSource[SliceDriver[x]] = s})
     IN FlattenSeq([i \in DOMAIN mine |-> listed[mine[i]]])]

\* The composite devices with one of the NUMA nodes each may come out with.
Outcomes(devices) ==
  LET numas(i) == devices[i].numa
  IN {[i \in DOMAIN devices |-> [devices[i] EXCEPT !.numa = pick[i]]] :
        pick \in Selections(DOMAIN devices, numas)}

Key(d) == <<d.comp, d.name>>

\* The map that recompute builds: of devices with the same key one is left.
Mappings(devices) ==
  LET with(k) == {d \in Range(devices) : Key(d) = k}
  IN Selections({Key(d) : d \in Range(devices)}, with)

\* Mutant: the end of a batch is not included.
buildSlicesShort(devices) ==
  [b \in 1 .. ((Len(devices) + MaxPerSlice - 1) \div MaxPerSlice) |->
     SubSeq(devices, (b - 1) * MaxPerSlice + 1,
                     IF b * MaxPerSlice > Len(devices) THEN Len(devices) ELSE b * MaxPerSlice - 1)]

\* Mutant: a batch begins with the last device of the one before it.
buildSlicesOverlap(devices) ==
  [b \in 1 .. ((Len(devices) + MaxPerSlice - 1) \div MaxPerSlice) |->
     SubSeq(devices, Max({1, (b - 1) * MaxPerSlice}), Min({b * MaxPerSlice, Len(devices)}))]

\* A pool's devices in batches.
buildSlices(devices) ==
  [b \in 1 .. ((Len(devices) + MaxPerSlice - 1) \div MaxPerSlice) |->
     SubSeq(devices, (b - 1) * MaxPerSlice + 1, Min({b * MaxPerSlice, Len(devices)}))]

\* Publish with groupByComposition: a pool for each composition that has
\* devices.
Pools(devices) ==
  [c \in {devices[i].comp : i \in DOMAIN devices} |->
     LET mine == Keep(devices, {d \in Range(devices) : d.comp = c})
     IN buildSlices([i \in DOMAIN mine |-> mine[i].name])]

\* What recompute may get from the slices it listed.
Inputs(listed) == {GetSourceDevices(listed, order, toSource) :
                     order \in SetToSeqs(Slices), toSource \in driverToSource}

\* Mutant: the watcher runs before the configuration is validated.
ListSlicesEarly(r) ==
  /\ step[r] = "idle"
  /\ step' = [step EXCEPT ![r] = "listed"]
  /\ listing' = [listing EXCEPT ![r] = slices]
  /\ clean' = (\A q \in Runs : step[q] = "idle")
  /\ UNCHANGED <<inputs, process, result, mappings, store, published, failures, seen, offer, users>>

\* recompute begins, at the start or when the timer fires, and lists the
\* informer's cache.
ListSlices(r) ==
  /\ proc = "serving" /\ step[r] = "idle"
  /\ step' = [step EXCEPT ![r] = "listed"]
  /\ listing' = [listing EXCEPT ![r] = slices]
  /\ clean' = (\A q \in Runs : step[q] = "idle")
  /\ UNCHANGED <<inputs, process, result, mappings, store, published, failures, seen, offer, users>>

\* It computes the composite devices and calls DeviceStore.ReplaceAll.
ReplaceStore(r) ==
  /\ step[r] = "listed"
  /\ \E bySource \in Inputs(listing[r]) :
       \E devices \in Outcomes(ComputePairs(cfg.compositions, bySource, pairLabels)) :
         /\ result' = [result EXCEPT ![r] = devices]
         /\ store' \in Mappings(devices)
  /\ mappings' = [mappings EXCEPT ![r] = store']
  /\ seen' = listing[r]
  /\ step' = [step EXCEPT ![r] = "stored"]
  /\ listing' = [listing EXCEPT ![r] = Nothing]
  /\ UNCHANGED <<inputs, process, published, failures, offer, clean, users>>

\* It publishes them; a failure is only logged.
Publish(r) ==
  /\ step[r] = "stored"
  /\ \/ published' = Pools(result[r]) /\ offer' = mappings[r] /\ UNCHANGED <<failures, clean>>
     \/ /\ failures < MaxFailures /\ failures' = failures + 1
        /\ clean' = FALSE /\ UNCHANGED <<published, offer>>
  /\ step' = [step EXCEPT ![r] = "idle"]
  /\ result' = [result EXCEPT ![r] = <<>>]
  /\ mappings' = [mappings EXCEPT ![r] = <<>>]
  /\ UNCHANGED <<inputs, process, listing, store, seen, users>>

----------------------------------------------------------------------------
(* Allocation and prepareClaim                                             *)

PublishedKeys == UNION {{<<c, n>> : n \in Range(FlattenSeq(published[c]))} : c \in DOMAIN published}

Taken(c) == Range(alloc[c])

\* What a mapping stands for: the underlying devices by source and name.
Ids(d) == {<<d.members[i].source, DevName[d.members[i].dev]>> : i \in DOMAIN d.members}

\* The scheduler allocates published devices that no claim has (external).
Allocate(c) ==
  /\ alloc[c] = <<>>
  /\ \E n \in 1 .. MaxResults :
       \E keys \in Injection(1 .. n, PublishedKeys \ UNION {Taken(e) : e \in Claims}) :
         /\ alloc' = [alloc EXCEPT ![c] = keys]
         /\ meant' = [meant EXCEPT ![c] = Field(keys, LAMBDA k : Ids(offer[k]))]
  /\ UNCHANGED <<inputs, process, locals, pools, work>>

\* The claim is unprepared and deallocated (external).
Free(c) ==
  /\ alloc[c] # <<>>
  /\ alloc' = [alloc EXCEPT ![c] = <<>>]
  /\ meant' = [meant EXCEPT ![c] = <<>>]
  /\ work' = [work EXCEPT ![c] = <<>>]
  /\ UNCHANGED <<inputs, process, locals, pools>>

Resolve(member, ordinal) ==
  IF cfg.params = NoParams THEN Nil
  ELSE ResolveForDevice(member.source, member.dev, ordinal, paramLabels)

\* The members of all allocated devices, numbered by device from zero.
WorkItems(keys) ==
  [x \in UNION {{i} \X DOMAIN store[keys[i]].members : i \in DOMAIN keys} |->
     LET member == store[keys[x[1]]].members[x[2]]
     IN [ordinal |-> x[1] - 1, member |-> member, params |-> Resolve(member, x[1] - 1)]]

\* First part of prepareClaim; an unknown device ends the call.
Prepare(c) ==
  /\ proc = "serving"
  /\ alloc[c] # <<>> /\ Taken(c) \subseteq DOMAIN store
  /\ work' = [work EXCEPT ![c] = WorkItems(alloc[c])]
  /\ UNCHANGED <<inputs, process, locals, pools, alloc, meant>>

----------------------------------------------------------------------------
InvNext ==
  \/ Start
  \/ \E r \in Runs : ListSlices(r) \/ ReplaceStore(r) \/ Publish(r)
  \/ \E x \in Slices : Change(x)
  \/ \E c \in Claims : Allocate(c) \/ Free(c) \/ Prepare(c)

InvSpec == InvInit /\ [][InvNext]_invVars

----------------------------------------------------------------------------
(* Reference definitions: what a configuration asks for, without the       *)
(* algorithms that compute it.                                             *)

Compositions == Range(cfg.compositions)
Composition(name) == CHOOSE comp \in Compositions : comp.name = name

\* Each driver serves one source.
DriversDistinct == Distinct(Field(cfg.sources, LAMBDA src : src.driver))

\* A driver gives each of a node's devices a name of its own.
DevicesNamedOnce ==
  /\ \A x \in Slices : \A list \in Contents[x] : Distinct(Field(list, LAMBDA d : DevName[d]))
  /\ \A x, y \in Slices : x # y /\ SliceDriver[x] = SliceDriver[y] =>
       \A list \in Contents[x] : \A other \in Contents[y] :
         \A d \in Range(list) : \A e \in Range(other) : DevName[d] # DevName[e]

\* How many devices a source gives: of the members that list it, the first
\* one counts in an automatic composition, the last one in an explicit one.
CountOf(comp, s) ==
  LET listed == {j \in DOMAIN comp.members : comp.members[j].source = s}
  IN comp.members[IF comp.mode = "explicit" THEN Max(listed) ELSE Min(listed)].count

\* The names of all the members fit into the composite name.
NamesFit(comp) ==
  Cardinality(UNION {{j} \X (1 .. CountOf(comp, comp.members[j].source)) : j \in DOMAIN comp.members})
    <= NameParts

\* Each source is listed once, and names are complete.
Plain(comp) == Distinct(Field(comp.members, LAMBDA m : m.source)) /\ NamesFit(comp)

\* The devices of a source in a view of the slices that pass its filter.
Eligible(comp, s, view) ==
  {d \in UNION {Range(view[x]) : x \in {y \in Slices : s \in SourcesOf(SliceDriver[y])}} :
     s \in DOMAIN comp.filters => comp.filters[s] = NoExpr \/ Match(comp.filters[s], d)}

Agree(D, a) == /\ \A d \in D : HasText(d, a)
               /\ \A d, e \in D : TextOf(d, a) = TextOf(e, a)

AutoGroups(comp, view) ==
  LET eligible == [s \in MemberSources(comp) |-> Eligible(comp, s, view)]
  IN {D \in SUBSET UNION Range(eligible) :
        /\ \A s \in MemberSources(comp) : Cardinality(D \cap eligible[s]) = CountOf(comp, s)
        /\ comp.constraints # <<>> => Agree(D, comp.constraints[1].attribute)}

Devs(d)       == {d.members[i].dev : i \in DOMAIN d.members}
KeysOf(comp)  == {k \in DOMAIN store : store[k].comp = comp.name}
Offered(comp) == {Devs(store[k]) : k \in KeysOf(comp)}

\* The devices an explicit pair's selector means.
Meant(comp, pair, s) ==
  {d \in Eligible(comp, s, seen) : s \in DOMAIN pair.selectors /\ Match(pair.selectors[s], d)}

\* No selector means more devices than the pair needs, none a device of
\* another pair.
Unambiguous(comp, pairs) ==
  \A s \in MemberSources(comp) : \A j \in DOMAIN pairs :
    /\ Cardinality(Meant(comp, pairs[j], s)) <= CountOf(comp, s)
    /\ \A k \in DOMAIN pairs \ {j} : Meant(comp, pairs[j], s) \cap Meant(comp, pairs[k], s) = {}

MeantGroups(comp, pairs) ==
  {[devs |-> UNION {Meant(comp, pairs[j], s) : s \in MemberSources(comp)},
    numa |-> pairs[j].numa, rail |-> pairs[j].rail] :
     j \in {k \in DOMAIN pairs : \A s \in MemberSources(comp) :
              Cardinality(Meant(comp, pairs[k], s)) = CountOf(comp, s)}}

\* The layers of values that apply to a device: the base entry's and those
\* of each override that selects the node, the strongest last.
Layers(member) ==
  LET file == ParamsFile[member.source]
      ofOverride(o) == IF matchesNodeSelector(o.nodeSelector, paramLabels)
                       THEN findMatchingEntry(o.entries, member.dev) ELSE NoValues
  IN <<findMatchingEntry(file.entries, member.dev)>> \o Field(file.overrides, ofOverride)

----------------------------------------------------------------------------
(* Properties                                                              *)

\* Type correctness of the inventory.
InvTypeOK ==
  /\ cfg \in Configs
  /\ proc \in {"boot", "serving", "exited"}
  /\ pairLabels \in {NodeLabels, <<>>} /\ paramLabels \in {NodeLabels, <<>>}
  /\ \A x \in Slices : slices[x] \in Contents[x] /\ seen[x] \in Contents[x] \cup {<<>>}
  /\ step \in [Runs -> StepSet] /\ clean \in BOOLEAN
  /\ \A r \in Runs : step[r] = "listed" => \A x \in Slices : listing[r][x] \in Contents[x]
  /\ \A k \in DOMAIN store : k = Key(store[k]) /\ store[k].numa \in Int /\ Devs(store[k]) \subseteq Dev
  /\ proc # "serving" => store = <<>> /\ published = <<>> /\ \A r \in Runs : step[r] = "idle"
  /\ DOMAIN alloc = Claims /\ DOMAIN work = Claims
  /\ changes \in 0 .. MaxChanges /\ failures \in 0 .. MaxFailures

\* The pairing algorithms for automatic compositions (generateCombinations,
\* chooseCombinations, grouping by attribute, filters) offer exactly the
\* groups the composition asks for, each under one name, when drivers and
\* sources correspond one to one and names are not cut.
AutoPairsExact ==
  proc = "serving" /\ DriversDistinct =>
    \A comp \in {c \in Compositions : c.mode # "explicit" /\ Plain(c)} :
      /\ Offered(comp) = AutoGroups(comp, seen)
      /\ Cardinality(KeysOf(comp)) = Cardinality(AutoGroups(comp, seen))

\* A composite device over several sources is never an arbitrary
\* combination: its devices share an attribute, or an explicit pair's
\* selectors chose them.  Validate and the choice of the pairing function
\* (computeForComposition) must agree on this.
MultiSourceRelated ==
  \A k \in DOMAIN store :
    LET d == store[k]
    IN \/ Composition(d.comp).mode = "explicit"
       \/ \A i, j \in DOMAIN d.members : d.members[i].source = d.members[j].source
       \/ \E a \in UNION {DOMAIN Attr[e] : e \in Devs(d)} : Agree(Devs(d), a)

\* In an explicit composition no underlying device is offered twice
\* (pairWithExplicit's consumed set), whatever the selectors match.
ExplicitExclusive ==
  \A comp \in {c \in Compositions : c.mode = "explicit"} :
    \A k, l \in KeysOf(comp) : k # l => Devs(store[k]) \cap Devs(store[l]) = {}

\* When the selectors of the node's pool are unambiguous, the devices
\* offered are the configured pairs whose devices are present, with the
\* configured rail and NUMA node, whatever the order of the lists.
ExplicitAsConfigured ==
  proc = "serving" /\ DriversDistinct =>
    \A comp \in {c \in Compositions : c.mode = "explicit" /\ Plain(c)} :
      \A pool \in Range(comp.pools) :
        LabelValue(pairLabels, comp.labelKey) = pool.label /\ Unambiguous(comp, pool.pairs) =>
          {[devs |-> Devs(store[k]), numa |-> store[k].numa, rail |-> store[k].rail] :
             k \in KeysOf(comp)} = MeantGroups(comp, pool.pairs)

\* detectNUMANode's answer is a NUMA node that a member's attributes give,
\* although it iterates over maps, and the same for all members when the
\* composition matches on the only such attribute they have.  (A member with
\* the attribute of another domain beside it may answer with that one.)
NumaOfMembers ==
  \A k \in DOMAIN store :
    LET d     == store[k]
        comp  == Composition(d.comp)
        numas == numaNodes(Devs(d))
    IN comp.mode # "explicit" =>
         /\ d.numa \in IF numas = {} THEN {-1} ELSE numas
         /\ (comp.constraints # <<>>
               /\ \A e \in Devs(d) : numaKeys(e) \subseteq {comp.constraints[1].attribute})
              => numas \subseteq {d.numa}

\* The published pools list what one recompute put into the DeviceStore, all
\* of it and in slices that the API server accepts (groupByComposition,
\* buildSlices), however recomputes overlap; and they list what the store
\* resolves whenever no recompute is in progress and the last one ran alone
\* and could publish.
PublishedMatchesStore ==
  /\ PublishedKeys = DOMAIN offer
  /\ (clean /\ \A r \in Runs : step[r] = "idle") => offer = store
  /\ \A c \in DOMAIN published : \A b \in DOMAIN published[c] :
       Len(published[c][b]) \in 1 .. MaxPerSlice

\* No pool lists a device name twice, which the API server and the scheduler
\* rely on, when the composition lists no source twice and names are not cut
\* (chooseCombinations, joinedName, buildSlices).
PublishedOnce ==
  \A c \in DOMAIN published : Plain(Composition(c)) => Distinct(FlattenSeq(published[c]))

\* A recompute leaves an automatic composite device in the store whose
\* underlying devices it has listed, whatever else changed, whatever other
\* recomputes did meanwhile and in whatever order the lister returns the
\* slices; under the same name if it has one device of each source.  A claim
\* allocated earlier therefore can be prepared.
OfferStable ==
  [][store' # store /\ DriversDistinct =>
       \A k \in DOMAIN store :
         LET comp == Composition(store[k].comp)
         IN /\ comp.mode # "explicit" /\ Plain(comp)
            /\ Devs(store[k]) \subseteq UNION {Range(seen'[x]) : x \in Slices}
            => \E l \in DOMAIN store' :
                 /\ store'[l].comp = comp.name /\ Devs(store'[l]) = Devs(store[k])
                 /\ (\A m \in Range(comp.members) : m.count = 1) => l = k]_invVars

\* prepareClaim works with the underlying devices that the allocation meant
\* when it was made, and the i-th composite device gives ordinal i - 1 to
\* all of its members, whatever recomputes, overlaps of them and failures of
\* Publish came in between.
PreparedAsAllocated ==
  \A c \in Claims : work[c] # <<>> =>
    LET item(o) == {i \in DOMAIN work[c] : work[c][i].ordinal = o}
        ids(o)  == {<<work[c][i].member.source, DevName[work[c][i].member.dev]>> : i \in item(o)}
    IN /\ {work[c][i].ordinal : i \in DOMAIN work[c]} = 0 .. Len(alloc[c]) - 1
       /\ \A i \in DOMAIN alloc[c] :
            NamesFit(Composition(alloc[c][i][1])) => ids(i - 1) = meant[c][i]

\* The parameters of a shadow claim: none without a base entry that has
\* values; otherwise each variable has the value of the strongest layer that
\* sets it, and the file cannot replace the driver's own variables
\* (ResolveForDevice, buildTemplateData).
ParamsLastWins ==
  \A c \in Claims : \A i \in DOMAIN work[c] :
    LET item   == work[c][i]
        known  == cfg.params # NoParams /\ item.member.source \in DOMAIN ParamsFile
        layers == Layers(item.member)
        setBy(v) == {j \in DOMAIN layers : layers[j] # NoValues /\ v \in DOMAIN layers[j]}
    IN /\ item.params = Nil <=> ~known \/ layers[1] = NoValues
       /\ item.params # Nil =>
            /\ item.params["PairOrdinal"] = item.ordinal
            /\ \A v \in DOMAIN item.params \ {"PairOrdinal", "NodeName", "SourceName"} :
                 item.params[v] = layers[Max(setBy(v))][v]

\* With a single composition in use, allocations never share an underlying
\* device.
AllocationsDisjoint ==
  \A c, d \in Claims : \A i \in DOMAIN alloc[c] : \A j \in DOMAIN alloc[d] :
    <<c, i>> # <<d, j>> /\ alloc[c][i][1] = alloc[d][j][1]
      => meant[c][i] \cap meant[d][j] = {}
============================================================================

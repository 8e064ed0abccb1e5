-------------------------- MODULE InventoryProofs --------------------------
(***************************************************************************)
(* The inventory for every configuration, every content of the slices and  *)
(* every file of device parameters.                                        *)
(***************************************************************************)
EXTENDS Inventory, PairerProofs, FunctionTheorems

USE DEF invVars, inputs, process, locals, pools, users

----------------------------------------------------------------------------
(* Parameters                                                              *)

\* A work list holds what the resolver answered for each of its members; it
\* is filled only after the resolver has got its labels for good.
WorkInv ==
  /\ DOMAIN work = Claims
  /\ proc = "boot" => \A c \in Claims : work[c] = <<>>
  /\ \A c \in Claims : \A x \in DOMAIN work[c] :
       work[c][x].params = Resolve(work[c][x].member, work[c][x].ordinal)

LEMMA WorkItemsResolved ==
  ASSUME NEW keys, NEW x \in DOMAIN WorkItems(keys)
  PROVE  WorkItems(keys)[x].params = Resolve(WorkItems(keys)[x].member, WorkItems(keys)[x].ordinal)
  BY DEF WorkItems

LEMMA WorkStart == ASSUME WorkInv, Start PROVE WorkInv'
  <1>1. work' = work /\ proc = "boot" /\ \A c \in Claims : DOMAIN work[c] = {}
    BY DEF WorkInv, Start
  <1> QED BY <1>1 DEF WorkInv

LEMMA WorkPrepare == ASSUME WorkInv, NEW c \in Claims, Prepare(c) PROVE WorkInv'
  <1>1. /\ work' = [work EXCEPT ![c] = WorkItems(alloc[c])] /\ DOMAIN work = Claims
        /\ proc' = "serving" /\ cfg' = cfg /\ paramLabels' = paramLabels
    BY DEF WorkInv, Prepare
  <1>2. ASSUME NEW e \in Claims, NEW x \in DOMAIN work'[e]
        PROVE  work'[e][x].params = Resolve(work'[e][x].member, work'[e][x].ordinal)
    <2>1. CASE e = c
      BY <1>1, <1>2, <2>1, WorkItemsResolved
    <2>2. CASE e # c
      BY <1>1, <1>2, <2>2 DEF WorkInv
    <2> QED BY <2>1, <2>2
  <1>3. \A m, o : Resolve(m, o)' = Resolve(m, o)
    BY <1>1 DEF Resolve
  <1> QED BY <1>1, <1>2, <1>3 DEF WorkInv

LEMMA WorkFree == ASSUME WorkInv, NEW c \in Claims, Free(c) PROVE WorkInv'
  <1>1. /\ work' = [work EXCEPT ![c] = <<>>] /\ DOMAIN work = Claims
        /\ proc' = proc /\ cfg' = cfg /\ paramLabels' = paramLabels
    BY DEF WorkInv, Free
  <1>2. \A m, o : Resolve(m, o)' = Resolve(m, o)
    BY <1>1 DEF Resolve
  <1>3. DOMAIN work'[c] = {} /\ work'[c] = <<>> /\ \A e \in Claims \ {c} : work'[e] = work[e]
    BY <1>1
  <1> QED BY <1>1, <1>2, <1>3 DEF WorkInv

LEMMA WorkStays ==
  ASSUME WorkInv, UNCHANGED <<work, proc, cfg, paramLabels>>
  PROVE  WorkInv'
  <1>1. \A m, o : Resolve(m, o)' = Resolve(m, o)
    BY DEF Resolve
  <1> QED BY <1>1 DEF WorkInv

LEMMA WorkInvariant == InvSpec => []WorkInv
  <1>1. InvInit => WorkInv
    BY DEF InvInit, WorkInv
  <1>2. WorkInv /\ [InvNext]_invVars => WorkInv'
    <2> SUFFICES ASSUME WorkInv, [InvNext]_invVars PROVE WorkInv'
      OBVIOUS
    <2>1. CASE Start
      BY <2>1, WorkStart
    <2>2. ASSUME NEW r \in Runs, ListSlices(r) \/ ReplaceStore(r) \/ Publish(r) PROVE WorkInv'
      BY <2>2, WorkStays DEF ListSlices, ReplaceStore, Publish
    <2>3. ASSUME NEW s \in Slices, Change(s) PROVE WorkInv'
      BY <2>3, WorkStays DEF Change
    <2>4. ASSUME NEW c \in Claims, Allocate(c) PROVE WorkInv'
      BY <2>4, WorkStays DEF Allocate
    <2>5. ASSUME NEW c \in Claims, Free(c) PROVE WorkInv'
      BY <2>5, WorkFree
    <2>6. ASSUME NEW c \in Claims, Prepare(c) PROVE WorkInv'
      BY <2>6, WorkPrepare
    <2>7. CASE UNCHANGED invVars
      BY <2>7, WorkStays
    <2> QED BY <2>1, <2>2, <2>3, <2>4, <2>5, <2>6, <2>7 DEF InvNext
  <1> QED BY <1>1, <1>2, PTL DEF InvSpec

LEMMA Prefixed ==
  ASSUME NEW a, NEW n \in Nat, NEW r, r = [i \in 1 .. n |-> r[i]]
  PROVE  /\ DOMAIN (<<a>> \o r) = 1 .. n + 1 /\ (<<a>> \o r)[1] = a
         /\ \A j \in 2 .. n + 1 : (<<a>> \o r)[j] = r[j - 1]
  <1> DEFINE B == {r[i] : i \in 1 .. n} \cup {a}
             one == <<a>>
  <1>1. r \in Seq(B) /\ Len(r) = n
    <2>1. \A i \in 1 .. n : r[i] \in B
      OBVIOUS
    <2> HIDE DEF B
    <2>2. [i \in 1 .. n |-> r[i]] \in Seq(B)
      BY <2>1, IsASeq
    <2>3. r \in Seq(B) /\ DOMAIN r = 1 .. n
      BY <2>2
    <2> QED BY <2>3, LenProperties
  <1>2. one \in Seq(B) /\ Len(one) = 1 /\ one[1] = a
    <2>1. a \in B
      OBVIOUS
    <2> HIDE DEF B
    <2> QED BY <2>1
  <1> HIDE DEF B, one
  <1>3. one \o r \in Seq(B) /\ Len(one \o r) = 1 + n
        /\ \A i \in 1 .. 1 + n : (one \o r)[i] = IF i <= 1 THEN one[i] ELSE r[i - 1]
    <2>1. /\ one \o r \in Seq(B) /\ Len(one \o r) = Len(one) + Len(r)
          /\ \A i \in 1 .. Len(one) + Len(r) :
               (one \o r)[i] = IF i <= Len(one) THEN one[i] ELSE r[i - Len(one)]
      BY ONLY <1>1, <1>2, ConcatProperties
    <2> QED BY <1>1, <1>2, <2>1
  <1>4. DOMAIN (one \o r) = 1 .. n + 1
    BY <1>3, LenProperties
  <1>5. (one \o r)[1] = a /\ \A j \in 2 .. n + 1 : (one \o r)[j] = r[j - 1]
    BY <1>2, <1>3
  <1> QED BY <1>4, <1>5 DEF one

\* The layers of a file are those that the resolver merges.
LEMMA LayersOf ==
  ASSUME NEW member, member.source \in DOMAIN ParamsFile
  PROVE  LET src == ParamsFile[member.source]
         IN /\ DOMAIN Layers(member) = 1 .. Len(src.overrides) + 1
            /\ Len(src.overrides) \in Nat
            /\ \A j \in 1 .. Len(src.overrides) + 1 :
                 Layers(member)[j] = Layer(src, member.dev, paramLabels, j)
  <1> DEFINE src == ParamsFile[member.source]
             d == member.dev
             ofOverride(o) == IF matchesNodeSelector(o.nodeSelector, paramLabels)
                              THEN findMatchingEntry(o.entries, d) ELSE NoValues
             n == Len(src.overrides)
             rest == [i \in DOMAIN src.overrides |-> ofOverride(src.overrides[i])]
             one == <<findMatchingEntry(src.entries, d)>>
  <1>1. n \in Nat /\ DOMAIN src.overrides = 1 .. n
    BY ParamsAssumption
  <1>2. Layers(member) = one \o rest
    BY DEF Layers, Field
  <1>3. \A i \in 1 .. n : rest[i] = Layer(src, d, paramLabels, i + 1)
    BY <1>1 DEF Layer
  <1>4. one[1] = Layer(src, d, paramLabels, 1)
    BY DEF Layer
  <1>5. rest = [i \in 1 .. n |-> rest[i]]
    BY <1>1
  <1> HIDE DEF rest, n
  <1>6. /\ DOMAIN (one \o rest) = 1 .. n + 1
        /\ (one \o rest)[1] = findMatchingEntry(src.entries, d)
        /\ \A j \in 2 .. n + 1 : (one \o rest)[j] = rest[j - 1]
    <2>1. n \in Nat
      BY <1>1
    <2> QED BY ONLY <2>1, <1>5, Prefixed
  <1>7. ASSUME NEW j \in 1 .. n + 1 PROVE (one \o rest)[j] = Layer(src, d, paramLabels, j)
    <2>1. CASE j = 1
      BY <1>4, <1>6, <2>1
    <2>2. CASE j # 1
      <3>1. j - 1 \in 1 .. n /\ j = (j - 1) + 1 /\ j \in 2 .. n + 1
        BY <1>1, <2>2
      <3> QED BY <1>3, <1>6, <3>1
    <2> QED BY <2>1, <2>2
  <1> HIDE DEF one
  <1> QED BY <1>1, <1>2, <1>6, <1>7 DEF n

LEMMA MaxIs ==
  ASSUME NEW S, S \subseteq Int, NEW j \in S, \A l \in S : l <= j
  PROVE  Max(S) = j
  <1> DEFINE m == Max(S)
  <1>1. m \in S /\ \A y \in S : m >= y
    BY DEF Max
  <1> HIDE DEF m
  <1>2. m \in Int /\ j \in Int /\ m >= j /\ m <= j
    BY <1>1
  <1> QED BY <1>2 DEF m

\* What the property says of one item.
LEMMA ParamsOfItem ==
  ASSUME NEW item, item.params = Resolve(item.member, item.ordinal)
  PROVE
    LET known  == cfg.params # NoParams /\ item.member.source \in DOMAIN ParamsFile
        layers == Layers(item.member)
        setBy(v) == {j \in DOMAIN layers : layers[j] # NoValues /\ v \in DOMAIN layers[j]}
    IN /\ item.params = Nil <=> ~known \/ layers[1] = NoValues
       /\ item.params # Nil =>
            /\ item.params["PairOrdinal"] = item.ordinal
            /\ \A v \in DOMAIN item.params \ {"PairOrdinal", "NodeName", "SourceName"} :
                 item.params[v] = layers[Max(setBy(v))][v]
  <1> DEFINE s == item.member.source
             d == item.member.dev
             src == ParamsFile[s]
             r == ResolveForDevice(s, d, item.ordinal, paramLabels)
             layers == Layers(item.member)
             setBy(v) == {j \in DOMAIN layers : layers[j] # NoValues /\ v \in DOMAIN layers[j]}
  <1>1. CASE cfg.params = NoParams
    BY <1>1 DEF Resolve
  <1>2. CASE cfg.params # NoParams /\ s \notin DOMAIN ParamsFile
    <2>1. item.params = Nil
      BY <1>2 DEF Resolve, ResolveForDevice
    <2> QED BY <1>2, <2>1
  <1>3. CASE cfg.params # NoParams /\ s \in DOMAIN ParamsFile
    <2>1. item.params = r
      BY <1>3 DEF Resolve
    <2>2. /\ r = Nil <=> Layer(src, d, paramLabels, 1) = NoValues
          /\ r # Nil =>
               /\ r["PairOrdinal"] = item.ordinal
               /\ \A v \in DOMAIN r \ {"PairOrdinal", "NodeName", "SourceName"} :
                    Strongest(src, d, paramLabels, Len(src.overrides) + 1, v, r[v])
      BY <1>3, Resolved
    <2> HIDE DEF r
    <2>3. /\ DOMAIN layers = 1 .. Len(src.overrides) + 1 /\ Len(src.overrides) \in Nat
          /\ \A j \in 1 .. Len(src.overrides) + 1 : layers[j] = Layer(src, d, paramLabels, j)
      BY <1>3, LayersOf
    <2> HIDE DEF layers
    <2>4. layers[1] = Layer(src, d, paramLabels, 1)
      BY <2>3
    <2>5. ASSUME r # Nil, NEW v \in DOMAIN r \ {"PairOrdinal", "NodeName", "SourceName"}
          PROVE  r[v] = layers[Max(setBy(v))][v]
      <3>1. PICK j \in 1 .. Len(src.overrides) + 1 :
               /\ SetsValue(src, d, paramLabels, j, v)
               /\ r[v] = Layer(src, d, paramLabels, j)[v]
               /\ \A l \in 1 .. Len(src.overrides) + 1 : SetsValue(src, d, paramLabels, l, v) => l <= j
        BY <2>2, <2>5 DEF Strongest
      <3>2. \A l \in 1 .. Len(src.overrides) + 1 :
              l \in setBy(v) <=> SetsValue(src, d, paramLabels, l, v)
        BY <2>3 DEF SetsValue
      <3>3. setBy(v) \subseteq 1 .. Len(src.overrides) + 1
        BY <2>3
      <3> HIDE DEF setBy
      <3>4. Max(setBy(v)) = j
        <4>1. setBy(v) \subseteq Int
          BY <3>3, <2>3
        <4>2. j \in setBy(v) /\ \A l \in setBy(v) : l <= j
          BY <3>1, <3>2, <3>3
        <4> QED BY <4>1, <4>2, MaxIs
      <3> QED BY <2>3, <3>1, <3>4
    <2> QED BY <1>3, <2>1, <2>2, <2>4, <2>5 DEF layers
  <1> QED BY <1>1, <1>2, <1>3

\* The parameters of every item that prepareClaim works on are those of the
\* strongest layers of the file, for every file, every node label and every
\* device (ResolveForDevice, buildTemplateData, prepareClaim).
THEOREM ParamsAreTheStrongest == InvSpec => []ParamsLastWins
  <1>1. WorkInv => ParamsLastWins
    BY ParamsOfItem DEF WorkInv, ParamsLastWins
  <1> QED BY <1>1, WorkInvariant, PTL

----------------------------------------------------------------------------
(* What recompute reads                                                    *)

\* Lists of devices by source; no device is listed by two of them.
Views ==
  {v \in [SourceNames(cfg) -> Seq(Dev)] :
     \A s, t \in SourceNames(cfg) : s # t => Range(v[s]) \cap Range(v[t]) = {}}

\* What a recompute lists.
Listing(listed) == DOMAIN listed = Slices /\ \A x \in Slices : listed[x] \in Contents[x]

LEMMA InputsAreViews == ASSUME NEW listed, Listing(listed), NEW v \in Inputs(listed) PROVE v \in Views
  <1>1. PICK order \in SetToSeqs(Slices), toSource \in driverToSource :
          v = GetSourceDevices(listed, order, toSource)
    BY DEF Inputs
  <1> DEFINE of(s) == {x \in Slices : SliceDriver[x] \in SourceDrivers /\ toSource[SliceDriver[x]] = s}
             mine(s) == Keep(order, of(s))
             lists(s) == [i \in DOMAIN mine(s) |-> listed[mine(s)[i]]]
  <1>2. order \in Seq(Slices)
    <2>1. order \in [1 .. Cardinality(Slices) -> Slices]
      BY DEF SetToSeqs
    <2>2. Cardinality(Slices) \in Nat
      BY InventoryAssumption, FS_CardinalityType
    <2> QED BY <2>1, <2>2
  <1>3. v = [s \in SourceNames(cfg) |-> FlattenSeq(lists(s))]
    BY <1>1 DEF GetSourceDevices
  <1>4. ASSUME NEW s
        PROVE  /\ FlattenSeq(lists(s)) \in Seq(Dev)
               /\ \A d \in Range(FlattenSeq(lists(s))) : \E x \in of(s) : d \in Range(listed[x])
    <2>1. mine(s) \in Seq(Slices) /\ Range(mine(s)) \subseteq of(s)
      <3> HIDE DEF of
      <3> QED BY <1>2, KeepRange
    <2> DEFINE q == mine(s)
               l == [i \in DOMAIN q |-> listed[q[i]]]
    <2> HIDE DEF q, of
    <2>2. /\ Len(q) \in Nat /\ DOMAIN q = 1 .. Len(q)
          /\ \A i \in DOMAIN q : q[i] \in Slices /\ q[i] \in of(s)
      BY <2>1 DEF q, Range
    <2>3. \A i \in DOMAIN q : listed[q[i]] \in Seq(Dev)
      BY <2>2, InventoryAssumption DEF Listing
    <2>4. l \in Seq(Seq(Dev)) /\ DOMAIN l = DOMAIN q /\ \A i \in DOMAIN l : l[i] = listed[q[i]]
      BY <2>2, <2>3
    <2> HIDE DEF l
    <2>5. FlattenSeq(l) \in Seq(Dev) /\ Range(FlattenSeq(l)) = UNION {Range(l[i]) : i \in DOMAIN l}
      BY <2>4, FlattenRange
    <2>6. \A d \in Range(FlattenSeq(l)) : \E x \in of(s) : d \in Range(listed[x])
      BY <2>2, <2>4, <2>5
    <2> QED BY <2>5, <2>6 DEF l, q
  <1>5. ASSUME NEW s, NEW t, s # t, NEW d \in Range(FlattenSeq(lists(s))), d \in Range(FlattenSeq(lists(t)))
        PROVE  FALSE
    <2> HIDE DEF lists, mine
    <2>1. PICK x \in of(s) : d \in Range(listed[x])
      BY <1>4
    <2>2. PICK y \in of(t) : d \in Range(listed[y])
      BY <1>4, <1>5
    <2>3. SliceDriver[x] # SliceDriver[y] /\ x \in Slices /\ y \in Slices
      BY <1>5
    <2>4. listed[x] \in Contents[x] /\ listed[y] \in Contents[y]
      BY <2>3 DEF Listing
    <2> QED BY <2>1, <2>2, <2>3, <2>4, InventoryAssumption
  <1> HIDE DEF lists, mine, of
  <1>6. v \in [SourceNames(cfg) -> Seq(Dev)]
    BY <1>3, <1>4
  <1>7. \A s \in SourceNames(cfg) : v[s] = FlattenSeq(lists(s))
    BY <1>3
  <1>8. \A s, t \in SourceNames(cfg) : s # t => Range(v[s]) \cap Range(v[t]) = {}
    BY <1>5, <1>7
  <1> QED BY <1>6, <1>8 DEF Views

----------------------------------------------------------------------------
(* What recompute stores                                                   *)

\* The choice of a NUMA node leaves the rest of a device as it is.
LEMMA OutcomesOf ==
  ASSUME NEW q, \A i \in DOMAIN q : q[i].numa # {} /\ "numa" \in DOMAIN q[i], NEW devices \in Outcomes(q)
  PROVE  /\ devices = [i \in DOMAIN q |-> devices[i]]
         /\ \A i \in DOMAIN q : /\ devices[i].numa \in q[i].numa
                                /\ devices[i].comp = q[i].comp /\ devices[i].name = q[i].name
                                /\ devices[i].members = q[i].members /\ devices[i].rail = q[i].rail
  <1> DEFINE open == {k \in DOMAIN q : Cardinality(q[k].numa) > 1}
             P == {p \in [open -> UNION {q[k].numa : k \in open}] : \A k \in open : p[k] \in q[k].numa}
             pickOf(p) == [k \in DOMAIN q |-> IF k \in open THEN p[k] ELSE CHOOSE n \in q[k].numa : TRUE]
             chosen(pick) == [i \in DOMAIN q |-> [q[i] EXCEPT !.numa = pick[i]]]
  <1>1. Outcomes(q) = {chosen(pick) : pick \in {pickOf(p) : p \in P}}
    BY DEF Outcomes, Selections
  <1>2. ASSUME NEW p \in P, NEW k \in DOMAIN q PROVE pickOf(p)[k] \in q[k].numa
    <2> HIDE DEF open
    <2>1. CASE k \in open
      BY <2>1
    <2>2. CASE k \notin open
      BY <2>2
    <2> QED BY <2>1, <2>2
  <1> HIDE DEF P, pickOf
  <1>3. PICK p \in P : devices = chosen(pickOf(p))
    <2> HIDE DEF chosen
    <2> QED BY <1>1
  <1> DEFINE pick == pickOf(p)
  <1> HIDE DEF pick
  <1>4. \A i \in DOMAIN q : pick[i] \in q[i].numa
    BY <1>2 DEF pick
  <1>5. /\ devices = [i \in DOMAIN q |-> devices[i]]
        /\ \A i \in DOMAIN q : devices[i] = [q[i] EXCEPT !.numa = pick[i]]
    BY <1>3 DEF pick
  <1>6. ASSUME NEW i \in DOMAIN q
        PROVE  /\ devices[i].numa \in q[i].numa
               /\ devices[i].comp = q[i].comp /\ devices[i].name = q[i].name
               /\ devices[i].members = q[i].members /\ devices[i].rail = q[i].rail
    <2> DEFINE x == q[i]
               y == devices[i]
               n == pick[i]
    <2>1. y = [x EXCEPT !.numa = n] /\ "numa" \in DOMAIN x /\ n \in x.numa
      BY <1>4, <1>5
    <2> HIDE DEF x, y, n
    <2>2. y.numa = n /\ y.comp = x.comp /\ y.name = x.name /\ y.members = x.members /\ y.rail = x.rail
      BY <2>1
    <2> QED BY <2>1, <2>2 DEF x, y
  <1> QED BY <1>5, <1>6

\* The map has the devices' keys, and for each one of the devices with it.
LEMMA MappingsOf ==
  ASSUME NEW devices, NEW m \in Mappings(devices)
  PROVE  /\ DOMAIN m = {Key(d) : d \in Range(devices)}
         /\ \A k \in DOMAIN m : m[k] \in Range(devices) /\ Key(m[k]) = k
  <1> DEFINE Keys == {Key(d) : d \in Range(devices)}
             with(k) == {d \in Range(devices) : Key(d) = k}
             open == {k \in Keys : Cardinality(with(k)) > 1}
             P == {p \in [open -> UNION {with(k) : k \in open}] : \A k \in open : p[k] \in with(k)}
             mapOf(p) == [k \in Keys |-> IF k \in open THEN p[k] ELSE CHOOSE d \in with(k) : TRUE]
  <1>1. Mappings(devices) = {mapOf(p) : p \in P}
    BY DEF Mappings, Selections
  <1>2. \A k \in Keys : with(k) # {}
    OBVIOUS
  <1>3. \A k : \A d \in with(k) : d \in Range(devices) /\ Key(d) = k
    OBVIOUS
  <1> HIDE DEF with, Keys
  <1>4. PICK p \in P : m = mapOf(p)
    <2> HIDE DEF P, mapOf
    <2> QED BY <1>1
  <1>5. DOMAIN m = Keys /\ \A k \in Keys : m[k] \in with(k)
    <2> HIDE DEF open
    <2> QED BY <1>2, <1>4
  <1> QED BY <1>3, <1>5 DEF Keys

\* What a valid configuration says of a composition.
LEMMA ValidComposition ==
  ASSUME cfg \in Configs, Validate(cfg), NEW comp \in Compositions
  PROVE  /\ PairedComposition(comp) /\ MemberSources(comp) \subseteq SourceNames(cfg)
         /\ ValidAuto(comp) /\ Composition(comp.name) = comp
  <1>1. PICK i \in DOMAIN cfg.compositions : comp = cfg.compositions[i]
    BY DEF Compositions, Range
  <1>2. ValidCompositions(cfg)
    BY DEF Validate
  <1>3. ValidMembers(cfg, comp) /\ ValidAuto(comp)
    BY <1>1, <1>2 DEF ValidCompositions
  <1>4. TypedComposition(comp)
    BY InventoryAssumption DEF Compositions
  <1>5. PairedComposition(comp) /\ MemberSources(comp) \subseteq SourceNames(cfg)
    BY <1>3, <1>4 DEF PairedComposition, ValidMembers, MemberSources
  <1>6. ASSUME NEW other \in Compositions, other.name = comp.name PROVE other = comp
    <2>1. PICK j \in DOMAIN cfg.compositions : other = cfg.compositions[j]
      BY DEF Compositions, Range
    <2>2. \A x, y \in DOMAIN cfg.compositions : cfg.compositions[x].name = cfg.compositions[y].name => x = y
      BY <1>2 DEF ValidCompositions, Distinct, Field, IsInjective
    <2> QED BY <1>1, <1>6, <2>1, <2>2
  <1>7. Composition(comp.name) = comp
    BY <1>6 DEF Composition
  <1> QED BY <1>3, <1>5, <1>7

\* A device of the view's, but for the NUMA node chosen.
Chosen(d, e) ==
  /\ d.comp = e.comp /\ d.name = e.name /\ d.members = e.members
  /\ d.numa \in e.numa /\ d.rail = e.rail

StoreMade ==
  \E v \in Views : \E devices \in Outcomes(ComputePairs(cfg.compositions, v, pairLabels)) :
    store \in Mappings(devices)

\* A recompute has what it listed and, once it has replaced the store, what
\* it made of that.
RunMade(r) ==
  \E v \in Views : /\ result[r] \in Outcomes(ComputePairs(cfg.compositions, v, pairLabels))
                   /\ mappings[r] \in Mappings(result[r])

RunsInv ==
  /\ step \in [Runs -> StepSet]
  /\ DOMAIN listing = Runs /\ DOMAIN result = Runs /\ DOMAIN mappings = Runs
  /\ \A r \in Runs : /\ step[r] # "idle" => proc = "serving"
                     /\ step[r] = "listed" => Listing(listing[r])
                     /\ step[r] = "stored" => RunMade(r)

\* The store is what some recompute makes of slices, by a valid
\* configuration; without one nothing is stored.
StoreInv ==
  /\ cfg \in Configs /\ Listing(slices) /\ proc \in {"boot", "serving", "exited"}
  /\ proc = "serving" => Validate(cfg)
  /\ proc # "serving" => store = <<>> /\ published = <<>>
  /\ store = <<>> \/ StoreMade
  /\ RunsInv

LEMMA ViewTyped ==
  ASSUME cfg \in Configs, Validate(cfg), NEW comp \in Compositions, NEW v \in Views
  PROVE  \A s \in MemberSources(comp) : v[s] \in Seq(Dev)
  <1>1. MemberSources(comp) \subseteq SourceNames(cfg)
    BY ValidComposition
  <1> QED BY <1>1 DEF Views

\* Every device that ComputePairs returns is one of some composition's.
LEMMA PairsOfCompositions ==
  ASSUME cfg \in Configs, Validate(cfg), NEW v \in Views, NEW labels
  PROVE  LET q == ComputePairs(cfg.compositions, v, labels)
         IN /\ q \in Seq(Range(q))
            /\ \A i \in DOMAIN q : \E comp \in Compositions :
                 q[i] \in Range(computeForComposition(comp, v, labels)) /\ Genuine(comp, q[i])
  <1> DEFINE cs == cfg.compositions
             of(comp) == computeForComposition(comp, v, labels)
             ss == [i \in DOMAIN cs |-> of(cs[i])]
             A == UNION {Range(of(comp)) : comp \in Compositions}
             q == ComputePairs(cs, v, labels)
  <1>1. q = FlattenSeq(ss)
    BY DEF ComputePairs
  <1>2. ASSUME NEW comp \in Compositions
        PROVE  of(comp) \in Seq(Range(of(comp))) /\ \A e \in Range(of(comp)) : Genuine(comp, e)
    BY ValidComposition, ViewTyped, Computed
  <1> HIDE DEF of, q
  <1>3. cs \in Seq(Compositions)
    BY InventoryAssumption DEF Compositions
  <1>4. \A comp \in Compositions : of(comp) \in Seq(A)
    <2>1. \A comp \in Compositions : Range(of(comp)) \subseteq A
      OBVIOUS
    <2> HIDE DEF A
    <2> QED BY <1>2, <2>1, SeqMonotonic
  <1>5. ss \in Seq(Seq(A))
    <2> HIDE DEF A
    <2>1. Len(cs) \in Nat /\ DOMAIN cs = 1 .. Len(cs) /\ \A i \in DOMAIN cs : cs[i] \in Compositions
      BY <1>3
    <2>2. \A i \in DOMAIN cs : of(cs[i]) \in Seq(A)
      BY <1>4, <2>1
    <2> HIDE DEF cs
    <2> QED BY <2>1, <2>2
  <1>6. q \in Seq(A)
    <2> HIDE DEF ss, A
    <2> QED BY <1>1, <1>5, FlattenRange
  <1>7. ASSUME NEW i \in DOMAIN q
        PROVE  \E comp \in Compositions : q[i] \in Range(of(comp)) /\ Genuine(comp, q[i])
    <2>1. q[i] \in A
      <3> HIDE DEF A
      <3> QED BY <1>6
    <2>2. PICK comp \in Compositions : q[i] \in Range(of(comp))
      BY <2>1
    <2> QED BY <1>2, <2>2
  <1>8. q \in Seq(Range(q))
    <2> HIDE DEF A
    <2> QED BY <1>6, SeqIn
  <1> QED BY <1>7, <1>8 DEF q, of

\* A map that a recompute builds has devices of the view's.
LEMMA MapShape ==
  ASSUME cfg \in Configs, Validate(cfg), NEW v \in Views,
         NEW devices \in Outcomes(ComputePairs(cfg.compositions, v, pairLabels)),
         NEW m \in Mappings(devices), NEW k \in DOMAIN m
  PROVE  /\ k = Key(m[k])
         /\ \E comp \in Compositions : \E e \in Range(computeForComposition(comp, v, pairLabels)) :
              Genuine(comp, e) /\ Chosen(m[k], e)
  <1> DEFINE q == ComputePairs(cfg.compositions, v, pairLabels)
  <1>1. \A i \in DOMAIN q : \E comp \in Compositions :
          q[i] \in Range(computeForComposition(comp, v, pairLabels)) /\ Genuine(comp, q[i])
    BY PairsOfCompositions
  <1>2. devices \in Outcomes(q)
    OBVIOUS
  <1> HIDE DEF q
  <1>3. \A i \in DOMAIN q : q[i].numa # {} /\ "numa" \in DOMAIN q[i]
    BY <1>1 DEF Genuine
  <1>4. DOMAIN devices = DOMAIN q /\ \A i \in DOMAIN q : Chosen(devices[i], q[i])
    <2>1. /\ devices = [i \in DOMAIN q |-> devices[i]]
          /\ \A i \in DOMAIN q : /\ devices[i].numa \in q[i].numa
                                 /\ devices[i].comp = q[i].comp /\ devices[i].name = q[i].name
                                 /\ devices[i].members = q[i].members /\ devices[i].rail = q[i].rail
      BY ONLY <1>2, <1>3, OutcomesOf
    <2> QED BY <2>1 DEF Chosen
  <1>5. m[k] \in Range(devices) /\ Key(m[k]) = k
    BY MappingsOf
  <1>6. PICK i \in DOMAIN q : m[k] = devices[i]
    BY <1>4, <1>5 DEF Range
  <1>7. PICK comp \in Compositions :
          q[i] \in Range(computeForComposition(comp, v, pairLabels)) /\ Genuine(comp, q[i])
    BY <1>1
  <1> QED BY <1>4, <1>5, <1>6, <1>7

LEMMA StoreShape ==
  ASSUME StoreInv, store # <<>>
  PROVE  Validate(cfg) /\ proc = "serving" /\ \E v \in Views : \A k \in DOMAIN store :
           /\ k = Key(store[k])
           /\ \E comp \in Compositions : \E e \in Range(computeForComposition(comp, v, pairLabels)) :
                Genuine(comp, e) /\ Chosen(store[k], e)
  <1>1. Validate(cfg) /\ proc = "serving" /\ cfg \in Configs
    BY DEF StoreInv
  <1>2. PICK v \in Views : \E devices \in Outcomes(ComputePairs(cfg.compositions, v, pairLabels)) :
                             store \in Mappings(devices)
    BY DEF StoreInv, StoreMade
  <1> QED BY <1>1, <1>2, MapShape

LEMMA StoreStays ==
  ASSUME StoreInv, UNCHANGED <<cfg, slices, proc, pairLabels, store, published, locals>>
  PROVE  StoreInv'
  <1>1. UNCHANGED <<Views, Listing(slices), StoreMade>>
    BY DEF Views, Listing, StoreMade
  <1>2. \A r : RunMade(r)' <=> RunMade(r)
    BY <1>1 DEF RunMade
  <1>3. \A r : Listing(listing[r])' <=> Listing(listing[r])
    BY DEF Listing
  <1> QED BY <1>1, <1>2, <1>3 DEF StoreInv, RunsInv

LEMMA StoreStart == ASSUME StoreInv, Start PROVE StoreInv'
  <1>1. UNCHANGED <<cfg, slices, store, published, locals>> /\ store = <<>> /\ published = <<>>
    BY DEF StoreInv, Start
  <1>2. proc' \in {"boot", "serving", "exited"} /\ (proc' = "serving" => Validate(cfg))
    BY DEF StoreInv, Start
  <1>3. RunsInv'
    <2>1. \A r \in Runs : step[r] = "idle"
      BY DEF Start, StoreInv, RunsInv
    <2> QED BY <1>1, <2>1 DEF StoreInv, RunsInv
  <1> QED BY <1>1, <1>2, <1>3 DEF StoreInv, Listing

LEMMA StoreChange == ASSUME StoreInv, NEW x \in Slices, Change(x) PROVE StoreInv'
  <1>1. UNCHANGED <<cfg, proc, pairLabels, store, published, locals>>
    BY DEF Change
  <1>2. PICK list \in Contents[x] : slices' = [slices EXCEPT ![x] = list]
    BY DEF Change
  <1>3. Listing(slices')
    BY <1>2 DEF StoreInv, Listing
  <1>4. UNCHANGED <<Views, StoreMade>>
    BY <1>1 DEF Views, StoreMade
  <1>5. \A r : RunMade(r)' <=> RunMade(r)
    BY <1>1, <1>4 DEF RunMade
  <1>6. RunsInv'
    BY <1>1, <1>5 DEF StoreInv, RunsInv, Listing
  <1>7. Listing(slices)'
    BY <1>3 DEF Listing
  <1> QED BY <1>1, <1>4, <1>6, <1>7 DEF StoreInv

\* A step of a recompute leaves the other ones as they are.
LEMMA RunsStep ==
  ASSUME StoreInv, NEW r \in Runs, proc = "serving", UNCHANGED <<cfg, proc, pairLabels>>,
         NEW to \in StepSet, step' = [step EXCEPT ![r] = to],
         DOMAIN listing' = Runs, DOMAIN result' = Runs, DOMAIN mappings' = Runs,
         \A q \in Runs \ {r} : /\ listing'[q] = listing[q]
                              /\ result'[q] = result[q] /\ mappings'[q] = mappings[q],
         to = "listed" => Listing(listing'[r]),
         to = "stored" => RunMade(r)'
  PROVE  RunsInv'
  <1>1. Views' = Views
    BY DEF Views
  <1>2. step' \in [Runs -> StepSet] /\ step'[r] = to /\ \A q \in Runs \ {r} : step'[q] = step[q]
    BY DEF StoreInv, RunsInv
  <1>3. ASSUME NEW q \in Runs \ {r} PROVE RunMade(q)' <=> RunMade(q)
    BY <1>1 DEF RunMade
  <1>4. \A q \in Runs \ {r} : step'[q] = "listed" => Listing(listing'[q])
    BY <1>2 DEF StoreInv, RunsInv
  <1>5. \A q \in Runs : step'[q] = "listed" => Listing(listing'[q])
    BY <1>2, <1>4
  <1>6. \A q \in Runs : step'[q] = "listed" => Listing(listing[q])'
    BY <1>5 DEF Listing
  <1>7. \A q \in Runs : step'[q] = "stored" => RunMade(q)'
    <2>1. ASSUME NEW q \in Runs, step'[q] = "stored" PROVE RunMade(q)'
      <3>1. CASE q = r
        BY <1>2, <2>1, <3>1
      <3>2. CASE q # r
        BY <1>2, <1>3, <2>1, <3>2 DEF StoreInv, RunsInv
      <3> QED BY <3>1, <3>2
    <2> QED BY <2>1
  <1> QED BY <1>2, <1>6, <1>7 DEF RunsInv

LEMMA StoreList == ASSUME StoreInv, NEW r \in Runs, ListSlices(r) PROVE StoreInv'
  <1>1. /\ UNCHANGED <<cfg, slices, proc, pairLabels, store, published, result, mappings>> /\ proc = "serving"
        /\ step' = [step EXCEPT ![r] = "listed"] /\ listing' = [listing EXCEPT ![r] = slices]
    BY DEF ListSlices
  <1>2. DOMAIN listing = Runs /\ DOMAIN result = Runs /\ DOMAIN mappings = Runs /\ Listing(slices)
    BY DEF StoreInv, RunsInv
  <1>3. DOMAIN listing' = Runs /\ listing'[r] = slices /\ \A q \in Runs \ {r} : listing'[q] = listing[q]
    BY <1>1, <1>2
  <1>4. RunsInv'
    BY <1>1, <1>2, <1>3, RunsStep DEF StepSet
  <1>5. UNCHANGED <<Views, Listing(slices), StoreMade>>
    BY <1>1 DEF Views, Listing, StoreMade
  <1> QED BY <1>1, <1>4, <1>5 DEF StoreInv

LEMMA StoreReplace == ASSUME StoreInv, NEW r \in Runs, ReplaceStore(r) PROVE StoreInv'
  <1>1. /\ UNCHANGED <<cfg, slices, proc, pairLabels, published>> /\ step[r] = "listed"
        /\ step' = [step EXCEPT ![r] = "stored"] /\ listing' = [listing EXCEPT ![r] = Nothing]
        /\ mappings' = [mappings EXCEPT ![r] = store']
    BY DEF ReplaceStore
  <1>2. PICK v \in Inputs(listing[r]) :
          \E devices \in Outcomes(ComputePairs(cfg.compositions, v, pairLabels)) :
            result' = [result EXCEPT ![r] = devices] /\ store' \in Mappings(devices)
    BY DEF ReplaceStore
  <1>3. PICK devices \in Outcomes(ComputePairs(cfg.compositions, v, pairLabels)) :
          result' = [result EXCEPT ![r] = devices] /\ store' \in Mappings(devices)
    BY <1>2
  <1>4. /\ DOMAIN listing = Runs /\ DOMAIN result = Runs /\ DOMAIN mappings = Runs
        /\ Listing(listing[r]) /\ proc = "serving"
    BY <1>1 DEF StoreInv, RunsInv
  <1>5. v \in Views
    BY <1>4, InputsAreViews
  <1>6. UNCHANGED <<Views, Listing(slices)>>
    BY <1>1 DEF Views, Listing
  <1>7. StoreMade'
    BY <1>1, <1>3, <1>5, <1>6 DEF StoreMade
  <1>8. /\ DOMAIN listing' = Runs /\ DOMAIN result' = Runs /\ DOMAIN mappings' = Runs
        /\ result'[r] = devices /\ mappings'[r] = store'
        /\ \A q \in Runs \ {r} : /\ listing'[q] = listing[q]
                               /\ result'[q] = result[q] /\ mappings'[q] = mappings[q]
    BY <1>1, <1>3, <1>4
  <1>9. RunMade(r)'
    BY <1>1, <1>3, <1>5, <1>6, <1>8 DEF RunMade
  <1>10. RunsInv'
    BY <1>1, <1>4, <1>8, <1>9, RunsStep DEF StepSet
  <1> QED BY <1>1, <1>4, <1>6, <1>7, <1>10 DEF StoreInv

LEMMA StorePublish == ASSUME StoreInv, NEW r \in Runs, Publish(r) PROVE StoreInv'
  <1>1. /\ UNCHANGED <<cfg, slices, proc, pairLabels, store, listing>> /\ step[r] = "stored"
        /\ step' = [step EXCEPT ![r] = "idle"] /\ result' = [result EXCEPT ![r] = <<>>]
        /\ mappings' = [mappings EXCEPT ![r] = <<>>]
    BY DEF Publish
  <1>2. DOMAIN listing = Runs /\ DOMAIN result = Runs /\ DOMAIN mappings = Runs /\ proc = "serving"
    BY <1>1 DEF StoreInv, RunsInv
  <1>3. /\ DOMAIN listing' = Runs /\ DOMAIN result' = Runs /\ DOMAIN mappings' = Runs
        /\ \A q \in Runs \ {r} : /\ listing'[q] = listing[q]
                               /\ result'[q] = result[q] /\ mappings'[q] = mappings[q]
    BY <1>1, <1>2
  <1>4. RunsInv'
    BY <1>1, <1>2, <1>3, RunsStep DEF StepSet
  <1>5. UNCHANGED <<Views, Listing(slices), StoreMade>>
    BY <1>1 DEF Views, Listing, StoreMade
  <1> QED BY <1>1, <1>2, <1>4, <1>5 DEF StoreInv

LEMMA StoreInvariant == InvSpec => []StoreInv
  <1>1. InvInit => StoreInv
    BY InventoryAssumption DEF InvInit, StoreInv, RunsInv, StepSet, Listing
  <1>2. StoreInv /\ [InvNext]_invVars => StoreInv'
    <2> SUFFICES ASSUME StoreInv, [InvNext]_invVars PROVE StoreInv'
      OBVIOUS
    <2>1. CASE Start
      BY <2>1, StoreStart
    <2>2. ASSUME NEW r \in Runs, ListSlices(r) \/ ReplaceStore(r) \/ Publish(r) PROVE StoreInv'
      BY <2>2, StoreList, StoreReplace, StorePublish
    <2>3. ASSUME NEW s \in Slices, Change(s) PROVE StoreInv'
      BY <2>3, StoreChange
    <2>4. ASSUME NEW c \in Claims, Allocate(c) PROVE StoreInv'
      BY <2>4, StoreStays DEF Allocate
    <2>5. ASSUME NEW c \in Claims, Free(c) PROVE StoreInv'
      BY <2>5, StoreStays DEF Free
    <2>6. ASSUME NEW c \in Claims, Prepare(c) PROVE StoreInv'
      BY <2>6, StoreStays DEF Prepare
    <2>7. CASE UNCHANGED invVars
      BY <2>7, StoreStays
    <2> QED BY <2>1, <2>2, <2>3, <2>4, <2>5, <2>6, <2>7 DEF InvNext
  <1> QED BY <1>1, <1>2, PTL DEF InvSpec

----------------------------------------------------------------------------
(* What the store's devices are                                            *)

\* A stored device is made of a selection of its composition's.
LEMMA StoredDevice ==
  ASSUME StoreInv, NEW k \in DOMAIN store
  PROVE  /\ k = Key(store[k])
         /\ \E comp \in Compositions : \E c \in Combo(comp) :
              /\ comp = Composition(store[k].comp) /\ PairedComposition(comp) /\ ValidAuto(comp)
              /\ store[k].members = buildCompositeDevice(comp, c).members
              /\ store[k].name = joinedName(store[k].members)
              /\ store[k].numa \in Int
              /\ comp.mode # "explicit" =>
                   store[k].numa \in detectNUMANode(c) /\ (comp.constraints # <<>> => c \in Matching(comp))
  <1>1. store # <<>> /\ cfg \in Configs
    BY DEF StoreInv
  <1>2. Validate(cfg)
    BY <1>1, StoreShape
  <1>3. /\ k = Key(store[k])
        /\ \E comp \in Compositions : \E e : Genuine(comp, e) /\ Chosen(store[k], e)
    BY <1>1, StoreShape
  <1>4. PICK comp \in Compositions : \E e : Genuine(comp, e) /\ Chosen(store[k], e)
    BY <1>3
  <1>5. PICK e : Genuine(comp, e) /\ Chosen(store[k], e)
    BY <1>4
  <1>6. PICK c \in Combo(comp) :
          /\ e.members = buildCompositeDevice(comp, c).members
          /\ comp.mode # "explicit" =>
               e.numa = detectNUMANode(c) /\ (comp.constraints # <<>> => c \in Matching(comp))
    BY <1>5 DEF Genuine
  <1>7. /\ store[k].comp = comp.name /\ store[k].members = e.members
        /\ store[k].name = joinedName(store[k].members) /\ store[k].numa \in e.numa /\ e.numa \subseteq Int
    BY <1>5 DEF Genuine, Chosen
  <1>8. Composition(comp.name) = comp /\ PairedComposition(comp) /\ ValidAuto(comp)
    BY <1>1, <1>2, ValidComposition
  <1> QED BY <1>3, <1>6, <1>7, <1>8

LEMMA StoredMembers ==
  ASSUME NEW comp, PairedComposition(comp), NEW c \in Combo(comp), NEW d,
         d.members = buildCompositeDevice(comp, c).members
  PROVE  /\ d.members \in Seq([source : MemberSources(comp), dev : Dev])
         /\ Devs(d) = UNION {Range(c[s]) : s \in MemberSources(comp)} /\ Devs(d) \subseteq Dev
         /\ \A i \in DOMAIN d.members : d.members[i].source \in MemberSources(comp)
  <1> DEFINE M == [source : MemberSources(comp), dev : Dev]
             b == buildCompositeDevice(comp, c)
  <1>1. comp.members \in Seq(Range(comp.members))
    BY DEF PairedComposition, TypedComposition
  <1>2. b.members \in Seq(M) /\ DevsOf(b) = UNION {Range(c[s]) : s \in MemberSources(comp)}
    BY <1>1, BuiltShape
  <1> HIDE DEF b
  <1>3. Devs(d) = DevsOf(b)
    BY DEF Devs, DevsOf, b
  <1>4. \A x \in M : x.source \in MemberSources(comp) /\ x.dev \in Dev
    OBVIOUS
  <1>5. d.members \in Seq(M)
    BY <1>2 DEF b
  <1> HIDE DEF M
  <1>6. \A i \in DOMAIN d.members : d.members[i] \in M
    BY <1>5
  <1>7. Devs(d) \subseteq Dev /\ \A i \in DOMAIN d.members : d.members[i].source \in MemberSources(comp)
    BY <1>4, <1>6 DEF Devs
  <1> QED BY <1>2, <1>3, <1>5, <1>7 DEF M

\* The devices of a selection by attribute agree on it.
LEMMA MatchingAgree ==
  ASSUME NEW comp, PairedComposition(comp), NEW c \in Matching(comp), NEW d,
         d.members = buildCompositeDevice(comp, c).members
  PROVE  Agree(Devs(d), comp.constraints[1].attribute)
  <1> DEFINE a == comp.constraints[1].attribute
  <1>1. c \in Combo(comp)
    BY DEF Matching
  <1>2. PICK val : \A s \in MemberSources(comp) : Range(c[s]) \subseteq Sharing(a, val)
    BY DEF Matching
  <1>3. Devs(d) = UNION {Range(c[s]) : s \in MemberSources(comp)}
    BY <1>1, StoredMembers
  <1>4. Devs(d) \subseteq Sharing(a, val)
    BY <1>2, <1>3
  <1> QED BY <1>4 DEF Agree, Sharing

LEMMA Singleton ==
  ASSUME NEW S, Cardinality(S) = 1, IsFiniteSet(S), NEW x \in S, NEW y \in S
  PROVE  x = y
  <1>1. PICK z : S = {z}
    BY FS_Singleton
  <1> QED BY <1>1

\* The sources of a composition are finitely many.
LEMMA SourcesFinite ==
  ASSUME NEW comp, PairedComposition(comp)
  PROVE  IsFiniteSet(MemberSources(comp))
  <1> DEFINE n == Len(comp.members)
             f == [j \in 1 .. n |-> comp.members[j].source]
  <1>1. n \in Nat /\ DOMAIN comp.members = 1 .. n
    BY DEF PairedComposition, TypedComposition
  <1>2. f \in [1 .. n -> MemberSources(comp)] /\ \A t \in MemberSources(comp) : \E j \in 1 .. n : f[j] = t
    BY <1>1 DEF MemberSources
  <1>3. IsFiniteSet(1 .. n)
    BY <1>1, FS_Interval
  <1> HIDE DEF f
  <1> QED BY <1>2, <1>3, FiniteImage

LEMMA RelatedInStore == ASSUME StoreInv PROVE MultiSourceRelated
  <1> SUFFICES ASSUME NEW k \in DOMAIN store, Composition(store[k].comp).mode # "explicit"
               PROVE  \/ \A i, j \in DOMAIN store[k].members : store[k].members[i].source = store[k].members[j].source
                      \/ \E a \in UNION {DOMAIN Attr[e] : e \in Devs(store[k])} : Agree(Devs(store[k]), a)
    BY DEF MultiSourceRelated
  <1> DEFINE d == store[k]
  <1>1. PICK comp \in Compositions : \E c \in Combo(comp) :
          /\ comp = Composition(d.comp) /\ PairedComposition(comp) /\ ValidAuto(comp)
          /\ d.members = buildCompositeDevice(comp, c).members
          /\ comp.mode # "explicit" => (comp.constraints # <<>> => c \in Matching(comp))
    BY StoredDevice
  <1>2. PICK c \in Combo(comp) :
          /\ comp = Composition(d.comp) /\ PairedComposition(comp) /\ ValidAuto(comp)
          /\ d.members = buildCompositeDevice(comp, c).members
          /\ comp.mode # "explicit" => (comp.constraints # <<>> => c \in Matching(comp))
    BY <1>1
  <1> HIDE DEF d
  <1>3. \A i \in DOMAIN d.members : d.members[i].source \in MemberSources(comp)
    BY <1>2, StoredMembers
  <1>4. comp.mode # "explicit"
    BY <1>2 DEF d
  <1>5. CASE comp.constraints = <<>>
    <2>1. Cardinality(MemberSources(comp)) = 1
      BY <1>2, <1>4, <1>5 DEF ValidAuto
    <2>2. IsFiniteSet(MemberSources(comp))
      BY <1>2, SourcesFinite
    <2>3. \A i, j \in DOMAIN d.members : d.members[i].source = d.members[j].source
      BY <1>3, <2>1, <2>2, Singleton
    <2> QED BY <2>3 DEF d
  <1>6. CASE comp.constraints # <<>>
    <2> DEFINE a == comp.constraints[1].attribute
    <2>1. Agree(Devs(d), a)
      BY <1>2, <1>4, <1>6, MatchingAgree
    <2> HIDE DEF a
    <2>2. CASE Devs(d) = {}
      <3>1. DOMAIN d.members = {}
        BY <2>2 DEF Devs
      <3> QED BY <3>1 DEF d
    <2>3. CASE Devs(d) # {}
      <3>1. PICK e \in Devs(d) : TRUE
        BY <2>3
      <3>2. a \in DOMAIN Attr[e]
        BY <2>1 DEF Agree, HasText
      <3> QED BY <2>1, <3>2 DEF d
    <2> QED BY <2>2, <2>3
  <1> QED BY <1>5, <1>6

LEMMA NumaInStore == ASSUME StoreInv PROVE NumaOfMembers
  <1>1. ASSUME NEW k \in DOMAIN store, Composition(store[k].comp).mode # "explicit"
        PROVE  LET d == store[k]
                   comp == Composition(d.comp)
                   numas == numaNodes(Devs(d))
               IN /\ d.numa \in IF numas = {} THEN {-1} ELSE numas
                  /\ (comp.constraints # <<>>
                        /\ \A e \in Devs(d) : numaKeys(e) \subseteq {comp.constraints[1].attribute})
                       => numas \subseteq {d.numa}
    <2> DEFINE d == store[k]
               D == Devs(d)
    <2>1. PICK comp \in Compositions : \E c \in Combo(comp) :
            /\ comp = Composition(d.comp) /\ PairedComposition(comp)
            /\ d.members = buildCompositeDevice(comp, c).members
            /\ comp.mode # "explicit" =>
                 d.numa \in detectNUMANode(c) /\ (comp.constraints # <<>> => c \in Matching(comp))
      BY StoredDevice
    <2>2. PICK c \in Combo(comp) :
            /\ comp = Composition(d.comp) /\ PairedComposition(comp)
            /\ d.members = buildCompositeDevice(comp, c).members
            /\ comp.mode # "explicit" =>
                 d.numa \in detectNUMANode(c) /\ (comp.constraints # <<>> => c \in Matching(comp))
      BY <2>1
    <2>3. comp.mode # "explicit"
      BY <1>1, <2>2
    <2> HIDE DEF d
    <2>4. D = UNION {Range(c[s]) : s \in MemberSources(comp)} /\ D \subseteq Dev
      BY <2>2, StoredMembers
    <2>5. detectNUMANode(c) = IF numaNodes(D) = {} THEN {-1} ELSE numaNodes(D)
      <3>1. DOMAIN c = MemberSources(comp)
        BY DEF Combo
      <3> QED BY <2>4, <3>1 DEF detectNUMANode
    <2> HIDE DEF D
    <2>6. d.numa \in IF numaNodes(D) = {} THEN {-1} ELSE numaNodes(D)
      BY <2>2, <2>3, <2>5
    <2>7. ASSUME comp.constraints # <<>>, \A e \in D : numaKeys(e) \subseteq {comp.constraints[1].attribute}
          PROVE  numaNodes(D) \subseteq {d.numa}
      <3> DEFINE a == comp.constraints[1].attribute
                 nums(e) == {Attr[e][b].num : b \in numaKeys(e)}
      <3>1. Agree(D, a)
        BY <2>2, <2>3, <2>7, MatchingAgree DEF D
      <3>2. ASSUME NEW e \in D, NEW f \in D, NEW x \in nums(e), NEW y \in nums(f) PROVE x = y
        <4>1. a \in numaKeys(e) /\ x = Attr[e][a].num /\ a \in numaKeys(f) /\ y = Attr[f][a].num
          BY <2>7
        <4>2. Attr[e][a].text = Attr[f][a].text
          BY <3>1 DEF Agree, TextOf
        <4>3. e \in Dev /\ f \in Dev
          BY <2>4
        <4> HIDE DEF a
        <4> QED BY <4>1, <4>2, <4>3, PairerAssumption
      <3>3. numaNodes(D) = UNION {nums(e) : e \in D}
        BY DEF numaNodes
      <3> HIDE DEF nums
      <3>4. ASSUME NEW x \in numaNodes(D) PROVE x = d.numa
        <4>1. d.numa \in numaNodes(D)
          BY <2>6, <3>4
        <4> QED BY <3>2, <3>3, <3>4, <4>1
      <3> QED BY <3>4
    <2> QED BY <2>2, <2>6, <2>7 DEF d, D
  <1> QED BY <1>1 DEF NumaOfMembers

LEMMA ExclusiveInStore == ASSUME StoreInv PROVE ExplicitExclusive
  <1> SUFFICES ASSUME NEW comp \in Compositions, comp.mode = "explicit",
                      NEW k \in KeysOf(comp), NEW l \in KeysOf(comp), k # l
               PROVE  Devs(store[k]) \cap Devs(store[l]) = {}
    BY DEF ExplicitExclusive
  <1>1. /\ k \in DOMAIN store /\ l \in DOMAIN store /\ store # <<>> /\ cfg \in Configs
        /\ store[k].comp = comp.name /\ store[l].comp = comp.name
    BY DEF KeysOf, StoreInv
  <1>2. Validate(cfg)
    BY <1>1, StoreShape
  <1>3. PICK v \in Views : \A x \in DOMAIN store :
          /\ x = Key(store[x])
          /\ \E other \in Compositions : \E e \in Range(computeForComposition(other, v, pairLabels)) :
               Genuine(other, e) /\ Chosen(store[x], e)
    BY <1>1, StoreShape
  <1> DEFINE r == computeForComposition(comp, v, pairLabels)
             devices == filtered(comp, v)
  <1>4. ASSUME NEW x \in DOMAIN store, store[x].comp = comp.name
        PROVE  \E e \in Range(r) : Chosen(store[x], e)
    <2>1. PICK other \in Compositions : \E e \in Range(computeForComposition(other, v, pairLabels)) :
               Genuine(other, e) /\ Chosen(store[x], e)
      BY <1>3
    <2>2. other.name = comp.name
      BY <1>4, <2>1 DEF Genuine, Chosen
    <2>3. Composition(other.name) = other /\ Composition(comp.name) = comp
      BY <1>1, <1>2, ValidComposition
    <2>4. other = comp
      BY <2>2, <2>3
    <2> QED BY <2>1, <2>4
  <1>5. PICK e \in Range(r) : Chosen(store[k], e)
    BY <1>1, <1>4
  <1>6. PICK f \in Range(r) : Chosen(store[l], f)
    BY <1>1, <1>4
  <1>7. e # f
    BY <1>1, <1>3, <1>5, <1>6 DEF Chosen, Key
  <1>8. r = pairWithExplicit(comp, devices, pairLabels)
    BY DEF computeForComposition
  <1>9. PairedComposition(comp) /\ MemberSources(comp) \subseteq SourceNames(cfg)
    BY <1>1, <1>2, ValidComposition
  <1>10. \A s \in MemberSources(comp) : devices[s] \in Seq(Dev) /\ Range(devices[s]) \subseteq Range(v[s])
    <2>1. \A s \in MemberSources(comp) : v[s] \in Seq(Dev)
      BY <1>1, <1>2, ViewTyped
    <2> QED BY <2>1, FilteredType
  <1>11. \A s, t \in MemberSources(comp) : s # t => Range(v[s]) \cap Range(v[t]) = {}
    BY <1>9 DEF Views
  <1> HIDE DEF r, devices
  <1>12. \A s, t \in MemberSources(comp) : s # t => Range(devices[s]) \cap Range(devices[t]) = {}
    BY <1>10, <1>11
  <1>13. DevsOf(e) \cap DevsOf(f) = {}
    <2>1. ExplicitComposition(comp)
      BY <1>9 DEF ExplicitComposition, PairedComposition
    <2>2. /\ e \in Range(pairWithExplicit(comp, devices, pairLabels))
          /\ f \in Range(pairWithExplicit(comp, devices, pairLabels))
      BY <1>5, <1>6, <1>8
    <2>3. \A s \in MemberSources(comp) : devices[s] \in Seq(Dev)
      BY <1>10
    <2> QED BY ONLY <1>7, <1>12, <2>1, <2>2, <2>3, ExplicitDisjoint
  <1> QED BY <1>5, <1>6, <1>13 DEF Chosen, Devs, DevsOf

\* Devices over several sources are never combined without a rule: Validate
\* and the choice of the pairing function agree, for every configuration and
\* every content of the slices (ValidAuto, computeForComposition,
\* pairWithMatchAttribute, chooseCombinations).
THEOREM SourcesAreRelated == InvSpec => []MultiSourceRelated
  BY StoreInvariant, RelatedInStore, PTL

\* The NUMA node of a composite device is one that an attribute of a member
\* gives, whatever order the maps are iterated in and however many such
\* attributes a device has; and the only one when the members were matched
\* on the only such attribute they have (detectNUMANode).
THEOREM NumaIsOfMembers == InvSpec => []NumaOfMembers
  BY StoreInvariant, NumaInStore, PTL

\* Explicit pairs never share an underlying device, whatever their selectors
\* match and however often a source is listed (pairWithExplicit).
THEOREM ExplicitPairsAreExclusive == InvSpec => []ExplicitExclusive
  BY StoreInvariant, ExclusiveInStore, PTL

----------------------------------------------------------------------------
(* Types                                                                   *)

\* The rest of the type invariant.
RestInv ==
  /\ pairLabels \in {NodeLabels, <<>>} /\ paramLabels \in {NodeLabels, <<>>}
  /\ \A x \in Slices : seen[x] \in Contents[x] \cup {<<>>}
  /\ DOMAIN alloc = Claims /\ clean \in BOOLEAN
  /\ changes \in 0 .. MaxChanges /\ failures \in 0 .. MaxFailures

LEMMA RestInvariant == InvSpec => []RestInv
  <1>1. InvInit => RestInv
    BY InventoryAssumption DEF InvInit, RestInv, Nothing
  <1>2. StoreInv /\ RestInv /\ [InvNext]_invVars => RestInv'
    <2> SUFFICES ASSUME StoreInv, RestInv, [InvNext]_invVars PROVE RestInv'
      OBVIOUS
    <2>1. CASE Start
      <3>1. pairLabels' \in {NodeLabels, <<>>} /\ paramLabels' \in {NodeLabels, <<>>}
        BY <2>1 DEF Start, FetchNodeLabels, RestInv
      <3> QED BY <2>1, <3>1 DEF Start, RestInv
    <2>2. ASSUME NEW r \in Runs, ListSlices(r) \/ ReplaceStore(r) \/ Publish(r) PROVE RestInv'
      <3>1. CASE ListSlices(r)
        BY <3>1 DEF ListSlices, RestInv
      <3>2. CASE ReplaceStore(r)
        <4>1. seen' = listing[r] /\ Listing(listing[r])
          BY <3>2 DEF ReplaceStore, StoreInv, RunsInv
        <4>2. \A x \in Slices : seen'[x] \in Contents[x] \cup {<<>>}
          BY <4>1 DEF Listing
        <4> QED BY <3>2, <4>2 DEF ReplaceStore, RestInv
      <3>3. CASE Publish(r)
        <4>1. \/ failures' = failures /\ clean' = clean
              \/ failures < MaxFailures /\ failures' = failures + 1 /\ clean' = FALSE
          BY <3>3 DEF Publish
        <4>2. failures' \in 0 .. MaxFailures
          BY <4>1, InventoryAssumption DEF RestInv
        <4>3. clean' \in BOOLEAN
          BY <4>1, Zenon DEF RestInv
        <4> QED BY <3>3, <4>2, <4>3 DEF Publish, RestInv
      <3> QED BY <2>2, <3>1, <3>2, <3>3
    <2>3. ASSUME NEW s \in Slices, Change(s) PROVE RestInv'
      <3>1. changes' \in 0 .. MaxChanges
        BY <2>3, InventoryAssumption DEF Change, RestInv
      <3> QED BY <2>3, <3>1 DEF Change, RestInv
    <2>4. ASSUME NEW c \in Claims, Allocate(c) PROVE RestInv'
      BY <2>4 DEF Allocate, RestInv
    <2>5. ASSUME NEW c \in Claims, Free(c) PROVE RestInv'
      BY <2>5 DEF Free, RestInv
    <2>6. ASSUME NEW c \in Claims, Prepare(c) PROVE RestInv'
      BY <2>6 DEF Prepare, RestInv
    <2>7. CASE UNCHANGED invVars
      BY <2>7 DEF RestInv
    <2> QED BY <2>1, <2>2, <2>3, <2>4, <2>5, <2>6, <2>7 DEF InvNext
  <1> QED BY <1>1, <1>2, StoreInvariant, PTL DEF InvSpec

\* Type correctness of the inventory: the store's keys are its devices' own,
\* only a validated configuration is ever served, and a recompute works on
\* what the slices have listed.
THEOREM InventoryTypeCorrect == InvSpec => []InvTypeOK
  <1>1. ASSUME StoreInv, RestInv, WorkInv PROVE InvTypeOK
    <2>1. ASSUME NEW k \in DOMAIN store
          PROVE  k = Key(store[k]) /\ store[k].numa \in Int /\ Devs(store[k]) \subseteq Dev
      <3>1. PICK comp \in Compositions : \E c \in Combo(comp) :
              /\ PairedComposition(comp) /\ store[k].members = buildCompositeDevice(comp, c).members
              /\ store[k].numa \in Int
        BY <1>1, StoredDevice
      <3>2. Devs(store[k]) \subseteq Dev
        BY <3>1, StoredMembers
      <3> QED BY <1>1, <3>1, <3>2, StoredDevice
    <2>2. /\ \A x \in Slices : slices[x] \in Contents[x]
          /\ \A r \in Runs : step[r] = "listed" => \A x \in Slices : listing[r][x] \in Contents[x]
          /\ step \in [Runs -> StepSet]
          /\ proc # "serving" => \A r \in Runs : step[r] = "idle"
      BY <1>1 DEF StoreInv, RunsInv, Listing
    <2> QED BY <1>1, <2>1, <2>2 DEF StoreInv, RestInv, WorkInv, InvTypeOK
  <1>2. StoreInv /\ RestInv /\ WorkInv => InvTypeOK
    BY <1>1
  <1> QED BY <1>2, StoreInvariant, RestInvariant, WorkInvariant, PTL

----------------------------------------------------------------------------
(* Batches                                                                 *)

LEMMA DivBounds ==
  ASSUME NEW a \in Nat, NEW m \in Nat \ {0}
  PROVE  /\ a \div m \in Nat
         /\ (a \div m) * m <= a /\ a < (a \div m) * m + m
  OBVIOUS

LEMMA TimesLess ==
  ASSUME NEW x \in Int, NEW y \in Int, NEW m \in Nat \ {0}
  PROVE  /\ x <= y => x * m <= y * m
         /\ x * m < y * m => x < y
         /\ (x + 1) * m = x * m + m
  OBVIOUS

\* The batches hold what they were made from, and each is one slice.
LEMMA Batches ==
  ASSUME NEW A, NEW names \in Seq(A)
  PROVE  /\ buildSlices(names) \in Seq(Seq(A))
         /\ Range(FlattenSeq(buildSlices(names))) = Range(names)
         /\ \A b \in DOMAIN buildSlices(names) : Len(buildSlices(names)[b]) \in 1 .. MaxPerSlice
         /\ Distinct(names) => Distinct(FlattenSeq(buildSlices(names)))
  <1> DEFINE m == MaxPerSlice
             L == Len(names)
             nb == (L + m - 1) \div m
             from(b) == (b - 1) * m + 1
             to(b) == Min({b * m, L})
             ss == buildSlices(names)
  <1>1. m \in Nat \ {0} /\ L \in Nat /\ L + m - 1 \in Nat /\ DOMAIN names = 1 .. L
    BY InventoryAssumption
  <1>2. ss = [b \in 1 .. nb |-> SubSeq(names, from(b), to(b))]
    BY DEF buildSlices
  <1> HIDE DEF m, L, ss
  <1>3. nb \in Nat /\ nb * m <= L + m - 1 /\ L + m - 1 < nb * m + m
    BY <1>1, DivBounds
  <1> HIDE DEF nb
  <1>4. nb * m = (nb - 1) * m + m
    BY <1>1, <1>3, TimesLess
  <1>5. ASSUME NEW b \in 1 .. nb
        PROVE  /\ from(b) \in 1 .. L /\ to(b) \in 1 .. L /\ from(b) <= to(b) /\ to(b) - from(b) + 1 <= m
               /\ b * m = from(b) + m - 1 /\ (to(b) = b * m \/ to(b) = L) /\ to(b) <= b * m
    <2>1. b \in Int /\ b - 1 \in Int /\ nb - 1 \in Int /\ b - 1 <= nb - 1 /\ 0 <= b - 1
      BY <1>3
    <2>2. (b - 1) * m <= (nb - 1) * m /\ 0 * m <= (b - 1) * m /\ (b - 1 + 1) * m = (b - 1) * m + m
      BY <1>1, <2>1, TimesLess
    <2>3. (b - 1) * m \in Int /\ 0 * m = 0 /\ b - 1 + 1 = b /\ (nb - 1) * m \in Int
      BY <1>1, <2>1
    <2> DEFINE p == (b - 1) * m
               q == (nb - 1) * m
               e == b * m
    <2>4. p \in Int /\ q \in Int /\ p <= q /\ 0 <= p /\ e = p + m /\ q + m <= L + m - 1 /\ e \in Int
      BY <1>1, <1>3, <1>4, <2>2, <2>3
    <2> HIDE DEF p, q, e
    <2>5. to(b) = IF e <= L THEN e ELSE L
      <3> DEFINE S == {e, L}
      <3>1. to(b) = Min(S) /\ S \subseteq Int
        BY <1>1, <2>4 DEF e
      <3>2. CASE e <= L
        <4>1. e \in S /\ \A l \in S : e <= l
          BY <1>1, <2>4, <3>2
        <4> HIDE DEF S
        <4> QED BY <3>1, <3>2, <4>1, MinIs
      <3>3. CASE ~(e <= L)
        <4>1. L \in S /\ \A l \in S : L <= l
          BY <1>1, <2>4, <3>3
        <4> HIDE DEF S
        <4> QED BY <3>1, <3>3, <4>1, MinIs
      <3> QED BY <3>2, <3>3
    <2>6. from(b) = p + 1
      BY DEF p
    <2> HIDE DEF from, to
    <2>7. /\ from(b) \in 1 .. L /\ to(b) \in 1 .. L /\ from(b) <= to(b) /\ to(b) - from(b) + 1 <= m
          /\ e = from(b) + m - 1 /\ (to(b) = e \/ to(b) = L) /\ to(b) <= e
      BY <1>1, <2>4, <2>5, <2>6
    <2> QED BY <2>7 DEF e
  <1>6. ASSUME NEW i \in 1 .. L
        PROVE  \E b \in 1 .. nb : from(b) <= i /\ i <= to(b)
    <2> DEFINE d == (i - 1) \div m
    <2>1. i - 1 \in Nat
      BY <1>1
    <2>2. d \in Nat /\ d * m <= i - 1 /\ i - 1 < d * m + m
      BY <1>1, <2>1, DivBounds
    <2> HIDE DEF d
    <2>3. d * m < nb * m
      BY <1>1, <1>3, <2>2
    <2>4. d < nb
      BY <1>1, <1>3, <2>2, <2>3, TimesLess
    <2>5. d + 1 \in 1 .. nb
      BY <1>3, <2>2, <2>4
    <2>6. from(d + 1) = d * m + 1
      BY <2>2
    <2>7. /\ (d + 1) * m = from(d + 1) + m - 1 /\ (to(d + 1) = (d + 1) * m \/ to(d + 1) = L)
          /\ to(d + 1) \in 1 .. L /\ from(d + 1) \in 1 .. L
      BY <1>5, <2>5
    <2> HIDE DEF from, to
    <2>8. d * m \in Int
      BY <1>1, <2>2
    <2>9. from(d + 1) <= i /\ i <= to(d + 1)
      BY <1>1, <2>2, <2>6, <2>7, <2>8
    <2> QED BY <2>5, <2>9
  <1> HIDE DEF from, to
  <1>7. ASSUME NEW b \in 1 .. nb
        PROVE  /\ ss[b] \in Seq(A) /\ Len(ss[b]) = to(b) - from(b) + 1 /\ Len(ss[b]) \in 1 .. m
               /\ \A i \in 1 .. Len(ss[b]) : ss[b][i] = names[from(b) + i - 1]
    <2>1. ss[b] = SubSeq(names, from(b), to(b))
      BY <1>2
    <2>2. from(b) \in 1 .. L /\ to(b) \in 1 .. L /\ from(b) <= to(b) /\ to(b) - from(b) + 1 <= m
      BY <1>5
    <2>3. \A i \in from(b) .. to(b) : names[i] \in A
      BY <1>1, <2>2
    <2>4. /\ SubSeq(names, from(b), to(b)) \in Seq(A)
          /\ Len(SubSeq(names, from(b), to(b))) = IF from(b) <= to(b) THEN to(b) - from(b) + 1 ELSE 0
          /\ \A i \in 1 .. to(b) - from(b) + 1 : SubSeq(names, from(b), to(b))[i] = names[from(b) + i - 1]
      BY <2>2, <2>3, SubSeqProperties
    <2> QED BY <1>1, <2>1, <2>2, <2>4
  <1>8. ss \in Seq(Seq(A)) /\ DOMAIN ss = 1 .. nb
    BY <1>2, <1>3, <1>7
  <1>9. Range(FlattenSeq(ss)) = UNION {Range(ss[b]) : b \in 1 .. nb}
    BY <1>8, FlattenRange
  <1>10. ASSUME NEW x PROVE (x \in Range(names)) <=> (\E b \in 1 .. nb : x \in Range(ss[b]))
    <2>1. ASSUME x \in Range(names) PROVE \E b \in 1 .. nb : x \in Range(ss[b])
      <3>1. PICK i \in 1 .. L : x = names[i]
        BY <1>1, <2>1 DEF Range
      <3>2. PICK b \in 1 .. nb : from(b) <= i /\ i <= to(b)
        BY <1>6
      <3> DEFINE t == ss[b]
                 k == i - from(b) + 1
      <3>3. from(b) \in 1 .. L /\ to(b) \in 1 .. L
        BY <1>5
      <3>4. t \in Seq(A) /\ Len(t) = to(b) - from(b) + 1 /\ \A h \in 1 .. Len(t) : t[h] = names[from(b) + h - 1]
        BY <1>7
      <3> HIDE DEF t
      <3>5. k \in 1 .. Len(t) /\ from(b) + k - 1 = i /\ DOMAIN t = 1 .. Len(t)
        BY <1>1, <3>2, <3>3, <3>4
      <3> HIDE DEF k
      <3>6. t[k] = x
        BY <3>1, <3>4, <3>5
      <3>7. x \in Range(t)
        BY <3>5, <3>6 DEF Range
      <3> QED BY <3>7 DEF t
    <2>2. ASSUME NEW b \in 1 .. nb, x \in Range(ss[b]) PROVE x \in Range(names)
      <3> DEFINE t == ss[b]
      <3>1. from(b) \in 1 .. L /\ to(b) \in 1 .. L
        BY <1>5
      <3>2. t \in Seq(A) /\ Len(t) = to(b) - from(b) + 1 /\ \A h \in 1 .. Len(t) : t[h] = names[from(b) + h - 1]
        BY <1>7
      <3>3. x \in Range(t)
        BY <2>2
      <3> HIDE DEF t
      <3>4. PICK h \in 1 .. Len(t) : x = t[h]
        BY <3>2, <3>3 DEF Range
      <3>5. from(b) + h - 1 \in 1 .. L /\ x = names[from(b) + h - 1]
        BY <1>1, <3>1, <3>2, <3>4
      <3> QED BY <1>1, <3>5 DEF Range
    <2> QED BY <2>1, <2>2
  <1>11. Range(FlattenSeq(ss)) = Range(names)
    BY <1>9, <1>10
  <1>12. \A b \in DOMAIN ss : Len(ss[b]) \in 1 .. m
    BY <1>7, <1>8
  <1>13. ASSUME Distinct(names) PROVE Distinct(FlattenSeq(ss))
    <2>1. \A i, j \in 1 .. L : names[i] = names[j] => i = j
      BY <1>1, <1>13 DEF Distinct, IsInjective
    <2>2. ASSUME NEW b \in 1 .. nb
          PROVE  /\ Len(ss[b]) \in Nat /\ DOMAIN ss[b] = 1 .. Len(ss[b]) /\ from(b) \in Nat /\ b * m \in Int
                 /\ \A i \in 1 .. Len(ss[b]) : /\ from(b) + i - 1 \in 1 .. L /\ from(b) + i - 1 <= b * m
                                               /\ ss[b][i] = names[from(b) + i - 1]
      <3> DEFINE t == ss[b]
                 e == b * m
      <3>1. from(b) \in 1 .. L /\ to(b) \in 1 .. L /\ e = from(b) + m - 1 /\ to(b) <= e
        BY <1>5
      <3>2. t \in Seq(A) /\ Len(t) = to(b) - from(b) + 1 /\ \A h \in 1 .. Len(t) : t[h] = names[from(b) + h - 1]
        BY <1>7
      <3> HIDE DEF t, e
      <3>3. /\ Len(t) \in Nat /\ DOMAIN t = 1 .. Len(t) /\ from(b) \in Nat /\ e \in Int
            /\ \A i \in 1 .. Len(t) : from(b) + i - 1 \in 1 .. L /\ from(b) + i - 1 <= e
        <4> DEFINE x == from(b)
                   y == to(b)
                   z == Len(t)
        <4>1. t \in Seq(A) /\ z = y - x + 1 /\ x \in 1 .. L /\ y \in 1 .. L /\ e = x + m - 1 /\ y <= e
          BY <3>1, <3>2
        <4>2. z \in Nat /\ DOMAIN t = 1 .. z
          BY <4>1
        <4> HIDE DEF x, y, z
        <4>3. L \in Nat /\ m \in Nat
          BY <1>1
        <4>4. x \in Nat /\ e \in Int /\ \A i \in 1 .. z : x + i - 1 \in 1 .. L /\ x + i - 1 <= e
          BY ONLY <4>1, <4>2, <4>3
        <4> QED BY <4>2, <4>4 DEF x, z
      <3> QED BY <3>2, <3>3 DEF t, e
    <2>3. ASSUME NEW b \in 1 .. nb PROVE Distinct(ss[b])
      <3> DEFINE t == ss[b]
      <3>1. ASSUME NEW i \in DOMAIN t, NEW j \in DOMAIN t, t[i] = t[j] PROVE i = j
        <4>1. i \in 1 .. Len(t) /\ j \in 1 .. Len(t) /\ Len(t) \in Nat /\ from(b) \in Nat
          BY <2>2
        <4>2. from(b) + i - 1 = from(b) + j - 1
          <5> DEFINE p == from(b) + i - 1
                     r == from(b) + j - 1
          <5>1. p \in 1 .. L /\ r \in 1 .. L /\ t[i] = names[p] /\ t[j] = names[r]
            BY <2>2, <4>1
          <5> HIDE DEF p, r, t
          <5>2. p = r
            BY <2>1, <3>1, <5>1
          <5> QED BY <5>2 DEF p, r
        <4> HIDE DEF t
        <4> QED BY <4>1, <4>2
      <3> HIDE DEF t
      <3>2. Distinct(t)
        BY <3>1 DEF Distinct, IsInjective
      <3> QED BY <3>2 DEF t
    <2>4. ASSUME NEW b \in 1 .. nb, NEW c \in 1 .. nb, b < c, NEW x \in Range(ss[b]), x \in Range(ss[c])
          PROVE  FALSE
      <3>1. PICK i \in 1 .. Len(ss[b]) : x = ss[b][i]
        BY <2>2 DEF Range
      <3>2. PICK j \in 1 .. Len(ss[c]) : x = ss[c][j]
        BY <2>2, <2>4 DEF Range
      <3> DEFINE p == from(b) + i - 1
                 r == from(c) + j - 1
      <3>3. p \in 1 .. L /\ r \in 1 .. L /\ p <= b * m /\ x = names[p] /\ x = names[r]
        BY <2>2, <3>1, <3>2
      <3>4. p = r
        <4> HIDE DEF p, r
        <4> QED BY <2>1, <3>3
      <3>5. from(c) <= r
        BY <2>2, <3>2
      <3>6. from(c) > b * m
        <4>1. b \in Int /\ c - 1 \in Int /\ b <= c - 1
          BY <1>3, <2>4
        <4>2. b * m <= (c - 1) * m /\ (c - 1) * m \in Int /\ b * m \in Int
          BY <1>1, <4>1, TimesLess
        <4>3. from(c) = (c - 1) * m + 1
          BY DEF from
        <4> QED BY <4>2, <4>3
      <3>7. b * m \in Int /\ from(c) \in Int
        BY <2>2
      <3> HIDE DEF p, r
      <3> QED BY <1>1, <3>3, <3>4, <3>5, <3>6, <3>7
    <2>5. ASSUME NEW b \in DOMAIN ss, NEW c \in DOMAIN ss, b # c PROVE Range(ss[b]) \cap Range(ss[c]) = {}
      <3>1. b \in 1 .. nb /\ c \in 1 .. nb /\ (b < c \/ c < b)
        BY <1>3, <1>8, <2>5
      <3> QED BY <2>4, <3>1
    <2> QED BY <1>8, <2>3, <2>5, FlattenApart
  <1> QED BY <1>8, <1>11, <1>12, <1>13 DEF ss, m

\* The keys that pools offer.
KeysIn(ps) == UNION {{<<c, n>> : n \in Range(FlattenSeq(ps[c]))} : c \in DOMAIN ps}

LEMMA PoolsOfDevices ==
  ASSUME NEW devices, devices \in Seq(Range(devices))
  PROVE  /\ KeysIn(Pools(devices)) = {Key(d) : d \in Range(devices)}
         /\ \A c \in DOMAIN Pools(devices) : \A b \in DOMAIN Pools(devices)[c] :
              Len(Pools(devices)[c][b]) \in 1 .. MaxPerSlice
  <1> DEFINE R == Range(devices)
             of(c) == {d \in R : d.comp = c}
             mine(c) == Keep(devices, of(c))
             names(c) == [i \in DOMAIN mine(c) |-> mine(c)[i].name]
             ps == Pools(devices)
             N == {d.name : d \in R}
  <1>1. ps = [c \in {devices[i].comp : i \in DOMAIN devices} |-> buildSlices(names(c))]
    BY DEF Pools
  <1>2. \A c : c \in {devices[i].comp : i \in DOMAIN devices} <=> of(c) # {}
    BY DEF Range
  <1> HIDE DEF ps
  <1>3. ASSUME NEW c
        PROVE  names(c) \in Seq(N) /\ Range(names(c)) = {d.name : d \in of(c)}
    <2> DEFINE x == mine(c)
    <2>1. x \in Seq(R) /\ Range(x) = R \cap of(c)
      <3> HIDE DEF of, R
      <3>1. devices \in Seq(R)
        BY DEF R
      <3>2. Keep(devices, of(c)) \in Seq(R) /\ Range(Keep(devices, of(c))) = Range(devices) \cap of(c)
        BY <3>1, KeepRange
      <3> QED BY <3>2 DEF R
    <2> HIDE DEF x
    <2>2. Range(x) = of(c) /\ Len(x) \in Nat /\ DOMAIN x = 1 .. Len(x) /\ \A i \in DOMAIN x : x[i] \in R
      <3>1. R \cap of(c) = of(c)
        OBVIOUS
      <3> HIDE DEF R, of
      <3> QED BY <2>1, <3>1
    <2> HIDE DEF of
    <2>3. \A i \in DOMAIN x : x[i].name \in N
      BY <2>2
    <2> DEFINE y == [i \in DOMAIN x |-> x[i].name]
    <2>4. y \in Seq(N)
      <3> HIDE DEF N
      <3> QED BY <2>2, <2>3
    <2>5. Range(y) = {x[i].name : i \in DOMAIN x}
      BY DEF Range
    <2>6. {x[i].name : i \in DOMAIN x} = {d.name : d \in Range(x)}
      BY DEF Range
    <2> QED BY <2>2, <2>4, <2>5, <2>6 DEF x
  <1> HIDE DEF names, N
  <1>4. ASSUME NEW c \in DOMAIN ps
        PROVE  /\ Range(FlattenSeq(ps[c])) = {d.name : d \in of(c)}
               /\ \A b \in DOMAIN ps[c] : Len(ps[c][b]) \in 1 .. MaxPerSlice
    <2>1. ps[c] = buildSlices(names(c))
      BY <1>1
    <2>2. names(c) \in Seq(N) /\ Range(names(c)) = {d.name : d \in of(c)}
      BY <1>3
    <2> HIDE DEF of
    <2> QED BY <2>1, <2>2, Batches
  <1>5. DOMAIN ps = {devices[i].comp : i \in DOMAIN devices}
    BY <1>1
  <1>6. ASSUME NEW k PROVE k \in KeysIn(ps) <=> k \in {Key(d) : d \in R}
    <2>1. ASSUME k \in KeysIn(ps) PROVE \E d \in R : k = Key(d)
      <3>1. PICK c \in DOMAIN ps : k \in {<<c, n>> : n \in Range(FlattenSeq(ps[c]))}
        BY <2>1 DEF KeysIn
      <3>2. PICK n \in Range(FlattenSeq(ps[c])) : k = <<c, n>>
        BY <3>1
      <3>3. PICK d \in of(c) : n = d.name
        BY <1>4, <3>2
      <3> QED BY <3>2, <3>3 DEF Key
    <2>2. ASSUME NEW d \in R, k = Key(d) PROVE k \in KeysIn(ps)
      <3> DEFINE c == d.comp
      <3>1. d \in of(c) /\ k = <<c, d.name>>
        BY <2>2 DEF Key
      <3>2. c \in DOMAIN ps
        BY <1>2, <1>5, <3>1
      <3>3. d.name \in Range(FlattenSeq(ps[c]))
        <4>1. d.name \in {e.name : e \in of(c)}
          BY <3>1
        <4> QED BY <1>4, <3>2, <4>1
      <3> HIDE DEF c
      <3>4. k \in {<<c, n>> : n \in Range(FlattenSeq(ps[c]))}
        BY <3>1, <3>3
      <3> QED BY <3>2, <3>4 DEF KeysIn
    <2> QED BY <2>1, <2>2
  <1>7. KeysIn(ps) = {Key(d) : d \in R}
    BY <1>6
  <1> QED BY <1>4, <1>7 DEF ps

LEMMA RecomputedDevices ==
  ASSUME cfg \in Configs, Validate(cfg), NEW v \in Views,
         NEW devices \in Outcomes(ComputePairs(cfg.compositions, v, pairLabels))
  PROVE  devices \in Seq(Range(devices))
  <1> DEFINE q == ComputePairs(cfg.compositions, v, pairLabels)
  <1>1. /\ q \in Seq(Range(q))
        /\ \A i \in DOMAIN q : \E comp \in Compositions : Genuine(comp, q[i])
    BY PairsOfCompositions
  <1> HIDE DEF q
  <1>2. \A i \in DOMAIN q : q[i].numa # {} /\ "numa" \in DOMAIN q[i]
    BY <1>1 DEF Genuine
  <1>3. devices = [i \in DOMAIN q |-> devices[i]]
    BY <1>2, OutcomesOf DEF q
  <1>4. Len(q) \in Nat /\ DOMAIN q = 1 .. Len(q)
    BY <1>1
  <1> HIDE DEF q
  <1>5. \A i \in 1 .. Len(q) : devices[i] \in Range(devices)
    BY <1>3, <1>4 DEF Range
  <1>6. [i \in 1 .. Len(q) |-> devices[i]] \in Seq(Range(devices))
    BY <1>4, <1>5, IsASeq
  <1> QED BY <1>3, <1>4, <1>6

\* While the last recompute that began is the only one, its mappings are the
\* store, and then the offer.
AloneInv ==
  clean =>
    /\ \A r, q \in Runs : step[r] # "idle" /\ step[q] # "idle" => q = r
    /\ \A r \in Runs : step[r] = "stored" => mappings[r] = store
    /\ (\A r \in Runs : step[r] = "idle") => offer = store

LEMMA AloneStep ==
  ASSUME StoreInv, AloneInv, [InvNext]_invVars
  PROVE  AloneInv'
  <1>1. step \in [Runs -> StepSet] /\ DOMAIN mappings = Runs
    BY DEF StoreInv, RunsInv
  <1>2. ASSUME NEW r \in Runs, ListSlices(r) PROVE AloneInv'
    <2>1. clean' = (\A q \in Runs : step[q] = "idle") /\ step' = [step EXCEPT ![r] = "listed"]
      BY <1>2 DEF ListSlices
    <2>2. clean' => \A q \in Runs : step'[q] = IF q = r THEN "listed" ELSE "idle"
      BY <1>1, <2>1
    <2> QED BY <2>2 DEF AloneInv
  <1>3. ASSUME NEW r \in Runs, ReplaceStore(r) PROVE AloneInv'
    <2>1. /\ step[r] = "listed" /\ step' = [step EXCEPT ![r] = "stored"] /\ clean' = clean
          /\ mappings' = [mappings EXCEPT ![r] = store']
      BY <1>3 DEF ReplaceStore
    <2>2. clean' => \A q \in Runs : step'[q] = IF q = r THEN "stored" ELSE "idle"
      BY <1>1, <2>1 DEF AloneInv
    <2>3. mappings'[r] = store'
      BY <1>1, <2>1
    <2> QED BY <2>2, <2>3 DEF AloneInv
  <1>4. ASSUME NEW r \in Runs, Publish(r) PROVE AloneInv'
    <2>1. /\ step[r] = "stored" /\ step' = [step EXCEPT ![r] = "idle"] /\ store' = store
          /\ (offer' = mappings[r] /\ clean' = clean) \/ clean' = FALSE
      BY <1>4 DEF Publish
    <2>2. CASE offer' = mappings[r] /\ clean' = clean
      <3>1. clean' => \A q \in Runs : step'[q] = "idle"
        BY <1>1, <2>1, <2>2 DEF AloneInv
      <3>2. clean' => offer' = store'
        BY <2>1, <2>2 DEF AloneInv
      <3> QED BY <3>1, <3>2 DEF AloneInv
    <2>3. CASE clean' = FALSE
      BY <2>3 DEF AloneInv
    <2> QED BY <2>1, <2>2, <2>3
  <1>5. ASSUME UNCHANGED <<step, mappings, store, offer, clean>> PROVE AloneInv'
    BY <1>5 DEF AloneInv
  <1> QED BY <1>2, <1>3, <1>4, <1>5 DEF InvNext, Start, Change, Allocate, Free, Prepare

\* The pools have the keys of the offer, in slices of the allowed size.
PoolsInv ==
  /\ PublishedKeys = DOMAIN offer
  /\ \A c \in DOMAIN published : \A b \in DOMAIN published[c] :
       Len(published[c][b]) \in 1 .. MaxPerSlice

LEMMA PoolsPublish ==
  ASSUME StoreInv, PoolsInv, NEW r \in Runs, Publish(r)
  PROVE  PoolsInv'
  <1> DEFINE devices == result[r]
             m == mappings[r]
  <1>1. step[r] = "stored" /\ ((published' = Pools(devices) /\ offer' = m) \/ UNCHANGED <<published, offer>>)
    BY DEF Publish
  <1>2. RunMade(r) /\ cfg \in Configs /\ Validate(cfg)
    BY <1>1 DEF StoreInv, RunsInv
  <1>3. PICK v \in Views : devices \in Outcomes(ComputePairs(cfg.compositions, v, pairLabels)) /\ m \in Mappings(devices)
    BY <1>2 DEF RunMade
  <1>4. devices \in Seq(Range(devices))
    BY <1>2, <1>3, RecomputedDevices
  <1> HIDE DEF devices, m
  <1>5. CASE published' = Pools(devices) /\ offer' = m
    <2>1. KeysIn(published') = DOMAIN offer'
      BY <1>3, <1>4, <1>5, PoolsOfDevices, MappingsOf
    <2>2. PublishedKeys' = KeysIn(published')
      BY DEF PublishedKeys, KeysIn
    <2>3. \A c \in DOMAIN published' : \A b \in DOMAIN published'[c] : Len(published'[c][b]) \in 1 .. MaxPerSlice
      BY <1>4, <1>5, PoolsOfDevices
    <2> QED BY <2>1, <2>2, <2>3 DEF PoolsInv
  <1>6. CASE UNCHANGED <<published, offer>>
    BY <1>6 DEF PoolsInv, PublishedKeys
  <1> QED BY <1>1, <1>5, <1>6

\* The pools always offer what one recompute put into the store, all of it
\* and in slices of the allowed size, however many recomputes overlap, and
\* what the store holds once a recompute has run alone and published; for
\* every inventory and every size of slices (recompute, Publish,
\* groupByComposition, buildSlices).
THEOREM PoolsMatchTheStore == InvSpec => []PublishedMatchesStore
  <1>1. InvInit => AloneInv /\ PoolsInv
    BY DEF InvInit, AloneInv, PoolsInv, PublishedKeys
  <1>2. StoreInv /\ AloneInv /\ PoolsInv /\ [InvNext]_invVars => AloneInv' /\ PoolsInv'
    <2> SUFFICES ASSUME StoreInv, AloneInv, PoolsInv, [InvNext]_invVars
                 PROVE  AloneInv' /\ PoolsInv'
      OBVIOUS
    <2>1. ASSUME UNCHANGED <<published, offer>> PROVE PoolsInv'
      BY <2>1 DEF PoolsInv, PublishedKeys
    <2>2. ASSUME NEW r \in Runs, Publish(r) PROVE PoolsInv'
      BY <2>2, PoolsPublish
    <2>3. PoolsInv'
      BY <2>1, <2>2 DEF InvNext, Start, ListSlices, ReplaceStore, Change, Allocate, Free, Prepare
    <2> QED BY <2>3, AloneStep
  <1>3. AloneInv /\ PoolsInv => PublishedMatchesStore
    BY DEF AloneInv, PoolsInv, PublishedMatchesStore
  <1> QED BY <1>1, <1>2, <1>3, StoreInvariant, PTL DEF InvSpec

----------------------------------------------------------------------------
(* What an allocation means                                                *)

\* The selections of a composition have the sizes that the reference says.
LEMMA SizesAre ==
  ASSUME NEW comp, PairedComposition(comp), NEW s \in MemberSources(comp)
  PROVE  Sizes(comp)[s] = CountOf(comp, s) /\ CountOf(comp, s) \in Nat \ {0}
  <1> DEFINE listed == {j \in DOMAIN comp.members : comp.members[j].source = s}
             n == Len(comp.members)
             m == IF comp.mode = "explicit" THEN Max(listed) ELSE Min(listed)
  <1>1. n \in Nat /\ DOMAIN comp.members = 1 .. n
    BY DEF PairedComposition, TypedComposition
  <1>2. listed # {} /\ listed \subseteq 1 .. n
    BY <1>1 DEF MemberSources
  <1>3. CountOf(comp, s) = comp.members[m].count
    BY DEF CountOf
  <1>4. Sizes(comp)[s] = comp.members[m].count
    <2>1. CASE comp.mode = "explicit"
      BY <2>1 DEF Sizes, lastCount
    <2>2. CASE comp.mode # "explicit"
      <3>1. {j \in 1 .. n : comp.members[j].source = s} = listed
        BY <1>1
      <3>2. s \in {comp.members[j].source : j \in 1 .. n}
        BY <1>1 DEF MemberSources
      <3>3. Firsts(comp.members, 1)[s] = comp.members[Min({j \in 1 .. n : comp.members[j].source = s})].count
        BY <3>2 DEF Firsts
      <3> QED BY <2>2, <3>1, <3>3 DEF Sizes
    <2> QED BY <2>1, <2>2
  <1>5. m \in listed
    <2> HIDE DEF listed, n
    <2>1. Max(listed) \in listed
      BY <1>1, <1>2, MaxExists
    <2>2. listed \in SUBSET Nat
      BY <1>1, <1>2
    <2>3. PICK x \in listed : \A y \in listed : x <= y
      BY <1>2, <2>2, LeastNumber
    <2>4. Min(listed) = x
      <3>1. listed \subseteq Int
        BY <2>2
      <3> QED BY <2>3, <3>1, MinIs
    <2> QED BY <2>1, <2>3, <2>4
  <1> HIDE DEF m
  <1>6. m \in DOMAIN comp.members
    BY <1>5
  <1>7. comp.members[m].count \in Int /\ comp.members[m].count >= 1
    BY <1>6 DEF PairedComposition, TypedComposition
  <1> QED BY <1>3, <1>4, <1>7

\* A composite device of a composition: which one its key says it is.
Made(k, d) ==
  /\ k = Key(d) /\ d.name = joinedName(d.members)
  /\ \E comp \in Compositions : \E c \in Combo(comp) :
       /\ comp = Composition(d.comp) /\ PairedComposition(comp) /\ comp.members # <<>>
       /\ d.members = buildCompositeDevice(comp, c).members

Row(c, s) == [i \in DOMAIN c[s] |-> [source |-> s, dev |-> c[s][i]]]
Rows(comp, c) == [j \in DOMAIN comp.members |-> Row(c, comp.members[j].source)]

LEMMA RowsOf ==
  ASSUME NEW comp, PairedComposition(comp), NEW c \in Combo(comp)
  PROVE  /\ buildCompositeDevice(comp, c).members = FlattenSeq(Rows(comp, c))
         /\ Rows(comp, c) \in Seq(Seq([source : MemberSources(comp), dev : Dev]))
         /\ Len(Rows(comp, c)) = Len(comp.members) /\ DOMAIN Rows(comp, c) = DOMAIN comp.members
         /\ \A j \in DOMAIN comp.members :
              /\ Len(Rows(comp, c)[j]) = CountOf(comp, comp.members[j].source)
              /\ CountOf(comp, comp.members[j].source) \in Nat \ {0}
              /\ \A i \in DOMAIN Rows(comp, c)[j] : Rows(comp, c)[j][i].source = comp.members[j].source
  <1> DEFINE M == [source : MemberSources(comp), dev : Dev]
             src(j) == comp.members[j].source
             rs == Rows(comp, c)
  <1>1. Len(comp.members) \in Nat /\ DOMAIN comp.members = 1 .. Len(comp.members)
    BY DEF PairedComposition, TypedComposition
  <1>2. \A j \in DOMAIN comp.members : src(j) \in MemberSources(comp)
    BY DEF MemberSources
  <1>3. buildCompositeDevice(comp, c).members = FlattenSeq(rs)
    BY DEF buildCompositeDevice, Rows, Row
  <1>4. DOMAIN rs = DOMAIN comp.members /\ \A j \in DOMAIN comp.members : rs[j] = Row(c, src(j))
    BY DEF Rows
  <1>5. ASSUME NEW s \in MemberSources(comp)
        PROVE  /\ Row(c, s) \in Seq(M) /\ Len(Row(c, s)) = CountOf(comp, s)
               /\ CountOf(comp, s) \in Nat \ {0}
               /\ \A i \in DOMAIN Row(c, s) : Row(c, s)[i].source = s
    <2> DEFINE x == c[s]
    <2>1. x \in Seq(Dev) /\ Len(x) = Sizes(comp)[s]
      BY DEF Combo
    <2>2. Sizes(comp)[s] = CountOf(comp, s) /\ CountOf(comp, s) \in Nat \ {0}
      BY SizesAre
    <2> HIDE DEF x
    <2>3. Len(x) \in Nat /\ DOMAIN x = 1 .. Len(x) /\ \A i \in DOMAIN x : [source |-> s, dev |-> x[i]] \in M
      BY <2>1
    <2> DEFINE r == [i \in DOMAIN x |-> [source |-> s, dev |-> x[i]]]
    <2>4. \A i \in DOMAIN r : r[i].source = s
      OBVIOUS
    <2> HIDE DEF M
    <2>5. r \in Seq(M) /\ Len(r) = Len(x)
      BY <2>3
    <2>6. Row(c, s) = r
      BY DEF Row, x
    <2> HIDE DEF r
    <2> QED BY <2>1, <2>2, <2>4, <2>5, <2>6
  <1> HIDE DEF M, src, rs
  <1>6. \A j \in DOMAIN comp.members : rs[j] \in Seq(M)
    BY <1>2, <1>4, <1>5
  <1>7. rs \in Seq(Seq(M)) /\ Len(rs) = Len(comp.members)
    <2>1. rs = [j \in 1 .. Len(comp.members) |-> rs[j]]
      BY <1>1 DEF rs, Rows
    <2>2. [j \in 1 .. Len(comp.members) |-> rs[j]] \in Seq(Seq(M))
      BY <1>1, <1>6, IsASeq
    <2>3. rs \in Seq(Seq(M)) /\ DOMAIN rs = 1 .. Len(comp.members)
      BY <1>1, <1>4, <2>1, <2>2
    <2> QED BY <1>1, <2>3, LenProperties
  <1>8. ASSUME NEW j \in DOMAIN comp.members
        PROVE  /\ Len(rs[j]) = CountOf(comp, src(j)) /\ CountOf(comp, src(j)) \in Nat \ {0}
               /\ \A i \in DOMAIN rs[j] : rs[j][i].source = src(j)
    BY <1>2, <1>4, <1>5
  <1> QED BY <1>3, <1>4, <1>7, <1>8 DEF M, src, rs

\* A device has a member for each unit that its composition counts.
LEMMA MembersOf ==
  ASSUME NEW comp, PairedComposition(comp), comp.members # <<>>, NEW c \in Combo(comp), NEW d,
         d.members = buildCompositeDevice(comp, c).members
  PROVE  /\ d.members \in Seq([source : MemberSources(comp), dev : Dev]) /\ Len(d.members) \in Nat \ {0}
         /\ NamesFit(comp) => Len(d.members) <= NameParts
  <1> DEFINE M == [source : MemberSources(comp), dev : Dev]
             rs == Rows(comp, c)
             src(j) == comp.members[j].source
             P == UNION {{j} \X (1 .. CountOf(comp, src(j))) : j \in DOMAIN comp.members}
  <1>1. /\ d.members = FlattenSeq(rs) /\ rs \in Seq(Seq(M)) /\ DOMAIN rs = DOMAIN comp.members
        /\ \A j \in DOMAIN comp.members :
             Len(rs[j]) = CountOf(comp, src(j)) /\ CountOf(comp, src(j)) \in Nat \ {0}
    BY RowsOf
  <1> HIDE DEF rs, M
  <1>2. Len(d.members) = Cardinality(Positions(rs))
    BY <1>1, FlattenLen
  <1>3. Positions(rs) = P
    <2>1. \A j \in DOMAIN rs : {j} \X (1 .. Len(rs[j])) = {j} \X (1 .. CountOf(comp, src(j)))
      BY <1>1
    <2> HIDE DEF src
    <2> QED BY <1>1, <2>1 DEF Positions
  <1>4. NamesFit(comp) => Cardinality(P) <= NameParts
    BY DEF NamesFit
  <1>5. d.members \in Seq(M) /\ Range(d.members) = UNION {Range(rs[j]) : j \in DOMAIN rs}
    BY <1>1, FlattenRange
  <1>6. Len(d.members) # 0
    <2>1. 1 \in DOMAIN comp.members
      BY DEF PairedComposition, TypedComposition
    <2> DEFINE t == rs[1]
    <2>2. t \in Seq(M) /\ Len(t) \in Nat \ {0}
      BY <1>1, <2>1
    <2> HIDE DEF t
    <2>3. t[1] \in Range(t)
      BY <2>2 DEF Range
    <2>4. t[1] \in Range(d.members)
      BY <1>1, <1>5, <2>1, <2>3 DEF t
    <2> DEFINE y == d.members
    <2>5. y \in Seq(M) /\ Range(y) # {}
      BY <1>5, <2>4
    <2> HIDE DEF y
    <2>6. Len(y) # 0
      BY <2>5 DEF Range
    <2> QED BY <2>6 DEF y
  <1> HIDE DEF P
  <1>7. Len(d.members) \in Nat
    BY <1>5
  <1> QED BY <1>2, <1>3, <1>4, <1>5, <1>6, <1>7 DEF M

\* A name that is not cut tells the devices of a composition apart.
LEMMA SameIds ==
  ASSUME NEW k, NEW d, NEW e, Made(k, d), Made(k, e), NamesFit(Composition(k[1]))
  PROVE  Ids(d) = Ids(e)
  <1> DEFINE comp == Composition(k[1])
  <1>1. k[1] = d.comp /\ k[1] = e.comp /\ d.name = e.name
    BY DEF Made, Key
  <1>2. PICK c \in Combo(comp) : d.members = buildCompositeDevice(comp, c).members
    BY <1>1 DEF Made
  <1>3. PICK b \in Combo(comp) : e.members = buildCompositeDevice(comp, b).members
    BY <1>1 DEF Made
  <1>4. PairedComposition(comp) /\ comp.members # <<>> /\ NamesFit(comp)
    BY <1>1 DEF Made
  <1> HIDE DEF comp
  <1> DEFINE M == [source : MemberSources(comp), dev : Dev]
             ss == Rows(comp, c)
             tt == Rows(comp, b)
             R == {x \in M \X M : x[1].source = x[2].source}
  <1>5. /\ d.members = FlattenSeq(ss) /\ ss \in Seq(Seq(M)) /\ DOMAIN ss = DOMAIN comp.members
        /\ Len(ss) = Len(comp.members)
        /\ \A j \in DOMAIN comp.members :
             /\ Len(ss[j]) = CountOf(comp, comp.members[j].source)
             /\ \A i \in DOMAIN ss[j] : ss[j][i].source = comp.members[j].source
    BY <1>2, <1>4, RowsOf
  <1>6. /\ e.members = FlattenSeq(tt) /\ tt \in Seq(Seq(M)) /\ DOMAIN tt = DOMAIN comp.members
        /\ Len(tt) = Len(comp.members)
        /\ \A j \in DOMAIN comp.members :
             /\ Len(tt[j]) = CountOf(comp, comp.members[j].source)
             /\ \A i \in DOMAIN tt[j] : tt[j][i].source = comp.members[j].source
    BY <1>3, <1>4, RowsOf
  <1>7. \A x, y \in M : x.source = y.source => <<x, y>> \in R
    <2> HIDE DEF M
    <2> QED OBVIOUS
  <1>8. \A x, y : <<x, y>> \in R => x.source = y.source
    <2> HIDE DEF M
    <2> QED OBVIOUS
  <1> HIDE DEF ss, tt, M, R
  <1>9. ASSUME NEW j \in DOMAIN ss, NEW i \in DOMAIN ss[j] PROVE <<ss[j][i], tt[j][i]>> \in R
    <2> DEFINE x == ss[j]
               y == tt[j]
    <2>1. x \in Seq(M) /\ y \in Seq(M) /\ Len(x) = Len(y) /\ i \in DOMAIN x
      BY <1>5, <1>6, <1>9
    <2>2. /\ \A h \in DOMAIN x : x[h].source = comp.members[j].source
          /\ \A h \in DOMAIN y : y[h].source = comp.members[j].source
      BY <1>5, <1>6, <1>9
    <2> HIDE DEF x, y
    <2>3. i \in DOMAIN y /\ x[i] \in M /\ y[i] \in M
      BY <2>1
    <2>4. <<x[i], y[i]>> \in R
      BY <1>7, <2>1, <2>2, <2>3
    <2> QED BY <2>4 DEF x, y
  <1> DEFINE x == d.members
             y == e.members
  <1>10. Len(x) = Len(y) /\ \A i \in DOMAIN x : <<x[i], y[i]>> \in R
    <2>1. Len(ss) = Len(tt) /\ \A j \in DOMAIN ss : Len(ss[j]) = Len(tt[j])
      BY <1>5, <1>6
    <2>2. /\ ss \in Seq(Seq(M)) /\ tt \in Seq(Seq(M))
          /\ \A j \in DOMAIN ss : \A i \in DOMAIN ss[j] : <<ss[j][i], tt[j][i]>> \in R
      BY <1>5, <1>6, <1>9
    <2>3. /\ Len(FlattenSeq(ss)) = Len(FlattenSeq(tt))
          /\ \A i \in DOMAIN FlattenSeq(ss) : <<FlattenSeq(ss)[i], FlattenSeq(tt)[i]>> \in R
      BY ONLY <2>1, <2>2, FlattenAlike
    <2> QED BY <1>5, <1>6, <2>3
  <1>11. x \in Seq(M) /\ y \in Seq(M) /\ Len(x) <= NameParts /\ Len(y) <= NameParts
    <2>1. x \in Seq(M) /\ Len(x) <= NameParts
      BY <1>2, <1>4, MembersOf DEF M
    <2>2. y \in Seq(M) /\ Len(y) <= NameParts
      BY <1>3, <1>4, MembersOf DEF M
    <2> QED BY <2>1, <2>2
  <1>12. joinedName(x) = joinedName(y)
    BY <1>1 DEF Made
  <1> HIDE DEF x, y
  <1>13. Len(x) \in Nat /\ DOMAIN x = 1 .. Len(x) /\ DOMAIN y = 1 .. Len(x) /\ NameParts \in Nat
    BY <1>10, <1>11, InventoryAssumption
  <1>14. ASSUME NEW z \in Seq(M), Len(z) = Len(x)
         PROVE  joinedName(z) = [i \in 1 .. Len(x) |-> DevName[z[i].dev]]
    <2> DEFINE S == {Len(z), NameParts}
    <2>1. S \subseteq Int /\ Len(x) \in S /\ \A l \in S : Len(x) <= l
      BY <1>11, <1>13, <1>14
    <2>2. joinedName(z) = [i \in 1 .. Min(S) |-> DevName[z[i].dev]]
      BY DEF joinedName
    <2> HIDE DEF S
    <2>3. Min(S) = Len(x)
      BY <2>1, MinIs
    <2> QED BY <2>2, <2>3
  <1>15. ASSUME NEW i \in 1 .. Len(x)
         PROVE  <<x[i].source, DevName[x[i].dev]>> = <<y[i].source, DevName[y[i].dev]>>
    <2>1. DevName[x[i].dev] = DevName[y[i].dev]
      <3> DEFINE p == [h \in 1 .. Len(x) |-> DevName[x[h].dev]]
                 q == [h \in 1 .. Len(x) |-> DevName[y[h].dev]]
      <3>1. p = q
        BY <1>10, <1>11, <1>12, <1>14
      <3>2. p[i] = DevName[x[i].dev] /\ q[i] = DevName[y[i].dev]
        OBVIOUS
      <3> HIDE DEF p, q
      <3> QED BY <3>1, <3>2
    <2>2. x[i].source = y[i].source
      BY <1>8, <1>10, <1>13
    <2> QED BY <2>1, <2>2
  <1>16. Ids(d) = {<<x[i].source, DevName[x[i].dev]>> : i \in 1 .. Len(x)}
    BY <1>13 DEF Ids, x
  <1>17. Ids(e) = {<<y[i].source, DevName[y[i].dev]>> : i \in 1 .. Len(x)}
    BY <1>13 DEF Ids, y
  <1> QED BY <1>15, <1>16, <1>17

\* The items of a work list are those of the devices that the keys name.
Items(keys, w) ==
  \E g : /\ \A i \in DOMAIN keys : Made(keys[i], g[i])
         /\ DOMAIN w = UNION {{i} \X DOMAIN g[i].members : i \in DOMAIN keys}
         /\ \A x \in DOMAIN w : w[x].ordinal = x[1] - 1 /\ w[x].member = g[x[1]].members[x[2]]

\* A claim's allocation, its meaning and its work list.
ClaimInv(keys, means, w) ==
  /\ Len(keys) \in Nat /\ DOMAIN keys = 1 .. Len(keys)
  /\ \A i \in DOMAIN keys : \E d : Made(keys[i], d) /\ means[i] = Ids(d)
  /\ keys = <<>> => w = <<>>
  /\ w # <<>> => Items(keys, w)

\* Whatever was offered, allocated or prepared at whatever time is a device
\* of its composition under its own key.
AllocInv ==
  /\ DOMAIN alloc = Claims /\ DOMAIN meant = Claims /\ DOMAIN work = Claims
  /\ \A k \in DOMAIN offer : Made(k, offer[k])
  /\ \A c \in Claims : ClaimInv(alloc[c], meant[c], work[c])

\* So is whatever is in the store or on its way to the pools.
MapMeans(m) == \A k \in DOMAIN m : Made(k, m[k])
StoreMeans  == MapMeans(store) /\ \A r \in Runs : step[r] = "stored" => MapMeans(mappings[r])

LEMMA MapMade ==
  ASSUME cfg \in Configs, Validate(cfg), NEW v \in Views,
         NEW devices \in Outcomes(ComputePairs(cfg.compositions, v, pairLabels)), NEW m \in Mappings(devices)
  PROVE  MapMeans(m)
  <1> SUFFICES ASSUME NEW k \in DOMAIN m PROVE Made(k, m[k])
    BY DEF MapMeans
  <1>1. PICK comp \in Compositions : \E e : Genuine(comp, e) /\ Chosen(m[k], e)
    BY MapShape
  <1>2. PICK e : Genuine(comp, e) /\ Chosen(m[k], e)
    BY <1>1
  <1>3. PICK c \in Combo(comp) : e.members = buildCompositeDevice(comp, c).members
    BY <1>2 DEF Genuine
  <1>4. m[k].comp = comp.name /\ m[k].members = e.members /\ m[k].name = joinedName(m[k].members)
    BY <1>2 DEF Genuine, Chosen
  <1>5. Composition(comp.name) = comp /\ PairedComposition(comp)
    BY ValidComposition
  <1>6. comp.members # <<>>
    BY DEF Validate, ValidCompositions, ValidMembers, Compositions, Range
  <1>7. k = Key(m[k])
    BY MapShape
  <1> QED BY <1>3, <1>4, <1>5, <1>6, <1>7 DEF Made

LEMMA StoreMeansInvariant == InvSpec => []StoreMeans
  <1>1. ASSUME StoreInv PROVE StoreMeans
    <2>1. MapMeans(store)
      <3>1. CASE store = <<>>
        BY <3>1 DEF MapMeans
      <3>2. CASE store # <<>>
        <4>1. PICK v \in Views : \E devices \in Outcomes(ComputePairs(cfg.compositions, v, pairLabels)) :
                                   store \in Mappings(devices)
          BY <1>1, <3>2 DEF StoreInv, StoreMade
        <4>2. cfg \in Configs /\ Validate(cfg)
          BY <1>1, <3>2 DEF StoreInv
        <4> QED BY <4>1, <4>2, MapMade
      <3> QED BY <3>1, <3>2
    <2>2. ASSUME NEW r \in Runs, step[r] = "stored" PROVE MapMeans(mappings[r])
      <3>1. RunMade(r) /\ cfg \in Configs /\ Validate(cfg)
        BY <1>1, <2>2 DEF StoreInv, RunsInv
      <3> QED BY <3>1, MapMade DEF RunMade
    <2> QED BY <2>1, <2>2 DEF StoreMeans
  <1>2. StoreInv => StoreMeans
    BY <1>1
  <1> QED BY <1>2, StoreInvariant, PTL

LEMMA MadeStays ==
  ASSUME cfg' = cfg
  PROVE  /\ \A k, d : Made(k, d)' <=> Made(k, d)
         /\ \A keys, means, w : ClaimInv(keys, means, w)' <=> ClaimInv(keys, means, w)
  <1>1. \A k, d : Made(k, d)' <=> Made(k, d)
    BY DEF Made, Compositions, Composition, Key
  <1>2. \A keys, w : Items(keys, w)' <=> Items(keys, w)
    BY <1>1 DEF Items
  <1>3. \A d : Ids(d)' = Ids(d)
    BY DEF Ids
  <1> QED BY <1>1, <1>2, <1>3 DEF ClaimInv

LEMMA AllocAllocate ==
  ASSUME AllocInv, PublishedMatchesStore, NEW c \in Claims, Allocate(c)
  PROVE  AllocInv'
  <1>1. PICK n \in 1 .. MaxResults :
          \E keys \in Injection(1 .. n, PublishedKeys \ UNION {Taken(e) : e \in Claims}) :
            /\ alloc' = [alloc EXCEPT ![c] = keys]
            /\ meant' = [meant EXCEPT ![c] = Field(keys, LAMBDA k : Ids(offer[k]))]
    BY DEF Allocate
  <1>2. PICK keys \in Injection(1 .. n, PublishedKeys \ UNION {Taken(e) : e \in Claims}) :
          /\ alloc' = [alloc EXCEPT ![c] = keys]
          /\ meant' = [meant EXCEPT ![c] = Field(keys, LAMBDA k : Ids(offer[k]))]
    BY <1>1
  <1>3. n \in Nat /\ UNCHANGED <<cfg, offer, work>> /\ alloc[c] = <<>>
    BY InventoryAssumption DEF Allocate
  <1>4. keys \in [1 .. n -> DOMAIN offer]
    BY DEF Injection, PublishedMatchesStore
  <1>5. keys \in Seq(DOMAIN offer) /\ Len(keys) = n /\ DOMAIN keys = 1 .. n
    BY <1>3, <1>4
  <1>6. meant' = [meant EXCEPT ![c] = [i \in DOMAIN keys |-> Ids(offer[keys[i]])]]
    BY <1>2 DEF Field
  <1>7. work[c] = <<>>
    BY <1>3 DEF AllocInv, ClaimInv
  <1>8. ClaimInv(keys, [i \in DOMAIN keys |-> Ids(offer[keys[i]])], work[c])
    <2> DEFINE means == [i \in DOMAIN keys |-> Ids(offer[keys[i]])]
    <2>1. \A i \in DOMAIN keys : keys[i] \in DOMAIN offer /\ means[i] = Ids(offer[keys[i]])
      BY <1>4, <1>5
    <2>2. \A i \in DOMAIN keys : Made(keys[i], offer[keys[i]])
      BY <2>1 DEF AllocInv
    <2> HIDE DEF means
    <2>3. \A i \in DOMAIN keys : \E d : Made(keys[i], d) /\ means[i] = Ids(d)
      BY <2>1, <2>2
    <2>4. ClaimInv(keys, means, work[c])
      BY <1>3, <1>5, <1>7, <2>3 DEF ClaimInv
    <2> QED BY <2>4 DEF means
  <1>9. \A e \in Claims : ClaimInv(alloc'[e], meant'[e], work'[e])
    BY <1>2, <1>3, <1>6, <1>8 DEF AllocInv
  <1>10. \A e \in Claims : ClaimInv(alloc[e], meant[e], work[e])'
    BY <1>3, <1>9, MadeStays
  <1>11. \A k \in DOMAIN offer' : Made(k, offer[k])'
    BY <1>3, MadeStays DEF AllocInv
  <1> QED BY <1>2, <1>3, <1>6, <1>10, <1>11 DEF AllocInv

LEMMA AllocFree == ASSUME AllocInv, NEW c \in Claims, Free(c) PROVE AllocInv'
  <1>1. /\ alloc' = [alloc EXCEPT ![c] = <<>>] /\ meant' = [meant EXCEPT ![c] = <<>>]
        /\ work' = [work EXCEPT ![c] = <<>>] /\ UNCHANGED <<cfg, offer>>
    BY DEF Free
  <1>2. ClaimInv(<<>>, <<>>, <<>>)
    BY DEF ClaimInv
  <1>3. \A e \in Claims : ClaimInv(alloc'[e], meant'[e], work'[e])
    BY <1>1, <1>2 DEF AllocInv
  <1>4. \A e \in Claims : ClaimInv(alloc[e], meant[e], work[e])'
    BY <1>1, <1>3, MadeStays
  <1>5. \A k \in DOMAIN offer' : Made(k, offer[k])'
    BY <1>1, MadeStays DEF AllocInv
  <1> QED BY <1>1, <1>4, <1>5 DEF AllocInv

LEMMA AllocPrepare ==
  ASSUME AllocInv, StoreMeans, NEW c \in Claims, Prepare(c)
  PROVE  AllocInv'
  <1> DEFINE keys == alloc[c]
             w == WorkItems(keys)
             g == [i \in DOMAIN keys |-> store[keys[i]]]
  <1>1. /\ work' = [work EXCEPT ![c] = w] /\ UNCHANGED <<cfg, offer, alloc, meant>>
        /\ keys # <<>> /\ \A i \in DOMAIN keys : keys[i] \in DOMAIN store
    BY DEF Prepare, Taken, Range
  <1>2. \A i \in DOMAIN keys : g[i] = store[keys[i]] /\ Made(keys[i], g[i])
    BY <1>1 DEF StoreMeans, MapMeans
  <1> DEFINE W == UNION {{i} \X DOMAIN store[keys[i]].members : i \in DOMAIN keys}
  <1>3. DOMAIN w = W /\ \A x \in W : w[x].ordinal = x[1] - 1 /\ w[x].member = store[keys[x[1]]].members[x[2]]
    <2> HIDE DEF W
    <2> DEFINE member(x) == store[keys[x[1]]].members[x[2]]
               it(x) == [ordinal |-> x[1] - 1, member |-> member(x), params |-> Resolve(member(x), x[1] - 1)]
    <2>1. w = [x \in W |-> it(x)]
      BY DEF WorkItems, W
    <2>2. \A x : it(x).ordinal = x[1] - 1 /\ it(x).member = member(x)
      OBVIOUS
    <2> HIDE DEF w, it
    <2> QED BY <2>1, <2>2
  <1>4. \A x \in W : x[1] \in DOMAIN keys
    <2>1. ASSUME NEW x \in W PROVE x[1] \in DOMAIN keys
      <3>1. PICK i \in DOMAIN keys : x \in {i} \X DOMAIN store[keys[i]].members
        BY <2>1
      <3>2. x[1] = i
        BY <3>1
      <3> QED BY <3>2
    <2> QED BY <2>1
  <1>5. W = UNION {{i} \X DOMAIN g[i].members : i \in DOMAIN keys}
    BY <1>2
  <1> HIDE DEF W, w, g
  <1>6. Items(keys, w)
    <2>1. \A x \in DOMAIN w : w[x].ordinal = x[1] - 1 /\ w[x].member = g[x[1]].members[x[2]]
      BY <1>2, <1>3, <1>4
    <2>2. DOMAIN w = UNION {{i} \X DOMAIN g[i].members : i \in DOMAIN keys}
      BY <1>3, <1>5
    <2>3. \A i \in DOMAIN keys : Made(keys[i], g[i])
      BY <1>2
    <2> HIDE DEF keys
    <2> QED BY <2>1, <2>2, <2>3 DEF Items
  <1>7. ClaimInv(alloc[c], meant[c], w)
    BY <1>1, <1>6 DEF AllocInv, ClaimInv
  <1>8. \A e \in Claims : ClaimInv(alloc'[e], meant'[e], work'[e])
    BY <1>1, <1>7 DEF AllocInv
  <1>9. \A e \in Claims : ClaimInv(alloc[e], meant[e], work[e])'
    BY <1>1, <1>8, MadeStays
  <1>10. \A k \in DOMAIN offer' : Made(k, offer[k])'
    BY <1>1, MadeStays DEF AllocInv
  <1> QED BY <1>1, <1>9, <1>10 DEF AllocInv

\* A recompute replaces the offer by its mappings, or leaves it.
LEMMA AllocStays ==
  ASSUME AllocInv, StoreMeans, UNCHANGED <<cfg, alloc, meant, work>>,
         offer' = offer \/ \E r \in Runs : step[r] = "stored" /\ offer' = mappings[r]
  PROVE  AllocInv'
  <1>1. \A e \in Claims : ClaimInv(alloc[e], meant[e], work[e])'
    BY MadeStays DEF AllocInv
  <1>2. \A k \in DOMAIN offer' : Made(k, offer[k])'
    <2>1. CASE offer' = offer
      BY <2>1, MadeStays DEF AllocInv
    <2>2. ASSUME NEW r \in Runs, step[r] = "stored", offer' = mappings[r]
          PROVE  \A k \in DOMAIN offer' : Made(k, offer[k])'
      <3>1. \A k \in DOMAIN offer' : Made(k, offer'[k])
        BY <2>2 DEF StoreMeans, MapMeans
      <3> QED BY <3>1, MadeStays
    <2> QED BY <2>1, <2>2
  <1> QED BY <1>1, <1>2 DEF AllocInv

LEMMA AllocInvariant == InvSpec => []AllocInv
  <1>1. InvInit => AllocInv
    BY DEF InvInit, AllocInv, ClaimInv
  <1>2. AllocInv /\ StoreMeans /\ PublishedMatchesStore /\ [InvNext]_invVars => AllocInv'
    <2> SUFFICES ASSUME AllocInv, StoreMeans, PublishedMatchesStore, [InvNext]_invVars
                 PROVE  AllocInv'
      OBVIOUS
    <2>1. CASE Start
      BY <2>1, AllocStays DEF Start
    <2>2. ASSUME NEW r \in Runs, ListSlices(r) \/ ReplaceStore(r) \/ Publish(r) PROVE AllocInv'
      BY <2>2, AllocStays DEF ListSlices, ReplaceStore, Publish
    <2>3. ASSUME NEW s \in Slices, Change(s) PROVE AllocInv'
      BY <2>3, AllocStays DEF Change
    <2>4. ASSUME NEW c \in Claims, Allocate(c) PROVE AllocInv'
      BY <2>4, AllocAllocate
    <2>5. ASSUME NEW c \in Claims, Free(c) PROVE AllocInv'
      BY <2>5, AllocFree
    <2>6. ASSUME NEW c \in Claims, Prepare(c) PROVE AllocInv'
      BY <2>6, AllocPrepare
    <2>7. CASE UNCHANGED invVars
      BY <2>7, AllocStays
    <2> QED BY <2>1, <2>2, <2>3, <2>4, <2>5, <2>6, <2>7 DEF InvNext
  <1> QED BY <1>1, <1>2, StoreMeansInvariant, PoolsMatchTheStore, PTL DEF InvSpec

\* What the property says of one claim.
LEMMA PreparedClaim ==
  ASSUME NEW keys, NEW means, NEW w, ClaimInv(keys, means, w), w # <<>>
  PROVE  LET item(o) == {i \in DOMAIN w : w[i].ordinal = o}
             ids(o)  == {<<w[i].member.source, DevName[w[i].member.dev]>> : i \in item(o)}
         IN /\ {w[i].ordinal : i \in DOMAIN w} = 0 .. Len(keys) - 1
            /\ \A i \in DOMAIN keys : NamesFit(Composition(keys[i][1])) => ids(i - 1) = means[i]
  <1> DEFINE item(o) == {x \in DOMAIN w : w[x].ordinal = o}
             id(m) == <<m.source, DevName[m.dev]>>
             ids(o) == {id(w[x].member) : x \in item(o)}
             n == Len(keys)
  <1>1. n \in Nat /\ DOMAIN keys = 1 .. n /\ Items(keys, w)
    BY DEF ClaimInv
  <1>2. PICK g : /\ \A i \in DOMAIN keys : Made(keys[i], g[i])
                 /\ DOMAIN w = UNION {{i} \X DOMAIN g[i].members : i \in DOMAIN keys}
                 /\ \A x \in DOMAIN w : w[x].ordinal = x[1] - 1 /\ w[x].member = g[x[1]].members[x[2]]
    BY <1>1 DEF Items
  <1> HIDE DEF n
  <1>3. ASSUME NEW i \in 1 .. n, NEW h \in DOMAIN g[i].members
        PROVE  <<i, h>> \in DOMAIN w /\ w[<<i, h>>].ordinal = i - 1 /\ w[<<i, h>>].member = g[i].members[h]
    <2>1. <<i, h>> \in {i} \X DOMAIN g[i].members
      OBVIOUS
    <2>2. <<i, h>> \in DOMAIN w
      BY <1>1, <1>2, <2>1
    <2> QED BY <1>2, <2>2
  <1>4. ASSUME NEW x \in DOMAIN w
        PROVE  x[1] \in 1 .. n /\ x[2] \in DOMAIN g[x[1]].members
    <2>1. PICK i \in DOMAIN keys : x \in {i} \X DOMAIN g[i].members
      BY <1>2
    <2>2. x[1] = i /\ x[2] \in DOMAIN g[i].members
      BY <2>1
    <2> QED BY <1>1, <2>2
  <1>5. ASSUME NEW i \in 1 .. n PROVE 1 \in DOMAIN g[i].members
    <2> DEFINE d == g[i]
    <2>1. Made(keys[i], d)
      BY <1>1, <1>2
    <2> HIDE DEF d
    <2>2. PICK comp \in Compositions : \E c \in Combo(comp) :
            /\ PairedComposition(comp) /\ comp.members # <<>>
            /\ d.members = buildCompositeDevice(comp, c).members
      BY <2>1 DEF Made
    <2>3. d.members \in Seq([source : MemberSources(comp), dev : Dev]) /\ Len(d.members) \in Nat \ {0}
      BY <2>2, MembersOf
    <2>4. 1 \in DOMAIN d.members
      <3> DEFINE y == d.members
      <3>1. y \in Seq([source : MemberSources(comp), dev : Dev]) /\ Len(y) \in Nat \ {0}
        BY <2>3
      <3> HIDE DEF y
      <3>2. 1 \in DOMAIN y
        BY <3>1
      <3> QED BY <3>2 DEF y
    <2> QED BY <2>4 DEF d
  <1>6. {w[x].ordinal : x \in DOMAIN w} = 0 .. n - 1
    <2>1. ASSUME NEW x \in DOMAIN w PROVE w[x].ordinal \in 0 .. n - 1
      <3>1. w[x].ordinal = x[1] - 1 /\ x[1] \in 1 .. n
        BY <1>2, <1>4
      <3> QED BY <1>1, <3>1
    <2>2. ASSUME NEW o \in 0 .. n - 1 PROVE \E x \in DOMAIN w : w[x].ordinal = o
      <3>1. o + 1 \in 1 .. n /\ o = (o + 1) - 1
        BY <1>1
      <3>2. <<o + 1, 1>> \in DOMAIN w /\ w[<<o + 1, 1>>].ordinal = (o + 1) - 1
        BY <1>3, <1>5, <3>1
      <3> QED BY <3>1, <3>2
    <2> QED BY <2>1, <2>2
  <1>7. ASSUME NEW i \in 1 .. n, NamesFit(Composition(keys[i][1])) PROVE ids(i - 1) = means[i]
    <2>1. PICK d : Made(keys[i], d) /\ means[i] = Ids(d)
      BY <1>1 DEF ClaimInv
    <2>2. Ids(g[i]) = Ids(d)
      BY <1>1, <1>2, <1>7, <2>1, SameIds
    <2>3. ASSUME NEW x \in item(i - 1) PROVE id(w[x].member) \in Ids(g[i])
      <3>1. x \in DOMAIN w /\ w[x].ordinal = i - 1
        OBVIOUS
      <3>2. x[1] \in 1 .. n /\ w[x].ordinal = x[1] - 1 /\ w[x].member = g[x[1]].members[x[2]]
            /\ x[2] \in DOMAIN g[x[1]].members
        BY <1>2, <1>4, <3>1
      <3>3. x[1] = i
        BY <1>1, <3>1, <3>2
      <3> QED BY <3>2, <3>3 DEF Ids
    <2>4. ASSUME NEW y \in Ids(g[i]) PROVE y \in ids(i - 1)
      <3>1. PICK h \in DOMAIN g[i].members : y = id(g[i].members[h])
        BY DEF Ids
      <3>2. <<i, h>> \in item(i - 1) /\ w[<<i, h>>].member = g[i].members[h]
        BY <1>3
      <3> HIDE DEF item, id
      <3> QED BY <3>1, <3>2
    <2>5. ids(i - 1) = Ids(g[i])
      <3> HIDE DEF item, id
      <3> QED BY <2>3, <2>4
    <2> QED BY <2>1, <2>2, <2>5
  <1> QED BY <1>1, <1>6, <1>7 DEF n

\* Whatever recomputes and failed publications come between them, a claim is
\* prepared with the underlying devices its allocation meant when it was
\* made, and every member has the ordinal of its composite device, as long
\* as the composition's names are not cut (prepareClaim, recompute, Publish,
\* buildCompositeDevice).
THEOREM AllocationsKeepTheirMeaning == InvSpec => []PreparedAsAllocated
  <1>1. AllocInv => PreparedAsAllocated
    BY PreparedClaim DEF AllocInv, PreparedAsAllocated
  <1> QED BY <1>1, AllocInvariant, PTL

----------------------------------------------------------------------------
(* What recompute saw                                                      *)

\* The devices that the slices of a source's driver list.
Listed(s, view) == UNION {Range(view[x]) : x \in {y \in Slices : s \in SourcesOf(SliceDriver[y])}}

\* The lists of a view have devices of the slices, each once, and all of
\* them if no two sources share a driver.
Sees(v, view) ==
  DevicesNamedOnce =>
    \A s \in SourceNames(cfg) :
      /\ Distinct(v[s]) /\ (DriversDistinct => Range(v[s]) = Listed(s, view))
      /\ \A d, e \in Range(v[s]) : DevName[d] = DevName[e] => d = e

\* A driver's source is one of its sources.
LEMMA ToSource ==
  ASSUME NEW toSource \in driverToSource, NEW k \in SourceDrivers
  PROVE  toSource[k] \in SourcesOf(k)
  <1> DEFINE open == {j \in SourceDrivers : Cardinality(SourcesOf(j)) > 1}
             P == {p \in [open -> UNION {SourcesOf(j) : j \in open}] : \A j \in open : p[j] \in SourcesOf(j)}
             mapOf(p) == [j \in SourceDrivers |-> IF j \in open THEN p[j] ELSE CHOOSE x \in SourcesOf(j) : TRUE]
  <1>1. driverToSource = {mapOf(p) : p \in P}
    BY DEF driverToSource, Selections
  <1>2. SourcesOf(k) # {}
    BY DEF SourcesOf, SourceDrivers
  <1>3. PICK p \in P : toSource = mapOf(p)
    <2> HIDE DEF P, mapOf
    <2> QED BY <1>1
  <1> HIDE DEF open
  <1>4. CASE k \in open
    BY <1>3, <1>4
  <1>5. CASE k \notin open
    BY <1>2, <1>3, <1>5
  <1> QED BY <1>4, <1>5

\* The drivers of a source are one; with a driver for each source, so are
\* the sources of a driver.
LEMMA OneToOne ==
  ASSUME Validate(cfg)
  PROVE  /\ DriversDistinct => \A k : \A s, t \in SourcesOf(k) : s = t
         /\ \A k, l : \A s \in SourcesOf(k) : s \in SourcesOf(l) => k = l
         /\ \A k : \A s \in SourcesOf(k) : k \in SourceDrivers
  <1> DEFINE src == cfg.sources
  <1>1. DriversDistinct => \A i, j \in DOMAIN src : src[i].driver = src[j].driver => i = j
    BY DEF DriversDistinct, Distinct, Field, IsInjective
  <1>2. \A i, j \in DOMAIN src : src[i].name = src[j].name => i = j
    BY DEF Validate, ValidSources, Distinct, Field, IsInjective
  <1>3. \A k : \A s \in SourcesOf(k) : \E i \in DOMAIN src : src[i].name = s /\ src[i].driver = k
    BY DEF SourcesOf, Range
  <1>4. \A i \in DOMAIN src : src[i].driver \in SourceDrivers
    BY DEF SourceDrivers, Range
  <1> HIDE DEF src
  <1> QED BY <1>1, <1>2, <1>3, <1>4

\* The lister returns every slice once.
LEMMA OrderLists ==
  ASSUME NEW order \in SetToSeqs(Slices)
  PROVE  Lists(order, Slices)
  <1> DEFINE n == Cardinality(Slices)
  <1>1. n \in Nat /\ IsFiniteSet(Slices)
    BY InventoryAssumption, FS_CardinalityType
  <1>2. order \in [1 .. n -> Slices] /\ \A i, j \in 1 .. n : i # j => order[i] # order[j]
    BY DEF SetToSeqs
  <1> HIDE DEF n
  <1>3. order \in Seq(Slices) /\ Len(order) = n /\ Distinct(order)
    BY <1>1, <1>2 DEF Distinct, IsInjective
  <1>4. Cardinality(Range(order)) = n
    BY <1>3, DistinctSize
  <1>5. Range(order) \subseteq Slices
    BY <1>3 DEF Range
  <1>6. Range(order) = Slices
    BY <1>1, <1>4, <1>5, FS_Subset DEF n
  <1> QED BY <1>3, <1>6 DEF Lists

LEMMA InputsSee ==
  ASSUME Validate(cfg), NEW listed, Listing(listed), NEW v \in Inputs(listed)
  PROVE  Sees(v, listed)
  <1> SUFFICES ASSUME DevicesNamedOnce, NEW s \in SourceNames(cfg)
               PROVE  /\ Distinct(v[s]) /\ (DriversDistinct => Range(v[s]) = Listed(s, listed))
                      /\ \A d, e \in Range(v[s]) : DevName[d] = DevName[e] => d = e
    BY DEF Sees
  <1>1. PICK order \in SetToSeqs(Slices), toSource \in driverToSource :
          v = GetSourceDevices(listed, order, toSource)
    BY DEF Inputs
  <1> DEFINE kept == {x \in Slices : SliceDriver[x] \in SourceDrivers /\ toSource[SliceDriver[x]] = s}
             mine == Keep(order, kept)
             l == [i \in DOMAIN mine |-> listed[mine[i]]]
             Of == kept
  <1>2. v[s] = FlattenSeq(l)
    BY <1>1 DEF GetSourceDevices
  <1>3. DriversDistinct => kept = {x \in Slices : s \in SourcesOf(SliceDriver[x])}
    <2>1. ASSUME DriversDistinct, NEW x \in Slices
          PROVE  SliceDriver[x] \in SourceDrivers /\ toSource[SliceDriver[x]] = s <=> s \in SourcesOf(SliceDriver[x])
      BY <2>1, ToSource, OneToOne
    <2> QED BY <2>1
  <1>4. \A x, y \in Of : SliceDriver[x] = SliceDriver[y] /\ x \in Slices
    <2>1. \A x \in kept : s \in SourcesOf(SliceDriver[x]) /\ x \in Slices
      BY ToSource
    <2> QED BY <2>1, OneToOne
  <1>5. Of \subseteq Slices
    OBVIOUS
  <1>6. mine \in Seq(Slices) /\ Range(mine) = Of /\ Distinct(mine)
    <2>1. order \in Seq(Slices) /\ Range(order) = Slices /\ Distinct(order)
      BY OrderLists DEF Lists
    <2> HIDE DEF kept
    <2>2. mine \in Seq(Slices) /\ Range(mine) = Range(order) \cap kept
      BY <2>1, KeepRange
    <2>3. Distinct(mine)
      BY <2>1, KeepDistinct
    <2> QED BY <1>5, <2>1, <2>2, <2>3
  <1>7. DriversDistinct => Listed(s, listed) = UNION {Range(listed[x]) : x \in Of}
    BY <1>3 DEF Listed
  <1> HIDE DEF mine, kept
  <1>8. \A x \in Slices : listed[x] \in Contents[x] /\ listed[x] \in Seq(Dev)
    BY InventoryAssumption DEF Listing
  <1>9. ASSUME NEW x \in Slices, NEW i \in DOMAIN listed[x], NEW j \in DOMAIN listed[x],
               DevName[listed[x][i]] = DevName[listed[x][j]]
        PROVE  i = j
    <2> DEFINE list == listed[x]
    <2>1. Distinct(Field(list, LAMBDA d : DevName[d]))
      BY <1>8 DEF DevicesNamedOnce
    <2> HIDE DEF list
    <2>2. \A p, r \in DOMAIN list : DevName[list[p]] = DevName[list[r]] => p = r
      BY <2>1 DEF Distinct, Field, IsInjective
    <2> QED BY <1>9, <2>2 DEF list
  <1>10. ASSUME NEW x \in Of, NEW y \in Of, NEW d \in Range(listed[x]), NEW e \in Range(listed[y]),
                DevName[d] = DevName[e]
         PROVE  x = y /\ d = e
    <2>1. x \in Slices /\ y \in Slices /\ SliceDriver[x] = SliceDriver[y]
      BY <1>4
    <2>2. x = y
      BY <1>8, <1>10, <2>1 DEF DevicesNamedOnce
    <2>3. PICK i \in DOMAIN listed[x] : d = listed[x][i]
      BY DEF Range
    <2>4. PICK j \in DOMAIN listed[x] : e = listed[x][j]
      BY <2>2 DEF Range
    <2> QED BY <1>9, <1>10, <2>1, <2>2, <2>3, <2>4
  <1>11. /\ Len(mine) \in Nat /\ DOMAIN mine = 1 .. Len(mine)
         /\ \A i \in DOMAIN mine : mine[i] \in Of /\ mine[i] \in Slices
         /\ \A i, j \in DOMAIN mine : mine[i] = mine[j] => i = j
    BY <1>6 DEF Range, Distinct, IsInjective
  <1>12. l \in Seq(Seq(Dev)) /\ DOMAIN l = DOMAIN mine /\ \A i \in DOMAIN mine : l[i] = listed[mine[i]]
    BY <1>8, <1>11
  <1> HIDE DEF l
  <1>13. Range(FlattenSeq(l)) = UNION {Range(l[i]) : i \in DOMAIN l}
    BY <1>12, FlattenRange
  <1>14. UNION {Range(l[i]) : i \in DOMAIN l} = UNION {Range(listed[x]) : x \in Of}
    <2>1. \A x \in Of : \E i \in DOMAIN mine : mine[i] = x
      BY <1>6 DEF Range
    <2> QED BY <1>11, <1>12, <2>1
  <1>15. \A i \in DOMAIN l : Distinct(l[i])
    <2>1. \A x \in Slices : Distinct(listed[x])
      BY <1>9 DEF Distinct, IsInjective
    <2> QED BY <1>11, <1>12, <2>1
  <1>16. \A i, j \in DOMAIN l : i # j => Range(l[i]) \cap Range(l[j]) = {}
    <2>1. ASSUME NEW i \in DOMAIN l, NEW j \in DOMAIN l, NEW d \in Range(l[i]), d \in Range(l[j]) PROVE i = j
      <3>1. mine[i] \in Of /\ mine[j] \in Of /\ d \in Range(listed[mine[i]]) /\ d \in Range(listed[mine[j]])
        BY <1>11, <1>12, <2>1
      <3>2. mine[i] = mine[j]
        BY <1>10, <3>1
      <3> QED BY <1>11, <1>12, <3>2
    <2> QED BY <2>1
  <1>17. Distinct(FlattenSeq(l))
    BY <1>12, <1>15, <1>16, FlattenApart
  <1>18. \A d, e \in UNION {Range(listed[x]) : x \in Of} : DevName[d] = DevName[e] => d = e
    BY <1>10
  <1> QED BY <1>2, <1>7, <1>13, <1>14, <1>17, <1>18

\* The store is what recompute made of the slices it saw.
SeenMade ==
  \E v \in Views :
    /\ Sees(v, seen)
    /\ \E devices \in Outcomes(ComputePairs(cfg.compositions, v, pairLabels)) : store \in Mappings(devices)

\* A recompute that is about to publish was given lists of slices, too.
RunSeen(r) ==
  \E v \in Views : /\ \E view : Sees(v, view)
                   /\ result[r] \in Outcomes(ComputePairs(cfg.compositions, v, pairLabels))

SeenInv ==
  /\ (store = <<>> /\ seen = Nothing) \/ (proc = "serving" /\ SeenMade)
  /\ \A r \in Runs : step[r] = "stored" => RunSeen(r)

LEMMA SeesStays ==
  ASSUME cfg' = cfg
  PROVE  Views' = Views /\ \A v, view : Sees(v, view)' <=> Sees(v, view)
  <1>1. DriversDistinct' <=> DriversDistinct
    BY DEF DriversDistinct, Field
  <1>2. \A s, view : Listed(s, view)' = Listed(s, view)
    BY DEF Listed, SourcesOf
  <1>3. Views' = Views
    BY DEF Views
  <1> QED BY <1>1, <1>2, <1>3 DEF Sees

\* What a recompute saw does not change while it is about to publish.
LEMMA RunSeenStays ==
  ASSUME UNCHANGED <<cfg, pairLabels>>, NEW r, result'[r] = result[r], RunSeen(r)
  PROVE  RunSeen(r)'
  <1>1. PICK v \in Views : /\ \E view : Sees(v, view)
                          /\ result[r] \in Outcomes(ComputePairs(cfg.compositions, v, pairLabels))
    BY DEF RunSeen
  <1>2. v \in Views' /\ (\E view : Sees(v, view))'
    BY <1>1, SeesStays
  <1> QED BY <1>1, <1>2 DEF RunSeen

LEMMA SeenStays ==
  ASSUME SeenInv, UNCHANGED <<cfg, proc, pairLabels, store, seen>>,
         \A r \in Runs : step'[r] = "stored" => step[r] = "stored" /\ result'[r] = result[r]
  PROVE  SeenInv'
  <1>1. Views' = Views
    BY SeesStays
  <1>2. \A v : Sees(v, seen)' <=> Sees(v, seen)
    <2>1. DriversDistinct' <=> DriversDistinct
      BY DEF DriversDistinct, Field
    <2>2. \A s : Listed(s, seen)' = Listed(s, seen)
      BY DEF Listed, SourcesOf
    <2> QED BY <2>1, <2>2 DEF Sees
  <1>3. SeenMade => SeenMade'
    BY <1>1, <1>2 DEF SeenMade
  <1>4. \A r \in Runs : step'[r] = "stored" => RunSeen(r)'
    BY RunSeenStays DEF SeenInv
  <1> QED BY <1>3, <1>4 DEF SeenInv

LEMMA SeenReplace == ASSUME StoreInv, SeenInv, NEW r \in Runs, ReplaceStore(r) PROVE SeenInv'
  <1>1. /\ UNCHANGED <<cfg, proc, pairLabels>> /\ seen' = listing[r] /\ step[r] = "listed"
        /\ step' = [step EXCEPT ![r] = "stored"]
    BY DEF ReplaceStore
  <1>2. PICK v \in Inputs(listing[r]) :
          \E devices \in Outcomes(ComputePairs(cfg.compositions, v, pairLabels)) :
            result' = [result EXCEPT ![r] = devices] /\ store' \in Mappings(devices)
    BY DEF ReplaceStore
  <1>3. PICK devices \in Outcomes(ComputePairs(cfg.compositions, v, pairLabels)) :
          result' = [result EXCEPT ![r] = devices] /\ store' \in Mappings(devices)
    BY <1>2
  <1>4. Listing(listing[r]) /\ proc = "serving" /\ Validate(cfg) /\ DOMAIN result = Runs /\ step \in [Runs -> StepSet]
    BY <1>1 DEF StoreInv, RunsInv
  <1>5. v \in Views /\ Sees(v, listing[r])
    BY <1>4, InputsAreViews, InputsSee
  <1>6. Views' = Views /\ (Sees(v, seen)' <=> Sees(v, listing[r]))
    <2>1. DriversDistinct' <=> DriversDistinct
      BY <1>1 DEF DriversDistinct, Field
    <2>2. \A s : Listed(s, seen)' = Listed(s, listing[r])
      BY <1>1 DEF Listed, SourcesOf
    <2>3. Views' = Views
      BY <1>1 DEF Views
    <2> QED BY <1>1, <2>1, <2>2, <2>3 DEF Sees
  <1>7. SeenMade'
    BY <1>1, <1>3, <1>5, <1>6 DEF SeenMade
  <1>8. ASSUME NEW q \in Runs, step'[q] = "stored" PROVE RunSeen(q)'
    <2>1. CASE q = r
      <3>1. result'[q] = devices
        BY <1>3, <1>4, <2>1
      <3>2. (\E view : Sees(v, view))' /\ v \in Views'
        BY <1>1, <1>5, SeesStays
      <3> QED BY <1>1, <1>3, <3>1, <3>2 DEF RunSeen
    <2>2. CASE q # r
      <3>1. step[q] = "stored" /\ result'[q] = result[q]
        BY <1>1, <1>3, <1>4, <1>8, <2>2
      <3> QED BY <1>1, <3>1, RunSeenStays DEF SeenInv
    <2> QED BY <2>1, <2>2
  <1> QED BY <1>1, <1>4, <1>7, <1>8 DEF SeenInv

LEMMA SeenInvariant == InvSpec => []SeenInv
  <1>1. InvInit => SeenInv
    BY DEF InvInit, SeenInv
  <1>2. StoreInv /\ SeenInv /\ [InvNext]_invVars => SeenInv'
    <2> SUFFICES ASSUME StoreInv, SeenInv, [InvNext]_invVars PROVE SeenInv'
      OBVIOUS
    <2>1. CASE Start
      <3>1. \A r \in Runs : step'[r] = "idle"
        BY <2>1 DEF Start, StoreInv, RunsInv
      <3> QED BY <2>1, <3>1 DEF Start, SeenInv
    <2>2. ASSUME NEW r \in Runs, ListSlices(r) \/ ReplaceStore(r) \/ Publish(r) PROVE SeenInv'
      <3>1. step \in [Runs -> StepSet] /\ DOMAIN result = Runs
        BY DEF StoreInv, RunsInv
      <3>2. CASE ListSlices(r)
        <4>1. \A q \in Runs : step'[q] = "stored" => step[q] = "stored" /\ result'[q] = result[q]
          BY <3>1, <3>2 DEF ListSlices
        <4> QED BY <3>2, <4>1, SeenStays DEF ListSlices
      <3>3. CASE Publish(r)
        <4>1. \A q \in Runs : step'[q] = "stored" => step[q] = "stored" /\ result'[q] = result[q]
          BY <3>1, <3>3 DEF Publish
        <4> QED BY <3>3, <4>1, SeenStays DEF Publish
      <3> QED BY <2>2, <3>2, <3>3, SeenReplace
    <2>3. ASSUME NEW s \in Slices, Change(s) PROVE SeenInv'
      BY <2>3, SeenStays DEF Change
    <2>4. ASSUME NEW c \in Claims, Allocate(c) PROVE SeenInv'
      BY <2>4, SeenStays DEF Allocate
    <2>5. ASSUME NEW c \in Claims, Free(c) PROVE SeenInv'
      BY <2>5, SeenStays DEF Free
    <2>6. ASSUME NEW c \in Claims, Prepare(c) PROVE SeenInv'
      BY <2>6, SeenStays DEF Prepare
    <2>7. CASE UNCHANGED invVars
      BY <2>7, SeenStays
    <2> QED BY <2>1, <2>2, <2>3, <2>4, <2>5, <2>6, <2>7 DEF InvNext
  <1> QED BY <1>1, <1>2, StoreInvariant, PTL DEF InvSpec

----------------------------------------------------------------------------
(* The automatic pairs are exact                                           *)

\* ComputePairs returns every composition's devices.
LEMMA PairsAll ==
  ASSUME cfg \in Configs, Validate(cfg), NEW v \in Views, NEW labels, NEW comp \in Compositions,
         NEW e \in Range(computeForComposition(comp, v, labels))
  PROVE  e \in Range(ComputePairs(cfg.compositions, v, labels))
  <1> DEFINE cs == cfg.compositions
             of(c) == computeForComposition(c, v, labels)
             ss == [i \in DOMAIN cs |-> of(cs[i])]
             A == UNION {Range(of(c)) : c \in Compositions}
  <1>1. ComputePairs(cs, v, labels) = FlattenSeq(ss)
    BY DEF ComputePairs
  <1>2. ASSUME NEW c \in Compositions PROVE of(c) \in Seq(Range(of(c)))
    BY ValidComposition, ViewTyped, Computed
  <1>3. PICK j \in DOMAIN cs : comp = cs[j]
    BY DEF Compositions, Range
  <1>4. e \in Range(of(comp))
    OBVIOUS
  <1> HIDE DEF of
  <1>5. cs \in Seq(Compositions)
    BY InventoryAssumption DEF Compositions
  <1>6. \A c \in Compositions : of(c) \in Seq(A)
    <2>1. \A c \in Compositions : Range(of(c)) \subseteq A
      OBVIOUS
    <2> HIDE DEF A
    <2> QED BY <1>2, <2>1, SeqMonotonic
  <1>7. ss \in Seq(Seq(A)) /\ DOMAIN ss = DOMAIN cs /\ ss[j] = of(comp)
    <2> HIDE DEF A
    <2>1. Len(cs) \in Nat /\ DOMAIN cs = 1 .. Len(cs) /\ \A i \in DOMAIN cs : cs[i] \in Compositions
      BY <1>5
    <2>2. \A i \in DOMAIN cs : of(cs[i]) \in Seq(A)
      BY <1>6, <2>1
    <2>3. ss[j] = of(comp)
      BY <1>3
    <2> HIDE DEF cs
    <2> QED BY <2>1, <2>2, <2>3
  <1> HIDE DEF ss, A
  <1>8. Range(FlattenSeq(ss)) = UNION {Range(ss[i]) : i \in DOMAIN ss}
    BY <1>7, FlattenRange
  <1>9. e \in Range(FlattenSeq(ss))
    BY <1>3, <1>4, <1>7, <1>8
  <1> QED BY <1>1, <1>9

\* The stored devices of a composition are the ones computed for it.
LEMMA StoreOfComposition ==
  ASSUME cfg \in Configs, Validate(cfg), NEW v \in Views,
         NEW devices \in Outcomes(ComputePairs(cfg.compositions, v, pairLabels)), store \in Mappings(devices),
         NEW comp \in Compositions
  PROVE  LET q == computeForComposition(comp, v, pairLabels)
         IN /\ \A k \in KeysOf(comp) : k = Key(store[k]) /\ \E e \in Range(q) : Chosen(store[k], e)
            /\ \A e \in Range(q) : Genuine(comp, e) /\ <<comp.name, e.name>> \in KeysOf(comp)
  <1> DEFINE p == ComputePairs(cfg.compositions, v, pairLabels)
             q == computeForComposition(comp, v, pairLabels)
  <1>1. \A i \in DOMAIN p : \E c \in Compositions :
          p[i] \in Range(computeForComposition(c, v, pairLabels)) /\ Genuine(c, p[i])
    BY PairsOfCompositions
  <1>2. \A e \in Range(q) : e \in Range(p)
    BY PairsAll
  <1>3. \A e \in Range(q) : Genuine(comp, e)
    BY ValidComposition, ViewTyped, Computed
  <1>4. devices \in Outcomes(p)
    OBVIOUS
  <1> HIDE DEF p
  <1>5. \A i \in DOMAIN p : p[i].numa # {} /\ "numa" \in DOMAIN p[i]
    BY <1>1 DEF Genuine
  <1>6. DOMAIN devices = DOMAIN p /\ \A i \in DOMAIN p : Chosen(devices[i], p[i])
    <2>1. /\ devices = [i \in DOMAIN p |-> devices[i]]
          /\ \A i \in DOMAIN p : /\ devices[i].numa \in p[i].numa
                                 /\ devices[i].comp = p[i].comp /\ devices[i].name = p[i].name
                                 /\ devices[i].members = p[i].members /\ devices[i].rail = p[i].rail
      BY ONLY <1>4, <1>5, OutcomesOf
    <2> QED BY <2>1 DEF Chosen
  <1>7. /\ DOMAIN store = {Key(d) : d \in Range(devices)}
        /\ \A k \in DOMAIN store : store[k] \in Range(devices) /\ Key(store[k]) = k
    BY MappingsOf
  <1>8. ASSUME NEW k \in KeysOf(comp) PROVE k = Key(store[k]) /\ \E e \in Range(q) : Chosen(store[k], e)
    <2>1. k \in DOMAIN store /\ store[k].comp = comp.name
      BY DEF KeysOf
    <2>2. store[k] \in Range(devices) /\ Key(store[k]) = k
      BY <1>7, <2>1
    <2>3. PICK i \in DOMAIN p : store[k] = devices[i]
      BY <1>6, <2>2 DEF Range
    <2>4. PICK c \in Compositions :
            p[i] \in Range(computeForComposition(c, v, pairLabels)) /\ Genuine(c, p[i])
      BY <1>1
    <2>5. p[i].comp = c.name /\ Chosen(store[k], p[i])
      BY <1>6, <2>3, <2>4 DEF Genuine
    <2>6. c.name = comp.name
      BY <2>1, <2>5 DEF Chosen
    <2>7. c = comp
      BY <2>6, ValidComposition
    <2> QED BY <2>2, <2>4, <2>5, <2>7
  <1>9. ASSUME NEW e \in Range(q) PROVE <<comp.name, e.name>> \in KeysOf(comp)
    <2>1. PICK i \in DOMAIN p : e = p[i]
      BY <1>2 DEF Range
    <2>2. e.comp = comp.name
      BY <1>3 DEF Genuine
    <2>3. devices[i].comp = comp.name /\ devices[i].name = e.name
      BY <1>6, <2>1, <2>2 DEF Chosen
    <2>4. Key(devices[i]) = <<comp.name, e.name>> /\ devices[i] \in Range(devices)
      BY <1>6, <2>3 DEF Key, Range
    <2> DEFINE k == <<comp.name, e.name>>
    <2>5. k \in DOMAIN store /\ Key(store[k]) = k
      BY <1>7, <2>4
    <2>6. store[k].comp = comp.name
      BY <2>5 DEF Key
    <2> QED BY <2>5, <2>6 DEF KeysOf
  <1> QED BY <1>3, <1>8, <1>9

\* A composition of which AutoPairsExact speaks.
LEMMA PlainOnce ==
  ASSUME cfg \in Configs, Validate(cfg), NEW comp \in Compositions, comp.mode # "explicit", Plain(comp)
  PROVE  AutoOnce(comp) /\ MemberSources(comp) \subseteq SourceNames(cfg) /\ NamesFit(comp)
  <1>1. PairedComposition(comp) /\ MemberSources(comp) \subseteq SourceNames(cfg)
    BY ValidComposition
  <1>2. comp.members # <<>>
    <2>1. PICK i \in DOMAIN cfg.compositions : comp = cfg.compositions[i]
      BY DEF Compositions, Range
    <2> QED BY <2>1 DEF Validate, ValidCompositions, ValidMembers
  <1>3. \A i, j \in DOMAIN comp.members : i # j => comp.members[i].source # comp.members[j].source
    BY DEF Plain, Distinct, Field, IsInjective
  <1>4. NamesFit(comp)
    BY DEF Plain
  <1> QED BY <1>1, <1>2, <1>3, <1>4 DEF AutoOnce

\* Devices agree on an attribute if they share a value of it.
LEMMA AgreeShare ==
  ASSUME NEW a, NEW D, D \subseteq Dev, D # {}
  PROVE  Agree(D, a) <=> \E x \in Values(a) : D \subseteq Sharing(a, x)
  <1>1. ASSUME Agree(D, a) PROVE \E x \in Values(a) : D \subseteq Sharing(a, x)
    <2>1. PICK d \in D : TRUE
      OBVIOUS
    <2>2. HasText(d, a) /\ \A e \in D : HasText(e, a) /\ TextOf(e, a) = TextOf(d, a)
      BY <1>1 DEF Agree
    <2>3. TextOf(d, a) \in Values(a) /\ D \subseteq Sharing(a, TextOf(d, a))
      BY <2>2 DEF Values, Sharing
    <2> QED BY <2>3
  <1>2. ASSUME NEW x, D \subseteq Sharing(a, x) PROVE Agree(D, a)
    BY <1>2 DEF Agree, Sharing
  <1> QED BY <1>1, <1>2

\* What the composition asks for of the slices is what it asks for of the
\* lists.
LEMMA GroupsWanted ==
  ASSUME cfg \in Configs, Validate(cfg), NEW comp \in Compositions, comp.mode # "explicit", Plain(comp),
         DriversDistinct, DevicesNamedOnce, NEW v \in Views, NEW view, Sees(v, view)
  PROVE  /\ Separate(MemberSources(comp), v)
         /\ AutoGroups(comp, view) = Wanted(comp, filtered(comp, v))
         /\ \A s \in MemberSources(comp) : Range(filtered(comp, v)[s]) = Eligible(comp, s, view)
  <1> DEFINE S == MemberSources(comp)
             F == filtered(comp, v)
             el == [s \in S |-> Eligible(comp, s, view)]
             a == comp.constraints[1].attribute
             n == Sizes(comp)
  <1>1. AutoOnce(comp) /\ S \subseteq SourceNames(cfg) /\ PairedComposition(comp)
    BY PlainOnce DEF AutoOnce
  <1>2. \A s \in S : v[s] \in Seq(Dev) /\ Distinct(v[s]) /\ Range(v[s]) = Listed(s, view)
    BY <1>1 DEF Views, Sees
  <1>3. \A s, t \in S : s # t => Range(v[s]) \cap Range(v[t]) = {}
    BY <1>1 DEF Views
  <1>4. Separate(S, v)
    BY <1>2, <1>3 DEF Separate
  <1>5. ASSUME NEW s \in S PROVE Range(F[s]) = Eligible(comp, s, view) /\ F[s] \in Seq(Dev)
    <2>1. /\ F[s] \in Seq(Dev)
          /\ Range(F[s]) = {d \in Range(v[s]) :
               s \in DOMAIN comp.filters => comp.filters[s] = NoExpr \/ Match(comp.filters[s], d)}
      BY <1>2, FilteredIs
    <2>2. Range(v[s]) = Listed(s, view)
      BY <1>2
    <2> QED BY <2>1, <2>2 DEF Eligible, Listed
  <1>6. ASSUME NEW s \in S PROVE n[s] = CountOf(comp, s) /\ n[s] \in Nat \ {0}
    BY <1>1, SizesAre
  <1> HIDE DEF F, n
  <1>7. PICK s0 \in S : TRUE
    <2>1. comp.members \in Seq(Range(comp.members)) /\ comp.members # <<>>
      BY <1>1 DEF AutoOnce, PairedComposition, TypedComposition
    <2>2. 1 \in DOMAIN comp.members
      BY <2>1
    <2> QED BY <2>2 DEF MemberSources
  <1>8. AutoGroups(comp, view) =
          {D \in SUBSET UNION Range(el) : /\ \A s \in S : Cardinality(D \cap el[s]) = CountOf(comp, s)
                                          /\ comp.constraints # <<>> => Agree(D, a)}
    BY DEF AutoGroups
  <1>9. Wanted(comp, F) =
          {D \in Counted(S, F, n) : comp.constraints # <<>> => \E x \in Values(a) : D \subseteq Sharing(a, x)}
    BY DEF Wanted, n
  <1>10. UNION Range(el) = UNION {Range(F[s]) : s \in S}
    BY <1>5 DEF Range
  <1>11. UNION Range(el) \subseteq Dev
    <2>1. ASSUME NEW s \in S PROVE Range(F[s]) \subseteq Dev
      <3> DEFINE x == F[s]
      <3>1. x \in Seq(Dev)
        BY <1>5
      <3> HIDE DEF x
      <3>2. Range(x) \subseteq Dev
        BY <3>1 DEF Range
      <3> QED BY <3>2 DEF x
    <2> QED BY <1>10, <2>1
  <1>12. \A s \in S : el[s] = Range(F[s])
    BY <1>5
  <1> HIDE DEF el, S, a
  <1>13. ASSUME NEW D
         PROVE  D \in Counted(S, F, n)
                  <=> D \in SUBSET UNION Range(el) /\ \A s \in S : Cardinality(D \cap el[s]) = CountOf(comp, s)
    BY <1>6, <1>10, <1>12 DEF Counted
  <1>14. ASSUME NEW D \in Counted(S, F, n) PROVE D \subseteq Dev /\ D # {}
    <2>1. D \subseteq Dev /\ Cardinality(D \cap el[s0]) # 0
      BY <1>6, <1>7, <1>11, <1>13
    <2>2. D \cap el[s0] # {}
      BY <2>1, FS_EmptySet
    <2> QED BY <2>1, <2>2
  <1>15. ASSUME NEW D \in Counted(S, F, n)
         PROVE  Agree(D, a) <=> \E x \in Values(a) : D \subseteq Sharing(a, x)
    BY <1>14, AgreeShare
  <1>16. AutoGroups(comp, view) = Wanted(comp, F)
    BY <1>8, <1>9, <1>13, <1>15
  <1> QED BY <1>4, <1>5, <1>16 DEF S, F

\* A name that is not cut tells a composition's devices apart.
LEMMA NamesApart ==
  ASSUME cfg \in Configs, Validate(cfg), NEW comp \in Compositions, comp.mode # "explicit", Plain(comp),
         DevicesNamedOnce, NEW v \in Views, NEW view, Sees(v, view),
         NEW c \in Combo(comp), NEW d \in Combo(comp),
         \A s \in MemberSources(comp) : Range(c[s]) \subseteq Range(v[s]) /\ Range(d[s]) \subseteq Range(v[s]),
         buildCompositeDevice(comp, c).name = buildCompositeDevice(comp, d).name
  PROVE  DevsOf(buildCompositeDevice(comp, c)) = DevsOf(buildCompositeDevice(comp, d))
  <1> DEFINE build(x) == buildCompositeDevice(comp, x)
             e == build(c)
             f == build(d)
             k == <<comp.name, e.name>>
             S == MemberSources(comp)
  <1>1. /\ AutoOnce(comp) /\ S \subseteq SourceNames(cfg) /\ NamesFit(comp) /\ comp = Composition(comp.name)
        /\ PairedComposition(comp) /\ comp.members # <<>> /\ comp.members \in Seq(Range(comp.members))
    BY PlainOnce, ValidComposition DEF AutoOnce, PairedComposition, TypedComposition
  <1>2. ASSUME NEW x \in Combo(comp)
        PROVE  /\ build(x).comp = comp.name /\ build(x).name = joinedName(build(x).members)
               /\ build(x).members \in Seq([source : S, dev : Dev])
               /\ \A i \in DOMAIN build(x).members :
                    build(x).members[i].dev \in Range(x[build(x).members[i].source])
    <2>1. /\ build(x) = [comp |-> comp.name, members |-> build(x).members, name |-> joinedName(build(x).members),
                         numa |-> detectNUMANode(x), rail |-> 0]
          /\ build(x).members \in Seq([source : S, dev : Dev])
          /\ \A i \in DOMAIN build(x).members :
               build(x).members[i].dev \in Range(x[build(x).members[i].source])
      BY <1>1, BuiltShape
    <2> HIDE DEF build
    <2> QED BY <2>1
  <1>3. e.name = f.name
    OBVIOUS
  <1>4. Made(k, e) /\ Made(k, f)
    <2>1. e.members = buildCompositeDevice(comp, c).members /\ f.members = buildCompositeDevice(comp, d).members
      OBVIOUS
    <2>2. e.comp = comp.name /\ f.comp = comp.name /\ e.name = joinedName(e.members) /\ f.name = joinedName(f.members)
      BY <1>2
    <2> HIDE DEF e, f
    <2> QED BY <1>1, <1>3, <2>1, <2>2 DEF Made, Key
  <1>5. Ids(e) = Ids(f)
    <2>1. k[1] = comp.name
      OBVIOUS
    <2> HIDE DEF k, e, f
    <2> QED BY <1>1, <1>4, <2>1, SameIds
  <1>6. ASSUME NEW x \in Combo(comp), NEW y \in Combo(comp), Ids(build(x)) = Ids(build(y)),
               \A s \in S : Range(x[s]) \subseteq Range(v[s]) /\ Range(y[s]) \subseteq Range(v[s]),
               NEW i \in DOMAIN build(x).members
        PROVE  build(x).members[i].dev \in DevsOf(build(y))
    <2> HIDE DEF build
    <2> DEFINE M == [source : S, dev : Dev]
               mx == build(x).members
               my == build(y).members
    <2>1. mx \in Seq(M) /\ my \in Seq(M)
      BY <1>2
    <2>2. mx[i] \in M /\ mx[i].dev \in Range(x[mx[i].source])
      <3>1. mx[i] \in M
        <4> HIDE DEF M, mx
        <4> QED BY <1>6, <2>1 DEF mx
      <3> QED BY <1>2, <1>6, <3>1
    <2>3. <<mx[i].source, DevName[mx[i].dev]>> \in Ids(build(y))
      BY <1>6 DEF Ids
    <2>4. PICK j \in DOMAIN my : <<mx[i].source, DevName[mx[i].dev]>> = <<my[j].source, DevName[my[j].dev]>>
      BY <2>3 DEF Ids
    <2>5. my[j].dev \in Range(y[my[j].source])
      BY <1>2
    <2>6. mx[i].source = my[j].source /\ DevName[mx[i].dev] = DevName[my[j].dev] /\ mx[i].source \in S
      BY <2>2, <2>4
    <2> HIDE DEF M, mx, my
    <2>7. mx[i].dev \in Range(v[mx[i].source]) /\ my[j].dev \in Range(v[mx[i].source])
      BY <1>6, <2>2, <2>5, <2>6
    <2>8. mx[i].dev = my[j].dev
      BY <1>1, <2>6, <2>7 DEF Sees
    <2> QED BY <2>4, <2>8 DEF DevsOf, mx, my
  <1>7. DevsOf(e) \subseteq DevsOf(f)
    <2> HIDE DEF build, S
    <2>1. \A i \in DOMAIN e.members : e.members[i].dev \in DevsOf(f)
      BY <1>5, <1>6 DEF S
    <2> QED BY <2>1 DEF DevsOf
  <1>8. DevsOf(f) \subseteq DevsOf(e)
    <2> HIDE DEF build, S
    <2>1. \A i \in DOMAIN f.members : f.members[i].dev \in DevsOf(e)
      BY <1>5, <1>6 DEF S
    <2> QED BY <2>1 DEF DevsOf
  <1> QED BY <1>7, <1>8

\* The composition's part of the store, when the slices seen are those of
\* the view: each device stands for a device computed, and each set of
\* devices asked for has one key.
LEMMA ExactInStore ==
  ASSUME cfg \in Configs, Validate(cfg), NEW comp \in Compositions, comp.mode # "explicit", Plain(comp),
         DriversDistinct, DevicesNamedOnce, NEW v \in Views, Sees(v, seen),
         NEW devices \in Outcomes(ComputePairs(cfg.compositions, v, pairLabels)), store \in Mappings(devices)
  PROVE  /\ Offered(comp) = AutoGroups(comp, seen)
         /\ Cardinality(KeysOf(comp)) = Cardinality(AutoGroups(comp, seen))
         /\ \A k \in KeysOf(comp) : \E c \in Combo(comp) :
              /\ k = <<comp.name, buildCompositeDevice(comp, c).name>>
              /\ Devs(store[k]) = DevsOf(buildCompositeDevice(comp, c))
              /\ \A s \in MemberSources(comp) : Range(c[s]) \subseteq Listed(s, seen)
  <1> DEFINE q == computeForComposition(comp, v, pairLabels)
             F == filtered(comp, v)
             S == MemberSources(comp)
             W == AutoGroups(comp, seen)
             build(c) == buildCompositeDevice(comp, c)
             K == KeysOf(comp)
  <1>1. AutoOnce(comp) /\ S \subseteq SourceNames(cfg) /\ NameParts \in Nat
    BY PlainOnce, InventoryAssumption
  <1>2. Separate(S, v) /\ W = Wanted(comp, F) /\ \A s \in S : Range(F[s]) = Eligible(comp, s, seen)
    BY GroupsWanted
  <1>3. /\ {DevsOf(e) : e \in Range(q)} = W
        /\ \A e, f \in Range(q) : DevsOf(e) = DevsOf(f) => e = f
        /\ \A e \in Range(q) : \E c \in Combo(comp) : e = build(c) /\ \A s \in S : Range(c[s]) \subseteq Range(F[s])
    BY <1>1, <1>2, AutoExact
  <1>4. /\ \A k \in K : k = Key(store[k]) /\ \E e \in Range(q) : Chosen(store[k], e)
        /\ \A e \in Range(q) : <<comp.name, e.name>> \in K
    BY StoreOfComposition
  <1>5. \A s \in S : Range(F[s]) \subseteq Listed(s, seen) /\ Listed(s, seen) = Range(v[s])
    BY <1>1, <1>2 DEF Eligible, Listed, Sees
  <1> HIDE DEF q, F, W, S, K
  <1>6. ASSUME NEW k \in K
        PROVE  \E e \in Range(q) : Devs(store[k]) = DevsOf(e) /\ k = <<comp.name, e.name>>
    <2>1. k = Key(store[k]) /\ store[k].comp = comp.name
      BY <1>4 DEF K, KeysOf
    <2>2. PICK e \in Range(q) : Chosen(store[k], e)
      BY <1>4
    <2>3. Devs(store[k]) = DevsOf(e)
      BY <2>2 DEF Devs, DevsOf, Chosen
    <2>4. k = <<comp.name, e.name>>
      BY <2>1, <2>2 DEF Key, Chosen
    <2> QED BY <2>3, <2>4
  <1>7. ASSUME NEW e \in Range(q), NEW f \in Range(q), e.name = f.name PROVE DevsOf(e) = DevsOf(f)
    <2>1. PICK c \in Combo(comp) : e = build(c) /\ \A s \in S : Range(c[s]) \subseteq Range(v[s])
      BY <1>3, <1>5
    <2>2. PICK d \in Combo(comp) : f = build(d) /\ \A s \in S : Range(d[s]) \subseteq Range(v[s])
      BY <1>3, <1>5
    <2> QED BY <1>7, <2>1, <2>2, NamesApart DEF S
  <1>8. ASSUME NEW e \in Range(q)
        PROVE  <<comp.name, e.name>> \in K /\ Devs(store[<<comp.name, e.name>>]) = DevsOf(e)
    <2> DEFINE k == <<comp.name, e.name>>
    <2>1. k \in K
      BY <1>4
    <2>2. PICK f \in Range(q) : Devs(store[k]) = DevsOf(f) /\ k = <<comp.name, f.name>>
      BY <1>6, <2>1
    <2>3. f.name = e.name
      BY <2>2
    <2> QED BY <1>7, <2>1, <2>2, <2>3
  <1>9. Offered(comp) = {Devs(store[k]) : k \in K}
    BY DEF Offered, K
  <1>10. Offered(comp) = W
    <2>1. \A k \in K : Devs(store[k]) \in W
      BY <1>3, <1>6
    <2>2. \A D \in W : \E k \in K : Devs(store[k]) = D
      BY <1>3, <1>8
    <2> QED BY <1>9, <2>1, <2>2
  <1>11. Cardinality(K) = Cardinality(W)
    <2> DEFINE f == [k \in K |-> Devs(store[k])]
    <2>1. f \in [K -> W] /\ \A D \in W : \E k \in K : f[k] = D
      BY <1>9, <1>10
    <2>2. ASSUME NEW k \in K, NEW l \in K, f[k] = f[l] PROVE k = l
      <3>1. PICK e \in Range(q) : Devs(store[k]) = DevsOf(e) /\ k = <<comp.name, e.name>>
        BY <1>6
      <3>2. PICK g \in Range(q) : Devs(store[l]) = DevsOf(g) /\ l = <<comp.name, g.name>>
        BY <1>6
      <3>3. DevsOf(e) = DevsOf(g)
        BY <2>2, <3>1, <3>2
      <3>4. e = g
        BY <1>3, <3>3
      <3> QED BY <3>1, <3>2, <3>4
    <2> HIDE DEF f
    <2>3. f \in Bijection(K, W)
      BY <2>1, <2>2 DEF Bijection, Injection, Surjection, IsInjective
    <2>4. IsFiniteSet(W)
      <3>1. \A D \in W : D \in SUBSET Dev
        <4>1. ASSUME NEW e \in Range(q) PROVE DevsOf(e) \subseteq Dev
          <5>1. PICK c \in Combo(comp) : e = build(c)
            BY <1>3
          <5>2. comp.members \in Seq(Range(comp.members))
            BY <1>1 DEF AutoOnce, PairedComposition, TypedComposition
          <5>3. DevsOf(e) = UNION {Range(c[s]) : s \in MemberSources(comp)}
            BY <5>1, <5>2, BuiltShape
          <5>4. \A s \in MemberSources(comp) : c[s] \in Seq(Dev)
            BY DEF Combo
          <5>5. \A x \in Seq(Dev) : Range(x) \subseteq Dev
            BY DEF Range
          <5> QED BY <5>3, <5>4, <5>5
        <4> QED BY <1>3, <4>1
      <3>2. IsFiniteSet(SUBSET Dev)
        BY PairerAssumption, FS_SUBSET
      <3>3. W \in SUBSET (SUBSET Dev)
        BY <3>1
      <3> QED BY <3>2, <3>3, FS_Subset
    <2>5. ExistsBijection(W, K)
      <3>1. ExistsBijection(K, W)
        BY <2>3 DEF ExistsBijection
      <3> QED BY <3>1, Fun_ExistsBijSymmetric
    <2> QED BY <2>4, <2>5, FS_Bijection
  <1>12. ASSUME NEW k \in K
         PROVE  \E c \in Combo(comp) : /\ k = <<comp.name, build(c).name>> /\ Devs(store[k]) = DevsOf(build(c))
                                       /\ \A s \in S : Range(c[s]) \subseteq Listed(s, seen)
    <2>1. PICK e \in Range(q) : Devs(store[k]) = DevsOf(e) /\ k = <<comp.name, e.name>>
      BY <1>6
    <2>2. PICK c \in Combo(comp) : e = build(c) /\ \A s \in S : Range(c[s]) \subseteq Range(F[s])
      BY <1>3
    <2> QED BY <1>5, <2>1, <2>2
  <1> QED BY <1>10, <1>11, <1>12 DEF K, W, S, build

\* The pairs of an automatic composition, with the selection behind each.
ExactInv ==
  proc = "serving" /\ DriversDistinct =>
    \A comp \in {c \in Compositions : c.mode # "explicit" /\ Plain(c)} :
      /\ Offered(comp) = AutoGroups(comp, seen)
      /\ Cardinality(KeysOf(comp)) = Cardinality(AutoGroups(comp, seen))
      /\ \A k \in KeysOf(comp) : \E c \in Combo(comp) :
           /\ k = <<comp.name, buildCompositeDevice(comp, c).name>>
           /\ Devs(store[k]) = DevsOf(buildCompositeDevice(comp, c))
           /\ \A s \in MemberSources(comp) : Range(c[s]) \subseteq Listed(s, seen)

\* Without devices there is nothing to offer.
LEMMA NothingWanted ==
  ASSUME NEW comp, PairedComposition(comp), comp.members # <<>>
  PROVE  AutoGroups(comp, Nothing) = {}
  <1> DEFINE S == MemberSources(comp)
             el == [s \in S |-> Eligible(comp, s, Nothing)]
  <1>1. \A s \in S : el[s] = {}
    <2>1. \A x \in Slices : Range(Nothing[x]) = {}
      BY RangeOfOne DEF Nothing
    <2>2. \A s \in S : Eligible(comp, s, Nothing) = {}
      BY <2>1 DEF Eligible
    <2> QED BY <2>2
  <1>2. PICK s \in S : TRUE
    <2>1. comp.members \in Seq(Range(comp.members))
      BY DEF PairedComposition, TypedComposition
    <2>2. 1 \in DOMAIN comp.members
      BY <2>1
    <2> QED BY <2>2 DEF MemberSources
  <1>3. CountOf(comp, s) # 0
    BY SizesAre
  <1>4. \A D \in AutoGroups(comp, Nothing) : Cardinality(D \cap el[s]) = CountOf(comp, s)
    BY DEF AutoGroups
  <1>5. \A D : Cardinality(D \cap el[s]) = 0
    BY <1>1, FS_EmptySet
  <1>6. ASSUME NEW D \in AutoGroups(comp, Nothing) PROVE FALSE
    <2>1. Cardinality(D \cap el[s]) = CountOf(comp, s) /\ Cardinality(D \cap el[s]) = 0
      BY <1>4, <1>5
    <2> QED BY <1>3, <2>1
  <1> QED BY <1>6

LEMMA ExactNow ==
  ASSUME DevicesNamedOnce, StoreInv, SeenInv
  PROVE  ExactInv
  <1> SUFFICES ASSUME proc = "serving", DriversDistinct,
                      NEW comp \in Compositions, comp.mode # "explicit", Plain(comp)
               PROVE  /\ Offered(comp) = AutoGroups(comp, seen)
                      /\ Cardinality(KeysOf(comp)) = Cardinality(AutoGroups(comp, seen))
                      /\ \A k \in KeysOf(comp) : \E c \in Combo(comp) :
                           /\ k = <<comp.name, buildCompositeDevice(comp, c).name>>
                           /\ Devs(store[k]) = DevsOf(buildCompositeDevice(comp, c))
                           /\ \A s \in MemberSources(comp) : Range(c[s]) \subseteq Listed(s, seen)
    BY DEF ExactInv
  <1>1. cfg \in Configs /\ Validate(cfg)
    BY DEF StoreInv
  <1>2. CASE store = <<>> /\ seen = Nothing
    <2>1. PairedComposition(comp) /\ comp.members # <<>>
      BY <1>1, PlainOnce DEF AutoOnce
    <2>2. AutoGroups(comp, seen) = {}
      BY <1>2, <2>1, NothingWanted
    <2>3. DOMAIN store = {}
      BY <1>2
    <2>4. KeysOf(comp) = {}
      BY <2>3 DEF KeysOf
    <2>5. Offered(comp) = {}
      BY <2>4 DEF Offered
    <2> QED BY <2>2, <2>4, <2>5
  <1>3. CASE SeenMade
    <2>1. PICK v \in Views : /\ Sees(v, seen)
                             /\ \E devices \in Outcomes(ComputePairs(cfg.compositions, v, pairLabels)) :
                                  store \in Mappings(devices)
      BY <1>3 DEF SeenMade
    <2> QED BY <1>1, <2>1, ExactInStore
  <1> QED BY <1>2, <1>3 DEF SeenInv

LEMMA ExactInvariant == DevicesNamedOnce => (InvSpec => []ExactInv)
  <1> SUFFICES ASSUME DevicesNamedOnce PROVE InvSpec => []ExactInv
    OBVIOUS
  <1>1. StoreInv /\ SeenInv => ExactInv
    BY ExactNow
  <1> QED BY <1>1, StoreInvariant, SeenInvariant, PTL

\* The pairing algorithms offer exactly the groups of devices that an
\* automatic composition asks for, each under one name, for every inventory
\* whose drivers name their devices apart.
THEOREM AutoPairsAreExact == DevicesNamedOnce => (InvSpec => []AutoPairsExact)
  <1> SUFFICES ASSUME DevicesNamedOnce PROVE InvSpec => []AutoPairsExact
    OBVIOUS
  <1>1. ExactInv => AutoPairsExact
    BY DEF ExactInv, AutoPairsExact
  <1>2. InvSpec => []ExactInv
    BY ExactInvariant
  <1> QED BY <1>1, <1>2, PTL

----------------------------------------------------------------------------
(* The offer is stable                                                     *)

\* Contents of the slices, or of none.
SeenType(view) == \A x \in Slices : view[x] \in Contents[x] \cup {<<>>}

LEMMA ListedDriver ==
  ASSUME NEW view, SeenType(view), NEW other, SeenType(other), NEW x \in Slices, NEW y \in Slices,
         NEW d \in Range(view[x]), d \in Range(other[y])
  PROVE  SliceDriver[x] = SliceDriver[y]
  <1>1. view[x] # <<>> /\ other[y] # <<>>
    BY RangeOfOne
  <1>2. view[x] \in Contents[x] /\ other[y] \in Contents[y]
    BY <1>1 DEF SeenType
  <1> QED BY <1>2, InventoryAssumption

\* A device stays with its source.
LEMMA ListedApart ==
  ASSUME Validate(cfg), DriversDistinct, NEW view, SeenType(view), NEW other, SeenType(other),
         NEW s, NEW t, NEW d \in Listed(s, view), d \in Listed(t, other)
  PROVE  s = t
  <1>1. PICK x \in Slices : s \in SourcesOf(SliceDriver[x]) /\ d \in Range(view[x])
    BY DEF Listed
  <1>2. PICK y \in Slices : t \in SourcesOf(SliceDriver[y]) /\ d \in Range(other[y])
    BY DEF Listed
  <1>3. SliceDriver[x] = SliceDriver[y]
    BY <1>1, <1>2, ListedDriver
  <1> QED BY <1>1, <1>2, <1>3, OneToOne

LEMMA StillListed ==
  ASSUME NEW view, SeenType(view), NEW other, SeenType(other), NEW s, NEW d \in Listed(s, view),
         NEW y \in Slices, d \in Range(other[y])
  PROVE  d \in Listed(s, other)
  <1>1. PICK x \in Slices : s \in SourcesOf(SliceDriver[x]) /\ d \in Range(view[x])
    BY DEF Listed
  <1>2. SliceDriver[x] = SliceDriver[y]
    BY <1>1, ListedDriver
  <1> QED BY <1>1, <1>2 DEF Listed

\* A group whose devices are still there is still asked for.
LEMMA StillWanted ==
  ASSUME Validate(cfg), DriversDistinct, NEW view, SeenType(view), NEW other, SeenType(other),
         NEW comp, NEW D \in AutoGroups(comp, view), D \subseteq UNION {Range(other[x]) : x \in Slices}
  PROVE  D \in AutoGroups(comp, other)
  <1> DEFINE S == MemberSources(comp)
             old == [s \in S |-> Eligible(comp, s, view)]
             new == [s \in S |-> Eligible(comp, s, other)]
             Pass(s, d) == s \in DOMAIN comp.filters => comp.filters[s] = NoExpr \/ Match(comp.filters[s], d)
  <1>1. /\ D \subseteq UNION Range(old)
        /\ \A s \in S : Cardinality(D \cap old[s]) = CountOf(comp, s)
        /\ comp.constraints # <<>> => Agree(D, comp.constraints[1].attribute)
    BY DEF AutoGroups
  <1>2. /\ \A s \in S : \A d : d \in old[s] <=> d \in Listed(s, view) /\ Pass(s, d)
        /\ \A s \in S : \A d : d \in new[s] <=> d \in Listed(s, other) /\ Pass(s, d)
    BY DEF Eligible, Listed
  <1>3. \A d \in D : \E s \in S : d \in old[s]
    BY <1>1 DEF Range
  <1>4. DOMAIN old = S /\ DOMAIN new = S
    OBVIOUS
  <1> HIDE DEF Pass, old, new
  <1>5. ASSUME NEW d \in D, NEW s \in S, d \in old[s] PROVE d \in new[s]
    <2>1. PICK y \in Slices : d \in Range(other[y])
      OBVIOUS
    <2>2. d \in Listed(s, other)
      BY <1>2, <1>5, <2>1, StillListed
    <2> QED BY <1>2, <1>5, <2>2
  <1>6. ASSUME NEW d \in D, NEW s \in S, d \in new[s] PROVE d \in old[s]
    <2>1. PICK t \in S : d \in old[t]
      BY <1>3
    <2>2. s = t
      BY <1>2, <1>6, <2>1, ListedApart
    <2> QED BY <2>1, <2>2
  <1>7. \A s \in S : D \cap old[s] = D \cap new[s]
    BY <1>5, <1>6
  <1>8. D \subseteq UNION Range(new)
    BY <1>3, <1>4, <1>5 DEF Range
  <1>9. \A s \in S : Cardinality(D \cap new[s]) = CountOf(comp, s)
    BY <1>1, <1>7
  <1> QED BY <1>1, <1>8, <1>9 DEF AutoGroups, new

\* With one device of each source, the devices tell the selection.
LEMMA OneOfEach ==
  ASSUME Validate(cfg), DriversDistinct, NEW view, SeenType(view), NEW other, SeenType(other),
         NEW comp, AutoOnce(comp), \A m \in Range(comp.members) : m.count = 1,
         NEW c \in Combo(comp), NEW d \in Combo(comp),
         \A s \in MemberSources(comp) : Range(c[s]) \subseteq Listed(s, view),
         \A s \in MemberSources(comp) : Range(d[s]) \subseteq Listed(s, other),
         DevsOf(buildCompositeDevice(comp, c)) = DevsOf(buildCompositeDevice(comp, d))
  PROVE  c = d
  <1> DEFINE S == MemberSources(comp)
  <1>1. comp.members \in Seq(Range(comp.members))
    BY DEF AutoOnce, PairedComposition, TypedComposition
  <1>2. UNION {Range(c[s]) : s \in S} = UNION {Range(d[s]) : s \in S}
    BY <1>1, BuiltShape
  <1>3. ASSUME NEW s \in S PROVE Sizes(comp)[s] = 1
    <2>1. PICK j \in DOMAIN comp.members : s = comp.members[j].source
      BY DEF MemberSources
    <2>2. Sizes(comp)[s] = comp.members[j].count
      BY <2>1, OnceCount
    <2>3. comp.members[j].count = 1
      BY DEF Range
    <2> QED BY <2>2, <2>3
  <1>4. /\ c = [s \in S |-> c[s]] /\ d = [s \in S |-> d[s]]
        /\ \A s \in S : c[s] \in Seq(Dev) /\ d[s] \in Seq(Dev) /\ Len(c[s]) = 1 /\ Len(d[s]) = 1
    BY <1>3 DEF Combo
  <1>5. ASSUME NEW s \in S PROVE c[s] = d[s]
    <2> DEFINE x == c[s]
               y == d[s]
    <2>1. x \in Seq(Dev) /\ Len(x) = 1 /\ y \in Seq(Dev) /\ Len(y) = 1
      BY <1>4
    <2>2. Range(y) \subseteq Range(x)
      <3>1. ASSUME NEW e \in Range(y) PROVE e \in Range(x)
        <4>1. PICK t \in S : e \in Range(c[t])
          BY <1>2
        <4>2. e \in Listed(t, view) /\ e \in Listed(s, other)
          BY <4>1
        <4>3. s = t
          BY <4>2, ListedApart
        <4> QED BY <4>1, <4>3
      <3> QED BY <3>1
    <2> HIDE DEF x, y
    <2>3. x = <<x[1]>> /\ y = <<y[1]>>
      BY <2>1
    <2>4. Range(x) = {x[1]} /\ Range(y) = {y[1]}
      BY <2>3, RangeOfOne
    <2>5. x = y
      BY <2>2, <2>3, <2>4
    <2> QED BY <2>5 DEF x, y
  <1> QED BY <1>4, <1>5

\* The step of OfferStable.
Stable(k) ==
  LET comp == Composition(store[k].comp)
  IN /\ comp.mode # "explicit" /\ Plain(comp)
     /\ Devs(store[k]) \subseteq UNION {Range(seen'[x]) : x \in Slices}
     => \E l \in DOMAIN store' :
          /\ store'[l].comp = comp.name /\ Devs(store'[l]) = Devs(store[k])
          /\ (\A m \in Range(comp.members) : m.count = 1) => l = k

LEMMA StableReplace ==
  ASSUME StoreInv, InvTypeOK, InvTypeOK', ExactInv, ExactInv', NEW r \in Runs, ReplaceStore(r),
         DriversDistinct, NEW k \in DOMAIN store
  PROVE  Stable(k)
  <1> DEFINE new == seen'
  <1>1. UNCHANGED <<cfg, proc>> /\ proc = "serving"
    BY DEF ReplaceStore, StoreInv, RunsInv
  <1>2. cfg \in Configs /\ Validate(cfg) /\ store # <<>>
    BY <1>1 DEF StoreInv
  <1>3. SeenType(seen) /\ SeenType(new)
    BY DEF InvTypeOK, SeenType
  <1>4. PICK comp \in Compositions : comp.name = store[k].comp
    <2>1. PICK comp \in Compositions : \E e : Genuine(comp, e) /\ Chosen(store[k], e)
      BY <1>2, StoreShape
    <2> QED BY <2>1 DEF Genuine, Chosen
  <1>5. Composition(store[k].comp) = comp
    BY <1>2, <1>4, ValidComposition
  <1> SUFFICES ASSUME comp.mode # "explicit", Plain(comp),
                      Devs(store[k]) \subseteq UNION {Range(new[x]) : x \in Slices}
               PROVE  \E l \in DOMAIN store' :
                        /\ store'[l].comp = comp.name /\ Devs(store'[l]) = Devs(store[k])
                        /\ (\A m \in Range(comp.members) : m.count = 1) => l = k
    BY <1>5 DEF Stable
  <1> DEFINE Old(c) == /\ k = <<comp.name, buildCompositeDevice(comp, c).name>>
                       /\ Devs(store[k]) = DevsOf(buildCompositeDevice(comp, c))
                       /\ \A s \in MemberSources(comp) : Range(c[s]) \subseteq Listed(s, seen)
  <1>6. k \in KeysOf(comp)
    BY <1>4 DEF KeysOf
  <1>7. Offered(comp) = AutoGroups(comp, seen) /\ \E c \in Combo(comp) : Old(c)
    BY <1>1, <1>6 DEF ExactInv
  <1>8. DriversDistinct' /\ proc' = "serving" /\ comp \in Compositions'
    BY <1>1 DEF DriversDistinct, Compositions, Field
  <1>9. /\ \A s : \A view : Listed(s, view)' = Listed(s, view')
        /\ \A s : Listed(s, seen)' = Listed(s, new)
    BY <1>1 DEF Listed, SourcesOf
  <1>10. AutoGroups(comp, seen)' = AutoGroups(comp, new)
    BY <1>1 DEF AutoGroups, Eligible, SourcesOf
  <1> DEFINE K == {l \in DOMAIN store' : store'[l].comp = comp.name}
             New(l, c) == /\ l = <<comp.name, buildCompositeDevice(comp, c).name>>
                          /\ Devs(store'[l]) = DevsOf(buildCompositeDevice(comp, c))
                          /\ \A s \in MemberSources(comp) : Range(c[s]) \subseteq Listed(s, new)
  <1>11. /\ {Devs(store'[l]) : l \in K} = AutoGroups(comp, new)
         /\ \A l \in K : \E c \in Combo(comp) : New(l, c)
    BY <1>8, <1>9, <1>10 DEF ExactInv, Offered, KeysOf, Devs
  <1>12. Devs(store[k]) \in AutoGroups(comp, new)
    <2>1. Devs(store[k]) \in AutoGroups(comp, seen)
      BY <1>6, <1>7 DEF Offered
    <2> QED BY <1>2, <1>3, <2>1, StillWanted
  <1>13. PICK l \in K : Devs(store'[l]) = Devs(store[k])
    BY <1>11, <1>12
  <1>14. ASSUME \A m \in Range(comp.members) : m.count = 1 PROVE l = k
    <2>1. PICK c \in Combo(comp) : Old(c)
      BY <1>7
    <2>2. PICK d \in Combo(comp) : New(l, d)
      BY <1>11
    <2>3. AutoOnce(comp)
      BY <1>2, PlainOnce
    <2>4. DevsOf(buildCompositeDevice(comp, c)) = DevsOf(buildCompositeDevice(comp, d))
      BY <1>13, <2>1, <2>2
    <2>5. c = d
      BY <1>2, <1>3, <1>14, <2>1, <2>2, <2>3, <2>4, OneOfEach
    <2> QED BY <2>1, <2>2, <2>5
  <1> QED BY <1>13, <1>14

\* A recompute leaves an automatic composite device whose underlying devices
\* it has listed in the store, under its name if it has one of each source,
\* whatever other recomputes did between its listing and its ReplaceAll.
THEOREM OffersAreStable == DevicesNamedOnce => (InvSpec => OfferStable)
  <1> SUFFICES ASSUME DevicesNamedOnce PROVE InvSpec => OfferStable
    OBVIOUS
  <1> DEFINE Step == store' # store /\ DriversDistinct => \A k \in DOMAIN store : Stable(k)
  <1>1. StoreInv /\ InvTypeOK /\ InvTypeOK' /\ ExactInv /\ ExactInv' /\ [InvNext]_invVars => [Step]_invVars
    <2> SUFFICES ASSUME StoreInv, InvTypeOK, InvTypeOK', ExactInv, ExactInv', [InvNext]_invVars,
                        store' # store, DriversDistinct, NEW k \in DOMAIN store
                 PROVE  Stable(k)
      OBVIOUS
    <2>1. PICK r \in Runs : ReplaceStore(r)
      BY DEF InvNext, Start, ListSlices, Publish, Change, Allocate, Free, Prepare
    <2> QED BY <2>1, StableReplace
  <1>2. InvSpec => []ExactInv
    BY ExactInvariant
  <1>3. InvSpec => [][Step]_invVars
    BY <1>1, <1>2, StoreInvariant, InventoryTypeCorrect, PTL DEF InvSpec
  <1>4. [][Step]_invVars => OfferStable
    BY DEF OfferStable, Stable
  <1> QED BY <1>3, <1>4

----------------------------------------------------------------------------
(* Names are published once                                                *)

\* The lists of a view that a composition selects from.
LEMMA ViewSeparate ==
  ASSUME cfg \in Configs, Validate(cfg), NEW comp \in Compositions,
         DevicesNamedOnce, NEW v \in Views, NEW view, Sees(v, view)
  PROVE  Separate(MemberSources(comp), v)
  <1>1. MemberSources(comp) \subseteq SourceNames(cfg)
    BY ValidComposition
  <1>2. \A s \in MemberSources(comp) : v[s] \in Seq(Dev) /\ Distinct(v[s])
    BY <1>1 DEF Views, Sees
  <1>3. \A s, t \in MemberSources(comp) : s # t => Range(v[s]) \cap Range(v[t]) = {}
    BY <1>1 DEF Views
  <1> QED BY <1>2, <1>3 DEF Separate

\* No two composite devices of a composition have the same name.
LEMMA NamedOnce ==
  ASSUME cfg \in Configs, Validate(cfg), NEW comp \in Compositions, Plain(comp),
         DevicesNamedOnce, NEW v \in Views, NEW view, Sees(v, view), NEW labels
  PROVE  LET q == computeForComposition(comp, v, labels)
         IN \A i, j \in DOMAIN q : q[i].name = q[j].name => i = j
  <1> DEFINE q == computeForComposition(comp, v, labels)
             F == filtered(comp, v)
             S == MemberSources(comp)
  <1>1. /\ PairedComposition(comp) /\ S \subseteq SourceNames(cfg) /\ comp = Composition(comp.name)
        /\ NameParts \in Nat /\ NamesFit(comp)
    BY ValidComposition, InventoryAssumption DEF Plain
  <1>2. comp.members # <<>> /\ comp.members \in Seq(Range(comp.members))
    <2>1. PICK i \in DOMAIN cfg.compositions : comp = cfg.compositions[i]
      BY DEF Compositions, Range
    <2> QED BY <1>1, <2>1 DEF Validate, ValidCompositions, ValidMembers, PairedComposition, TypedComposition
  <1>3. \A s \in S : v[s] \in Seq(Dev) /\ F[s] \in Seq(Dev) /\ Range(F[s]) \subseteq Range(v[s])
    BY ViewTyped, FilteredType
  <1>4. q \in Seq(Range(q)) /\ \A e \in Range(q) : Genuine(comp, e)
    BY <1>1, <1>3, Computed
  <1> HIDE DEF q, F
  <1>5. ASSUME NEW e \in Range(q), NEW f \in Range(q), e.name = f.name PROVE Ids(e) = Ids(f)
    <2> DEFINE k == <<comp.name, e.name>>
    <2>1. ASSUME NEW d \in Range(q), d.name = e.name PROVE Made(k, d)
      <3>1. Genuine(comp, d)
        BY <1>4
      <3>2. PICK c \in Combo(comp) : d.members = buildCompositeDevice(comp, c).members
        BY <3>1 DEF Genuine
      <3> QED BY <1>1, <1>2, <2>1, <3>1, <3>2 DEF Made, Key, Genuine
    <2>2. Made(k, e) /\ Made(k, f)
      BY <1>5, <2>1
    <2>3. k[1] = comp.name
      OBVIOUS
    <2> HIDE DEF k
    <2> QED BY <1>1, <2>2, <2>3, SameIds
  <1>6. ASSUME comp.mode = "explicit"
        PROVE  Distinct(q) /\ \A e, f \in Range(q) : e.name = f.name => e = f
    <2>1. q = pairWithExplicit(comp, F, labels)
      BY <1>6 DEF computeForComposition, q, F
    <2>2. ExplicitComposition(comp)
      BY <1>1, <1>6 DEF PairedComposition, ExplicitComposition
    <2>3. /\ Distinct(q)
          /\ \A e, f \in Range(q) : e # f => \A s \in S : NamesIn(e, s) \cap NamesIn(f, s) = {}
      BY <1>1, <1>2, <1>3, <2>1, <2>2, ExplicitLists
    <2>4. ASSUME NEW e \in Range(q), NEW f \in Range(q), e.name = f.name, e # f PROVE FALSE
      <3>1. PICK c \in Combo(comp) : e.members = buildCompositeDevice(comp, c).members
        BY <1>4 DEF Genuine
      <3>2. e.members \in Seq([source : S, dev : Dev]) /\ Len(e.members) \in Nat \ {0}
        BY <1>1, <1>2, <3>1, MembersOf
      <3>3. 1 \in DOMAIN e.members /\ e.members[1].source \in S
        <4> DEFINE M == [source : S, dev : Dev]
        <4>1. \A m \in M : m.source \in S
          OBVIOUS
        <4>2. e.members \in Seq(M)
          BY <3>2
        <4> HIDE DEF M
        <4>3. 1 \in DOMAIN e.members /\ e.members[1] \in M
          BY <3>2, <4>2
        <4> QED BY <4>1, <4>3
      <3> DEFINE s == e.members[1].source
                 n == DevName[e.members[1].dev]
      <3>4. <<s, n>> \in Ids(e)
        BY <3>3 DEF Ids
      <3>5. <<s, n>> \in Ids(f)
        BY <1>5, <2>4, <3>4
      <3>6. PICK i \in DOMAIN f.members : <<s, n>> = <<f.members[i].source, DevName[f.members[i].dev]>>
        BY <3>5 DEF Ids
      <3>7. n \in NamesIn(e, s)
        BY <3>3 DEF NamesIn
      <3>8. s = f.members[i].source /\ n = DevName[f.members[i].dev]
        BY <3>6
      <3>9. n \in NamesIn(f, s)
        <4> HIDE DEF s, n
        <4> QED BY <3>8 DEF NamesIn
      <3> QED BY <2>3, <2>4, <3>3, <3>7, <3>9
    <2> QED BY <2>3, <2>4
  <1>7. ASSUME comp.mode # "explicit"
        PROVE  Distinct(q) /\ \A e, f \in Range(q) : e.name = f.name => e = f
    <2>1. AutoOnce(comp) /\ Separate(S, v)
      BY <1>7, PlainOnce, ViewSeparate
    <2>2. /\ Distinct(q) /\ \A e, f \in Range(q) : DevsOf(e) = DevsOf(f) => e = f
          /\ \A e \in Range(q) : \E c \in Combo(comp) :
               e = buildCompositeDevice(comp, c) /\ \A s \in S : Range(c[s]) \subseteq Range(F[s])
      BY <1>1, <2>1, AutoExact DEF q, F
    <2>3. ASSUME NEW e \in Range(q), NEW f \in Range(q), e.name = f.name PROVE e = f
      <3>1. PICK c \in Combo(comp) : e = buildCompositeDevice(comp, c) /\ \A s \in S : Range(c[s]) \subseteq Range(F[s])
        BY <2>2
      <3>2. PICK d \in Combo(comp) : f = buildCompositeDevice(comp, d) /\ \A s \in S : Range(d[s]) \subseteq Range(F[s])
        BY <2>2
      <3>3. \A s \in S : Range(c[s]) \subseteq Range(v[s]) /\ Range(d[s]) \subseteq Range(v[s])
        BY <1>3, <3>1, <3>2
      <3>4. DevsOf(e) = DevsOf(f)
        BY <1>7, <2>3, <3>1, <3>2, <3>3, NamesApart
      <3> QED BY <2>2, <3>4
    <2> QED BY <2>2, <2>3
  <1>8. Distinct(q) /\ \A e, f \in Range(q) : e.name = f.name => e = f
    BY <1>6, <1>7
  <1>9. \A i, j \in DOMAIN q : q[i].name = q[j].name => i = j
    BY <1>8 DEF Distinct, IsInjective, Range
  <1> QED BY <1>9 DEF q

\* Nor have any two of those that ComputePairs returns for it.
LEMMA PairsNamedOnce ==
  ASSUME cfg \in Configs, Validate(cfg), DevicesNamedOnce, NEW v \in Views, NEW view, Sees(v, view), NEW labels
  PROVE  LET q == ComputePairs(cfg.compositions, v, labels)
         IN \A i, j \in DOMAIN q :
              q[i].comp = q[j].comp /\ q[i].name = q[j].name /\ Plain(Composition(q[i].comp)) => i = j
  <1> DEFINE cs == cfg.compositions
             of(comp) == computeForComposition(comp, v, labels)
             ss == [i \in DOMAIN cs |-> of(cs[i])]
             A == UNION {Range(of(comp)) : comp \in Compositions}
             q == ComputePairs(cs, v, labels)
  <1>1. q = FlattenSeq(ss)
    BY DEF ComputePairs
  <1>2. ASSUME NEW comp \in Compositions
        PROVE  of(comp) \in Seq(Range(of(comp))) /\ \A e \in Range(of(comp)) : e.comp = comp.name
    BY ValidComposition, ViewTyped, Computed DEF Genuine
  <1>3. ASSUME NEW comp \in Compositions, Plain(comp)
        PROVE  \A i, j \in DOMAIN of(comp) : of(comp)[i].name = of(comp)[j].name => i = j
    BY <1>3, NamedOnce
  <1> HIDE DEF of, q
  <1>4. cs \in Seq(Compositions)
    BY InventoryAssumption DEF Compositions
  <1>5. \A comp \in Compositions : of(comp) \in Seq(A)
    <2>1. \A comp \in Compositions : Range(of(comp)) \subseteq A
      OBVIOUS
    <2> HIDE DEF A
    <2> QED BY <1>2, <2>1, SeqMonotonic
  <1>6. Len(cs) \in Nat /\ DOMAIN cs = 1 .. Len(cs) /\ \A i \in DOMAIN cs : cs[i] \in Compositions
    BY <1>4
  <1>7. ss \in Seq(Seq(A)) /\ DOMAIN ss = DOMAIN cs /\ \A j \in DOMAIN cs : ss[j] = of(cs[j])
    <2> HIDE DEF A
    <2>1. \A i \in DOMAIN cs : of(cs[i]) \in Seq(A)
      BY <1>5, <1>6
    <2> HIDE DEF cs
    <2> QED BY <1>6, <2>1
  <1>8. \A i, j \in DOMAIN cs : cs[i].name = cs[j].name => i = j
    BY DEF Validate, ValidCompositions, Distinct, Field, IsInjective
  <1>9. \A j \in DOMAIN cs : Composition(cs[j].name) = cs[j]
    BY <1>6, ValidComposition
  <1> HIDE DEF ss, A, cs
  <1>10. PICK at : Places(ss, q, at)
    BY <1>1, <1>7, FlattenPlaces
  <1>11. ASSUME NEW k \in DOMAIN q, NEW l \in DOMAIN q, q[k].comp = q[l].comp, q[k].name = q[l].name,
                Plain(Composition(q[k].comp))
         PROVE  k = l
    <2>1. PICK j \in DOMAIN ss : \E i \in DOMAIN ss[j] : at[k] = <<j, i>> /\ q[k] = ss[j][i]
      BY <1>10 DEF Places
    <2>2. PICK i \in DOMAIN ss[j] : at[k] = <<j, i>> /\ q[k] = ss[j][i]
      BY <2>1
    <2>3. PICK m \in DOMAIN ss : \E n \in DOMAIN ss[m] : at[l] = <<m, n>> /\ q[l] = ss[m][n]
      BY <1>10 DEF Places
    <2>4. PICK n \in DOMAIN ss[m] : at[l] = <<m, n>> /\ q[l] = ss[m][n]
      BY <2>3
    <2>5. ss[j] = of(cs[j]) /\ ss[m] = of(cs[m]) /\ cs[j] \in Compositions /\ cs[m] \in Compositions
      BY <1>6, <1>7
    <2>6. q[k].comp = cs[j].name /\ q[l].comp = cs[m].name
      <3>1. q[k] \in Range(of(cs[j])) /\ q[l] \in Range(of(cs[m]))
        BY <2>2, <2>4, <2>5 DEF Range
      <3> QED BY <1>2, <2>5, <3>1
    <2>7. j = m
      BY <1>7, <1>8, <1>11, <2>6
    <2>8. Plain(cs[j])
      BY <1>7, <1>9, <1>11, <2>6
    <2>9. i = n
      BY <1>3, <1>11, <2>2, <2>4, <2>5, <2>7, <2>8
    <2> QED BY <1>10, <2>2, <2>4, <2>7, <2>9 DEF Places
  <1> QED BY <1>11 DEF q, cs

\* A pool whose devices have different names lists none twice.
LEMMA PoolsOnce ==
  ASSUME NEW devices, devices \in Seq(Range(devices)), NEW c \in DOMAIN Pools(devices),
         \A i, j \in DOMAIN devices :
           devices[i].comp = c /\ devices[j].comp = c /\ devices[i].name = devices[j].name => i = j
  PROVE  Distinct(FlattenSeq(Pools(devices)[c]))
  <1> DEFINE R == Range(devices)
             of == {d \in R : d.comp = c}
             mine == Keep(devices, of)
             names == [i \in DOMAIN mine |-> mine[i].name]
             N == {d.name : d \in R}
  <1>1. Pools(devices)[c] = buildSlices(names)
    BY DEF Pools
  <1>2. \A i \in DOMAIN devices : devices[i] \in of => devices[i].comp = c
    OBVIOUS
  <1>3. \A d, e \in of : d.name = e.name => d = e
    BY DEF Range
  <1> HIDE DEF R, of
  <1>4. mine \in Seq(R) /\ Range(mine) = R \cap of
    BY KeepRange DEF R
  <1>5. Distinct(mine)
    <2>1. \A i, j \in DOMAIN devices : devices[i] \in of /\ devices[i] = devices[j] => i = j
      BY <1>2
    <2> QED BY <2>1, KeepApart DEF R
  <1> HIDE DEF mine
  <1>6. Len(mine) \in Nat /\ DOMAIN mine = 1 .. Len(mine) /\ \A i \in DOMAIN mine : mine[i] \in R /\ mine[i] \in of
    BY <1>4 DEF Range
  <1>7. names \in Seq(N)
    <2>1. \A i \in DOMAIN mine : mine[i].name \in N
      BY <1>6
    <2> HIDE DEF N
    <2> QED BY <1>6, <2>1
  <1>8. Distinct(names)
    BY <1>3, <1>5, <1>6 DEF Distinct, IsInjective
  <1> HIDE DEF names, N
  <1> QED BY <1>1, <1>7, <1>8, Batches

LEMMA OncePublish ==
  ASSUME DevicesNamedOnce, StoreInv, SeenInv, PublishedOnce, NEW r \in Runs, Publish(r)
  PROVE  PublishedOnce'
  <1> DEFINE devices == result[r]
  <1>1. step[r] = "stored" /\ (published' = Pools(devices) \/ published' = published)
    BY DEF Publish
  <1>2. cfg \in Configs /\ Validate(cfg) /\ RunSeen(r)
    BY <1>1 DEF StoreInv, RunsInv, SeenInv
  <1>3. PICK v \in Views : /\ \E view : Sees(v, view)
                          /\ devices \in Outcomes(ComputePairs(cfg.compositions, v, pairLabels))
    BY <1>2 DEF RunSeen
  <1> HIDE DEF devices
  <1>4. devices \in Seq(Range(devices))
    BY <1>2, <1>3, RecomputedDevices
  <1>5. cfg' = cfg
    BY DEF Publish
  <1>6. \A c : Composition(c)' = Composition(c)
    BY <1>5 DEF Composition, Compositions
  <1> DEFINE q == ComputePairs(cfg.compositions, v, pairLabels)
  <1>7. \A i, j \in DOMAIN q :
          q[i].comp = q[j].comp /\ q[i].name = q[j].name /\ Plain(Composition(q[i].comp)) => i = j
    BY <1>2, <1>3, PairsNamedOnce
  <1>8. DOMAIN devices = DOMAIN q /\ \A i \in DOMAIN q : devices[i].comp = q[i].comp /\ devices[i].name = q[i].name
    <2>1. \A i \in DOMAIN q : \E comp \in Compositions : Genuine(comp, q[i])
      BY <1>2, PairsOfCompositions
    <2>2. \A i \in DOMAIN q : q[i].numa # {} /\ "numa" \in DOMAIN q[i]
      BY <2>1 DEF Genuine
    <2>3. devices \in Outcomes(q)
      BY <1>3
    <2> HIDE DEF q
    <2>4. devices = [i \in DOMAIN q |-> devices[i]]
      BY <2>2, <2>3, OutcomesOf
    <2>5. \A i \in DOMAIN q : devices[i].comp = q[i].comp /\ devices[i].name = q[i].name
      BY <2>2, <2>3, OutcomesOf
    <2> QED BY <2>4, <2>5
  <1> HIDE DEF q
  <1>9. CASE published' = Pools(devices)
    <2>1. ASSUME NEW c \in DOMAIN published', Plain(Composition(c)) PROVE Distinct(FlattenSeq(published'[c]))
      <3>1. \A i, j \in DOMAIN devices :
              devices[i].comp = c /\ devices[j].comp = c /\ devices[i].name = devices[j].name => i = j
        BY <1>7, <1>8, <2>1
      <3> QED BY <1>4, <1>9, <3>1, PoolsOnce
    <2> QED BY <1>6, <2>1 DEF PublishedOnce
  <1>10. CASE published' = published
    BY <1>6, <1>10 DEF PublishedOnce
  <1> QED BY <1>1, <1>9, <1>10

\* No pool of a composition that lists its sources once and whose names fit
\* ever has a device name twice, automatic or explicit, however many
\* devices, slices and recomputes there are, if the drivers name their
\* devices apart (generateCombinations, pairWithExplicit, joinedName,
\* buildSlices).
THEOREM NamesArePublishedOnce == DevicesNamedOnce => (InvSpec => []PublishedOnce)
  <1> SUFFICES ASSUME DevicesNamedOnce PROVE InvSpec => []PublishedOnce
    OBVIOUS
  <1>1. InvInit => PublishedOnce
    BY DEF InvInit, PublishedOnce
  <1>2. StoreInv /\ SeenInv /\ PublishedOnce /\ [InvNext]_invVars => PublishedOnce'
    <2> SUFFICES ASSUME StoreInv, SeenInv, PublishedOnce, [InvNext]_invVars PROVE PublishedOnce'
      OBVIOUS
    <2>1. ASSUME UNCHANGED <<cfg, published>> PROVE PublishedOnce'
      BY <2>1 DEF PublishedOnce, Composition, Compositions
    <2>2. ASSUME NEW r \in Runs, Publish(r) PROVE PublishedOnce'
      BY <2>2, OncePublish
    <2> QED BY <2>1, <2>2 DEF InvNext, Start, ListSlices, ReplaceStore, Change, Allocate, Free, Prepare
  <1> QED BY <1>1, <1>2, StoreInvariant, SeenInvariant, PTL DEF InvSpec

----------------------------------------------------------------------------
(* The explicit pairs are as configured                                    *)

\* The node's label chooses the pool that has it.
LEMMA PoolChosen ==
  ASSUME NEW comp, TypedComposition(comp), Distinct(Field(comp.pools, LAMBDA p : p.label)),
         NEW labels, NEW pool \in Range(comp.pools), LabelValue(labels, comp.labelKey) = pool.label
  PROVE  poolsOf(comp, labels) # <<>> /\ poolsOf(comp, labels)[1] = pool
  <1> DEFINE P == {p \in Range(comp.pools) : p.label = LabelValue(labels, comp.labelKey)}
             q == Keep(comp.pools, P)
  <1>1. comp.pools \in Seq(Range(comp.pools))
    BY DEF TypedComposition
  <1>2. \A i, j \in DOMAIN comp.pools : comp.pools[i].label = comp.pools[j].label => i = j
    BY DEF Distinct, Field, IsInjective
  <1>3. P = {pool}
    <2>1. \A p \in P : p = pool
      BY <1>2 DEF Range
    <2>2. pool \in P
      OBVIOUS
    <2> HIDE DEF P
    <2> QED BY <2>1, <2>2
  <1>4. poolsOf(comp, labels) = q
    BY DEF poolsOf
  <1> HIDE DEF P
  <1>5. q \in Seq(Range(comp.pools)) /\ Range(q) = Range(comp.pools) \cap P
    BY <1>1, KeepRange
  <1> HIDE DEF q
  <1>6. Range(q) = {pool}
    BY <1>3, <1>5
  <1>7. q # <<>>
    BY <1>6, RangeOfOne
  <1>8. q[1] \in Range(q)
    <2>1. 1 \in DOMAIN q
      BY <1>5, <1>7
    <2> QED BY <2>1 DEF Range
  <1> QED BY <1>4, <1>6, <1>7, <1>8

\* An explicit composition of which ExplicitAsConfigured speaks.
LEMMA PlainExplicit ==
  ASSUME cfg \in Configs, Validate(cfg), NEW comp \in Compositions, comp.mode = "explicit", Plain(comp)
  PROVE  /\ ExplicitOnce(comp) /\ PairedComposition(comp) /\ comp.members # <<>>
         /\ MemberSources(comp) \subseteq SourceNames(cfg)
         /\ Distinct(Field(comp.pools, LAMBDA p : p.label))
         /\ \A pool \in Range(comp.pools) :
              /\ pool.pairs \in Seq(Range(pool.pairs))
              /\ \A j \in DOMAIN pool.pairs : DOMAIN pool.pairs[j].selectors = MemberSources(comp)
  <1>1. PairedComposition(comp) /\ MemberSources(comp) \subseteq SourceNames(cfg)
    BY ValidComposition
  <1>2. PICK i \in DOMAIN cfg.compositions : comp = cfg.compositions[i]
    BY DEF Compositions, Range
  <1>3. ValidMembers(cfg, comp) /\ ValidExplicit(comp)
    BY <1>2 DEF Validate, ValidCompositions
  <1>4. \A k, j \in DOMAIN comp.members : k # j => comp.members[k].source # comp.members[j].source
    BY DEF Plain, Distinct, Field, IsInjective
  <1>5. ExplicitOnce(comp)
    BY <1>1, <1>4 DEF ExplicitOnce, ExplicitComposition, PairedComposition
  <1>6. ASSUME NEW pool \in Range(comp.pools)
        PROVE  /\ pool.pairs \in Seq(Range(pool.pairs))
               /\ \A j \in DOMAIN pool.pairs : DOMAIN pool.pairs[j].selectors = MemberSources(comp)
    <2>1. PICK k \in DOMAIN comp.pools : pool = comp.pools[k]
      BY DEF Range
    <2>2. \A j \in DOMAIN pool.pairs : ValidPair(comp, pool.pairs[j])
      BY <1>3, <2>1 DEF ValidExplicit
    <2>3. pool.pairs \in Seq(Range(pool.pairs))
      BY <1>1 DEF PairedComposition, TypedComposition
    <2> QED BY <2>2, <2>3 DEF ValidPair
  <1> QED BY <1>1, <1>3, <1>5, <1>6 DEF ValidMembers, ValidExplicit

\* What a pair's selectors mean in the slices is what they find in the
\* lists.
LEMMA FindsMeant ==
  ASSUME cfg \in Configs, Validate(cfg), NEW comp \in Compositions, comp.mode = "explicit", Plain(comp),
         DriversDistinct, DevicesNamedOnce, NEW v \in Views, Sees(v, seen), NEW s \in MemberSources(comp)
  PROVE  LET f == filtered(comp, v)[s]
         IN /\ f \in Seq(Dev) /\ Distinct(f)
            /\ \A d, e \in Range(f) : DevName[d] = DevName[e] => d = e
            /\ \A pair : s \in DOMAIN pair.selectors => Finds(filtered(comp, v), pair, s) = Meant(comp, pair, s)
  <1> DEFINE f == filtered(comp, v)[s]
  <1>1. s \in SourceNames(cfg)
    BY ValidComposition
  <1>2. /\ v[s] \in Seq(Dev) /\ Distinct(v[s]) /\ Range(v[s]) = Listed(s, seen)
        /\ \A d, e \in Range(v[s]) : DevName[d] = DevName[e] => d = e
    BY <1>1 DEF Views, Sees
  <1>3. /\ f \in Seq(Dev) /\ Distinct(f)
        /\ Range(f) = {d \in Range(v[s]) :
                         s \in DOMAIN comp.filters => comp.filters[s] = NoExpr \/ Match(comp.filters[s], d)}
    <2>1. s \in MemberSources(comp) /\ v[s] \in Seq(Dev) /\ Distinct(v[s])
      BY <1>2
    <2> QED BY ONLY <2>1, FilteredIs
  <1> HIDE DEF f
  <1>4. Range(f) = Eligible(comp, s, seen)
    BY <1>2, <1>3 DEF Eligible, Listed
  <1>5. Range(f) \subseteq Range(v[s])
    BY <1>3
  <1>6. ASSUME NEW pair, s \in DOMAIN pair.selectors
        PROVE  Finds(filtered(comp, v), pair, s) = Meant(comp, pair, s)
    BY <1>4, <1>6 DEF Finds, Meant, f
  <1> QED BY <1>2, <1>3, <1>5, <1>6 DEF f

\* The pairs of the node's pool, computed from a view of the slices: one
\* device for each pair that is complete, with the devices meant.
LEMMA ConfiguredPairs ==
  ASSUME cfg \in Configs, Validate(cfg), NEW comp \in Compositions, comp.mode = "explicit", Plain(comp),
         DriversDistinct, DevicesNamedOnce, NEW v \in Views, Sees(v, seen), NEW pool \in Range(comp.pools),
         LabelValue(pairLabels, comp.labelKey) = pool.label, Unambiguous(comp, pool.pairs)
  PROVE  LET full == {j \in DOMAIN pool.pairs : \A s \in MemberSources(comp) :
                        Cardinality(Meant(comp, pool.pairs[j], s)) = CountOf(comp, s)}
             a(j) == Alone(comp, filtered(comp, v), pool.pairs[j])
         IN /\ Range(computeForComposition(comp, v, pairLabels)) = {a(j) : j \in full}
            /\ \A j \in full :
                 /\ DevsOf(a(j)) = UNION {Meant(comp, pool.pairs[j], s) : s \in MemberSources(comp)}
                 /\ a(j).numa = {pool.pairs[j].numa} /\ a(j).rail = pool.pairs[j].rail
  <1> DEFINE S == MemberSources(comp)
             F == filtered(comp, v)
             pairs == pool.pairs
             q == computeForComposition(comp, v, pairLabels)
             M(j, s) == Meant(comp, pairs[j], s)
             n(s) == CountOf(comp, s)
             full == {j \in DOMAIN pairs : \A s \in S : Cardinality(M(j, s)) = n(s)}
             a(j) == Alone(comp, F, pairs[j])
  <1>1. /\ ExplicitOnce(comp) /\ PairedComposition(comp) /\ comp.members # <<>>
        /\ Distinct(Field(comp.pools, LAMBDA p : p.label))
        /\ pairs \in Seq(Range(pairs)) /\ \A j \in DOMAIN pairs : DOMAIN pairs[j].selectors = S
    BY PlainExplicit
  <1>2. ExplicitComposition(comp) /\ TypedComposition(comp) /\ NameParts \in Nat
    BY <1>1, InventoryAssumption DEF ExplicitOnce, ExplicitComposition
  <1>3. ASSUME NEW s \in S
        PROVE  /\ F[s] \in Seq(Dev) /\ Distinct(F[s])
               /\ \A d, e \in Range(F[s]) : DevName[d] = DevName[e] => d = e
               /\ \A j \in DOMAIN pairs : Finds(F, pairs[j], s) = M(j, s)
    BY <1>1, FindsMeant
  <1>4. ASSUME NEW s \in S PROVE lastCount(comp, s) = n(s)
    BY <1>1, SizesAre DEF Sizes
  <1>5. \A s \in S : \A j \in DOMAIN pairs :
          /\ Cardinality(M(j, s)) <= n(s)
          /\ \A k \in DOMAIN pairs \ {j} : M(j, s) \cap M(k, s) = {}
    BY DEF Unambiguous
  <1>6. poolsOf(comp, pairLabels) # <<>> /\ poolsOf(comp, pairLabels)[1] = pool
    BY <1>1, <1>2, PoolChosen
  <1>7. q = pairWithExplicit(comp, F, pairLabels)
    BY DEF computeForComposition
  <1> HIDE DEF F, pairs, q, M, n
  <1>8. Unshared(comp, F, pairs)
    BY <1>3, <1>5 DEF Unshared
  <1>9. Range(q) = Range(explicitPairs(comp, F, pairs))
    BY <1>1, <1>2, <1>3, <1>6, <1>7, ExplicitLists DEF pairs
  <1>10. Range(q) = {a(j) : j \in {k \in DOMAIN pairs : Complete(comp, F, pairs[k])}}
    BY <1>1, <1>2, <1>3, <1>8, <1>9, PairsServed
  <1>11. ASSUME NEW j \in DOMAIN pairs
         PROVE  /\ Complete(comp, F, pairs[j]) <=> j \in full
                /\ j \in full => /\ DevsOf(a(j)) = UNION {M(j, s) : s \in S}
                                 /\ a(j).numa = {pairs[j].numa} /\ a(j).rail = pairs[j].rail
    <2> DEFINE p == pairs[j]
    <2>1. \A s \in S : Finds(F, p, s) = M(j, s) /\ lastCount(comp, s) = n(s)
      BY <1>3, <1>4
    <2>2. \A s \in S : Cardinality(Finds(F, p, s)) <= lastCount(comp, s)
      BY <1>5, <2>1
    <2>3. S \subseteq DOMAIN p.selectors
      BY <1>1
    <2> HIDE DEF p
    <2>4. \A s \in S : F[s] \in Seq(Dev) /\ Distinct(F[s])
      BY <1>3
    <2>5. /\ Complete(comp, F, p) <=> \A s \in S : Cardinality(Finds(F, p, s)) = lastCount(comp, s)
          /\ Complete(comp, F, p) => /\ DevsOf(Alone(comp, F, p)) = UNION {Finds(F, p, s) : s \in S}
                                     /\ Alone(comp, F, p).numa = {p.numa} /\ Alone(comp, F, p).rail = p.rail
      <3>1. ExplicitOnce(comp)
        BY <1>1
      <3> HIDE DEF full, a
      <3> QED BY ONLY <2>2, <2>3, <2>4, <3>1, AloneIs
    <2>6. UNION {Finds(F, p, s) : s \in S} = UNION {M(j, s) : s \in S}
      BY <2>1
    <2>7. Complete(comp, F, p) <=> j \in full
      BY <2>1, <2>5
    <2> QED BY <2>5, <2>6, <2>7 DEF p
  <1>12. Range(q) = {a(j) : j \in full}
    <2>1. {k \in DOMAIN pairs : Complete(comp, F, pairs[k])} = full
      BY <1>11
    <2> HIDE DEF full, a
    <2> QED BY <1>10, <2>1 DEF a
  <1>13. \A j \in full : /\ DevsOf(a(j)) = UNION {M(j, s) : s \in S}
                         /\ a(j).numa = {pairs[j].numa} /\ a(j).rail = pairs[j].rail
    <2> HIDE DEF a
    <2> QED BY <1>11 DEF a
  <1> QED BY <1>12, <1>13 DEF F, pairs, q, M, n

\* The composition's part of the store is what the pairs mean.
LEMMA ConfiguredInStore ==
  ASSUME cfg \in Configs, Validate(cfg), NEW comp \in Compositions, comp.mode = "explicit", Plain(comp),
         DriversDistinct, DevicesNamedOnce, NEW v \in Views, Sees(v, seen),
         NEW devices \in Outcomes(ComputePairs(cfg.compositions, v, pairLabels)), store \in Mappings(devices),
         NEW pool \in Range(comp.pools),
         LabelValue(pairLabels, comp.labelKey) = pool.label, Unambiguous(comp, pool.pairs)
  PROVE  {[devs |-> Devs(store[k]), numa |-> store[k].numa, rail |-> store[k].rail] : k \in KeysOf(comp)}
           = MeantGroups(comp, pool.pairs)
  <1> DEFINE S == MemberSources(comp)
             pairs == pool.pairs
             q == computeForComposition(comp, v, pairLabels)
             K == KeysOf(comp)
             M(j, s) == Meant(comp, pairs[j], s)
             full == {j \in DOMAIN pairs : \A s \in S : Cardinality(M(j, s)) = CountOf(comp, s)}
             a(j) == Alone(comp, filtered(comp, v), pairs[j])
             shown(d) == [devs |-> Devs(d), numa |-> d.numa, rail |-> d.rail]
             asked(j) == [devs |-> UNION {M(j, s) : s \in S}, numa |-> pairs[j].numa, rail |-> pairs[j].rail]
  <1>1. /\ Range(q) = {a(j) : j \in full}
        /\ \A j \in full : /\ DevsOf(a(j)) = UNION {M(j, s) : s \in S}
                           /\ a(j).numa = {pairs[j].numa} /\ a(j).rail = pairs[j].rail
    BY ConfiguredPairs
  <1>2. /\ \A k \in K : k = Key(store[k]) /\ \E e \in Range(q) : Chosen(store[k], e)
        /\ \A e \in Range(q) : <<comp.name, e.name>> \in K
    BY StoreOfComposition
  <1>3. \A i, j \in DOMAIN q : q[i].name = q[j].name => i = j
    BY NamedOnce
  <1>4. MeantGroups(comp, pairs) = {asked(j) : j \in full}
    BY DEF MeantGroups
  <1> HIDE DEF q, K, full, a, M, pairs
  <1>5. ASSUME NEW j \in full, NEW d, Chosen(d, a(j)) PROVE shown(d) = asked(j)
    <2>1. Devs(d) = DevsOf(a(j))
      BY <1>5 DEF Devs, DevsOf, Chosen
    <2>2. d.numa = pairs[j].numa /\ d.rail = pairs[j].rail
      BY <1>1, <1>5 DEF Chosen
    <2> QED BY <1>1, <2>1, <2>2
  <1> HIDE DEF shown, asked
  <1>6. ASSUME NEW k \in K PROVE \E j \in full : shown(store[k]) = asked(j)
    <2>1. PICK e \in Range(q) : Chosen(store[k], e)
      BY <1>2
    <2>2. PICK j \in full : e = a(j)
      BY <1>1
    <2> QED BY <1>5, <2>1, <2>2
  <1>7. ASSUME NEW j \in full PROVE \E k \in K : shown(store[k]) = asked(j)
    <2> DEFINE e == a(j)
               k == <<comp.name, e.name>>
    <2>1. e \in Range(q)
      BY <1>1
    <2>2. k \in K
      BY <1>2, <2>1
    <2>3. PICK f \in Range(q) : Chosen(store[k], f)
      BY <1>2, <2>2
    <2>4. k = <<store[k].comp, store[k].name>>
      BY <1>2, <2>2 DEF Key
    <2>5. store[k].name = e.name
      BY <2>4
    <2>6. f.name = e.name
      BY <2>3, <2>5 DEF Chosen
    <2>7. f = e
      BY <1>3, <2>1, <2>6 DEF Range
    <2> HIDE DEF e, k
    <2>8. Chosen(store[k], a(j))
      BY <2>3, <2>7 DEF e
    <2> QED BY <1>5, <2>2, <2>8
  <1>8. {shown(store[k]) : k \in K} = {asked(j) : j \in full}
    BY <1>6, <1>7
  <1> QED BY <1>4, <1>8 DEF K, shown, pairs

\* Nor do the pairs ask for anything when no slice lists a device.
LEMMA NothingMeant ==
  ASSUME NEW comp, PairedComposition(comp), comp.members # <<>>, seen = Nothing, NEW pairs
  PROVE  MeantGroups(comp, pairs) = {}
  <1>1. PICK s \in MemberSources(comp) : TRUE
    <2>1. comp.members \in Seq(Range(comp.members))
      BY DEF PairedComposition, TypedComposition
    <2>2. 1 \in DOMAIN comp.members
      BY <2>1
    <2> QED BY <2>2 DEF MemberSources
  <1>2. CountOf(comp, s) # 0
    BY SizesAre
  <1>3. \A x \in Slices : Range(seen[x]) = {}
    BY RangeOfOne DEF Nothing
  <1>4. Eligible(comp, s, seen) = {}
    BY <1>3 DEF Eligible
  <1>5. \A j \in DOMAIN pairs : Cardinality(Meant(comp, pairs[j], s)) = 0
    <2>1. \A j \in DOMAIN pairs : Meant(comp, pairs[j], s) = {}
      BY <1>4 DEF Meant
    <2> QED BY <2>1, FS_EmptySet
  <1>6. ~ \E j \in DOMAIN pairs : \A t \in MemberSources(comp) :
            Cardinality(Meant(comp, pairs[j], t)) = CountOf(comp, t)
    BY <1>2, <1>5
  <1> QED BY <1>6 DEF MeantGroups

\* Explicit pairs that are not ambiguous are offered as the configuration
\* has them, with its rail and NUMA node, exactly when their devices are
\* listed, for every number and order of pairs, devices and slices
\* (pairWithExplicit, its consumed set and its pool lookup), if the drivers
\* name their devices apart.
THEOREM ExplicitPairsAreAsConfigured == DevicesNamedOnce => (InvSpec => []ExplicitAsConfigured)
  <1> SUFFICES ASSUME DevicesNamedOnce PROVE InvSpec => []ExplicitAsConfigured
    OBVIOUS
  <1>1. StoreInv /\ SeenInv => ExplicitAsConfigured
    <2> SUFFICES ASSUME StoreInv, SeenInv, proc = "serving", DriversDistinct,
                        NEW comp \in Compositions, comp.mode = "explicit", Plain(comp),
                        NEW pool \in Range(comp.pools),
                        LabelValue(pairLabels, comp.labelKey) = pool.label, Unambiguous(comp, pool.pairs)
                 PROVE  {[devs |-> Devs(store[k]), numa |-> store[k].numa, rail |-> store[k].rail] :
                           k \in KeysOf(comp)} = MeantGroups(comp, pool.pairs)
      BY DEF ExplicitAsConfigured
    <2>1. cfg \in Configs /\ Validate(cfg)
      BY DEF StoreInv
    <2>2. CASE store = <<>> /\ seen = Nothing
      <3>1. PairedComposition(comp) /\ comp.members # <<>>
        BY <2>1, PlainExplicit
      <3>2. MeantGroups(comp, pool.pairs) = {}
        BY <2>2, <3>1, NothingMeant
      <3>3. DOMAIN store = {}
        BY <2>2
      <3>4. KeysOf(comp) = {}
        BY <3>3 DEF KeysOf
      <3> QED BY <3>2, <3>4
    <2>3. CASE SeenMade
      <3>1. PICK v \in Views : /\ Sees(v, seen)
                               /\ \E devices \in Outcomes(ComputePairs(cfg.compositions, v, pairLabels)) :
                                    store \in Mappings(devices)
        BY <2>3 DEF SeenMade
      <3> QED BY <2>1, <3>1, ConfiguredInStore
    <2> QED BY <2>2, <2>3 DEF SeenInv
  <1> QED BY <1>1, StoreInvariant, SeenInvariant, PTL
============================================================================

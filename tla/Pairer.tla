------------------------------- MODULE Pairer -------------------------------
(***************************************************************************)
(* pkg/synthesizer/pairer.go: which composite devices a list of underlying *)
(* devices gives, with the CEL filters of cel.go.                          *)
(*                                                                         *)
(* Underlying devices are elements of Dev; a device whose attributes       *)
(* change is another element with the same name.  DevName is a number, so  *)
(* that names can be sorted, and a composite device's name the sequence of *)
(* its members' names.  A CEL expression is the set of devices for which   *)
(* it evaluates to true, or Broken when it does not compile.               *)
(***************************************************************************)
EXTENDS Config, FiniteSetsExt, TLC

CONSTANTS
  Dev,        \* underlying devices
  DevName,    \* [Dev -> Nat]
  Attr,       \* [Dev -> [attribute names -> [kind, text]]]; an int attribute
              \*   has a num besides its decimal text
  NumaAttrs,  \* the attribute names that end in "numaNode", of any domain
  Broken,     \* a CEL expression that does not compile
  NameParts   \* how many device names fit into a composite name (63 bytes)

\* The attributes of a device that detectNUMANode accepts.
numaKeys(d) == {a \in NumaAttrs \cap DOMAIN Attr[d] : Attr[d][a].kind = "int"}

\* Inventories are finite, and the decimal text of a number stands for it.
ASSUME PairerAssumption ==
  /\ IsFiniteSet(Dev) /\ DevName \in [Dev -> Nat]
  /\ \A d, e \in Dev : \A a \in numaKeys(d) : \A b \in numaKeys(e) :
       Attr[d][a].num \in Int /\ (Attr[d][a].text = Attr[e][b].text => Attr[d][a].num = Attr[e][b].num)

\* getAttributeString: the text of a string, int or bool attribute.  A
\* version attribute counts as absent.
HasText(d, a)  == a \in DOMAIN Attr[d] /\ Attr[d][a].kind \in {"string", "int", "bool"}
TextOf(d, a)   == Attr[d][a].text

\* CELFilter.Match: an expression that fails to compile or to evaluate, or
\* whose value is no Boolean, matches nothing.
Match(expr, d) == expr # Broken /\ d \in expr

applyFilter(devices, expr) ==
  IF expr = NoExpr THEN devices
  ELSE Keep(devices, {d \in Dev : Match(expr, d)})

\* The devices of each member source after the composition's filter.
filtered(comp, bySource) ==
  [s \in MemberSources(comp) |->
     IF s \in DOMAIN comp.filters THEN applyFilter(bySource[s], comp.filters[s])
                                  ELSE bySource[s]]

-----------------------------------------------------------------------------
(* Combinations                                                            *)

\* Mutant: the last index is one too small.
chooseCombinationsShort(n, k) ==
  IF k > n \/ k <= 0 THEN <<>>
  ELSE LET generate[depth \in 0 .. k] ==
             IF depth = 0 THEN << <<>> >>
             ELSE LET prefixes == generate[depth - 1]
                      start(c) == IF c = <<>> THEN 1 ELSE Last(c) + 1
                  IN FlattenSeq([p \in DOMAIN prefixes |->
                       [i \in 1 .. (n - k + depth - start(prefixes[p])) |->
                          Append(prefixes[p], start(prefixes[p]) + i - 1)]])
       IN generate[k]

\* All increasing sequences of k indices, in lexicographic order: depth by
\* depth, an index leaves room for the ones still to come.
chooseCombinations(n, k) ==
  IF k > n \/ k <= 0 THEN <<>>
  ELSE LET generate[depth \in 0 .. k] ==
             IF depth = 0 THEN << <<>> >>
             ELSE LET prefixes == generate[depth - 1]
                      start(c) == IF c = <<>> THEN 1 ELSE Last(c) + 1
                  IN FlattenSeq([p \in DOMAIN prefixes |->
                       [i \in 1 .. (n - k + depth - start(prefixes[p]) + 1) |->
                          Append(prefixes[p], start(prefixes[p]) + i - 1)]])
       IN generate[k]

\* All selections, each a function from sources to the devices selected.  A
\* source that is listed twice keeps the selection of its first member.
generateCombinations(members, available) ==
  LET n == Len(members)
      combos[rest \in 0 .. n] ==
        IF rest = 0 THEN << <<>> >>
        ELSE LET member == members[n - rest + 1]
                 avail  == available[member.source]
                 chosen == chooseCombinations(Len(avail), member.count)
                 subs   == combos[rest - 1]
                 selected(x) == [y \in DOMAIN chosen[x] |-> avail[chosen[x][y]]]
             IN FlattenSeq([x \in DOMAIN chosen |->
                  [z \in DOMAIN subs |-> Over([s \in {member.source} |-> selected(x)], subs[z])]])
  IN combos[n]

-----------------------------------------------------------------------------
(* Composite devices                                                       *)

\* The NUMA nodes that the attributes of some devices give, under any key.
numaNodes(devs) == UNION {{Attr[d][a].num : a \in numaKeys(d)} : d \in devs}

\* Mutant: node 0 stands for an unknown one.
detectNUMANodeZero(combo) ==
  LET found == numaNodes(UNION {Range(combo[s]) : s \in DOMAIN combo})
  IN IF found = {} THEN {0} ELSE found

\* The loops run over maps of devices and of attributes, so any key of any
\* device that ends in "numaNode" may come first.
detectNUMANode(combo) ==
  LET found == numaNodes(UNION {Range(combo[s]) : s \in DOMAIN combo})
  IN IF found = {} THEN {-1} ELSE found

\* Mutant: only the first member's devices are put into the name.
joinedNameFirst(members) ==
  LET first == SelectSeq(members, LAMBDA m : m.source = members[1].source)
  IN [i \in DOMAIN first |-> DevName[first[i].dev]]

\* The members' names are joined and cut off.  sanitizeName leaves a valid
\* device name, which is a DNS label, as it is.
joinedName(members) ==
  [i \in 1 .. Min({Len(members), NameParts}) |-> DevName[members[i].dev]]

\* buildCompositeDevice, with the set of NUMA nodes it may come out with.
buildCompositeDevice(comp, combo) ==
  LET membersOf(s) == [i \in DOMAIN combo[s] |-> [source |-> s, dev |-> combo[s][i]]]
      members == FlattenSeq([j \in DOMAIN comp.members |-> membersOf(comp.members[j].source)])
  IN [comp |-> comp.name, members |-> members, name |-> joinedName(members),
      numa |-> detectNUMANode(combo), rail |-> 0]

Before(x, y) ==
  \/ \E i \in DOMAIN x.name \cap DOMAIN y.name :
       x.name[i] < y.name[i] /\ \A j \in 1 .. i - 1 : x.name[j] = y.name[j]
  \/ Len(x.name) < Len(y.name) /\ SubSeq(y.name, 1, Len(x.name)) = x.name

\* Sorted by name.  Devices of equal names, which sort.Slice may exchange,
\* keep their order.
Sorted(devices) ==
  LET before(d) == {j \in DOMAIN devices : Before(devices[j], d)}
  IN FlattenSeq([i \in DOMAIN devices |->
       Keep(devices, {d \in Range(devices) : Cardinality(before(d)) = i - 1})])

Build(comp, combos) ==
  Sorted([i \in DOMAIN combos |-> buildCompositeDevice(comp, combos[i])])

pairSingleSource(comp, bySource) ==
  Build(comp, generateCombinations(comp.members, bySource))

\* The devices that share a value of the FIRST constraint's attribute; a
\* source that is listed twice contributes its devices twice.
group(comp, bySource, val) ==
  LET a == comp.constraints[1].attribute
  IN [s \in MemberSources(comp) |->
        FlattenSeq([j \in DOMAIN Keep(comp.members, {m \in Range(comp.members) : m.source = s}) |->
          Keep(bySource[s], {d \in Dev : HasText(d, a) /\ TextOf(d, a) = val})])]

\* A group in which some member finds too few devices gives no selection.
pairWithMatchAttribute(comp, bySource) ==
  LET a    == comp.constraints[1].attribute
      vals == {TextOf(d, a) : d \in {e \in Dev : HasText(e, a)}}
  IN Build(comp, FlattenSeq(SetToSeq(
       {generateCombinations(comp.members, group(comp, bySource, v)) : v \in vals})))

-----------------------------------------------------------------------------
(* Explicit pairs                                                          *)

\* A label that the node does not have reads as the empty string.
LabelValue(labels, key) == IF key \in DOMAIN labels THEN labels[key] ELSE ""

\* Mutant: the first pool is taken whatever the node's label is.
poolsOfAny(comp, nodeLabels) == comp.pools

\* The pools of the configuration that the node's label names.
poolsOf(comp, nodeLabels) ==
  Keep(comp.pools, {p \in Range(comp.pools) : p.label = LabelValue(nodeLabels, comp.labelKey)})

\* How many devices a source gives to a pair: what its last member says.
lastCount(comp, s) ==
  comp.members[Max({j \in DOMAIN comp.members : comp.members[j].source = s})].count

\* Mutant: the devices of an earlier pair may be taken again.
explicitMatchesAgain(pair, s, devices, consumed) ==
  SelectSeq(devices, LAMBDA d : Match(pair.selectors[s], d))

explicitMatches(pair, s, devices, consumed) ==
  Keep(devices, {d \in Dev : DevName[d] \notin consumed[s] /\ Match(pair.selectors[s], d)})

\* One pair: the first devices that match and are not consumed; a pair that
\* finds too few, or has no selector for a member, is skipped.
explicitPair(comp, bySource, acc, pair) ==
  LET Sources    == MemberSources(comp)
      matched(s) == explicitMatches(pair, s, bySource[s], acc.consumed)
      valid      == \A j \in DOMAIN comp.members :
                      /\ comp.members[j].source \in DOMAIN pair.selectors
                      /\ Len(matched(comp.members[j].source)) >= comp.members[j].count
      combo      == [s \in Sources |-> SubSeq(matched(s), 1, lastCount(comp, s))]
  IN IF ~valid THEN acc
     ELSE [consumed |-> [s \in Sources |->
                           acc.consumed[s] \cup {DevName[d] : d \in Range(combo[s])}],
           result   |-> Append(acc.result,
                          [buildCompositeDevice(comp, combo) EXCEPT !.numa = {pair.numa},
                                                                    !.rail = pair.rail])]

\* One pair after the other.
explicitPairs(comp, bySource, pairs) ==
  LET after[n \in 0 .. Len(pairs)] ==
        IF n = 0 THEN [consumed |-> [s \in MemberSources(comp) |-> {}], result |-> <<>>]
                 ELSE explicitPair(comp, bySource, after[n - 1], pairs[n])
  IN after[Len(pairs)].result

pairWithExplicit(comp, bySource, nodeLabels) ==
  LET pools == poolsOf(comp, nodeLabels)
  IN IF pools = <<>> THEN <<>> ELSE Sorted(explicitPairs(comp, bySource, pools[1].pairs))

-----------------------------------------------------------------------------
computeForComposition(comp, bySource, nodeLabels) ==
  LET devices == filtered(comp, bySource)
  IN IF comp.mode = "explicit"    THEN pairWithExplicit(comp, devices, nodeLabels)
     ELSE IF comp.constraints = <<>> THEN pairSingleSource(comp, devices)
     ELSE pairWithMatchAttribute(comp, devices)

\* ComputePairs: the compositions' devices, one composition after the other.
ComputePairs(compositions, bySource, nodeLabels) ==
  FlattenSeq([i \in DOMAIN compositions |->
    computeForComposition(compositions[i], bySource, nodeLabels)])
=============================================================================

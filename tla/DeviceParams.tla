---------------------------- MODULE DeviceParams ----------------------------
(***************************************************************************)
(* pkg/shadow/params.go: the opaque parameters of a shadow claim, resolved *)
(* from an external file by source, device attributes and node labels.     *)
(*                                                                         *)
(*   file     [source names -> [entries, overrides]]                       *)
(*   entry    [match, values];  override [nodeSelector, entries]           *)
(*                                                                         *)
(* match maps attributes to the texts that its prefix and exact conditions *)
(* accept; values maps template variables to values, or is NoValues when   *)
(* the entry has none.  What the Go template makes of the variables is     *)
(* left out: the result is the variables it is executed with.              *)
(***************************************************************************)
EXTENDS Pairer

CONSTANTS ParamsFile, NoValues, NodeName

ASSUME ParamsAssumption ==
  \A s \in DOMAIN ParamsFile : ParamsFile[s].overrides \in Seq(Range(ParamsFile[s].overrides))

Nil == <<>>   \* no parameters: no template is executed

matchesDevice(match, d) ==
  \A a \in DOMAIN match : HasText(d, a) /\ TextOf(d, a) \in match[a]

matchesNodeSelector(selector, labels) ==
  \A k \in DOMAIN selector : LabelValue(labels, k) = selector[k]

\* The values of the first entry that matches.
findMatchingEntry(entries, d) ==
  LET matching == SelectSeq(entries, LAMBDA e : matchesDevice(e.match, d))
  IN IF matching = <<>> THEN NoValues ELSE matching[1].values

\* Mutant: an earlier override wins over a later one.
mergeOverrideFirst(merged, override, d, labels) ==
  LET values == findMatchingEntry(override.entries, d)
  IN IF matchesNodeSelector(override.nodeSelector, labels) /\ values # NoValues
     THEN merged @@ values ELSE merged

mergeOverride(merged, override, d, labels) ==
  LET values == findMatchingEntry(override.entries, d)
  IN IF matchesNodeSelector(override.nodeSelector, labels) /\ values # NoValues
     THEN Over(values, merged) ELSE merged

\* buildTemplateData: the driver's own variables win over the file's.
buildTemplateData(values, ordinal, source) ==
  Over([PairOrdinal |-> ordinal, NodeName |-> NodeName, SourceName |-> source], values)

\* ResolveForDevice: Nil when the source is unknown or no base entry
\* with values matches; otherwise the base values under all the overrides
\* that select the node.
ResolveForDevice(source, d, ordinal, labels) ==
  IF source \notin DOMAIN ParamsFile THEN Nil
  ELSE LET src  == ParamsFile[source]
           base == findMatchingEntry(src.entries, d)
           merged[n \in 0 .. Len(src.overrides)] ==
             IF n = 0 THEN base ELSE mergeOverride(merged[n - 1], src.overrides[n], d, labels)
       IN IF base = NoValues THEN Nil
          ELSE buildTemplateData(merged[Len(src.overrides)], ordinal, source)
=============================================================================

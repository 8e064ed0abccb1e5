------------------------------- MODULE Config -------------------------------
(***************************************************************************)
(* pkg/config: the configuration file and Validate, which the driver's     *)
(* main runs once, before anything else.                                   *)
(*                                                                         *)
(*   configuration [driver, sources, compositions, params]                 *)
(*   source        [name, driver, class]                                   *)
(*   composition   [name, class, members, constraints, filters, mode,      *)
(*                  labelKey, pools, transport]                            *)
(*   member        [source, count]                                         *)
(*   constraint    [type, attribute]                                       *)
(*   pool          [label, pairs];  pair  [selectors, rail, numa]          *)
(*                                                                         *)
(* filters and selectors are functions from source names to CEL            *)
(* expressions.  An absent optional field is the empty string or sequence, *)
(* as in the Go structs; a class is a sequence of strings that stands for   *)
(* their concatenation; params is the path of the device parameters file,  *)
(* or NoParams when the section is missing.                                *)
(***************************************************************************)
EXTENDS Integers, Sequences, FiniteSets, SequencesExt

CONSTANTS
  NoExpr,    \* the empty CEL expression
  NoParams   \* no device parameters

Distinct(s) == IsInjective(s)
Field(s, F(_)) == [i \in DOMAIN s |-> F(s[i])]

\* The elements of a sequence that are in a set, in their order.
Keep(s, S) == FlattenSeq([i \in DOMAIN s |-> IF s[i] \in S THEN <<s[i]>> ELSE <<>>])

\* A map into which another one is copied, whose values win.
Over(new, old) == [x \in DOMAIN new \cup DOMAIN old |-> IF x \in DOMAIN new THEN new[x] ELSE old[x]]

SourceNames(cfg)    == {cfg.sources[i].name : i \in DOMAIN cfg.sources}
MemberSources(comp) == {comp.members[j].source : j \in DOMAIN comp.members}

\* The types of the Go structs: slices are sequences, counts are numbers.
TypedComposition(comp) ==
  /\ comp.members \in Seq(Range(comp.members)) /\ comp.pools \in Seq(Range(comp.pools))
  /\ \A j \in DOMAIN comp.members : comp.members[j].count \in Int
  /\ \A pool \in Range(comp.pools) : /\ pool.pairs \in Seq(Range(pool.pairs))
                                     /\ \A pair \in Range(pool.pairs) : pair.numa \in Int

\* The DeviceClass of a composition; the default is made from its name.
EffectiveDeviceClassName(comp) ==
  IF comp.class # <<>> THEN comp.class ELSE <<"composite-", comp.name>>

ValidSources(cfg) ==
  /\ cfg.sources # <<>>
  /\ \A i \in DOMAIN cfg.sources :
       LET src == cfg.sources[i]
       IN "" \notin {src.name, src.driver, src.class} /\ src.driver # cfg.driver
  /\ Distinct(Field(cfg.sources, LAMBDA src : src.name))

ValidMembers(cfg, comp) ==
  /\ comp.members # <<>>
  /\ \A j \in DOMAIN comp.members :
       comp.members[j].source \in SourceNames(cfg) /\ comp.members[j].count >= 1

ValidRules(cfg, comp) ==
  /\ \A j \in DOMAIN comp.constraints :
       comp.constraints[j].type = "matchAttribute" /\ comp.constraints[j].attribute # ""
  /\ DOMAIN comp.filters \subseteq SourceNames(cfg)
  /\ comp.mode \in {"", "auto", "explicit"}

\* Mutant: the number of members is counted instead of their sources.
ValidAutoByMembers(comp) ==
  comp.mode # "explicit" =>
    /\ comp.constraints = <<>> => Len(comp.members) >= 1
    /\ comp.pools = <<>>

\* Devices of several sources are only combined by a rule.
ValidAuto(comp) ==
  comp.mode # "explicit" =>
    /\ comp.constraints = <<>> => Cardinality(MemberSources(comp)) = 1
    /\ comp.pools = <<>>

ValidPair(comp, pair) ==
  /\ DOMAIN pair.selectors = MemberSources(comp)
  /\ \A s \in DOMAIN pair.selectors : pair.selectors[s] # NoExpr
  /\ pair.rail >= 0 /\ pair.numa >= 0

ValidExplicit(comp) ==
  comp.mode = "explicit" =>
    /\ comp.pools # <<>> /\ comp.labelKey # "" /\ comp.constraints = <<>>
    /\ Distinct(Field(comp.pools, LAMBDA p : p.label))
    /\ \A j \in DOMAIN comp.pools :
         /\ comp.pools[j].label # "" /\ comp.pools[j].pairs # <<>>
         /\ \A k \in DOMAIN comp.pools[j].pairs : ValidPair(comp, comp.pools[j].pairs[k])

ValidCompositions(cfg) ==
  /\ cfg.compositions # <<>>
  /\ Distinct(Field(cfg.compositions, LAMBDA comp : comp.name))
  /\ Distinct(Field(cfg.compositions, EffectiveDeviceClassName))
  /\ \A i \in DOMAIN cfg.compositions :
       LET comp == cfg.compositions[i]
       IN /\ comp.name # ""
          /\ ValidMembers(cfg, comp) /\ ValidRules(cfg, comp)
          /\ ValidAuto(comp) /\ ValidExplicit(comp)
          /\ comp.transport \in {"", "auto", "ethernet", "infiniband"}

\* Validate returns no error.  Nothing is said of sources that share a
\* driver, nor of a source that a composition lists twice.
Validate(cfg) ==
  /\ cfg.driver # ""
  /\ ValidSources(cfg)
  /\ ValidCompositions(cfg)
  /\ cfg.params # ""
=============================================================================

---------------------------- MODULE MCInventory ----------------------------
(***************************************************************************)
(* Three GPUs in two slices and two NICs in one; n1 and n1b are the same   *)
(* NIC with different attributes.  The configurations reach every pairing  *)
(* function, the cases in which Validate says nothing (a source listed     *)
(* twice, a driver with two sources) and invalid files.                    *)
(***************************************************************************)
EXTENDS Inventory

Str(t)    == [kind |-> "string", text |-> t]
Int_(t, n) == [kind |-> "int", text |-> t, num |-> n]
Version(t) == [kind |-> "version", text |-> t]

MCDev == {"g1", "g2", "g3", "n1", "n1b", "n2"}

MCDevName == [g1 |-> 1, g2 |-> 2, g3 |-> 3, n1 |-> 4, n1b |-> 4, n2 |-> 5]

MCAttr ==
  [g1  |-> [root |-> Str("1"), numaNode |-> Int_("0", 0)],
   g2  |-> [root |-> Str("1")],
   g3  |-> [root |-> Str("2"), numaNode |-> Int_("1", 1)],
   n1  |-> [root |-> Int_("1", 1), numaNode |-> Int_("0", 0)],
   n1b |-> [root |-> Int_("2", 2), numaNode |-> Int_("1", 1)],
   n2  |-> [root |-> Version("1"), numaNode |-> Str("0"), net_numaNode |-> Int_("1", 1)]]

MCSliceDriver == [sg |-> "gpu.dev", sg2 |-> "gpu.dev", sn |-> "nic.dev"]

MCContents ==
  [sg  |-> {<<>>, <<"g1", "g2">>, <<"g2", "g1">>},
   sg2 |-> {<<>>, <<"g3">>},
   sn  |-> {<<"n1">>, <<"n2", "n1">>, <<"n1b", "n2">>}]

MCInitial == [sg |-> <<"g1", "g2">>, sg2 |-> <<>>, sn |-> <<"n2", "n1">>]

MCNodeLabels == [pool |-> "a", zone |-> "z"]

\* A base entry for NICs on root 1, one without values for the rest, and two
\* overrides for the node's zone and one for another.
MCParamsFile ==
  [nic |-> [entries   |-> << [match |-> [root |-> {"1"}],
                              values |-> [mtu |-> "9000", gw |-> "x", PairOrdinal |-> 7]],
                             [match |-> <<>>, values |-> NoValues] >>,
            overrides |-> << [nodeSelector |-> [zone |-> "z"],
                              entries |-> << [match |-> <<>>, values |-> [mtu |-> "1500", gw |-> "y"]] >>],
                             [nodeSelector |-> [zone |-> "other"],
                              entries |-> << [match |-> <<>>, values |-> [gw |-> "no"]] >>],
                             [nodeSelector |-> <<>>,
                              entries |-> << [match |-> [numaNode |-> {"0"}], values |-> [gw |-> "z"]] >>] >>]]

----------------------------------------------------------------------------
Member(s, n) == [source |-> s, count |-> n]
On(a)        == << [type |-> "matchAttribute", attribute |-> a] >>
Pair(g, n, rail) == [selectors |-> [gpu |-> g, nic |-> n], rail |-> rail, numa |-> 1]

Auto(name, members, constraints) ==
  [name |-> name, class |-> <<>>, members |-> members, constraints |-> constraints,
   filters |-> <<>>, mode |-> "", labelKey |-> "", pools |-> <<>>, transport |-> ""]

GpuNic == <<Member("gpu", 1), Member("nic", 1)>>

Explicit(pairsA, pairsB) ==
  [Auto("pair", GpuNic, <<>>) EXCEPT !.mode = "explicit", !.labelKey = "pool",
     !.pools = << [label |-> "b", pairs |-> pairsB], [label |-> "a", pairs |-> pairsA] >>]

File(compositions) ==
  [driver |-> "composite.dev", params |-> NoParams, compositions |-> compositions,
   sources |-> << [name |-> "gpu", driver |-> "gpu.dev", class |-> "gpu"],
                  [name |-> "nic", driver |-> "nic.dev", class |-> "nic"] >>]

\* A GPU with a NIC of the same root.
RootPair == [File(<<Auto("pair", GpuNic, On("root"))>>) EXCEPT !.params = "file"]

\* The same NUMA node, with a filter, and a NIC by itself.  The NUMA node of
\* n2 has an attribute of another domain beside it.
NumaPair ==
  File(<<[Auto("pair", GpuNic, On("numaNode")) EXCEPT !.filters = [nic |-> {"n1b", "n2"}]],
         [Auto("nics", <<Member("nic", 1)>>, <<>>) EXCEPT !.filters = [nic |-> {"n1", "n1b"}]]>>)

\* Any two GPUs.
GpuPairs == File(<<Auto("gpus", <<Member("gpu", 2)>>, <<>>)>>)

BrokenFilter == File(<<[Auto("gpus", <<Member("gpu", 1)>>, <<>>) EXCEPT !.filters = [gpu |-> Broken]]>>)

\* Two GPUs and a NIC: more names than fit.
LongName == File(<<Auto("trio", <<Member("gpu", 2), Member("nic", 1)>>, On("root"))>>)

ExactPairs == File(<<Explicit(<<Pair({"g1"}, {"n1", "n1b"}, 0), Pair({"g2", "g3"}, {"n2"}, 1)>>,
                              <<Pair({"g1"}, {"n2"}, 0)>>)>>)
LoosePairs == File(<<Explicit(<<Pair(MCDev, MCDev, 0), Pair({"g1", "g2"}, MCDev, 1)>>,
                              <<Pair({"g1"}, Broken, 0)>>)>>)

TwiceListed == File(<<Auto("gpus", <<Member("gpu", 1), Member("gpu", 1)>>, On("root"))>>)

SharedDriver ==
  [File(<<Auto("pair", <<Member("gpu", 1), Member("big", 1)>>, On("root")),
          Auto("gpus", <<Member("gpu", 1)>>, <<>>)>>) EXCEPT
     !.sources = << [name |-> "gpu", driver |-> "gpu.dev", class |-> "gpu"],
                    [name |-> "big", driver |-> "gpu.dev", class |-> "gpu"] >>]

Unrelated == File(<<Auto("pair", GpuNic, <<>>)>>)
Incomplete == File(<<Explicit(<<Pair({"g1"}, NoExpr, 0)>>, <<Pair({"g1"}, {"n1"}, 0)>>)>>)

MCConfigs == {RootPair, NumaPair, GpuPairs, BrokenFilter, LongName, ExactPairs, LoosePairs,
              TwiceListed, SharedDriver, Unrelated, Incomplete}
OneComposition == {RootPair}

\* The recomputes are alike.
MCSym == Permutations(Runs)

\* The drivers name their devices apart, as the theorems on automatic pairs
\* suppose.
ASSUME MCNamedOnce == DevicesNamedOnce
============================================================================

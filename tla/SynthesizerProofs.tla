------------------------- MODULE SynthesizerProofs -------------------------
(***************************************************************************)
(* Proofs about Synthesizer, for every set of slices, devices and          *)
(* compositions and every number of concurrent recomputes.                 *)
(***************************************************************************)
EXTENDS Synthesizer, TLAPS

USE DEF synthVars, history

----------------------------------------------------------------------------
(* Type correctness                                                        *)

LEMMA SynthTypeInit == SynthInit => SynthTypeOK
  <1> SUFFICES ASSUME SynthInit PROVE SynthTypeOK
    OBVIOUS
  <1> USE DEF SynthInit
  <1>1. /\ DOMAIN slices = Slices /\ DOMAIN cache = Slices
        /\ \A x \in Slices : slices[x] \in Contents(x) /\ cache[x] \in Contents(x)
    OBVIOUS
  <1>2. timer \in BOOLEAN /\ tainted \in BOOLEAN
    OBVIOUS
  <1>3. step \in [Runs -> StepSet]
    BY DEF StepSet
  <1>4. result \in [Runs -> SUBSET Groups] /\ store \in SUBSET Groups /\ published \in SUBSET Groups
    OBVIOUS
  <1>5. changes \in 0 .. MaxChanges /\ failures \in 0 .. MaxFailures
    BY SynthAssumption
  <1>6. overlap \in [Runs -> BOOLEAN]
    OBVIOUS
  <1> QED BY <1>1, <1>2, <1>3, <1>4, <1>5, <1>6 DEF SynthTypeOK

LEMMA SynthTypeNext == SynthTypeOK /\ [SynthNext]_synthVars => SynthTypeOK'
  <1> SUFFICES ASSUME SynthTypeOK, [SynthNext]_synthVars PROVE SynthTypeOK'
    OBVIOUS
  <1> USE SynthAssumption DEF SynthTypeOK
  <1>1. ASSUME NEW x \in Slices, Change(x) PROVE SynthTypeOK'
    BY <1>1 DEF Change
  <1>2. ASSUME NEW x \in Slices, Deliver(x) PROVE SynthTypeOK'
    BY <1>2 DEF Deliver, handleEvent
  <1>3. ASSUME NEW x \in Slices, Resync(x) PROVE SynthTypeOK'
    BY <1>3 DEF Resync, handleEvent
  <1>4. ASSUME NEW r \in Runs, Fire(r) PROVE SynthTypeOK'
    BY <1>4 DEF Fire, StepSet
  <1>5. ASSUME NEW r \in Runs, ListAndPair(r) PROVE SynthTypeOK'
    <2>1. ComputePairs(GetSourceDevices(cache)) \in SUBSET Groups
      BY DEF ComputePairs
    <2> QED BY <1>5, <2>1 DEF ListAndPair, StepSet
  <1>6. ASSUME NEW r \in Runs, ReplaceAll(r) PROVE SynthTypeOK'
    BY <1>6 DEF ReplaceAll, StepSet
  <1>7. ASSUME NEW r \in Runs, Publish(r) PROVE SynthTypeOK'
    BY <1>7 DEF Publish, StepSet
  <1>8. ASSUME UNCHANGED synthVars PROVE SynthTypeOK'
    BY <1>8
  <1> QED BY <1>1, <1>2, <1>3, <1>4, <1>5, <1>6, <1>7, <1>8 DEF SynthNext, Recomputes

\* The synthesizer's variables keep their types.
THEOREM SynthTypeCorrect == SynthSpec => []SynthTypeOK
  BY SynthTypeInit, SynthTypeNext, PTL DEF SynthSpec

----------------------------------------------------------------------------
(* No event is lost                                                        *)

LEMMA EventsInit == SynthInit => EventsInv
  BY SynthAssumption DEF SynthInit, EventsInv, OverlapNoted, SoloCurrent, IdleCurrent

\* A slice of another driver or node does not change what is known.
LEMMA IrrelevantSlice ==
  ASSUME SynthTypeOK, NEW x \in Slices, x \notin Relevant, NEW v, cache' = [cache EXCEPT ![x] = v]
  PROVE  Known' = Known
  <1>1. \A y \in Relevant : cache'[y] = cache[y]
    BY SynthAssumption DEF SynthTypeOK
  <1>2. {cache'[y] : y \in {z \in Relevant : cache'[z] # NoSlice}}
          = {cache[y] : y \in {z \in Relevant : cache[z] # NoSlice}}
    BY <1>1
  <1> QED BY <1>2 DEF Known, GetSourceDevices

LEMMA EventsNext ==
  SynthTypeOK /\ EventsInv /\ [SynthNext]_synthVars => EventsInv'
  <1> SUFFICES ASSUME SynthTypeOK, EventsInv, [SynthNext]_synthVars PROVE EventsInv'
    OBVIOUS
  <1> USE DEF SynthTypeOK
  <1>1. ASSUME UNCHANGED <<step, result, store, published, history>>,
               timer' \/ (timer' = timer /\ Known' = Known)
        PROVE  EventsInv'
    BY <1>1 DEF EventsInv, OverlapNoted, SoloCurrent, IdleCurrent
  <1>2. ASSUME UNCHANGED cache PROVE Known' = Known
    BY <1>2 DEF Known
  <1>3. ASSUME NEW x \in Slices, Change(x) PROVE EventsInv'
    BY <1>1, <1>2, <1>3 DEF Change
  <1>4. ASSUME NEW x \in Slices, Deliver(x) PROVE EventsInv'
    <2>1. CASE x \in Relevant
      BY <1>1, <1>4, <2>1 DEF Deliver, handleEvent, isRelevantSlice
    <2>2. CASE x \notin Relevant
      BY <1>1, <1>4, <2>2, IrrelevantSlice DEF Deliver, handleEvent, isRelevantSlice
    <2> QED BY <2>1, <2>2
  <1>5. ASSUME NEW x \in Slices, Resync(x) PROVE EventsInv'
    BY <1>1, <1>2, <1>5 DEF Resync, handleEvent
  <1>6. ASSUME NEW r \in Runs, Fire(r) PROVE EventsInv'
    <2>1. /\ step[r] = "idle" /\ step' = [step EXCEPT ![r] = "started"]
          /\ UNCHANGED <<cache, result, store, published, tainted>>
          /\ overlap'[r] = (\E q \in Runs : step[q] # "idle")
          /\ \A q \in Runs : q # r => overlap'[q] = (overlap[q] \/ step[q] # "idle")
      BY <1>6 DEF Fire
    <2>2. OverlapNoted'
      BY <2>1 DEF EventsInv, OverlapNoted
    <2>3. SoloCurrent'
      BY <2>1 DEF EventsInv, SoloCurrent
    <2>4. IdleCurrent'
      BY <2>1 DEF IdleCurrent
    <2> QED BY <2>2, <2>3, <2>4 DEF EventsInv
  <1>7. ASSUME NEW r \in Runs, ListAndPair(r) PROVE EventsInv'
    <2>1. /\ step[r] = "started" /\ step' = [step EXCEPT ![r] = "paired"]
          /\ result' = [result EXCEPT ![r] = Known] /\ Known' = Known
          /\ UNCHANGED <<timer, store, overlap>>
      BY <1>2, <1>7 DEF ListAndPair, Known
    <2> QED BY <2>1 DEF EventsInv, OverlapNoted, SoloCurrent, IdleCurrent
  <1>8. ASSUME NEW r \in Runs, ReplaceAll(r) PROVE EventsInv'
    <2>1. /\ step[r] = "paired" /\ step' = [step EXCEPT ![r] = "stored"]
          /\ store' = result[r] /\ Known' = Known
          /\ UNCHANGED <<timer, result, overlap>>
      BY <1>2, <1>8 DEF ReplaceAll
    <2>2. \A q \in Runs : q # r /\ step[q] # "idle" => overlap[q]
      BY <2>1 DEF EventsInv, OverlapNoted
    <2> QED BY <2>1, <2>2 DEF EventsInv, OverlapNoted, SoloCurrent, IdleCurrent
  <1>9. ASSUME NEW r \in Runs, Publish(r) PROVE EventsInv'
    <2>1. /\ step[r] = "stored" /\ step' = [step EXCEPT ![r] = "idle"]
          /\ result' = [result EXCEPT ![r] = {}] /\ Known' = Known
          /\ UNCHANGED <<timer, store, overlap>>
      BY <1>2, <1>9 DEF Publish
    <2>2. failures + 1 # failures
      BY SynthAssumption
    <2>3. ~tainted' => ~overlap[r] /\ published' = result[r]
      BY <1>9, <2>2 DEF Publish
    <2>4. OverlapNoted' /\ SoloCurrent'
      BY <2>1 DEF EventsInv, OverlapNoted, SoloCurrent
    <2>5. IdleCurrent'
      BY <2>1, <2>3 DEF EventsInv, SoloCurrent, IdleCurrent
    <2> QED BY <2>4, <2>5 DEF EventsInv
  <1>10. ASSUME UNCHANGED synthVars PROVE EventsInv'
    BY <1>1, <1>2, <1>10
  <1> QED BY <1>3, <1>4, <1>5, <1>6, <1>7, <1>8, <1>9, <1>10 DEF SynthNext, Recomputes

\* Debouncing loses no event, for every number of recomputes that overlap and
\* every failure of Publish: when nothing is pending and the last recompute
\* ran alone and could publish, DeviceStore and published slices are current.
THEOREM QuiescenceIsCurrent == SynthSpec => []QuiescentCurrent
  <1>1. EventsInv => QuiescentCurrent
    BY DEF EventsInv, IdleCurrent, QuiescentCurrent, Known, Actual
  <1> QED BY <1>1, EventsInit, EventsNext, SynthTypeCorrect, PTL DEF SynthSpec
============================================================================

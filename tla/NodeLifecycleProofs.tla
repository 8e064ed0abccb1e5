------------------------ MODULE NodeLifecycleProofs ------------------------
(***************************************************************************)
(* Proofs about NodeLifecycle, for every set of claims, members, uids and  *)
(* drivers, every work list and every combination of faults.               *)
(***************************************************************************)
EXTENDS NodeLifecycle, TLAPS

----------------------------------------------------------------------------
(* Facts about the objects and helpers                                     *)

\* The slots of a claim's work list are slots, and name members.
LEMMA SlotFacts ==
  ASSUME NEW c \in Claims
  PROVE  /\ SlotsOf(c) \subseteq Slots
         /\ \A i \in SlotsOf(c) : Work[c][i] \in Members
  <1>1. Work[c] \in Seq(Members) /\ Len(Work[c]) \in Slots
    BY ClaimAssumption
  <1> QED BY <1>1, ClaimAssumption DEF SlotsOf, Slots

\* A shadow name is a name.
LEMMA NameFact ==
  ASSUME NEW c \in Claims, NEW m \in Members
  PROVE  shadowClaimName(c, m) \in NameSet
  BY DEF NameSet

\* A posted shadow and a shadow with an allocation are shadows.
LEMMA ShadowFacts ==
  ASSUME NEW c \in Claims, NEW m \in Members, NEW u \in Uids, api \in SUBSET ShadowSet
  PROVE  /\ NewShadow(c, m, u) \in ShadowSet
         /\ Allocated(u, m) \in SUBSET ShadowSet
  <1>1. NewShadow(c, m, u) \in ShadowSet
    BY NameFact DEF NewShadow, ShadowSet
  <1>2. ASSUME NEW s \in api
        PROVE  [s EXCEPT !.alloc = m] \in ShadowSet
    BY DEF ShadowSet
  <1> QED BY <1>1, <1>2 DEF Allocated

\* Deletion only removes objects.
LEMMA WithoutFact ==
  ASSUME NEW n PROVE Without(n) \in SUBSET api
  BY DEF Without

\* A uid taken for a new object is a uid nothing refers to.
LEMMA FreshFact ==
  ASSUME FreshUids # {}
  PROVE  FreshUid \in Uids /\ FreshUid \in FreshUids
  BY DEF FreshUid, FreshUids

\* Records are functions from slots to uids.
LEMMA RecordFacts ==
  /\ NoRecord \in Records
  /\ AllTodo \in [Slots -> StatSet]
  BY DEF NoRecord, Records, Uid0, AllTodo, StatSet

\* What the drivers hold afterwards is again a function to uids.
LEMMA PreparesFact ==
  ASSUME NEW i \in Slots, info \in Records, holder \in [Members -> Uid0]
  PROVE  DriverPrepares(i) \in [Members -> Uid0]
  BY DEF DriverPrepares, Records

LEMMA ReleasesFact ==
  ASSUME NEW i, holder \in [Members -> Uid0]
  PROVE  DriverReleases(i) \in [Members -> Uid0]
  BY DEF DriverReleases, Uid0

----------------------------------------------------------------------------
(* Type correctness                                                        *)

\* The initial state has the right types.
LEMMA TypeInit == Init => TypeOK
  <1> SUFFICES ASSUME Init PROVE TypeOK
    OBVIOUS
  <1> USE DEF Init, PluginInit, ClaimInit, ReconcilerInit
  <1>1. ClaimTypeOK
    BY DEF ClaimTypeOK, ClaimStates
  <1>2. holder \in [Members -> Uid0] /\ cur \in Claims \cup {NoClaim}
    BY DEF Uid0
  <1>3. mem \in [Claims -> Records] /\ bolt \in [Claims -> Records] /\ info \in Records
    BY RecordFacts
  <1>4. stat \in [Slots -> StatSet]
    BY RecordFacts
  <1>5. pc \in PcSet /\ (pc # "idle" => cur \in Claims)
    BY DEF PcSet
  <1>6. up \in BOOLEAN /\ err \in BOOLEAN
    OBVIOUS
  <1>7. claimsActive \in Int /\ budget \in Nat
    BY PluginAssumption
  <1>8. deviceStore \in SUBSET Devices /\ todo \in SUBSET Slots
    OBVIOUS
  <1>9. ReconcilerTypeOK
    BY DEF ReconcilerTypeOK
  <1>10. kstate \in [Claims -> KStates]
    BY DEF KStates
  <1> QED BY <1>1, <1>2, <1>3, <1>4, <1>5, <1>6, <1>7, <1>8, <1>9, <1>10 DEF TypeOK, PluginTypeOK

\* Faults only use up the budget.
LEMMA BudgetFact ==
  ASSUME budget \in Nat, NEW k, Fault(k) \/ NoFault
  PROVE  budget' \in Nat
  BY DEF Fault, NoFault

USE DEF vars, pluginVars, claimVars, nodeVars, callVars, reconcilerVars
USE DEF GrpcPrepareCall, GrpcUnprepareCall, DeleteCall, SaveShadows, DeleteShadows, ListAll
USE DEF persistShadows, deleteShadowState

\* The steps of one goroutine of prepareClaim's first phase.
LEMMA TypeCreate ==
  ASSUME PluginTypeOK, NEW i \in Slots,
         PostShadow(i) \/ UpdateStatus(i) \/ UndoCreate(i) \/ GetExisting(i)
  PROVE  PluginTypeOK'
  <1> USE DEF InSlot, InPhase
  <1>1. cur \in Claims /\ i \in SlotsOf(cur)
    BY DEF PluginTypeOK, PostShadow, UpdateStatus, UndoCreate, GetExisting
  <1>2. MemberOf(i) \in Members
    BY <1>1, SlotFacts DEF MemberOf
  <1>3. budget' \in Nat
    BY BudgetFact DEF PluginTypeOK, PostShadow, UpdateStatus, UndoCreate, GetExisting
  <1>4. api \in SUBSET ShadowSet
    BY DEF PluginTypeOK, ClaimTypeOK
  <1>5. ASSUME NEW st \in StatSet, NEW u \in Uid0, SetSlot(i, st, u)
        PROVE  stat' \in [Slots -> StatSet] /\ info' \in Records
    BY <1>5 DEF SetSlot, PluginTypeOK, Records
  <1>6. {"todo", "posted", "undo", "exists", "done", "failed"} = StatSet /\ NoUid \in Uid0
    BY DEF StatSet, Uid0
  <1>7. api' \in SUBSET ShadowSet /\ stat' \in [Slots -> StatSet] /\ info' \in Records
    <2>1. CASE PostShadow(i)
      <3>1. FreshUid \in Uids /\ FreshUid \in Uid0
        BY <2>1, FreshFact DEF PostShadow, Uid0
      <3>2. NewShadow(cur, MemberOf(i), FreshUid) \in ShadowSet
        BY <1>1, <1>2, <1>4, <3>1, ShadowFacts
      <3>3. api' \in SUBSET ShadowSet
        BY <1>4, <2>1, <3>2 DEF PostShadow
      <3>4. \/ SetSlot(i, "posted", FreshUid) \/ SetSlot(i, "exists", NoUid)
            \/ SetSlot(i, "failed", NoUid)
        BY <2>1 DEF PostShadow
      <3> QED BY <1>5, <1>6, <3>1, <3>3, <3>4
    <2>2. CASE UpdateStatus(i)
      <3>1. Allocated(info[i], MemberOf(i)) \in SUBSET ShadowSet
        <4>1. ASSUME NEW s \in api PROVE [s EXCEPT !.alloc = MemberOf(i)] \in ShadowSet
          BY <1>2, <1>4 DEF ShadowSet
        <4> QED BY <4>1, <1>4 DEF Allocated
      <3>2. api' \in SUBSET ShadowSet
        BY <1>4, <2>2, <3>1 DEF UpdateStatus
      <3>3. SetSlot(i, "undo", info[i]) \/ SetSlot(i, "done", info[i])
        BY <2>2 DEF UpdateStatus
      <3>4. info[i] \in Uid0
        BY DEF PluginTypeOK, Records
      <3> QED BY <1>5, <1>6, <3>2, <3>3, <3>4
    <2>3. CASE UndoCreate(i)
      BY <1>4, <1>5, <1>6, <2>3, WithoutFact DEF UndoCreate
    <2>4. CASE GetExisting(i)
      <3>1. ASSUME NEW s \in Named(NameOf(i)) PROVE s.uid \in Uid0
        BY <1>4 DEF Named, ShadowSet, Uid0
      <3> DEFINE e == CHOOSE s \in Named(NameOf(i)) : TRUE
      <3>2. Named(NameOf(i)) # {} => e \in Named(NameOf(i))
        OBVIOUS
      <3>3. \/ SetSlot(i, "failed", NoUid)
            \/ Named(NameOf(i)) # {} /\ SetSlot(i, "done", e.uid)
        BY <2>4 DEF GetExisting
      <3>4. api' = api
        BY <2>4 DEF GetExisting
      <3> HIDE DEF e
      <3> QED BY <1>4, <1>5, <1>6, <3>1, <3>2, <3>3, <3>4
    <2> QED BY <2>1, <2>2, <2>3, <2>4
  <1>8. UNCHANGED <<claimState, nodeVars, pc, cur, todo, err>>
    BY DEF PostShadow, UpdateStatus, UndoCreate, GetExisting
  <1> QED BY <1>3, <1>7, <1>8 DEF PluginTypeOK, ClaimTypeOK

\* The steps of the second phase and of the loops after it.
LEMMA TypeSteps ==
  ASSUME PluginTypeOK, PluginStep
  PROVE  PluginTypeOK'
  <1> USE DEF PcSet
  <1>1. ASSUME NEW i \in Slots, GrpcPrepare(i) PROVE PluginTypeOK'
    <2>1. budget' \in Nat
      BY <1>1, BudgetFact DEF PluginTypeOK, GrpcPrepare
    <2>2. holder' \in [Members -> Uid0]
      BY <1>1, PreparesFact DEF PluginTypeOK, GrpcPrepare
    <2>3. info[i] \in Uid0 /\ (SetSlot(i, "done", info[i]) \/ SetSlot(i, "failed", info[i]))
      BY <1>1 DEF PluginTypeOK, GrpcPrepare, Records
    <2>4. stat' \in [Slots -> StatSet] /\ info' \in Records
      BY <2>3 DEF SetSlot, PluginTypeOK, Records, StatSet
    <2> QED BY <1>1, <2>1, <2>2, <2>4 DEF GrpcPrepare, PluginTypeOK, ClaimTypeOK
  <1>2. ASSUME NEW i \in Slots, SweepDelete(i) PROVE PluginTypeOK'
    BY <1>2, WithoutFact, BudgetFact DEF SweepDelete, PluginTypeOK, ClaimTypeOK
  <1>3. ASSUME JoinCreate PROVE PluginTypeOK'
    BY <1>3, SlotFacts, RecordFacts DEF JoinCreate, PluginTypeOK, ClaimTypeOK
  <1>4. ASSUME JoinGrpc PROVE PluginTypeOK'
    BY <1>4, SlotFacts, RecordFacts DEF JoinGrpc, PluginTypeOK, ClaimTypeOK
  <1>5. ASSUME Record PROVE PluginTypeOK'
    BY <1>5, BudgetFact DEF Record, PluginTypeOK, ClaimTypeOK
  <1>6. ASSUME CleanupUnprepare PROVE PluginTypeOK'
    BY <1>6, ReleasesFact, BudgetFact DEF CleanupUnprepare, PluginTypeOK, ClaimTypeOK
  <1>7. ASSUME CleanupDelete PROVE PluginTypeOK'
    BY <1>7, WithoutFact, BudgetFact DEF CleanupDelete, PluginTypeOK, ClaimTypeOK
  <1>8. ASSUME UnprepareShadow PROVE PluginTypeOK'
    BY <1>8, ReleasesFact, BudgetFact DEF UnprepareShadow, PluginTypeOK, ClaimTypeOK
  <1>9. ASSUME DeleteShadow PROVE PluginTypeOK'
    <2>1. err' \in BOOLEAN
      BY <1>9 DEF DeleteShadow
    <2>2. api' \in SUBSET ShadowSet
      BY <1>9, WithoutFact DEF DeleteShadow, PluginTypeOK, ClaimTypeOK
    <2>3. budget' \in Nat
      BY <1>9, BudgetFact DEF DeleteShadow, PluginTypeOK
    <2>4. pc' \in PcSet /\ todo' \in SUBSET Slots /\ cur \in Claims
      BY <1>9 DEF DeleteShadow, PluginTypeOK
    <2>5. UNCHANGED <<claimState, nodeVars, cur, stat, info>>
      BY <1>9 DEF DeleteShadow
    <2> QED BY <2>1, <2>2, <2>3, <2>4, <2>5 DEF PluginTypeOK, ClaimTypeOK
  <1>10. ASSUME SweepList PROVE PluginTypeOK'
    BY <1>10, SlotFacts, BudgetFact DEF SweepList, PluginTypeOK, ClaimTypeOK
  <1>11. ASSUME Drop PROVE PluginTypeOK'
    BY <1>11, RecordFacts, BudgetFact DEF Drop, PluginTypeOK, ClaimTypeOK
  <1> QED BY <1>1, <1>2, <1>3, <1>4, <1>5, <1>6, <1>7, <1>8, <1>9, <1>10, <1>11, TypeCreate
          DEF PluginStep

\* A step of the specification preserves the types.
LEMMA TypeNext == TypeOK /\ [Next]_vars => TypeOK'
  <1> SUFFICES ASSUME TypeOK, [Next]_vars PROVE TypeOK'
    OBVIOUS
  <1> USE DEF TypeOK
  <1>1. ASSUME NEW c \in Claims, Schedule(c) PROVE TypeOK'
    BY <1>1 DEF Schedule, SetPod, PluginTypeOK, ClaimTypeOK, ReconcilerTypeOK, ClaimStates, KStates
  <1>2. ASSUME NEW c \in Claims, PodDelete(c) PROVE TypeOK'
    BY <1>2 DEF PodDelete, SetPod, PluginTypeOK, ClaimTypeOK, ReconcilerTypeOK, KStates
  <1>3. ASSUME NEW c \in Claims, Deallocate(c) PROVE TypeOK'
    BY <1>3 DEF Deallocate, PluginTypeOK, ClaimTypeOK, ReconcilerTypeOK, ClaimStates
  <1>4. ASSUME NEW c \in Claims, DeleteClaim(c) PROVE TypeOK'
    BY <1>4, BudgetFact DEF DeleteClaim, PluginTypeOK, ClaimTypeOK, ReconcilerTypeOK, ClaimStates
  <1>5. ASSUME OwnerGC PROVE TypeOK'
    BY <1>5 DEF OwnerGC, PluginTypeOK, ClaimTypeOK, ReconcilerTypeOK
  <1>6. ASSUME NEW c \in Claims, KubeletPrepare(c) PROVE TypeOK'
    <2>1. budget' \in Nat
      BY <1>6, BudgetFact DEF KubeletPrepare, PluginTypeOK
    <2>2. pc' \in PcSet /\ err' \in BOOLEAN
      BY <1>6 DEF KubeletPrepare, PrepareBegin, PcSet
    <2> QED BY <1>6, <2>1, <2>2
            DEF KubeletPrepare, PrepareBegin, PluginTypeOK, ClaimTypeOK, ReconcilerTypeOK
  <1>7. ASSUME NEW c \in Claims, KubeletUnprepare(c) PROVE TypeOK'
    BY <1>7, SlotFacts, RecordFacts
       DEF KubeletUnprepare, UnprepareBegin, PluginTypeOK, ClaimTypeOK, ReconcilerTypeOK, PcSet
  <1>8. ASSUME CallEnds, UNCHANGED <<claimVars, nodeVars, reconcilerVars>>,
               kstate' \in [Claims -> KStates], budget' \in Nat
        PROVE  TypeOK'
    <2>1. err' \in BOOLEAN /\ pc' \in PcSet /\ todo' \in SUBSET Slots
      BY <1>8 DEF CallEnds, PcSet
    <2> QED BY <1>8, <2>1, RecordFacts DEF CallEnds, PluginTypeOK, ClaimTypeOK, ReconcilerTypeOK
  <1>9. ASSUME ReplyPrepare \/ ReplyUnprepare PROVE TypeOK'
    <2>1. budget' \in Nat
      BY <1>9, BudgetFact DEF ReplyPrepare, ReplyUnprepare, PluginTypeOK
    <2>2. kstate' \in [Claims -> KStates]
      BY <1>9 DEF ReplyPrepare, ReplyUnprepare, SetPod, PluginTypeOK, KStates
    <2> QED BY <1>8, <1>9, <2>1, <2>2 DEF ReplyPrepare, ReplyUnprepare
  <1>10. ASSUME DriverStep PROVE TypeOK'
    <2>1. CASE PluginStep
      BY <1>10, <2>1, TypeSteps DEF DriverStep, ReconcilerTypeOK
    <2>2. CASE Crash
      <3>1. err' \in BOOLEAN /\ up' \in BOOLEAN /\ pc' \in PcSet /\ budget' \in Nat
        BY <2>2, BudgetFact DEF Crash, CallEnds, PcSet, PluginTypeOK
      <3>2. mem' \in [Claims -> Records] /\ info' \in Records /\ stat' \in [Slots -> StatSet]
        BY <2>2, RecordFacts DEF Crash, CallEnds
      <3> QED BY <1>10, <2>2, <3>1, <3>2
              DEF Crash, CallEnds, DriverStep, PluginTypeOK, ClaimTypeOK, ReconcilerTypeOK
    <2>3. CASE Restart
      <3>1. mem' \in [Claims -> Records]
        BY <2>3, RecordFacts DEF Restart, PluginTypeOK
      <3>2. budget' \in Nat /\ up' \in BOOLEAN
        BY <2>3, BudgetFact DEF Restart, PluginTypeOK
      <3> QED BY <1>10, <2>3, <3>1, <3>2
              DEF Restart, DriverStep, PluginTypeOK, ClaimTypeOK, ReconcilerTypeOK
    <2>4. CASE Recompute
      BY <1>10, <2>4, BudgetFact
         DEF Recompute, DriverStep, PluginTypeOK, ClaimTypeOK, ReconcilerTypeOK
    <2> QED BY <1>10, <2>1, <2>2, <2>3, <2>4 DEF DriverStep
  <1>11. ASSUME ReconcilerStep PROVE TypeOK'
    <2>1. CASE ReconcileList
      <3>1. \A s \in api : Listed(s) \in ListedSet
        BY DEF PluginTypeOK, ClaimTypeOK, ShadowSet, Listed, ListedSet
      <3> QED BY <1>11, <2>1, <3>1
              DEF ReconcileList, ReconcilerStep, PluginTypeOK, ClaimTypeOK, ReconcilerTypeOK
    <2>2. ASSUME NEW s \in rlist, ReconcileCheck(s) PROVE TypeOK'
      <3>1. s.name \in NameSet
        BY <2>2 DEF ReconcilerTypeOK, ListedSet
      <3> QED BY <1>11, <2>2, <3>1, BudgetFact
              DEF ReconcileCheck, ReconcilerStep, PluginTypeOK, ClaimTypeOK, ReconcilerTypeOK
    <2>3. CASE ReconcileDelete
      BY <1>11, <2>3, BudgetFact, WithoutFact
         DEF ReconcileDelete, ReconcilerStep, PluginTypeOK, ClaimTypeOK, ReconcilerTypeOK
    <2> QED BY <1>11, <2>1, <2>2, <2>3 DEF ReconcilerStep, Reconcile
  <1>12. ASSUME UNCHANGED vars PROVE TypeOK'
    BY <1>12 DEF PluginTypeOK, ClaimTypeOK, ReconcilerTypeOK
  <1> QED BY <1>1, <1>2, <1>3, <1>4, <1>5, <1>6, <1>7, <1>9, <1>10, <1>11, <1>12 DEF Next, Done

\* Every reachable state has the right types.
THEOREM TypeCorrect == Spec => []TypeOK
  BY TypeInit, TypeNext, PTL DEF Spec

----------------------------------------------------------------------------
(* Ownership of the shadows the plugin refers to                           *)

\* With distinct names, a shadow that has the name of slot i of the call in
\* flight belongs to the call's claim and allocates at most slot i's member.
LEMMA NameDetermines ==
  ASSUME NamesDistinct, TypeOK, OwnershipInv,
         NEW c \in Claims, NEW m \in Members, NEW s \in api, s.name = shadowClaimName(c, m)
  PROVE  s.owner = c /\ s.alloc \in {NoMember, m}
  <1>1. s.owner \in Claims
    BY DEF TypeOK, PluginTypeOK, ClaimTypeOK, ShadowSet
  <1>2. PICK n \in Members : s.name = shadowClaimName(s.owner, n) /\ s.alloc \in {NoMember, n}
    BY DEF OwnershipInv, ShadowWellFormed
  <1>3. shadowClaimName(s.owner, n) = shadowClaimName(c, m)
    BY <1>2
  <1>4. \A d \in Claims : shadowClaimName(d, n) = shadowClaimName(c, m) => d = c /\ n = m
    BY DEF NamesDistinct
  <1>5. s.owner = c /\ n = m
    BY <1>1, <1>3, <1>4
  <1> QED BY <1>2, <1>5

\* A step that adds or changes no shadow, and leaves the records and the call
\* alone, preserves the invariant.
LEMMA OwnershipShrink ==
  ASSUME TypeOK, OwnershipInv, api' \subseteq api,
         UNCHANGED <<mem, bolt, cur, info>>,
         \A i \in SlotsOf(cur) : Accepted(i)' => Accepted(i),
         pc' = "idle" => pc = "idle"
  PROVE  OwnershipInv'
  <1>1. ShadowWellFormed' /\ UniqueShadows'
    BY DEF OwnershipInv, ShadowWellFormed, UniqueShadows
  <1>2. CallOwnsShadow'
    <2> SUFFICES ASSUME cur \in Claims, NEW i \in SlotsOf(cur), NEW s \in api', s.uid = info[i]
                 PROVE  /\ s.owner = cur /\ s.name = NameOf(i)
                        /\ Accepted(i)' => s.alloc = MemberOf(i)
      BY DEF CallOwnsShadow, NameOf, MemberOf
    <2> QED BY DEF OwnershipInv, CallOwnsShadow
  <1>3. IdleClean'
    BY DEF OwnershipInv, IdleClean
  <1>4. RecordOwnsShadow'
    BY DEF OwnershipInv, RecordOwnsShadow
  <1> QED BY <1>1, <1>2, <1>3, <1>4 DEF OwnershipInv

\* The end of a call, and of the process, forgets the call's shadows.
LEMMA OwnershipCallEnds ==
  ASSUME TypeOK, OwnershipInv, CallEnds, UNCHANGED <<api, bolt>>,
         \A c \in Claims : mem'[c] \in {mem[c], NoRecord}
  PROVE  OwnershipInv'
  <1>1. ShadowWellFormed' /\ UniqueShadows'
    BY DEF OwnershipInv, ShadowWellFormed, UniqueShadows
  <1>2. CallOwnsShadow' /\ IdleClean'
    BY ClaimAssumption DEF CallEnds, CallOwnsShadow, IdleClean
  <1>3. RecordOwnsShadow'
    <2> SUFFICES ASSUME NEW c \in Claims, NEW i \in SlotsOf(c), NEW s \in api,
                        s.uid \in {mem'[c][i], bolt[c][i]}
                 PROVE  s.owner = c /\ s.alloc = Work[c][i]
      BY DEF RecordOwnsShadow
    <2>1. s.uid # NoUid /\ i \in Slots
      BY ClaimAssumption, SlotFacts DEF TypeOK, PluginTypeOK, ClaimTypeOK, ShadowSet
    <2>2. s.uid \in {mem[c][i], bolt[c][i]}
      BY <2>1 DEF NoRecord
    <2> QED BY <2>2 DEF OwnershipInv, RecordOwnsShadow
  <1> QED BY <1>1, <1>2, <1>3 DEF OwnershipInv

\* The steps of prepareClaim's first phase, which create, allocate and adopt
\* shadows.
LEMMA OwnershipCreate ==
  ASSUME NamesDistinct, TypeOK, OwnershipInv, NEW i \in Slots,
         PostShadow(i) \/ UpdateStatus(i) \/ UndoCreate(i) \/ GetExisting(i)
  PROVE  OwnershipInv'
  <1> USE DEF InSlot, InPhase
  <1>0. /\ pc = "create" /\ pc' = "create" /\ cur' = cur /\ cur \in Claims
        /\ i \in SlotsOf(cur) /\ mem' = mem /\ bolt' = bolt
    BY DEF PostShadow, UpdateStatus, UndoCreate, GetExisting, TypeOK, PluginTypeOK
  <1>1. MemberOf(i) \in Members /\ \A j \in SlotsOf(cur) : j \in Slots
    BY <1>0, SlotFacts DEF MemberOf
  <1>2. \A j : ~ Accepted(j) /\ ~ Accepted(j)'
    BY <1>0 DEF Accepted
  <1>3. \A s \in api : s.uid \in Uids /\ s.owner \in Claims /\ s.uid # NoUid
    BY ClaimAssumption DEF TypeOK, PluginTypeOK, ClaimTypeOK, ShadowSet
  <1>4. info \in [Slots -> Uid0] /\ mem \in [Claims -> Records] /\ bolt \in [Claims -> Records]
    BY DEF TypeOK, PluginTypeOK, Records
  <1>5. IdleClean'
    BY <1>0 DEF IdleClean
  \* What remains to be shown of the call, slot by slot.
  <1>6. ASSUME \A j \in SlotsOf(cur) : \A s \in api' :
                 s.uid = info'[j] => s.owner = cur /\ s.name = NameOf(j)
        PROVE  CallOwnsShadow'
    BY <1>0, <1>2, <1>6 DEF CallOwnsShadow, NameOf, MemberOf
  <1>7. CASE PostShadow(i)
    <2> DEFINE u == FreshUid
               n == NewShadow(cur, MemberOf(i), u)
    <2>1. /\ u \in Uids /\ WithUid(u) = {} /\ \A j \in Slots : info[j] # u
          /\ \A c \in Claims : \A j \in Slots : mem[c][j] # u /\ bolt[c][j] # u
      BY <1>7, FreshFact DEF PostShadow, FreshUids
    <2>2. api' = api \/ (Named(NameOf(i)) = {} /\ api' = api \cup {n})
      BY <1>7 DEF PostShadow
    <2>3. /\ n.name = NameOf(i) /\ n.uid = u /\ n.owner = cur /\ n.alloc = NoMember
          /\ NameOf(i) = shadowClaimName(cur, MemberOf(i))
      BY DEF NewShadow, NameOf
    <2>4. info' = [info EXCEPT ![i] = u] \/ info' = [info EXCEPT ![i] = NoUid]
      BY <1>7 DEF PostShadow, SetSlot
    <2>5. \A s \in api : s.uid # u
      BY <2>1 DEF WithUid
    <2> HIDE DEF u, n
    <2>6. ShadowWellFormed'
      BY <1>0, <1>1, <2>2, <2>3 DEF OwnershipInv, ShadowWellFormed
    <2>7. UniqueShadows'
      BY <2>2, <2>3, <2>5 DEF OwnershipInv, UniqueShadows, Named
    <2>8. CallOwnsShadow'
      <3> SUFFICES ASSUME NEW j \in SlotsOf(cur), NEW s \in api', s.uid = info'[j]
                   PROVE  s.owner = cur /\ s.name = NameOf(j)
        BY <1>6
      <3>1. CASE s = n
        <4>1. j = i
          BY <1>0, <1>1, <1>4, <2>1, <2>3, <2>4, <3>1 DEF Uid0
        <4> QED BY <2>3, <3>1, <4>1
      <3>2. CASE s # n
        <4>1. s \in api
          BY <2>2, <3>2
        <4>2. j # i /\ s.uid = info[j]
          BY <1>1, <1>3, <1>4, <2>4, <2>5, <4>1
        <4> QED BY <1>0, <4>1, <4>2 DEF OwnershipInv, CallOwnsShadow
      <3> QED BY <3>1, <3>2
    <2>9. RecordOwnsShadow'
      <3> SUFFICES ASSUME NEW c \in Claims, NEW j \in SlotsOf(c), NEW s \in api',
                          s.uid \in {mem[c][j], bolt[c][j]}
                   PROVE  s.owner = c /\ s.alloc = Work[c][j]
        BY <1>0 DEF RecordOwnsShadow
      <3>1. s # n
        BY <2>1, <2>3, SlotFacts
      <3>2. s \in api
        BY <2>2, <3>1
      <3> QED BY <3>2 DEF OwnershipInv, RecordOwnsShadow
    <2> QED BY <1>5, <2>6, <2>7, <2>8, <2>9 DEF OwnershipInv
  <1>8. CASE UpdateStatus(i)
    <2>1. api' = api \/ api' = Allocated(info[i], MemberOf(i))
      BY <1>8 DEF UpdateStatus
    <2>2. info' = info
      BY <1>1, <1>4, <1>8 DEF UpdateStatus, SetSlot
    \* Every shadow comes from one that differs in the allocation only.
    <2>3. ASSUME NEW s \in api'
          PROVE  \E t \in api : /\ s.name = t.name /\ s.uid = t.uid /\ s.owner = t.owner
                                /\ \/ s = t
                                   \/ t.uid = info[i] /\ s = [t EXCEPT !.alloc = MemberOf(i)]
      <3>1. \A t \in api : LET a == [t EXCEPT !.alloc = MemberOf(i)]
                           IN  a.name = t.name /\ a.uid = t.uid /\ a.owner = t.owner
        BY DEF TypeOK, PluginTypeOK, ClaimTypeOK, ShadowSet
      <3>2. CASE api' = api
        BY <2>3, <3>2
      <3>3. CASE api' = Allocated(info[i], MemberOf(i))
        <4>1. PICK t \in api :
                s = IF t.uid = info[i] THEN [t EXCEPT !.alloc = MemberOf(i)] ELSE t
          BY <2>3, <3>3 DEF Allocated
        <4>2. \/ s = t
              \/ t.uid = info[i] /\ s = [t EXCEPT !.alloc = MemberOf(i)]
          BY <4>1
        <4>3. s.name = t.name /\ s.uid = t.uid /\ s.owner = t.owner
          BY <3>1, <4>2
        <4> QED BY <4>2, <4>3
      <3> QED BY <2>1, <3>2, <3>3
    <2>4. \A t \in api : t.uid = info[i] => t.owner = cur /\ t.name = NameOf(i)
      BY <1>0 DEF OwnershipInv, CallOwnsShadow
    <2>5. \A t \in api : [t EXCEPT !.alloc = MemberOf(i)].alloc = MemberOf(i)
      BY DEF TypeOK, PluginTypeOK, ClaimTypeOK, ShadowSet
    <2>6. ShadowWellFormed'
      <3> SUFFICES ASSUME NEW s \in api'
                   PROVE  \E m \in Members : s.name = shadowClaimName(s.owner, m)
                                             /\ s.alloc \in {NoMember, m}
        BY DEF ShadowWellFormed
      <3>1. PICK t \in api : /\ s.name = t.name /\ s.uid = t.uid /\ s.owner = t.owner
                             /\ \/ s = t
                                \/ t.uid = info[i] /\ s = [t EXCEPT !.alloc = MemberOf(i)]
        BY <2>3
      <3>2. CASE s = t
        BY <3>2 DEF OwnershipInv, ShadowWellFormed
      <3>3. CASE t.uid = info[i] /\ s = [t EXCEPT !.alloc = MemberOf(i)]
        <4>1. s.alloc = MemberOf(i) /\ s.owner = cur
          BY <2>4, <2>5, <3>1, <3>3
        <4>2. s.name = shadowClaimName(cur, MemberOf(i))
          BY <2>4, <3>1, <3>3 DEF NameOf
        <4> QED BY <1>1, <4>1, <4>2
      <3> QED BY <3>1, <3>2, <3>3
    <2>7. UniqueShadows'
      <3> SUFFICES ASSUME NEW s \in api', NEW t \in api', s.name = t.name \/ s.uid = t.uid
                   PROVE  s = t
        BY DEF UniqueShadows
      <3>1. CASE api' = api
        BY <3>1 DEF OwnershipInv, UniqueShadows
      <3>2. CASE api' = Allocated(info[i], MemberOf(i))
        <4> DEFINE upd(r) == IF r.uid = info[i] THEN [r EXCEPT !.alloc = MemberOf(i)] ELSE r
        <4>1. PICK s0 \in api : s = upd(s0)
          BY <3>2 DEF Allocated
        <4>2. PICK t0 \in api : t = upd(t0)
          BY <3>2 DEF Allocated
        <4>3. \A r \in api : upd(r).name = r.name /\ upd(r).uid = r.uid
          BY DEF TypeOK, PluginTypeOK, ClaimTypeOK, ShadowSet
        <4> HIDE DEF upd
        <4>4. s0 = t0
          BY <4>1, <4>2, <4>3 DEF OwnershipInv, UniqueShadows
        <4> QED BY <4>1, <4>2, <4>4
      <3> QED BY <2>1, <3>1, <3>2
    <2>8. CallOwnsShadow'
      <3> SUFFICES ASSUME NEW j \in SlotsOf(cur), NEW s \in api', s.uid = info[j]
                   PROVE  s.owner = cur /\ s.name = NameOf(j)
        BY <1>6, <2>2
      <3>1. PICK t \in api : s.name = t.name /\ s.uid = t.uid /\ s.owner = t.owner
        BY <2>3
      <3> QED BY <1>0, <3>1 DEF OwnershipInv, CallOwnsShadow
    <2>9. RecordOwnsShadow'
      <3> SUFFICES ASSUME NEW c \in Claims, NEW j \in SlotsOf(c), NEW s \in api',
                          s.uid \in {mem[c][j], bolt[c][j]}
                   PROVE  s.owner = c /\ s.alloc = Work[c][j]
        BY <1>0 DEF RecordOwnsShadow
      <3>1. PICK t \in api : /\ s.name = t.name /\ s.uid = t.uid /\ s.owner = t.owner
                             /\ \/ s = t
                                \/ t.uid = info[i] /\ s = [t EXCEPT !.alloc = MemberOf(i)]
        BY <2>3
      <3>2. t.owner = c /\ t.alloc = Work[c][j]
        BY <3>1 DEF OwnershipInv, RecordOwnsShadow
      <3>3. CASE t.uid = info[i] /\ s = [t EXCEPT !.alloc = MemberOf(i)]
        <4>1. t.alloc \in {NoMember, MemberOf(i)}
          BY <1>0, <1>1, <2>4, <3>3, NameDetermines DEF NameOf
        <4>2. t.alloc = MemberOf(i)
          BY <3>2, <4>1, SlotFacts, ClaimAssumption
        <4> QED BY <2>5, <3>1, <3>2, <3>3, <4>2
      <3> QED BY <3>1, <3>2, <3>3
    <2> QED BY <1>5, <2>6, <2>7, <2>8, <2>9 DEF OwnershipInv
  <1>9. ASSUME api' \subseteq api,
               \A j \in SlotsOf(cur) : \A s \in api :
                 s.uid = info'[j] => s.owner = cur /\ s.name = NameOf(j)
        PROVE  OwnershipInv'
    BY <1>0, <1>5, <1>6, <1>9
       DEF OwnershipInv, ShadowWellFormed, UniqueShadows, RecordOwnsShadow
  <1>10. CASE UndoCreate(i)
    <2>1. api' \subseteq api /\ info' = [info EXCEPT ![i] = NoUid]
      BY <1>10, WithoutFact DEF UndoCreate, SetSlot
    <2>2. \A j \in SlotsOf(cur) : \A s \in api : s.uid = info'[j] => s.uid = info[j]
      BY <1>1, <1>3, <1>4, <2>1
    <2> QED BY <1>0, <1>9, <2>1, <2>2 DEF OwnershipInv, CallOwnsShadow
  <1>11. CASE GetExisting(i)
    <2> DEFINE e == CHOOSE s \in Named(NameOf(i)) : TRUE
    <2>1. Named(NameOf(i)) # {} => e \in api /\ e.name = NameOf(i)
      BY DEF Named
    <2>2. \/ info' = [info EXCEPT ![i] = NoUid]
          \/ Named(NameOf(i)) # {} /\ info' = [info EXCEPT ![i] = e.uid]
      BY <1>11 DEF GetExisting, SetSlot
    <2>3. api' = api
      BY <1>11 DEF GetExisting
    <2> HIDE DEF e
    <2>4. ASSUME NEW j \in SlotsOf(cur), NEW s \in api, s.uid = info'[j]
          PROVE  s.owner = cur /\ s.name = NameOf(j)
      <3>1. CASE s.uid = info[j]
        BY <1>0, <2>4, <3>1 DEF OwnershipInv, CallOwnsShadow
      <3>2. CASE s.uid # info[j]
        <4>1. j = i /\ s.uid = e.uid /\ e \in api /\ e.name = NameOf(i)
          BY <1>1, <1>3, <1>4, <2>1, <2>2, <2>4, <3>2
        <4>2. s = e
          BY <4>1 DEF OwnershipInv, UniqueShadows
        <4> QED BY <1>0, <1>1, <4>1, <4>2, NameDetermines DEF NameOf
      <3> QED BY <3>1, <3>2
    <2> QED BY <1>9, <2>3, <2>4
  <1> QED BY <1>7, <1>8, <1>10, <1>11

\* The other steps of the plugin.
LEMMA OwnershipSteps ==
  ASSUME NamesDistinct, TypeOK, OwnershipInv, PluginStep
  PROVE  OwnershipInv'
  <1>1. ASSUME NEW i \in Slots, GrpcPrepare(i) PROVE OwnershipInv'
    <2>1. /\ UNCHANGED <<api, mem, bolt, cur>> /\ info' = info /\ pc = "grpc" /\ pc' = "grpc"
          /\ cur \in Claims /\ i \in SlotsOf(cur)
      BY <1>1 DEF GrpcPrepare, SetSlot, InPhase, TypeOK, PluginTypeOK, Records
    <2>2. \A j \in SlotsOf(cur) : j # i => (Accepted(j)' => Accepted(j))
      <3>1. PICK st : stat' = [stat EXCEPT ![i] = st]
        BY <1>1 DEF GrpcPrepare, SetSlot
      <3>2. \A j \in SlotsOf(cur) : j # i => stat'[j] = stat[j]
        BY <2>1, <3>1, SlotFacts DEF TypeOK, PluginTypeOK
      <3> QED BY <2>1, <3>2 DEF Accepted
    <2>3. Accepted(i)' => DriverAccepts(i)
      BY <1>1, <2>1 DEF GrpcPrepare, SetSlot, Accepted, TypeOK, PluginTypeOK
    <2>4. ASSUME DriverAccepts(i), NEW s \in api, s.uid = info[i]
          PROVE  s.alloc = MemberOf(i)
      <3>1. PICK t \in api : t.name = NameOf(i) /\ t.uid = info[i] /\ t.alloc # NoMember
        BY <2>4 DEF DriverAccepts, Readable, Named
      <3>2. MemberOf(i) \in Members
        BY <2>1, SlotFacts DEF MemberOf
      <3>3. t.alloc \in {NoMember, MemberOf(i)}
        BY <2>1, <3>1, <3>2, NameDetermines DEF NameOf
      <3>4. s = t
        BY <2>4, <3>1 DEF OwnershipInv, UniqueShadows
      <3> QED BY <3>1, <3>3, <3>4
    <2>5. CallOwnsShadow'
      <3> SUFFICES ASSUME NEW j \in SlotsOf(cur), NEW s \in api, s.uid = info[j]
                   PROVE  /\ s.owner = cur /\ s.name = NameOf(j)
                          /\ Accepted(j)' => s.alloc = MemberOf(j)
        BY <2>1 DEF CallOwnsShadow, NameOf, MemberOf
      <3>1. /\ s.owner = cur /\ s.name = NameOf(j)
            /\ Accepted(j) => s.alloc = MemberOf(j)
        BY <2>1 DEF OwnershipInv, CallOwnsShadow
      <3> QED BY <2>2, <2>3, <2>4, <3>1
    <2> QED BY <2>1, <2>5 DEF OwnershipInv, ShadowWellFormed, UniqueShadows, RecordOwnsShadow, IdleClean
  <1>2. ASSUME NEW i \in Slots, SweepDelete(i) PROVE OwnershipInv'
    BY <1>2, WithoutFact, OwnershipShrink DEF SweepDelete, Accepted
  <1>3. ASSUME JoinCreate PROVE OwnershipInv'
    <2>1. \A i \in SlotsOf(cur) : ~ Accepted(i)'
      <3>1. cur \in Claims /\ pc' # "record" /\ stat' = AllTodo
        BY <1>3 DEF JoinCreate, TypeOK, PluginTypeOK
      <3> QED BY <3>1, SlotFacts DEF Accepted, AllTodo
    <2>2. UNCHANGED <<api, mem, bolt, cur, info>> /\ pc' # "idle"
      BY <1>3 DEF JoinCreate
    <2> QED BY <2>1, <2>2, OwnershipShrink
  <1>4. ASSUME JoinGrpc PROVE OwnershipInv'
    <2>1. \A i \in SlotsOf(cur) : Accepted(i)' => Accepted(i)
      BY <1>4 DEF JoinGrpc, Accepted
    <2>2. UNCHANGED <<api, mem, bolt, cur, info>> /\ pc' # "idle"
      BY <1>4 DEF JoinGrpc
    <2> QED BY <2>1, <2>2, OwnershipShrink
  <1>5. ASSUME Record PROVE OwnershipInv'
    <2>1. /\ UNCHANGED <<api, cur, info, stat>> /\ pc = "record" /\ pc' = "prepared"
          /\ cur \in Claims
      BY <1>5 DEF Record, TypeOK, PluginTypeOK
    <2>2. \A c \in Claims : /\ mem'[c] = IF c = cur THEN info ELSE mem[c]
                           /\ bolt'[c] \in {bolt[c], IF c = cur THEN info ELSE bolt[c]}
      BY <1>5 DEF Record, TypeOK, PluginTypeOK
    <2>3. \A i \in SlotsOf(cur) : \A s \in api :
            s.uid = info[i] => s.owner = cur /\ s.alloc = Work[cur][i]
      BY <2>1 DEF OwnershipInv, CallOwnsShadow, Accepted, MemberOf
    <2>4. RecordOwnsShadow'
      <3> SUFFICES ASSUME NEW c \in Claims, NEW i \in SlotsOf(c), NEW s \in api,
                          s.uid \in {mem'[c][i], bolt'[c][i]}
                   PROVE  s.owner = c /\ s.alloc = Work[c][i]
        BY <2>1 DEF RecordOwnsShadow
      <3>1. \/ s.uid \in {mem[c][i], bolt[c][i]}
            \/ c = cur /\ s.uid = info[i]
        BY <2>2
      <3> QED BY <2>3, <3>1 DEF OwnershipInv, RecordOwnsShadow
    <2>5. CallOwnsShadow'
      BY <2>1 DEF OwnershipInv, CallOwnsShadow, Accepted, NameOf, MemberOf
    <2> QED BY <2>1, <2>4, <2>5 DEF OwnershipInv, ShadowWellFormed, UniqueShadows, IdleClean
  <1>6. ASSUME CleanupUnprepare \/ UnprepareShadow \/ SweepList PROVE OwnershipInv'
    BY <1>6, OwnershipShrink DEF CleanupUnprepare, UnprepareShadow, SweepList, Accepted
  <1>7. ASSUME CleanupDelete \/ DeleteShadow PROVE OwnershipInv'
    <2>1. api' \subseteq api
      BY <1>7, WithoutFact DEF CleanupDelete, DeleteShadow
    <2> QED BY <1>7, <2>1, OwnershipShrink DEF CleanupDelete, DeleteShadow, Accepted
  <1>8. ASSUME Drop PROVE OwnershipInv'
    <2>1. /\ UNCHANGED <<api, mem, cur, info, stat>> /\ pc = "drop" /\ pc' = "unprepared"
          /\ cur \in Claims
      BY <1>8 DEF Drop, TypeOK, PluginTypeOK
    <2>2. \A c \in Claims : bolt'[c] \in {bolt[c], NoRecord}
      BY <1>8 DEF Drop, TypeOK, PluginTypeOK
    <2>3. RecordOwnsShadow'
      <3> SUFFICES ASSUME NEW c \in Claims, NEW i \in SlotsOf(c), NEW s \in api,
                          s.uid \in {mem[c][i], bolt'[c][i]}
                   PROVE  s.owner = c /\ s.alloc = Work[c][i]
        BY <2>1 DEF RecordOwnsShadow
      <3>1. s.uid # NoUid /\ i \in Slots
        BY ClaimAssumption, SlotFacts DEF TypeOK, PluginTypeOK, ClaimTypeOK, ShadowSet
      <3>2. s.uid \in {mem[c][i], bolt[c][i]}
        BY <2>2, <3>1 DEF NoRecord
      <3> QED BY <3>2 DEF OwnershipInv, RecordOwnsShadow
    <2>4. CallOwnsShadow'
      BY <2>1 DEF OwnershipInv, CallOwnsShadow, Accepted, NameOf, MemberOf
    <2> QED BY <2>1, <2>3, <2>4 DEF OwnershipInv, ShadowWellFormed, UniqueShadows, IdleClean
  <1> QED BY <1>1, <1>2, <1>3, <1>4, <1>5, <1>6, <1>7, <1>8, OwnershipCreate DEF PluginStep

\* A step of the specification preserves the ownership invariant.
LEMMA OwnershipNext ==
  ASSUME NamesDistinct
  PROVE  TypeOK /\ OwnershipInv /\ [Next]_vars => OwnershipInv'
  <1> SUFFICES ASSUME TypeOK, OwnershipInv, [Next]_vars PROVE OwnershipInv'
    OBVIOUS
  <1>1. ASSUME api' \subseteq api, UNCHANGED <<mem, bolt, callVars>> PROVE OwnershipInv'
    BY <1>1, OwnershipShrink DEF Accepted
  <1>2. ASSUME NEW c \in Claims, Schedule(c) \/ PodDelete(c) \/ Deallocate(c) \/ DeleteClaim(c)
        PROVE  OwnershipInv'
    BY <1>1, <1>2 DEF Schedule, PodDelete, Deallocate, DeleteClaim
  <1>3. ASSUME OwnerGC PROVE OwnershipInv'
    BY <1>1, <1>3 DEF OwnerGC
  \* A call starts with a clean slate, or with the claim's own record.
  <1>4. ASSUME NEW c \in Claims, pc = "idle", cur' = c, UNCHANGED <<api, bolt>>,
               pc' \notin {"idle", "grpc", "record"},
               \A d \in Claims : mem'[d] \in {mem[d], NoRecord},
               info' \in {NoRecord, mem[c]}
        PROVE  OwnershipInv'
    <2>1. \A s \in api : s.uid # NoUid
      BY ClaimAssumption DEF TypeOK, PluginTypeOK, ClaimTypeOK, ShadowSet
    <2>2. RecordOwnsShadow'
      <3> SUFFICES ASSUME NEW d \in Claims, NEW i \in SlotsOf(d), NEW s \in api,
                          s.uid \in {mem'[d][i], bolt[d][i]}
                   PROVE  s.owner = d /\ s.alloc = Work[d][i]
        BY <1>4 DEF RecordOwnsShadow
      <3>1. s.uid \in {mem[d][i], bolt[d][i]}
        BY <1>4, <2>1, SlotFacts DEF NoRecord
      <3> QED BY <3>1 DEF OwnershipInv, RecordOwnsShadow
    <2>3. CallOwnsShadow'
      <3> SUFFICES ASSUME NEW i \in SlotsOf(c), NEW s \in api, s.uid = info'[i]
                   PROVE  s.owner = c /\ s.name = shadowClaimName(c, Work[c][i])
        BY <1>4 DEF CallOwnsShadow, Accepted, NameOf, MemberOf
      <3>1. s.uid = mem[c][i]
        BY <1>4, <2>1, SlotFacts DEF NoRecord
      <3>2. s.owner = c /\ s.alloc = Work[c][i]
        BY <3>1 DEF OwnershipInv, RecordOwnsShadow
      <3>3. s.alloc # NoMember
        BY <3>2, SlotFacts, ClaimAssumption
      <3>4. PICK m \in Members : s.name = shadowClaimName(s.owner, m) /\ s.alloc \in {NoMember, m}
        BY DEF OwnershipInv, ShadowWellFormed
      <3>5. m = Work[c][i]
        BY <3>2, <3>3, <3>4
      <3> QED BY <3>2, <3>4, <3>5
    <2> QED BY <1>4, <2>2, <2>3 DEF OwnershipInv, ShadowWellFormed, UniqueShadows, IdleClean
  <1>5. ASSUME NEW c \in Claims, KubeletPrepare(c) PROVE OwnershipInv'
    <2>1. info' = NoRecord
      BY <1>5 DEF KubeletPrepare, PrepareBegin, OwnershipInv, IdleClean
    <2> QED BY <1>4, <1>5, <2>1 DEF KubeletPrepare, PrepareBegin
  <1>6. ASSUME NEW c \in Claims, KubeletUnprepare(c) PROVE OwnershipInv'
    <2>1. \A d \in Claims : mem'[d] \in {mem[d], NoRecord}
      BY <1>6 DEF KubeletUnprepare, UnprepareBegin, TypeOK, PluginTypeOK
    <2> QED BY <1>4, <1>6, <2>1 DEF KubeletUnprepare, UnprepareBegin
  <1>7. ASSUME ReplyPrepare \/ ReplyUnprepare PROVE OwnershipInv'
    BY <1>7, OwnershipCallEnds DEF ReplyPrepare, ReplyUnprepare
  <1>8. ASSUME DriverStep PROVE OwnershipInv'
    <2>1. CASE Crash
      BY <2>1, OwnershipCallEnds DEF Crash
    <2>2. CASE Restart
      <3>1. \A c \in Claims : mem'[c] \in {bolt[c], NoRecord}
        BY <2>2 DEF Restart
      <3>2. \A s \in api : s.uid # NoUid
        BY ClaimAssumption DEF TypeOK, PluginTypeOK, ClaimTypeOK, ShadowSet
      <3>3. RecordOwnsShadow'
        <4> SUFFICES ASSUME NEW c \in Claims, NEW i \in SlotsOf(c), NEW s \in api,
                            s.uid \in {mem'[c][i], bolt[c][i]}
                     PROVE  s.owner = c /\ s.alloc = Work[c][i]
          BY <2>2 DEF Restart, RecordOwnsShadow
        <4>1. s.uid = bolt[c][i]
          BY <3>1, <3>2, SlotFacts DEF NoRecord
        <4> QED BY <4>1 DEF OwnershipInv, RecordOwnsShadow
      <3>4. CallOwnsShadow'
        BY <2>2 DEF Restart, OwnershipInv, CallOwnsShadow, Accepted, NameOf, MemberOf
      <3> QED BY <2>2, <3>3, <3>4
              DEF Restart, OwnershipInv, ShadowWellFormed, UniqueShadows, IdleClean
    <2>3. CASE Recompute
      BY <1>1, <2>3 DEF Recompute
    <2> QED BY <1>8, <2>1, <2>2, <2>3, OwnershipSteps DEF DriverStep
  <1>9. ASSUME ReconcilerStep PROVE OwnershipInv'
    <2>1. CASE ReconcileDelete
      BY <1>1, <2>1, WithoutFact DEF ReconcileDelete
    <2> QED BY <1>1, <1>9, <2>1 DEF ReconcilerStep, Reconcile, ReconcileList, ReconcileCheck
  <1>10. ASSUME UNCHANGED vars PROVE OwnershipInv'
    BY <1>1, <1>10
  <1> QED BY <1>2, <1>3, <1>5, <1>6, <1>7, <1>8, <1>9, <1>10 DEF Next, Done

\* When shadow names are distinct, names and uids identify shadows, and
\* whoever refers to a shadow by uid refers to one of the right claim and
\* slot, under every fault.
THEOREM ShadowsOwned ==
  ASSUME NamesDistinct
  PROVE  Spec => []OwnershipInv
  <1>1. Init => OwnershipInv
    <2> SUFFICES ASSUME Init PROVE OwnershipInv
      OBVIOUS
    <2>1. api = {} /\ info = NoRecord
      BY DEF Init, PluginInit, ClaimInit
    <2> QED BY <2>1 DEF OwnershipInv, ShadowWellFormed, UniqueShadows, CallOwnsShadow, IdleClean,
                        RecordOwnsShadow
  <1>2. TypeOK /\ OwnershipInv /\ [Next]_vars => OwnershipInv'
    BY OwnershipNext
  <1> QED BY <1>1, <1>2, TypeCorrect, PTL DEF Spec

\* In particular a uid on record, in memory or on disk, only ever denotes a
\* shadow of the recording claim and slot.
THEOREM RecordsOwnShadows ==
  ASSUME NamesDistinct
  PROVE  Spec => []RecordOwnsShadow
  <1>1. OwnershipInv => RecordOwnsShadow
    BY DEF OwnershipInv
  <1> QED BY <1>1, ShadowsOwned, PTL
============================================================================

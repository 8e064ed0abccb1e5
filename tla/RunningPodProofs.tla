------------------------- MODULE RunningPodProofs -------------------------
(***************************************************************************)
(* Proofs of what a running pod relies on, for every set of claims,        *)
(* members, uids and drivers and every work list: whose shadows a step may *)
(* remove, and that the devices of a running pod stay prepared.            *)
(***************************************************************************)
EXTENDS NodeInvariants, NodeLifecycleProofs, FiniteSetTheorems

USE DEF vars, pluginVars, claimVars, nodeVars, callVars, reconcilerVars
USE DEF GrpcPrepareCall, GrpcUnprepareCall, DeleteCall, SaveShadows, DeleteShadows, ListAll
USE DEF persistShadows, deleteShadowState

----------------------------------------------------------------------------
(* Slots of the call in flight                                             *)

\* The loops take the slots in order: there is a first one.
LEMMA FirstFact ==
  ASSUME NEW T \in SUBSET Slots, T # {}
  PROVE  First(T) \in T
  <1> DEFINE upTo(x) == {y \in T : y <= x}
             R == StrictSubsetOrdering(Slots)
             U == {upTo(x) : x \in T}
  <1>1. Slots \subseteq Nat /\ IsFiniteSet(Slots)
    BY ClaimAssumption, FS_Interval DEF Slots
  <1>2. IsWellFoundedOn(R, SUBSET Slots)
    BY <1>1, FS_StrictSubsetOrderingWellFounded, FS_FiniteSubsetsOfFinite
  <1>3. \A A, B \in SUBSET Slots : A \subseteq B /\ A # B => <<A, B>> \in R
    BY DEF StrictSubsetOrdering
  <1>4. U \subseteq SUBSET Slots /\ U # {}
    OBVIOUS
  <1>5. \E A \in U : \A B \in U : ~ (<<B, A>> \in R)
    <2> HIDE DEF R, U
    <2> QED BY <1>2, <1>4, WFMin
  <1> HIDE DEF R
  <1>6. PICK x \in T : \A B \in U : ~ (<<B, upTo(x)>> \in R)
    BY <1>5
  <1>7. ASSUME NEW y \in T PROVE x <= y
    <2> SUFFICES ASSUME ~ (x <= y) PROVE FALSE
      OBVIOUS
    <2>0. \A z \in T : z \in Nat
      BY <1>1
    <2>1. upTo(y) \subseteq upTo(x) /\ x \in upTo(x) /\ x \notin upTo(y)
      BY <2>0
    <2>2. upTo(y) \in U /\ upTo(y) \in SUBSET Slots /\ upTo(x) \in SUBSET Slots
      BY <1>4
    <2> QED BY <1>3, <1>6, <2>1, <2>2
  <1> QED BY <1>7 DEF First

\* The slot a loop works on is a slot of the call's claim.
LEMMA LoopSlot ==
  ASSUME TypeOK, CallInv, pc \in LoopSteps
  PROVE  /\ cur \in Claims /\ First(todo) \in todo /\ First(todo) \in SlotsOf(cur)
         /\ First(todo) \in Slots /\ MemberOf(First(todo)) \in Members
  <1>1. cur \in Claims /\ todo # {} /\ todo \subseteq SlotsOf(cur)
    BY DEF TypeOK, PluginTypeOK, CallInv, LoopSteps
  <1>2. todo \in SUBSET Slots
    BY DEF TypeOK, PluginTypeOK
  <1>3. First(todo) \in todo
    BY <1>1, <1>2, FirstFact
  <1> QED BY <1>1, <1>2, <1>3, SlotFacts DEF MemberOf

LEMMA CallInit == Init => CallInv
  BY DEF Init, PluginInit, CallInv, LoopSteps, NoRecord

\* A call goes on: what it holds is for its claim's slots.
LEMMA CallGoesOn ==
  ASSUME TypeOK, CallInv, UNCHANGED cur, pc' # "idle", cur \in Claims,
         pc' \in LoopSteps => todo' # {} /\ todo' \subseteq SlotsOf(cur),
         \A i \in Slots : info'[i] \in {info[i], NoUid} \/ i \in SlotsOf(cur),
         \A c \in Claims : mem'[c] \in {mem[c], NoRecord} \/ (c = cur /\ mem'[c] = info),
         \A c \in Claims : bolt'[c] \in {bolt[c], NoRecord} \/ (c = cur /\ bolt'[c] = info)
  PROVE  CallInv'
  <1>1. \A i \in Slots : info'[i] # NoUid => i \in SlotsOf(cur)
    BY DEF CallInv
  <1>2. \A i \in Slots : NoRecord[i] = NoUid
    BY DEF NoRecord
  <1>3. ASSUME NEW c \in Claims, NEW i \in Slots, mem'[c][i] # NoUid \/ bolt'[c][i] # NoUid
        PROVE  i \in SlotsOf(c)
    BY <1>2, <1>3 DEF CallInv
  <1> QED BY <1>1, <1>3 DEF CallInv

LEMMA CallSteps ==
  ASSUME TypeOK, CallInv, PluginStep
  PROVE  CallInv'
  <1> USE DEF TypeOK, PluginTypeOK
  <1>0. ASSUME NEW c \in Claims PROVE SlotsOf(c) # {}
    <2>1. Work[c] \in Seq(Members) /\ Len(Work[c]) \in Slots
      BY ClaimAssumption
    <2>2. 1 \in SlotsOf(c)
      BY <2>1, ClaimAssumption DEF SlotsOf, Slots
    <2> QED BY <2>2
  <1>1. ASSUME NEW i \in Slots, PostShadow(i) \/ UpdateStatus(i) \/ UndoCreate(i) \/ GetExisting(i)
        PROVE  CallInv'
    <2>1. /\ cur \in Claims /\ i \in SlotsOf(cur) /\ pc' = "create"
          /\ UNCHANGED <<cur, mem, bolt>>
      BY <1>1 DEF PostShadow, UpdateStatus, UndoCreate, GetExisting, InPhase, InSlot
    <2>2. \E u : info' = [info EXCEPT ![i] = u]
      BY <1>1 DEF PostShadow, UpdateStatus, UndoCreate, GetExisting, SetSlot
    <2>3. \A j \in Slots : j # i => info'[j] = info[j]
      BY <2>2 DEF Records
    <2> QED BY <2>1, <2>3, CallGoesOn DEF LoopSteps
  <1>2. ASSUME NEW i \in Slots, GrpcPrepare(i) PROVE CallInv'
    BY <1>2, CallGoesOn DEF GrpcPrepare, SetSlot, InPhase, LoopSteps, Records
  <1>3. ASSUME NEW i \in Slots, SweepDelete(i) PROVE CallInv'
    BY <1>3, CallGoesOn DEF SweepDelete, LoopSteps, CallInv
  <1>4. ASSUME JoinCreate PROVE CallInv'
    BY <1>4, CallGoesOn DEF JoinCreate, LoopSteps
  <1>5. ASSUME JoinGrpc PROVE CallInv'
    BY <1>0, <1>5, CallGoesOn DEF JoinGrpc, LoopSteps
  <1>6. ASSUME Record PROVE CallInv'
    BY <1>6, CallGoesOn DEF Record, LoopSteps
  <1>7. ASSUME CleanupUnprepare \/ UnprepareShadow PROVE CallInv'
    BY <1>7, CallGoesOn DEF CleanupUnprepare, UnprepareShadow, LoopSteps, CallInv
  <1>8. ASSUME CleanupDelete \/ DeleteShadow PROVE CallInv'
    BY <1>8, CallGoesOn DEF CleanupDelete, DeleteShadow, LoopSteps, CallInv
  <1>9. ASSUME SweepList PROVE CallInv'
    BY <1>9, CallGoesOn DEF SweepList, LoopSteps
  <1>10. ASSUME Drop PROVE CallInv'
    BY <1>10, CallGoesOn DEF Drop, LoopSteps
  <1> QED BY <1>1, <1>2, <1>3, <1>4, <1>5, <1>6, <1>7, <1>8, <1>9, <1>10 DEF PluginStep

\* A step of the specification preserves the invariant of calls.
LEMMA CallNext == TypeOK /\ CallInv /\ [Next]_vars => CallInv'
  <1> SUFFICES ASSUME TypeOK, CallInv, [Next]_vars PROVE CallInv'
    OBVIOUS
  <1>0. \A i \in Slots : NoRecord[i] = NoUid
    BY DEF NoRecord
  <1>1. ASSUME UNCHANGED <<mem, bolt, callVars>> PROVE CallInv'
    BY <1>1 DEF CallInv
  <1>2. ASSUME NEW c \in Claims, Schedule(c) \/ PodDelete(c) \/ Deallocate(c) \/ DeleteClaim(c)
        PROVE  CallInv'
    BY <1>1, <1>2 DEF Schedule, PodDelete, Deallocate, DeleteClaim
  <1>3. ASSUME OwnerGC \/ ReconcilerStep PROVE CallInv'
    BY <1>1, <1>3 DEF OwnerGC, ReconcilerStep, Reconcile, ReconcileList, ReconcileCheck, ReconcileDelete
  <1>4. ASSUME NEW c \in Claims, KubeletPrepare(c) PROVE CallInv'
    BY <1>4, ClaimAssumption DEF KubeletPrepare, PrepareBegin, CallInv, LoopSteps
  <1>5. ASSUME NEW c \in Claims, KubeletUnprepare(c) PROVE CallInv'
    <2>1. /\ cur' = c /\ info' = mem[c] /\ bolt' = bolt
          /\ todo' = {i \in SlotsOf(c) : mem[c][i] # NoUid}
          /\ pc' = IF mem[c] = NoRecord THEN "sweep" ELSE "unprepare"
      BY <1>5 DEF KubeletUnprepare, UnprepareBegin
    <2>2. \A d \in Claims : mem'[d] \in {mem[d], NoRecord}
      BY <1>5 DEF KubeletUnprepare, UnprepareBegin, TypeOK, PluginTypeOK
    <2>3. \A i \in Slots : mem[c][i] # NoUid => i \in SlotsOf(c)
      BY DEF CallInv
    <2>4. mem[c] # NoRecord => \E i \in Slots : mem[c][i] # NoUid
      BY DEF NoRecord, TypeOK, PluginTypeOK, Records
    <2>5. \A d \in Claims : \A i \in Slots :
            mem'[d][i] # NoUid \/ bolt'[d][i] # NoUid => i \in SlotsOf(d)
      BY <1>0, <2>1, <2>2 DEF CallInv
    <2> QED BY <2>1, <2>3, <2>4, <2>5 DEF CallInv, LoopSteps
  <1>6. ASSUME CallEnds, bolt' = bolt, \A c \in Claims : mem'[c] \in {mem[c], NoRecord}
        PROVE  CallInv'
    BY <1>0, <1>6 DEF CallEnds, CallInv, LoopSteps
  <1>7. ASSUME ReplyPrepare \/ ReplyUnprepare PROVE CallInv'
    BY <1>6, <1>7 DEF ReplyPrepare, ReplyUnprepare
  <1>8. ASSUME DriverStep PROVE CallInv'
    <2>1. CASE Crash
      BY <1>6, <2>1 DEF Crash
    <2>2. CASE Restart
      <3>1. \A c \in Claims : mem'[c] \in {bolt[c], NoRecord}
        BY <2>2 DEF Restart
      <3> QED BY <1>0, <2>2, <3>1 DEF Restart, CallInv
    <2>3. CASE Recompute
      BY <1>1, <2>3 DEF Recompute
    <2> QED BY <1>8, <2>1, <2>2, <2>3, CallSteps DEF DriverStep
  <1>9. ASSUME UNCHANGED vars PROVE CallInv'
    BY <1>1, <1>9
  <1> QED BY <1>2, <1>3, <1>4, <1>5, <1>7, <1>8, <1>9 DEF Next, Done

----------------------------------------------------------------------------
(* The reconciler                                                          *)

\* The plugin does not change composite claims.
LEMMA ClaimsKept ==
  ASSUME PluginStep PROVE UNCHANGED claimState
  BY DEF PluginStep, PostShadow, UpdateStatus, UndoCreate, GetExisting, InSlot, GrpcPrepare,
         SweepDelete, JoinCreate, JoinGrpc, Record, CleanupUnprepare, CleanupDelete,
         UnprepareShadow, DeleteShadow, SweepList, Drop

\* A composite claim that has existed does not become absent again, and a
\* deleted one stays deleted.
LEMMA ClaimsAge ==
  ASSUME TypeOK, [Next]_vars, NEW c \in Claims
  PROVE  /\ claimState[c] # "absent" => claimState'[c] # "absent"
         /\ claimState[c] = "deleted" => claimState'[c] = "deleted"
  <1> USE DEF TypeOK, PluginTypeOK, ClaimTypeOK
  <1>1. ASSUME NEW d \in Claims, Schedule(d) \/ Deallocate(d) \/ DeleteClaim(d)
        PROVE  /\ claimState[c] # "absent" => claimState'[c] # "absent"
               /\ claimState[c] = "deleted" => claimState'[c] = "deleted"
    BY <1>1 DEF Schedule, Deallocate, DeleteClaim
  <1>2. ASSUME NEW d \in Claims, PodDelete(d) \/ KubeletPrepare(d) \/ KubeletUnprepare(d)
        PROVE  UNCHANGED claimState
    BY <1>2 DEF PodDelete, KubeletPrepare, PrepareBegin, KubeletUnprepare, UnprepareBegin
  <1>3. ASSUME OwnerGC \/ ReplyPrepare \/ ReplyUnprepare \/ ReconcilerStep
        PROVE  UNCHANGED claimState
    BY <1>3 DEF OwnerGC, ReplyPrepare, ReplyUnprepare, ReconcilerStep, Reconcile, ReconcileList,
                ReconcileCheck, ReconcileDelete
  <1>5. ASSUME DriverStep PROVE UNCHANGED claimState
    BY <1>5, ClaimsKept DEF DriverStep, Crash, Restart, Recompute
  <1> QED BY <1>1, <1>2, <1>3, <1>5 DEF Next, Done

\* UpdateStatus changes the allocation of one shadow and nothing else.
LEMMA AllocatedFact ==
  ASSUME api \in SUBSET ShadowSet, NEW u, NEW m, NEW s \in Allocated(u, m)
  PROVE  \E t \in api : /\ s.name = t.name /\ s.uid = t.uid /\ s.owner = t.owner
                        /\ IF t.uid = u THEN s.alloc = m ELSE s = t
  <1>1. PICK t \in api : s = IF t.uid = u THEN [t EXCEPT !.alloc = m] ELSE t
    BY DEF Allocated
  <1>2. t \in ShadowSet
    OBVIOUS
  <1>3. CASE t.uid = u
    BY <1>1, <1>2, <1>3 DEF ShadowSet
  <1> QED BY <1>1, <1>3

\* New shadows belong to the call's claim; every other one was there before.
LEMMA OwnersKnown ==
  ASSUME TypeOK, [Next]_vars, NEW s \in api'
  PROVE  \/ \E t \in api : s.owner = t.owner /\ s.uid = t.uid /\ s.name = t.name
         \/ pc = "create" /\ cur \in Claims /\ s.owner = cur
  <1> USE DEF TypeOK, PluginTypeOK, ClaimTypeOK
  <1>1. ASSUME api' \subseteq api
        PROVE  \E t \in api : s.owner = t.owner /\ s.uid = t.uid /\ s.name = t.name
    BY <1>1
  <1>2. ASSUME NEW d \in Claims, Schedule(d) \/ Deallocate(d) \/ DeleteClaim(d) \/ PodDelete(d)
                                 \/ KubeletPrepare(d) \/ KubeletUnprepare(d)
        PROVE  api' \subseteq api
    BY <1>2 DEF Schedule, Deallocate, DeleteClaim, PodDelete, KubeletPrepare, PrepareBegin,
                KubeletUnprepare, UnprepareBegin
  <1>3. ASSUME OwnerGC \/ ReplyPrepare \/ ReplyUnprepare \/ ReconcilerStep
        PROVE  api' \subseteq api
    BY <1>3, WithoutFact DEF OwnerGC, ReplyPrepare, ReplyUnprepare, ReconcilerStep, Reconcile,
                ReconcileList, ReconcileCheck, ReconcileDelete
  <1>4. ASSUME NEW i \in Slots, PostShadow(i)
        PROVE  \/ s \in api
               \/ pc = "create" /\ cur \in Claims /\ s.owner = cur
    BY <1>4 DEF PostShadow, InPhase, NewShadow
  <1>5. ASSUME NEW i \in Slots, UpdateStatus(i)
        PROVE  \E t \in api : s.owner = t.owner /\ s.uid = t.uid /\ s.name = t.name
    BY <1>5, AllocatedFact DEF UpdateStatus
  <1>6. ASSUME NEW i \in Slots, UndoCreate(i) \/ GetExisting(i) \/ GrpcPrepare(i) \/ SweepDelete(i)
        PROVE  api' \subseteq api
    BY <1>6, WithoutFact DEF UndoCreate, GetExisting, GrpcPrepare, SweepDelete
  <1>7. ASSUME JoinCreate \/ JoinGrpc \/ Record \/ CleanupUnprepare \/ CleanupDelete
               \/ UnprepareShadow \/ DeleteShadow \/ SweepList \/ Drop
               \/ Crash \/ Restart \/ Recompute
        PROVE  api' \subseteq api
    BY <1>7, WithoutFact DEF JoinCreate, JoinGrpc, Record, CleanupUnprepare, CleanupDelete,
                UnprepareShadow, DeleteShadow, SweepList, Drop, Crash, Restart, Recompute
  <1> QED BY <1>1, <1>2, <1>3, <1>4, <1>5, <1>6, <1>7 DEF Next, Done, DriverStep, PluginStep

LEMMA ReconcilerInit1 == Init => ReconcilerInv
  BY DEF Init, PluginInit, ClaimInit, ReconcilerInit, ReconcilerInv

\* Without errors of the reconciler's Get a pass deletes orphans only.
LEMMA ReconcilerNext ==
  ASSUME ReconcilerReliable
  PROVE  TypeOK /\ OwnershipInv /\ ReconcilerInv /\ [Next]_vars => ReconcilerInv'
  <1> SUFFICES ASSUME TypeOK, OwnershipInv, ReconcilerInv, [Next]_vars PROVE ReconcilerInv'
    OBVIOUS
  <1>1. \A s \in api : s.owner \in Claims
    BY DEF TypeOK, PluginTypeOK, ClaimTypeOK, ShadowSet
  <1>2. \A s \in api' : claimState'[s.owner] # "absent"
    BY <1>1, ClaimsAge, OwnersKnown DEF ReconcilerInv
  <1>3. pc' = "create" => claimState'[cur'] # "absent"
    <2> SUFFICES ASSUME pc' = "create" PROVE claimState'[cur'] # "absent"
      OBVIOUS
    <2>1. \/ pc = "create" /\ cur' = cur
          \/ \E c \in Claims : KubeletPrepare(c)
      <3>1. ASSUME PluginStep PROVE pc = "create" /\ cur' = cur
        BY <3>1 DEF PluginStep, PostShadow, UpdateStatus, UndoCreate, GetExisting, InSlot, InPhase,
                    GrpcPrepare, SweepDelete, JoinCreate, JoinGrpc, Record, CleanupUnprepare,
                    CleanupDelete, UnprepareShadow, DeleteShadow, SweepList, Drop
      <3>2. ASSUME DriverStep PROVE pc = "create" /\ cur' = cur
        BY <3>1, <3>2 DEF DriverStep, Crash, CallEnds, Restart, Recompute
      <3>3. ASSUME ReconcilerStep \/ OwnerGC \/ ReplyPrepare \/ ReplyUnprepare
            PROVE  pc = "create" /\ cur' = cur
        BY <3>3 DEF ReconcilerStep, Reconcile, ReconcileList, ReconcileCheck, ReconcileDelete, OwnerGC,
                    ReplyPrepare, ReplyUnprepare, CallEnds
      <3> QED BY <3>2, <3>3 DEF Next, Done, Schedule, PodDelete, Deallocate, DeleteClaim,
                 KubeletUnprepare, UnprepareBegin
    <2>2. CASE pc = "create" /\ cur' = cur
      BY <2>2, ClaimsAge DEF ReconcilerInv, TypeOK, PluginTypeOK
    <2>3. ASSUME NEW c \in Claims, KubeletPrepare(c) PROVE claimState'[cur'] # "absent"
      BY <2>3 DEF KubeletPrepare, PrepareBegin
    <2> QED BY <2>1, <2>2, <2>3
  <1>4. /\ \A r \in rlist : r.owner \in Claims /\ claimState'[r.owner] # "absent"
        /\ \A r \in rlist : \E m \in Members : r.name = shadowClaimName(r.owner, m)
    BY ClaimsAge DEF ReconcilerInv, TypeOK, ReconcilerTypeOK, ListedSet
  <1>5. rdel # NoName => \E c \in Claims : \E m \in Members :
                           rdel = shadowClaimName(c, m) /\ claimState'[c] = "deleted"
    BY ClaimsAge DEF ReconcilerInv
  <1>6. ASSUME rlist' \subseteq rlist, rdel' \in {rdel, NoName} PROVE ReconcilerInv'
    BY <1>2, <1>3, <1>4, <1>5, <1>6 DEF ReconcilerInv
  <1>7. ASSUME ReconcileList PROVE ReconcilerInv'
    <2>1. ASSUME NEW r \in rlist'
          PROVE  /\ claimState'[r.owner] # "absent"
                 /\ \E m \in Members : r.name = shadowClaimName(r.owner, m)
      <3>1. PICK s \in api : r = Listed(s)
        BY <1>7 DEF ReconcileList
      <3>2. r.name = s.name /\ r.owner = s.owner
        BY <3>1 DEF Listed
      <3> QED BY <1>1, <3>2, ClaimsAge DEF ReconcilerInv, OwnershipInv, ShadowWellFormed
    <2> QED BY <1>2, <1>3, <1>5, <1>7, <2>1 DEF ReconcileList, ReconcilerInv
  <1>8. ASSUME NEW s \in rlist, ReconcileCheck(s) PROVE ReconcilerInv'
    <2>1. rlist' \subseteq rlist /\ rdel' = IF OwnerFound(s.owner) THEN NoName ELSE s.name
      BY <1>8 DEF ReconcileCheck, Fault, ReconcilerReliable
    <2>2. CASE ~ OwnerFound(s.owner)
      <3>1. ~ Live(s.owner) /\ s.owner \in Claims /\ claimState[s.owner] # "absent"
        BY <1>4, <2>2 DEF OwnerFound, ReconcilerInv
      <3>2. claimState[s.owner] = "deleted"
        BY <3>1 DEF Live, TypeOK, PluginTypeOK, ClaimTypeOK, ClaimStates
      <3>3. claimState'[s.owner] = "deleted"
        BY <3>1, <3>2, ClaimsAge
      <3> QED BY <1>2, <1>3, <1>4, <2>1, <2>2, <3>1, <3>3 DEF ReconcilerInv
    <2> QED BY <1>6, <2>1, <2>2
  <1>9. ASSUME ReconcileDelete PROVE ReconcilerInv'
    BY <1>6, <1>9 DEF ReconcileDelete
  <1>10. CASE UNCHANGED reconcilerVars
    BY <1>6, <1>10
  <1> QED BY <1>7, <1>8, <1>9, <1>10 DEF Next, Done, ReconcilerStep, Reconcile, Schedule, PodDelete,
             Deallocate, DeleteClaim, OwnerGC, KubeletPrepare, KubeletUnprepare, ReplyPrepare,
             ReplyUnprepare, DriverStep

\* Deletion by name removes the shadows of that name only.
LEMMA DeleteFact ==
  ASSUME NEW n, NEW failed, DeleteCall(n, failed), NEW s \in api, s.name # n
  PROVE  s \in api'
  BY DEF Without, Named

\* Garbage collector and reconciler remove shadows of deleted claims only.
LEMMA CollectorsKeep ==
  ASSUME NamesDistinct, TypeOK, OwnershipInv, ReconcilerInv, OwnerGC \/ ReconcilerStep,
         NEW s \in api, claimState[s.owner] # "deleted"
  PROVE  s \in api'
  <1>1. CASE OwnerGC
    BY <1>1 DEF OwnerGC
  <1>2. CASE ReconcilerStep
    <2>1. CASE ReconcileDelete
      <3>1. PICK c \in Claims, m \in Members : rdel = shadowClaimName(c, m) /\ claimState[c] = "deleted"
        BY <2>1 DEF ReconcileDelete, ReconcilerInv
      <3>2. s.name # rdel
        BY <3>1, NameDetermines
      <3> QED BY <2>1, <3>2, DeleteFact DEF ReconcileDelete
    <2> QED BY <1>2, <2>1 DEF ReconcilerStep, Reconcile, ReconcileList, ReconcileCheck
  <1> QED BY <1>1, <1>2

\* No step removes or changes a shadow of a claim that is not deleted, unless
\* it is a step of the call for that claim.
LEMMA OthersKept ==
  ASSUME NamesDistinct, TypeOK, OwnershipInv, CallInv, ReconcilerInv, [Next]_vars,
         NEW s \in api, s.owner # cur, claimState[s.owner] # "deleted"
  PROVE  s \in api'
  <1>1. s.owner \in Claims /\ s \in ShadowSet
    BY DEF TypeOK, PluginTypeOK, ClaimTypeOK, ShadowSet
  \* The names of the call's slots are names of its own shadows.
  <1>2. ASSUME NEW i \in SlotsOf(cur), cur \in Claims PROVE s.name # NameOf(i)
    BY <1>2, NameDetermines, SlotFacts DEF NameOf, MemberOf
  <1>3. ASSUME NEW d \in Claims, Schedule(d) \/ Deallocate(d) \/ DeleteClaim(d) \/ PodDelete(d)
                                 \/ KubeletPrepare(d) \/ KubeletUnprepare(d)
        PROVE  s \in api'
    BY <1>3 DEF Schedule, Deallocate, DeleteClaim, PodDelete, KubeletPrepare, PrepareBegin,
                KubeletUnprepare, UnprepareBegin
  <1>4. ASSUME ReplyPrepare \/ ReplyUnprepare PROVE s \in api'
    BY <1>4 DEF ReplyPrepare, ReplyUnprepare
  <1>5. ASSUME OwnerGC \/ ReconcilerStep PROVE s \in api'
    BY <1>5, CollectorsKeep
  <1>6. ASSUME NEW i \in Slots, PostShadow(i) \/ GetExisting(i) \/ GrpcPrepare(i) PROVE s \in api'
    BY <1>6 DEF PostShadow, GetExisting, GrpcPrepare
  <1>7. ASSUME NEW i \in Slots, UpdateStatus(i) PROVE s \in api'
    <2>1. i \in SlotsOf(cur) /\ cur \in Claims
      BY <1>7 DEF UpdateStatus, InPhase, TypeOK, PluginTypeOK
    <2>2. s.uid # info[i]
      BY <2>1 DEF OwnershipInv, CallOwnsShadow
    <2> QED BY <1>7, <2>2 DEF UpdateStatus, Allocated
  <1>8. ASSUME NEW i \in Slots, UndoCreate(i) PROVE s \in api'
    <2>1. i \in SlotsOf(cur) /\ cur \in Claims
      BY <1>8 DEF UndoCreate, InPhase, TypeOK, PluginTypeOK
    <2> QED BY <1>2, <1>8, <2>1, DeleteFact DEF UndoCreate
  <1>9. ASSUME NEW i \in Slots, SweepDelete(i) PROVE s \in api'
    <2>1. i \in SlotsOf(cur) /\ cur \in Claims
      BY <1>9 DEF SweepDelete, CallInv, LoopSteps, TypeOK, PluginTypeOK
    <2> QED BY <1>2, <1>9, <2>1, DeleteFact DEF SweepDelete
  <1>10. ASSUME CleanupDelete \/ DeleteShadow PROVE s \in api'
    <2>1. First(todo) \in SlotsOf(cur) /\ cur \in Claims
      BY <1>10, LoopSlot DEF CleanupDelete, DeleteShadow, LoopSteps
    <2> QED BY <1>2, <1>10, <2>1, DeleteFact DEF CleanupDelete, DeleteShadow
  <1>11. ASSUME JoinCreate \/ JoinGrpc \/ Record \/ CleanupUnprepare \/ UnprepareShadow \/ SweepList
                \/ Drop \/ Crash \/ Restart \/ Recompute
         PROVE  s \in api'
    BY <1>11 DEF JoinCreate, JoinGrpc, Record, CleanupUnprepare, UnprepareShadow, SweepList, Drop,
                 Crash, Restart, Recompute
  <1> QED BY <1>3, <1>4, <1>5, <1>6, <1>7, <1>8, <1>9, <1>10, <1>11
          DEF Next, Done, DriverStep, PluginStep

\* The invariants of calls and of the reconciler hold in every reachable state.
LEMMA CallAndReconciler ==
  ASSUME NamesDistinct, ReconcilerReliable
  PROVE  Spec => [](TypeOK /\ OwnershipInv /\ CallInv /\ ReconcilerInv)
  <1>1. TypeOK /\ OwnershipInv /\ CallInv /\ ReconcilerInv /\ [Next]_vars
          => CallInv' /\ ReconcilerInv'
    BY CallNext, ReconcilerNext
  <1> QED BY <1>1, CallInit, ReconcilerInit1, TypeCorrect, ShadowsOwned, PTL DEF Spec

\* When shadow names are distinct and the reconciler's Get does not fail, a
\* shadow of an allocated claim disappears only through the plugin's call for
\* that claim, whatever else fails, and for every number of claims.
THEOREM LiveShadowsProtected ==
  ASSUME NamesDistinct, ReconcilerReliable
  PROVE  Spec => LiveShadowRemovedOnlyByItsHandler
  <1> DEFINE Kept == \A s \in api : claimState[s.owner] = "allocated" /\ WithUid(s.uid)' = {}
                        => cur = s.owner
  <1>1. TypeOK /\ OwnershipInv /\ CallInv /\ ReconcilerInv /\ [Next]_vars => Kept
    BY OthersKept DEF WithUid
  <1>2. TypeOK /\ OwnershipInv /\ CallInv /\ ReconcilerInv /\ [Next]_vars => [Kept]_vars
    BY <1>1
  <1> QED BY <1>2, CallAndReconciler, PTL DEF Spec, LiveShadowRemovedOnlyByItsHandler

----------------------------------------------------------------------------
(* Running pods                                                            *)

\* The call in flight is not for a running pod.
LEMMA CallNotRunning ==
  ASSUME TypeOK, CallInv, CallSparesPods, NEW d \in Claims, Runs(d)
  PROVE  d # cur
  <1> SUFFICES ASSUME d = cur PROVE FALSE
    OBVIOUS
  <1>1. pc # "idle"
    BY ClaimAssumption DEF CallInv
  <1>2. pc \in PrepareSteps \/ pc \in UnprepareSteps
    BY <1>1 DEF TypeOK, PluginTypeOK, PcSet, PrepareSteps, UnprepareSteps
  <1> QED BY <1>2 DEF CallSparesPods, Runs

\* What a driver reads of slot i's shadow: it is the claim's own, and
\* allocates the member of the slot.
LEMMA ReadableFact ==
  ASSUME NamesDistinct, TypeOK, OwnershipInv, cur \in Claims, NEW i \in SlotsOf(cur),
         NEW s \in Readable(i)
  PROVE  /\ s \in api /\ s.owner = cur /\ s.uid = info[i] /\ s.name = NameOf(i)
         /\ s.alloc = MemberOf(i) /\ MemberOf(i) \in Members
  <1>1. MemberOf(i) \in Members
    BY SlotFacts DEF MemberOf
  <1>2. s \in api /\ s.uid = info[i] /\ s.name = NameOf(i) /\ s.alloc # NoMember
    BY DEF Readable, Named
  <1> QED BY <1>1, <1>2, NameDetermines DEF NameOf

\* A driver that prepares slot i changes the holder of slot i's member only.
LEMMA PreparesOne ==
  ASSUME NamesDistinct, TypeOK, OwnershipInv, cur \in Claims, NEW i \in SlotsOf(cur),
         NEW m \in Members
  PROVE  DriverPrepares(i)[m] = IF m = MemberOf(i) /\ Readable(i) # {} THEN info[i] ELSE holder[m]
  <1>1. DriverPrepares(i)[m] =
          IF \E s \in Readable(i) : s.alloc = m /\ Driver[m] = Driver[MemberOf(i)]
          THEN info[i] ELSE holder[m]
    BY DEF DriverPrepares
  <1>2. (\E s \in Readable(i) : s.alloc = m /\ Driver[m] = Driver[MemberOf(i)])
          <=> m = MemberOf(i) /\ Readable(i) # {}
    BY ReadableFact
  <1> QED BY <1>1, <1>2

\* No step changes the holder of a device that a running pod has.
LEMMA HolderKept ==
  ASSUME NamesDistinct, TypeOK, OwnershipInv, CallInv, CallSparesPods, [Next]_vars,
         NEW d \in Claims, Runs(d), NEW j \in SlotsOf(d), Backed(d, j)
  PROVE  holder'[Work[d][j]] = holder[Work[d][j]]
  <1> DEFINE m == Work[d][j]
  <1>0. d # cur /\ m \in Members
    BY CallNotRunning, SlotFacts
  <1>1. ASSUME NEW i \in Slots, GrpcPrepare(i) PROVE holder'[m] = holder[m]
    <2>1. cur \in Claims /\ i \in SlotsOf(cur) /\ pc = "grpc"
      BY <1>1 DEF GrpcPrepare, InPhase, TypeOK, PluginTypeOK
    <2>2. m # MemberOf(i)
      BY <2>1 DEF CallSparesPods, MemberOf
    <2>3. holder' = holder \/ holder' = DriverPrepares(i)
      BY <1>1 DEF GrpcPrepare
    <2>4. DriverPrepares(i)[m] = holder[m]
      BY <1>0, <2>1, <2>2, PreparesOne
    <2> QED BY <2>3, <2>4
  <1>2. ASSUME CleanupUnprepare \/ UnprepareShadow PROVE holder'[m] = holder[m]
    <2>1. cur \in Claims /\ First(todo) \in SlotsOf(cur)
      BY <1>2, LoopSlot DEF CleanupUnprepare, UnprepareShadow, LoopSteps
    <2>2. holder' = holder \/ holder' = DriverReleases(First(todo))
      BY <1>2 DEF CleanupUnprepare, UnprepareShadow
    <2>3. holder[m] # info[First(todo)]
      BY <1>0, <2>1 DEF Backed, Owned, OwnershipInv, CallOwnsShadow
    <2>4. DriverReleases(First(todo))[m] = holder[m]
      BY <1>0, <2>3 DEF DriverReleases
    <2> QED BY <2>2, <2>4
  <1>3. CASE UNCHANGED holder
    BY <1>3
  <1>4. ASSUME PluginStep PROVE holder'[m] = holder[m]
    BY <1>1, <1>2, <1>3, <1>4 DEF PluginStep, PostShadow, UpdateStatus, UndoCreate, GetExisting,
       InSlot, SweepDelete, JoinCreate, JoinGrpc, Record, CleanupDelete, DeleteShadow, SweepList, Drop
  <1>5. ASSUME DriverStep PROVE holder'[m] = holder[m]
    BY <1>3, <1>4, <1>5 DEF DriverStep, Crash, Restart, Recompute
  <1>6. ASSUME ReconcilerStep \/ OwnerGC \/ ReplyPrepare \/ ReplyUnprepare PROVE UNCHANGED holder
    BY <1>6 DEF ReconcilerStep, Reconcile, ReconcileList, ReconcileCheck, ReconcileDelete, OwnerGC,
                ReplyPrepare, ReplyUnprepare
  <1>7. ASSUME NEW c \in Claims, Schedule(c) \/ PodDelete(c) \/ Deallocate(c) \/ DeleteClaim(c)
                                 \/ KubeletPrepare(c) \/ KubeletUnprepare(c)
        PROVE  UNCHANGED holder
    BY <1>7 DEF Schedule, PodDelete, Deallocate, DeleteClaim, KubeletPrepare, PrepareBegin,
                KubeletUnprepare, UnprepareBegin
  <1> QED BY <1>3, <1>5, <1>6, <1>7 DEF Next, Done

\* A pod starts to run only with the answer to a successful Prepare.
LEMMA PodStarts ==
  ASSUME TypeOK, [Next]_vars, NEW c \in Claims, Runs(c)'
  PROVE  \/ Runs(c)
         \/ /\ ReplyPrepare /\ c = cur /\ pc = "prepared" /\ ~err
            /\ kstate[cur] = "pending" /\ claimState[cur] = "allocated"
            /\ kstate' = [kstate EXCEPT ![cur] = "running"] /\ UNCHANGED claimState
  <1> USE DEF Runs, TypeOK, PluginTypeOK, ClaimTypeOK
  <1>1. ASSUME NEW d \in Claims, Schedule(d) \/ Deallocate(d) \/ DeleteClaim(d) \/ PodDelete(d)
                                 \/ KubeletPrepare(d) \/ KubeletUnprepare(d)
        PROVE  Runs(c)
    BY <1>1 DEF Schedule, Deallocate, DeleteClaim, PodDelete, SetPod, KubeletPrepare, PrepareBegin,
                KubeletUnprepare, UnprepareBegin
  <1>2. ASSUME OwnerGC \/ ReconcilerStep PROVE Runs(c)
    BY <1>2 DEF OwnerGC, ReconcilerStep, Reconcile, ReconcileList, ReconcileCheck, ReconcileDelete
  <1>3. ASSUME DriverStep PROVE Runs(c)
    <2>1. UNCHANGED kstate
      BY <1>3 DEF DriverStep
    <2> QED BY <1>3, <2>1, ClaimsKept DEF DriverStep, Crash, Restart, Recompute
  <1>4. ASSUME ReplyUnprepare PROVE Runs(c)
    BY <1>4 DEF ReplyUnprepare, SetPod
  <1>5. CASE ReplyPrepare
    BY <1>5 DEF ReplyPrepare, SetPod
  <1> QED BY <1>1, <1>2, <1>3, <1>4, <1>5 DEF Next, Done

LEMMA BackedInit == Init => BackedInv
  <1> SUFFICES ASSUME Init PROVE BackedInv
    OBVIOUS
  <1> USE DEF Init, PluginInit, ClaimInit
  <1>1. PodsHaveClaims /\ AllocationExclusive /\ CleanupAfterError
    BY DEF PodsHaveClaims, AllocationExclusive, CleanupAfterError
  <1>2. CallSparesPods /\ CallBacked
    BY ClaimAssumption DEF CallSparesPods, PrepareSteps, UnprepareSteps, CallBacked
  <1>3. RunningPodBacked
    BY DEF RunningPodBacked
  <1> QED BY <1>1, <1>2, <1>3 DEF BackedInv

\* Only the scheduler allocates a claim.
LEMMA AllocatedBefore ==
  ASSUME TypeOK, [Next]_vars, NEW c \in Claims, claimState'[c] = "allocated"
  PROVE  claimState[c] = "allocated" \/ Schedule(c)
  <1> USE DEF TypeOK, PluginTypeOK, ClaimTypeOK
  <1>1. ASSUME NEW d \in Claims, Schedule(d) \/ Deallocate(d) \/ DeleteClaim(d)
        PROVE  claimState[c] = "allocated" \/ Schedule(c)
    BY <1>1 DEF Schedule, Deallocate, DeleteClaim
  <1>2. ASSUME NEW d \in Claims, PodDelete(d) \/ KubeletPrepare(d) \/ KubeletUnprepare(d)
        PROVE  UNCHANGED claimState
    BY <1>2 DEF PodDelete, KubeletPrepare, PrepareBegin, KubeletUnprepare, UnprepareBegin
  <1>3. ASSUME OwnerGC \/ ReplyPrepare \/ ReplyUnprepare \/ ReconcilerStep
        PROVE  UNCHANGED claimState
    BY <1>3 DEF OwnerGC, ReplyPrepare, ReplyUnprepare, ReconcilerStep, Reconcile, ReconcileList,
                ReconcileCheck, ReconcileDelete
  <1>5. ASSUME DriverStep PROVE UNCHANGED claimState
    BY <1>5, ClaimsKept DEF DriverStep, Crash, Restart, Recompute
  <1> QED BY <1>1, <1>2, <1>3, <1>5 DEF Next, Done

LEMMA AllocationNext ==
  ASSUME TypeOK, AllocationExclusive, [Next]_vars
  PROVE  AllocationExclusive'
  <1> SUFFICES ASSUME NEW c \in Claims, NEW d \in Claims, c # d,
                      claimState'[c] = "allocated", claimState'[d] = "allocated"
               PROVE  DevicesOf[c] \cap DevicesOf[d] = {}
    BY DEF AllocationExclusive
  <1>1. ~ (Schedule(c) /\ Schedule(d))
    BY DEF Schedule, TypeOK, PluginTypeOK, ClaimTypeOK
  <1>2. CASE claimState[c] = "allocated" /\ claimState[d] = "allocated"
    BY <1>2 DEF AllocationExclusive
  <1>3. CASE Schedule(c) /\ claimState[d] = "allocated"
    BY <1>3 DEF Schedule
  <1>4. CASE Schedule(d) /\ claimState[c] = "allocated"
    BY <1>4 DEF Schedule
  <1> QED BY <1>1, <1>2, <1>3, <1>4, AllocatedBefore

\* The call in flight is for a claim that has existed.
LEMMA CallHasClaim ==
  ASSUME TypeOK, CallInv, PodsHaveClaims, CallSparesPods, cur \in Claims
  PROVE  claimState[cur] # "absent" /\ pc \in PrepareSteps \cup UnprepareSteps
  <1>1. pc # "idle"
    BY ClaimAssumption DEF CallInv
  <1>2. pc \in PrepareSteps \/ pc \in UnprepareSteps
    BY <1>1 DEF TypeOK, PluginTypeOK, PcSet, PrepareSteps, UnprepareSteps
  <1> QED BY <1>2 DEF CallSparesPods, PodsHaveClaims

\* A plugin step stays in its call.
LEMMA PluginStays ==
  ASSUME PluginStep
  PROVE  /\ UNCHANGED cur
         /\ \/ pc \in PrepareSteps /\ pc' \in PrepareSteps
            \/ pc \in UnprepareSteps /\ pc' \in UnprepareSteps
         /\ pc' \in {"create", "grpc"} => pc \in {"create", "grpc"}
  <1> USE DEF PrepareSteps, UnprepareSteps
  <1>1. ASSUME NEW i \in Slots, PostShadow(i) \/ UpdateStatus(i) \/ UndoCreate(i) \/ GetExisting(i)
        PROVE  pc = "create" /\ UNCHANGED <<pc, cur>>
    BY <1>1 DEF PostShadow, UpdateStatus, UndoCreate, GetExisting, InSlot, InPhase
  <1>2. ASSUME NEW i \in Slots, GrpcPrepare(i) PROVE pc = "grpc" /\ UNCHANGED <<pc, cur>>
    BY <1>2 DEF GrpcPrepare, InPhase
  <1>3. ASSUME NEW i \in Slots, SweepDelete(i)
        PROVE  pc = "sweep_del" /\ pc' \in {"drop", "sweep_del"} /\ UNCHANGED cur
    BY <1>3 DEF SweepDelete
  <1>4. ASSUME JoinCreate \/ JoinGrpc \/ Record \/ CleanupUnprepare \/ CleanupDelete
        PROVE  /\ UNCHANGED cur /\ pc \in PrepareSteps /\ pc' \in PrepareSteps
               /\ pc' \in {"create", "grpc"} => pc \in {"create", "grpc"}
    BY <1>4 DEF JoinCreate, JoinGrpc, Record, CleanupUnprepare, CleanupDelete
  <1>5. ASSUME UnprepareShadow \/ DeleteShadow \/ SweepList \/ Drop
        PROVE  UNCHANGED cur /\ pc \in UnprepareSteps /\ pc' \in UnprepareSteps
    BY <1>5 DEF UnprepareShadow, DeleteShadow, SweepList, Drop
  <1> QED BY <1>1, <1>2, <1>3, <1>4, <1>5 DEF PluginStep

LEMMA SparesNext ==
  ASSUME DevicesExclusive, PrepareOnce, TypeOK, CallInv, PodsHaveClaims, AllocationExclusive,
         CallSparesPods, [Next]_vars
  PROVE  CallSparesPods' /\ PodsHaveClaims'
  <1> USE DEF TypeOK, PluginTypeOK, ClaimTypeOK
  <1> DEFINE Same == UNCHANGED <<pc, cur, kstate, claimState>>
  <1>1. CASE Same
    BY <1>1 DEF CallSparesPods, PodsHaveClaims, Runs
  <1>2. ASSUME NEW c \in Claims, Schedule(c) PROVE CallSparesPods' /\ PodsHaveClaims'
    <2>1. /\ cur' = cur /\ pc' = pc /\ claimState[c] = "absent"
          /\ claimState' = [claimState EXCEPT ![c] = "allocated"]
          /\ kstate' = [kstate EXCEPT ![c] = "pending"]
      BY <1>2 DEF Schedule, SetPod
    <2>2. pc # "idle" => c # cur
      BY <2>1, CallHasClaim
    <2>3. \A d \in Claims : Runs(d)' => Runs(d)
      BY <2>1 DEF Runs
    <2>4. PodsHaveClaims'
      BY <2>1 DEF PodsHaveClaims
    <2> QED BY <2>1, <2>2, <2>3, <2>4 DEF CallSparesPods, PrepareSteps, UnprepareSteps
  <1>3. ASSUME NEW c \in Claims, PodDelete(c) PROVE CallSparesPods' /\ PodsHaveClaims'
    <2>1. /\ UNCHANGED <<cur, pc, claimState>> /\ kstate[c] # "none"
          /\ kstate' = [kstate EXCEPT ![c] = "terminating"]
      BY <1>3 DEF PodDelete, SetPod
    <2>2. \A d \in Claims : Runs(d)' => Runs(d)
      BY <2>1 DEF Runs
    <2>3. PodsHaveClaims'
      BY <2>1 DEF PodsHaveClaims
    <2> QED BY <2>1, <2>2, <2>3 DEF CallSparesPods, PrepareSteps, UnprepareSteps
  <1>4. ASSUME NEW c \in Claims, Deallocate(c) \/ DeleteClaim(c)
        PROVE  CallSparesPods' /\ PodsHaveClaims'
    <2>1. /\ UNCHANGED <<cur, pc, kstate>>
          /\ \E st \in {"deallocated", "deleted"} : claimState' = [claimState EXCEPT ![c] = st]
      BY <1>4 DEF Deallocate, DeleteClaim
    <2>2. \A d \in Claims : Runs(d)' => Runs(d)
      BY <2>1 DEF Runs
    <2>3. PodsHaveClaims'
      BY <2>1 DEF PodsHaveClaims
    <2> QED BY <2>1, <2>2, <2>3 DEF CallSparesPods
  <1>5. ASSUME NEW c \in Claims, KubeletPrepare(c) PROVE CallSparesPods' /\ PodsHaveClaims'
    <2>1. /\ cur' = c /\ UNCHANGED <<kstate, claimState>> /\ kstate[c] = "pending"
          /\ pc' = "prepared" \/ (pc' = "create" /\ claimState[c] = "allocated")
      BY <1>5 DEF KubeletPrepare, PrepareBegin, PrepareOnce, Fault
    <2>2. ASSUME NEW d \in Claims, Runs(d)', pc' \in {"create", "grpc"},
                 NEW i \in SlotsOf(c), NEW j \in SlotsOf(d)
          PROVE  Work[c][i] # Work[d][j]
      BY <2>1, <2>2 DEF Runs, AllocationExclusive, DevicesExclusive
    <2>3. PodsHaveClaims'
      BY <2>1 DEF PodsHaveClaims
    <2> QED BY <2>1, <2>2, <2>3 DEF CallSparesPods, PrepareSteps, UnprepareSteps
  <1>6. ASSUME NEW c \in Claims, KubeletUnprepare(c) PROVE CallSparesPods' /\ PodsHaveClaims'
    BY <1>6 DEF KubeletUnprepare, UnprepareBegin, CallSparesPods, PodsHaveClaims, PrepareSteps,
                UnprepareSteps
  <1>7. ASSUME pc' = "idle" PROVE CallSparesPods'
    BY <1>7 DEF CallSparesPods, PrepareSteps, UnprepareSteps
  <1>8. ASSUME ReplyPrepare \/ ReplyUnprepare PROVE CallSparesPods' /\ PodsHaveClaims'
    <2>1. cur \in Claims /\ claimState' = claimState /\ pc' = "idle"
      BY <1>8 DEF ReplyPrepare, ReplyUnprepare, CallEnds
    <2>2. kstate' = kstate \/ \E k : kstate' = [kstate EXCEPT ![cur] = k]
      BY <1>8 DEF ReplyPrepare, ReplyUnprepare, SetPod
    <2> QED BY <1>7, <2>1, <2>2, CallHasClaim DEF PodsHaveClaims
  <1>9. ASSUME PluginStep, UNCHANGED kstate PROVE CallSparesPods' /\ PodsHaveClaims'
    BY <1>9, ClaimsKept, PluginStays DEF CallSparesPods, PodsHaveClaims, Runs, PrepareSteps,
       UnprepareSteps
  <1>10. ASSUME DriverStep PROVE CallSparesPods' /\ PodsHaveClaims'
    BY <1>1, <1>7, <1>9, <1>10 DEF DriverStep, Crash, CallEnds, Restart, Recompute, PodsHaveClaims
  <1>11. ASSUME OwnerGC \/ ReconcilerStep PROVE Same
    BY <1>11 DEF OwnerGC, ReconcilerStep, Reconcile, ReconcileList, ReconcileCheck, ReconcileDelete
  <1> QED BY <1>1, <1>2, <1>3, <1>4, <1>5, <1>6, <1>8, <1>10, <1>11 DEF Next, Done

LEMMA CleanupNext ==
  ASSUME CleanupAfterError, [Next]_vars
  PROVE  CleanupAfterError'
  <1>1. ASSUME PluginStep PROVE CleanupAfterError'
    BY <1>1 DEF CleanupAfterError, PluginStep, PostShadow, UpdateStatus, UndoCreate, GetExisting,
       InSlot, InPhase, GrpcPrepare, SweepDelete, JoinCreate, JoinGrpc, Record, CleanupUnprepare,
       CleanupDelete, UnprepareShadow, DeleteShadow, SweepList, Drop
  <1>2. ASSUME NEW c \in Claims, KubeletPrepare(c) \/ KubeletUnprepare(c) PROVE CleanupAfterError'
    BY <1>2 DEF CleanupAfterError, KubeletPrepare, PrepareBegin, KubeletUnprepare, UnprepareBegin
  <1>3. ASSUME ReplyPrepare \/ ReplyUnprepare \/ Crash PROVE CleanupAfterError'
    BY <1>3 DEF CleanupAfterError, ReplyPrepare, ReplyUnprepare, Crash, CallEnds
  <1>4. CASE UNCHANGED callVars
    BY <1>4 DEF CleanupAfterError
  <1> QED BY <1>1, <1>2, <1>3, <1>4 DEF Next, Done, DriverStep, Restart, Recompute, ReconcilerStep,
             Reconcile, ReconcileList, ReconcileCheck, ReconcileDelete, OwnerGC, Schedule,
             PodDelete, Deallocate, DeleteClaim

\* A driver's acceptance of a slot backs that slot, and takes nothing from
\* the slots accepted before: a member in two slots keeps the later shadow.
LEMMA GrpcBacks ==
  ASSUME NamesDistinct, TypeOK, OwnershipInv, CallBacked, NEW j \in Slots, GrpcPrepare(j)
  PROVE  CallBacked'
  <1> USE DEF TypeOK, PluginTypeOK, ClaimTypeOK
  <1>1. /\ cur \in Claims /\ j \in SlotsOf(cur) /\ pc = "grpc" /\ pc' = "grpc"
        /\ UNCHANGED <<cur, api, claimState>>
    BY DEF GrpcPrepare, InPhase
  <1>2. PICK failed \in BOOLEAN : /\ GrpcPrepareCall(j, failed)
                                  /\ SetSlot(j, IF failed THEN "failed" ELSE "done", info[j])
    BY DEF GrpcPrepare
  <1>3. holder' = holder \/ (holder' = DriverPrepares(j) /\ Readable(j) # {})
    BY <1>2 DEF DriverAccepts
  <1>4. ~failed => Readable(j) # {} /\ holder' = DriverPrepares(j)
    BY <1>2 DEF DriverAccepts
  <1>5. ASSUME claimState[cur] = "allocated", NEW i \in SlotsOf(cur), Accepted(i)'
        PROVE  Backed(cur, i)'
    <2>1. i \in Slots /\ Work[cur][i] \in Members
      BY <1>1, SlotFacts
    <2>2. stat'[i] = "done"
      BY <1>1, <1>5 DEF Accepted
    <2>3. CASE holder' = DriverPrepares(j) /\ Readable(j) # {} /\ Work[cur][i] = MemberOf(j)
      <3>1. PICK s \in Readable(j) : TRUE
        BY <2>3
      <3>2. s \in api /\ s.owner = cur /\ s.uid = info[j] /\ s.alloc = Work[cur][i]
        BY <1>1, <2>3, <3>1, ReadableFact
      <3>3. holder'[Work[cur][i]] = info[j]
        BY <1>1, <2>1, <2>3, PreparesOne
      <3> QED BY <1>1, <3>2, <3>3 DEF Backed, Owned
    <2>4. CASE ~ (holder' = DriverPrepares(j) /\ Readable(j) # {} /\ Work[cur][i] = MemberOf(j))
      <3>1. holder'[Work[cur][i]] = holder[Work[cur][i]]
        BY <1>1, <1>3, <2>1, <2>4, PreparesOne
      <3>2. i # j
        BY <1>1, <1>2, <1>4, <2>1, <2>2, <2>4 DEF MemberOf, SetSlot
      <3>3. stat[i] = "done"
        BY <1>2, <2>1, <2>2, <3>2 DEF SetSlot
      <3>4. Backed(cur, i)
        BY <1>1, <1>5, <3>3 DEF CallBacked, Accepted
      <3> QED BY <1>1, <3>1, <3>4 DEF Backed, Owned
    <2> QED BY <2>3, <2>4
  <1> QED BY <1>1, <1>5 DEF CallBacked

LEMMA CallBackedNext ==
  ASSUME NamesDistinct, TypeOK, OwnershipInv, CallInv, ReconcilerInv, PodsHaveClaims,
         CallSparesPods, CleanupAfterError, CallBacked, [Next]_vars
  PROVE  CallBacked'
  <1> USE DEF TypeOK, PluginTypeOK, ClaimTypeOK
  \* Nothing is claimed of a call that is at another point or has failed.
  <1>1. ASSUME \A i \in Slots : ~ Accepted(i)', pc' = "prepared" => err' PROVE CallBacked'
    BY <1>1, SlotFacts DEF CallBacked
  <1>2. ASSUME NEW c \in Claims, KubeletPrepare(c) \/ KubeletUnprepare(c) PROVE CallBacked'
    BY <1>1, <1>2 DEF KubeletPrepare, PrepareBegin, KubeletUnprepare, UnprepareBegin, Accepted
  <1>3. ASSUME ReplyPrepare \/ ReplyUnprepare \/ Crash PROVE CallBacked'
    BY <1>3, ClaimAssumption DEF ReplyPrepare, ReplyUnprepare, Crash, CallEnds, CallBacked
  <1>4. ASSUME NEW i \in Slots, PostShadow(i) \/ UpdateStatus(i) \/ UndoCreate(i) \/ GetExisting(i)
                                \/ SweepDelete(i)
        PROVE  CallBacked'
    BY <1>1, <1>4 DEF PostShadow, UpdateStatus, UndoCreate, GetExisting, SweepDelete, InSlot, InPhase,
       Accepted
  <1>5. ASSUME UnprepareShadow \/ DeleteShadow \/ SweepList \/ Drop \/ CleanupUnprepare PROVE CallBacked'
    BY <1>1, <1>5 DEF UnprepareShadow, DeleteShadow, SweepList, Drop, CleanupUnprepare, Accepted
  <1>6. ASSUME CleanupDelete PROVE CallBacked'
    BY <1>1, <1>6 DEF CleanupDelete, Accepted, CleanupAfterError
  <1>7. ASSUME JoinCreate PROVE CallBacked'
    BY <1>1, <1>7 DEF JoinCreate, AllTodo, Accepted
  <1>8. ASSUME JoinGrpc PROVE CallBacked'
    <2>1. CASE \A i \in SlotsOf(cur) : stat[i] = "done"
      BY <1>8, <2>1 DEF JoinGrpc, CallBacked, Accepted, Backed, Owned
    <2>2. CASE ~ \A i \in SlotsOf(cur) : stat[i] = "done"
      BY <1>1, <1>8, <2>2 DEF JoinGrpc, AllTodo, Accepted
    <2> QED BY <2>1, <2>2
  <1>9. ASSUME Record PROVE CallBacked'
    BY <1>9 DEF Record, CallBacked, Accepted, Backed, Owned
  \* Steps of others leave the shadows of an allocated claim alone.
  <1>10. ASSUME UNCHANGED <<callVars, holder>>,
                cur \in Claims /\ claimState'[cur] = "allocated" => claimState[cur] = "allocated",
                \A s \in api : claimState[s.owner] = "allocated" => s \in api'
         PROVE  CallBacked'
    <2> SUFFICES ASSUME cur \in Claims, claimState'[cur] = "allocated", NEW i \in SlotsOf(cur),
                        Accepted(i) \/ (pc = "prepared" /\ ~err)
                 PROVE  Backed(cur, i)'
      BY <1>10 DEF CallBacked, Accepted
    <2>1. PICK s \in Owned(cur) : s.alloc = Work[cur][i] /\ s.uid = holder[Work[cur][i]]
      BY <1>10 DEF CallBacked, Backed
    <2>2. s \in api'
      BY <1>10, <2>1 DEF Owned
    <2> QED BY <1>10, <2>1, <2>2 DEF Backed, Owned
  <1>11. cur \in Claims /\ claimState'[cur] = "allocated" => claimState[cur] = "allocated"
    BY AllocatedBefore, CallHasClaim DEF Schedule
  <1>12. ASSUME OwnerGC \/ ReconcilerStep PROVE CallBacked'
    <2>1. UNCHANGED <<callVars, holder>>
      BY <1>12 DEF OwnerGC, ReconcilerStep, Reconcile, ReconcileList, ReconcileCheck, ReconcileDelete
    <2>2. ASSUME NEW s \in api, claimState[s.owner] = "allocated" PROVE s \in api'
      BY <1>12, <2>2, CollectorsKeep
    <2> QED BY <1>10, <1>11, <2>1, <2>2
  <1>13. CASE UNCHANGED <<callVars, holder, api>>
    BY <1>10, <1>11, <1>13
  <1> QED BY <1>2, <1>3, <1>4, <1>5, <1>6, <1>7, <1>8, <1>9, <1>12, <1>13, GrpcBacks
          DEF Next, Done, DriverStep, PluginStep, Restart, Recompute, Schedule, PodDelete, Deallocate,
              DeleteClaim

\* Running pods keep their devices, and a pod that starts has them.
LEMMA RunningNext ==
  ASSUME NamesDistinct, TypeOK, OwnershipInv, CallInv, ReconcilerInv, BackedInv, [Next]_vars
  PROVE  RunningPodBacked'
  <1> SUFFICES ASSUME NEW c \in Claims, Runs(c)', NEW i \in SlotsOf(c) PROVE Backed(c, i)'
    BY DEF RunningPodBacked, Runs, Backed
  <1>1. CASE Runs(c)
    <2>1. Backed(c, i) /\ CallSparesPods
      BY <1>1 DEF BackedInv, RunningPodBacked, Runs, Backed
    <2>2. PICK s \in Owned(c) : s.alloc = Work[c][i] /\ s.uid = holder[Work[c][i]]
      BY <2>1 DEF Backed
    <2>3. s \in api /\ s.owner = c /\ c # cur /\ claimState[c] # "deleted"
      BY <1>1, <2>1, <2>2, CallNotRunning DEF Owned, Runs
    <2>4. s \in api'
      BY <2>3, OthersKept
    <2>5. holder'[Work[c][i]] = holder[Work[c][i]]
      BY <1>1, <2>1, HolderKept
    <2> QED BY <2>2, <2>3, <2>4, <2>5 DEF Backed, Owned
  <1>2. CASE ~ Runs(c)
    <2>1. /\ ReplyPrepare /\ c = cur /\ pc = "prepared" /\ ~err /\ claimState[cur] = "allocated"
      BY <1>2, PodStarts
    <2>2. Backed(c, i)
      BY <2>1 DEF BackedInv, CallBacked
    <2>3. UNCHANGED <<api, holder>>
      BY <2>1 DEF ReplyPrepare
    <2> QED BY <2>2, <2>3 DEF Backed, Owned
  <1> QED BY <1>1, <1>2

\* The inductive invariant behind RunningPodBacked holds in every reachable
\* state.
LEMMA BackedAlways ==
  ASSUME NamesDistinct, DevicesExclusive, ReconcilerReliable, PrepareOnce
  PROVE  Spec => []BackedInv
  <1>1. TypeOK /\ OwnershipInv /\ CallInv /\ ReconcilerInv /\ BackedInv /\ [Next]_vars => BackedInv'
    <2> SUFFICES ASSUME TypeOK, OwnershipInv, CallInv, ReconcilerInv, BackedInv, [Next]_vars
                 PROVE  BackedInv'
      OBVIOUS
    <2> QED BY AllocationNext, SparesNext, CleanupNext, CallBackedNext, RunningNext DEF BackedInv
  <1> QED BY <1>1, BackedInit, CallAndReconciler, PTL DEF Spec

\* When shadow names are distinct, composite devices do not share underlying
\* devices, the reconciler's Get does not fail and the kubelet prepares a pod
\* once, every device of a running pod stays prepared for the pod's claim:
\* for any number of pods, whatever crashes, is lost or is retried.
THEOREM RunningPodsBacked ==
  ASSUME NamesDistinct, DevicesExclusive, ReconcilerReliable, PrepareOnce
  PROVE  Spec => []RunningPodBacked
  <1>1. BackedInv => RunningPodBacked
    BY DEF BackedInv
  <1> QED BY <1>1, BackedAlways, PTL
============================================================================

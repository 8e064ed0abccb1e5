--------------------------- MODULE ReleaseProofs ---------------------------
(***************************************************************************)
(* Proofs that prepared devices stay known to the plugin and are released, *)
(* and that the gauge of active claims covers the records, for every set   *)
(* of claims, members, uids and drivers and every work list.               *)
(***************************************************************************)
EXTENDS LeaseProofs

USE DEF vars, pluginVars, claimVars, nodeVars, callVars, reconcilerVars
USE DEF GrpcPrepareCall, GrpcUnprepareCall, DeleteCall, SaveShadows, DeleteShadows, ListAll
USE DEF persistShadows, deleteShadowState

----------------------------------------------------------------------------
(* What the steps do to records, calls and devices                         *)

\* The steps that change neither devices nor records nor the call.
Aside ==
  \/ \E c \in Claims : Schedule(c) \/ PodDelete(c) \/ Deallocate(c) \/ DeleteClaim(c)
  \/ Recompute \/ OwnerGC \/ ReconcilerStep \/ UNCHANGED vars

LEMMA AsideFact ==
  ASSUME Aside
  PROVE  UNCHANGED <<holder, mem, claimsActive, up, callVars>> /\ api' \subseteq api
  <1>1. ASSUME NEW c \in Claims, Schedule(c) \/ PodDelete(c) \/ Deallocate(c) \/ DeleteClaim(c)
        PROVE  UNCHANGED <<holder, mem, claimsActive, up, callVars, api>>
    BY <1>1 DEF Schedule, PodDelete, Deallocate, DeleteClaim
  <1>2. ASSUME OwnerGC \/ ReconcilerStep
        PROVE  UNCHANGED <<holder, mem, claimsActive, up, callVars>> /\ api' \subseteq api
    BY <1>2, WithoutFact DEF OwnerGC, ReconcilerStep, Reconcile, ReconcileList, ReconcileCheck,
       ReconcileDelete
  <1>3. ASSUME Recompute PROVE UNCHANGED <<holder, mem, claimsActive, up, callVars, api>>
    BY <1>3 DEF Recompute
  <1> QED BY <1>1, <1>2, <1>3 DEF Aside

\* The slots of prepareClaim's first phase.
CreateStep(i) == PostShadow(i) \/ UpdateStatus(i) \/ UndoCreate(i) \/ GetExisting(i)

LEMMA CreateFact ==
  ASSUME TypeOK, NEW i \in Slots, CreateStep(i)
  PROVE  /\ pc = "create" /\ cur \in Claims /\ i \in SlotsOf(cur)
         /\ UNCHANGED <<holder, mem, claimsActive, up, pc, cur, todo, err>>
         /\ \A j \in Slots : j # i => info'[j] = info[j]
  <1>1. /\ pc = "create" /\ i \in SlotsOf(cur)
        /\ UNCHANGED <<holder, mem, claimsActive, up, pc, cur, todo, err>>
    BY DEF CreateStep, PostShadow, UpdateStatus, UndoCreate, GetExisting, InPhase, InSlot
  <1>2. \E u : info' = [info EXCEPT ![i] = u]
    BY DEF CreateStep, PostShadow, UpdateStatus, UndoCreate, GetExisting, SetSlot
  <1> QED BY <1>1, <1>2 DEF TypeOK, PluginTypeOK, Records

\* The steps that only move the call on, and delete shadows.
MoveOn == \/ JoinCreate \/ JoinGrpc \/ CleanupDelete \/ DeleteShadow \/ SweepList
          \/ \E i \in Slots : SweepDelete(i)

LEMMA MoveOnFact ==
  ASSUME MoveOn
  PROVE  /\ UNCHANGED <<holder, mem, claimsActive, up, cur, info>>
         /\ api' \subseteq api
  BY WithoutFact DEF MoveOn, JoinCreate, JoinGrpc, CleanupDelete, DeleteShadow, SweepList, SweepDelete

\* Without crashes these are all the steps there are.
LEMMA Steps ==
  ASSUME "crash" \notin Faults, up, [Next]_vars
  PROVE  \/ Aside \/ MoveOn \/ Record \/ Drop \/ CleanupUnprepare \/ UnprepareShadow
         \/ \E i \in Slots : CreateStep(i) \/ GrpcPrepare(i)
         \/ \E c \in Claims : KubeletPrepare(c) \/ KubeletUnprepare(c)
         \/ ReplyPrepare \/ ReplyUnprepare
  BY DEF Next, Done, DriverStep, PluginStep, Aside, MoveOn, CreateStep, Crash, Fault, Restart

----------------------------------------------------------------------------
(* Uids in the hands of the plugin                                         *)

\* What GetExisting takes over is prepared on the slot's own device only.
LEMMA ExistingHeld ==
  ASSUME NamesDistinct, TypeOK, OwnershipInv, ShadowInv, cur \in Claims, NEW i \in SlotsOf(cur),
         NEW s \in Named(NameOf(i)), NEW m \in Members, holder[m] = s.uid
  PROVE  m = Work[cur][i]
  <1>1. s \in api /\ s.name = shadowClaimName(cur, MemberOf(i)) /\ MemberOf(i) \in Members
    BY SlotFacts DEF Named, NameOf, MemberOf
  <1>2. s.alloc = m
    BY <1>1 DEF ShadowInv
  <1> QED BY <1>1, <1>2, NameDetermines, ClaimAssumption DEF MemberOf

LEMMA HeldNext ==
  ASSUME NamesDistinct, "crash" \notin Faults, up, TypeOK, OwnershipInv, CallInv, ShadowInv,
         HeldBySlot, [Next]_vars
  PROVE  HeldBySlot'
  <1> USE DEF TypeOK, PluginTypeOK, ClaimTypeOK
  <1>0. \A i \in Slots : NoRecord[i] = NoUid
    BY DEF NoRecord
  \* Devices are only released, and nobody gets hold of another uid.
  <1>1. ASSUME \A m \in Members : holder'[m] \in {holder[m], NoUid},
               cur' \in {cur, NoClaim}, cur' = cur => info' = info,
               \A c \in Claims : mem'[c] \in {mem[c], NoRecord} \/ (c = cur /\ mem'[c] = info)
        PROVE  HeldBySlot'
    <2>1. ASSUME NEW m \in Members, holder'[m] # NoUid, cur' \in Claims, NEW i \in SlotsOf(cur'),
                 info'[i] = holder'[m]
          PROVE  m = Work[cur'][i]
      BY <1>1, <2>1, ClaimAssumption DEF HeldBySlot
    <2>2. ASSUME NEW m \in Members, holder'[m] # NoUid, NEW c \in Claims, NEW i \in SlotsOf(c),
                 mem'[c][i] = holder'[m]
          PROVE  m = Work[c][i]
      <3>1. i \in Slots /\ holder'[m] = holder[m]
        BY <1>1, <2>2, SlotFacts
      <3>2. mem'[c] # NoRecord
        BY <1>0, <2>2, <3>1
      <3> QED BY <1>1, <2>2, <3>1, <3>2 DEF HeldBySlot
    <2> QED BY <2>1, <2>2 DEF HeldBySlot
  <1>2. ASSUME Aside \/ MoveOn PROVE HeldBySlot'
    BY <1>1, <1>2, AsideFact, MoveOnFact
  <1>3. ASSUME Record \/ Drop PROVE HeldBySlot'
    BY <1>1, <1>3 DEF Record, Drop
  <1>4. ASSUME CleanupUnprepare \/ UnprepareShadow PROVE HeldBySlot'
    <2>1. holder' \in {holder, DriverReleases(First(todo))} /\ UNCHANGED <<cur, info, mem>>
      BY <1>4 DEF CleanupUnprepare, UnprepareShadow
    <2> QED BY <1>1, <2>1, ReleasedFact
  <1>5. ASSUME ReplyPrepare \/ ReplyUnprepare PROVE HeldBySlot'
    BY <1>1, <1>5, ClaimAssumption DEF ReplyPrepare, ReplyUnprepare, CallEnds
  <1>6. ASSUME NEW c \in Claims, KubeletPrepare(c) PROVE HeldBySlot'
    <2>1. cur' = c /\ info = NoRecord /\ UNCHANGED <<holder, mem, info>>
      BY <1>6 DEF KubeletPrepare, PrepareBegin, OwnershipInv, IdleClean
    <2> QED BY <1>0, <2>1, SlotFacts DEF HeldBySlot
  <1>7. ASSUME NEW c \in Claims, KubeletUnprepare(c) PROVE HeldBySlot'
    <2>1. cur' = c /\ info' = mem[c] /\ mem' = [mem EXCEPT ![c] = NoRecord] /\ UNCHANGED holder
      BY <1>7 DEF KubeletUnprepare, UnprepareBegin
    <2> QED BY <1>0, <2>1, SlotFacts DEF HeldBySlot
  <1>8. ASSUME NEW i \in Slots, CreateStep(i) PROVE HeldBySlot'
    <2>1. /\ cur \in Claims /\ i \in SlotsOf(cur) /\ UNCHANGED <<holder, mem, cur>>
          /\ \A j \in Slots : j # i => info'[j] = info[j]
      BY <1>8, CreateFact
    <2>2. ASSUME NEW m \in Members, holder[m] # NoUid, info'[i] = holder[m] PROVE m = Work[cur][i]
      <3>1. CASE PostShadow(i)
        BY <2>2, <3>1, FreshFact DEF PostShadow, SetSlot, FreshUids, Records
      <3>2. CASE UpdateStatus(i) \/ UndoCreate(i)
        BY <2>1, <2>2, <3>2 DEF UpdateStatus, UndoCreate, SetSlot, HeldBySlot, Records
      <3>3. CASE GetExisting(i)
        <4>1. info'[i] = NoUid \/ \E s \in Named(NameOf(i)) : info'[i] = s.uid
          BY <3>3 DEF GetExisting, SetSlot, Records
        <4> QED BY <2>1, <2>2, <4>1, ExistingHeld
      <3> QED BY <1>8, <3>1, <3>2, <3>3 DEF CreateStep
    <2> QED BY <2>1, <2>2, SlotFacts DEF HeldBySlot
  <1>9. ASSUME NEW j \in Slots, GrpcPrepare(j) PROVE HeldBySlot'
    <2>1. /\ cur \in Claims /\ j \in SlotsOf(cur) /\ UNCHANGED <<cur, mem>> /\ info' = info
          /\ holder' = holder \/ holder' = DriverPrepares(j)
      BY <1>9 DEF GrpcPrepare, InPhase, SetSlot, Records
    <2>2. ASSUME NEW m \in Members, m = MemberOf(j), NEW s \in Readable(j)
          PROVE  /\ \A i \in SlotsOf(cur) : info[i] = info[j] => m = Work[cur][i]
                 /\ \A c \in Claims : \A i \in SlotsOf(c) : mem[c][i] = info[j] => m = Work[c][i]
      <3>1. s \in api /\ s.owner = cur /\ s.uid = info[j] /\ s.name = NameOf(j) /\ s.alloc = MemberOf(j)
        BY <2>1, <2>2, ReadableFact
      <3>2. ASSUME NEW i \in SlotsOf(cur), info[i] = info[j] PROVE m = Work[cur][i]
        <4>1. s.name = NameOf(i)
          BY <2>1, <3>1, <3>2 DEF OwnershipInv, CallOwnsShadow
        <4>2. Work[cur][i] \in Members /\ Work[cur][j] \in Members
          BY <2>1, SlotFacts
        <4>3. shadowClaimName(cur, Work[cur][i]) = shadowClaimName(cur, Work[cur][j])
          BY <3>1, <4>1 DEF NameOf, MemberOf
        <4> QED BY <2>1, <2>2, <4>2, <4>3 DEF NamesDistinct, MemberOf
      <3> QED BY <2>2, <3>1, <3>2 DEF OwnershipInv, RecordOwnsShadow
    <2>3. ASSUME NEW m \in Members
          PROVE  holder'[m] = holder[m] \/ (m = MemberOf(j) /\ Readable(j) # {} /\ holder'[m] = info[j])
      BY <2>1, PreparesOne
    <2> QED BY <2>1, <2>2, <2>3 DEF HeldBySlot
  <1> QED BY <1>2, <1>3, <1>4, <1>5, <1>6, <1>7, <1>8, <1>9, Steps

\* An accepted device stays prepared for the call's shadow.
LEMMA AcceptedNext ==
  ASSUME NamesDistinct, DriversAnswer, up, TypeOK, OwnershipInv, CallInv, AcceptedHeld, [Next]_vars
  PROVE  AcceptedHeld'
  <1> USE DEF TypeOK, PluginTypeOK, ClaimTypeOK
  <1>0. "crash" \notin Faults
    BY DEF DriversAnswer
  <1>1. ASSUME \A i \in Slots : ~ Accepted(i)' PROVE AcceptedHeld'
    BY <1>1, SlotFacts DEF AcceptedHeld
  <1>2. ASSUME UNCHANGED <<holder, cur, info>>, api' \subseteq api,
               \A i \in Slots : Accepted(i)' => \A j \in SlotsOf(cur) : Accepted(j)' => Accepted(j)
        PROVE  AcceptedHeld'
    BY <1>2, SlotFacts DEF AcceptedHeld, Named, NameOf, MemberOf
  <1>3. ASSUME Aside PROVE AcceptedHeld'
    BY <1>2, <1>3, AsideFact DEF Accepted
  <1>4. ASSUME JoinCreate \/ CleanupDelete \/ DeleteShadow \/ SweepList \/ \E i \in Slots : SweepDelete(i)
        PROVE  AcceptedHeld'
    BY <1>1, <1>4 DEF JoinCreate, CleanupDelete, DeleteShadow, SweepList, SweepDelete, Accepted, AllTodo
  <1>5. ASSUME JoinGrpc PROVE AcceptedHeld'
    <2>1. CASE \A i \in SlotsOf(cur) : stat[i] = "done"
      BY <1>2, <1>5, <2>1 DEF JoinGrpc, Accepted
    <2>2. CASE ~ \A i \in SlotsOf(cur) : stat[i] = "done"
      BY <1>1, <1>5, <2>2 DEF JoinGrpc, Accepted
    <2> QED BY <2>1, <2>2
  <1>6. ASSUME Record \/ Drop \/ CleanupUnprepare \/ UnprepareShadow PROVE AcceptedHeld'
    BY <1>1, <1>6 DEF Record, Drop, CleanupUnprepare, UnprepareShadow, Accepted
  <1>7. ASSUME ReplyPrepare \/ ReplyUnprepare PROVE AcceptedHeld'
    BY <1>1, <1>7 DEF ReplyPrepare, ReplyUnprepare, CallEnds, Accepted
  <1>8. ASSUME NEW c \in Claims, KubeletPrepare(c) \/ KubeletUnprepare(c) PROVE AcceptedHeld'
    BY <1>1, <1>8 DEF KubeletPrepare, PrepareBegin, KubeletUnprepare, UnprepareBegin, Accepted
  <1>9. ASSUME NEW i \in Slots, CreateStep(i) PROVE AcceptedHeld'
    BY <1>1, <1>9, CreateFact DEF Accepted
  <1>10. ASSUME NEW j \in Slots, GrpcPrepare(j) PROVE AcceptedHeld'
    <2>1. /\ cur \in Claims /\ j \in SlotsOf(cur) /\ UNCHANGED <<cur, api>> /\ info' = info
          /\ pc = "grpc" /\ pc' = "grpc" /\ \A i \in Slots : i # j => stat'[i] = stat[i]
      BY <1>10 DEF GrpcPrepare, InPhase, SetSlot, Records
    <2>2. \/ Readable(j) # {} /\ holder' = DriverPrepares(j)
          \/ stat'[j] # "done" /\ holder' = holder
      BY <1>10 DEF GrpcPrepare, SetSlot, DriversAnswer, Fault, DriverAccepts
    <2> SUFFICES ASSUME NEW i \in SlotsOf(cur), Accepted(i)'
                 PROVE  /\ holder'[Work[cur][i]] = info[i]
                        /\ \A s \in Named(NameOf(i)) : s.uid = info[i]
      BY <2>1 DEF AcceptedHeld, Named, NameOf, MemberOf
    <2>3. i \in Slots /\ Work[cur][i] \in Members /\ stat'[i] = "done"
      BY <2>1, SlotFacts DEF Accepted
    <2>4. CASE stat'[j] # "done" /\ holder' = holder
      BY <2>1, <2>3, <2>4 DEF AcceptedHeld, Accepted
    <2>5. CASE Readable(j) # {} /\ holder' = DriverPrepares(j)
      <3>1. PICK s \in Readable(j) : TRUE
        BY <2>5
      <3>2. /\ s \in api /\ s.uid = info[j] /\ s.name = NameOf(j) /\ MemberOf(j) \in Members
        BY <2>1, <3>1, ReadableFact
      <3>3. \A t \in Named(NameOf(j)) : t.uid = info[j]
        BY <3>2 DEF Named, OwnershipInv, UniqueShadows
      <3>4. CASE i = j
        BY <2>1, <2>3, <2>5, <3>3, <3>4, PreparesOne DEF MemberOf
      <3>5. CASE i # j
        <4>1. holder[Work[cur][i]] = info[i] /\ \A t \in Named(NameOf(i)) : t.uid = info[i]
          BY <2>1, <2>3, <3>5 DEF AcceptedHeld, Accepted
        <4>2. CASE Work[cur][i] = MemberOf(j)
          <5>1. s \in Named(NameOf(i))
            BY <3>2, <4>2 DEF Named, NameOf, MemberOf
          <5>2. info[i] = info[j]
            BY <3>2, <4>1, <5>1
          <5> QED BY <2>1, <2>3, <2>5, <4>1, <4>2, <5>2, PreparesOne
        <4>3. CASE Work[cur][i] # MemberOf(j)
          BY <2>1, <2>3, <2>5, <4>1, <4>3, PreparesOne
        <4> QED BY <4>2, <4>3
      <3> QED BY <3>4, <3>5
    <2> QED BY <2>2, <2>4, <2>5
  <1> QED BY <1>0, <1>3, <1>4, <1>5, <1>6, <1>7, <1>8, <1>9, <1>10, Steps DEF MoveOn

----------------------------------------------------------------------------
(* Tracking                                                                *)

\* A device is released when the loop has come to its slot.
LEMMA Released ==
  ASSUME DriversAnswer, TypeOK, CallInv, HeldBySlot, CleanupUnprepare \/ UnprepareShadow,
         NEW m \in Members, holder'[m] # NoUid
  PROVE  holder'[m] = holder[m] /\ info[First(todo)] # holder[m]
  <1> DEFINE i == First(todo)
  <1>1. cur \in Claims /\ i \in SlotsOf(cur)
    BY LoopSlot DEF CleanupUnprepare, UnprepareShadow, LoopSteps
  <1>2. holder' = DriverReleases(i)
    BY DEF CleanupUnprepare, UnprepareShadow, DriversAnswer, Fault
  <1> HIDE DEF i
  <1>3. /\ holder'[m] = holder[m]
        /\ ~ (holder[m] = info[i] /\ Driver[m] = Driver[MemberOf(i)])
    BY <1>2 DEF DriverReleases
  <1>4. info[i] # holder[m]
    BY <1>1, <1>3 DEF HeldBySlot, MemberOf
  <1> QED BY <1>3, <1>4 DEF i

\* Records that stay and uids that stay in the hands of the call keep the
\* devices tracked.
LEMMA TrackedStays ==
  ASSUME Tracked,
         \A m \in Members : holder'[m] # NoUid =>
           /\ holder'[m] = holder[m]
           /\ \A c \in Claims : \A i \in SlotsOf(c) : mem[c][i] = holder[m] =>
                \/ mem'[c][i] = holder[m]
                \/ \E j \in Pending' : info'[j] = holder[m]
           /\ \A i \in Pending : info[i] = holder[m] =>
                \/ \E c \in Claims : \E j \in SlotsOf(c) : mem'[c][j] = holder[m]
                \/ \E j \in Pending' : info'[j] = holder[m]
  PROVE  Tracked'
  BY DEF Tracked, Recorded

\* Where the call holds uids that are not on record.
LEMMA PendingFact ==
  /\ pc \in {"grpc", "record"} => Pending = SlotsOf(cur)
  /\ pc \in {"cleanup", "unprepare"} => Pending = todo
  /\ pc \in {"cleanup_del", "unprepare_del"} => Pending = todo \ {First(todo)}
  /\ pc \notin {"grpc", "record", "cleanup", "unprepare", "cleanup_del", "unprepare_del"} => Pending = {}
  BY DEF Pending

LEMMA PendingNext ==
  /\ pc' \in {"grpc", "record"} => Pending' = SlotsOf(cur')
  /\ pc' \in {"cleanup", "unprepare"} => Pending' = todo'
  /\ pc' \in {"cleanup_del", "unprepare_del"} => Pending' = todo' \ {First(todo')}
  /\ pc' \notin {"grpc", "record", "cleanup", "unprepare", "cleanup_del", "unprepare_del"} => Pending' = {}
  BY DEF Pending

LEMMA TrackedNext ==
  ASSUME NamesDistinct, DriversAnswer, TypeOK, OwnershipInv, CallInv, TrackInv, [Next]_vars
  PROVE  Tracked'
  <1> USE DEF TypeOK, PluginTypeOK, ClaimTypeOK
  <1>0. up /\ "crash" \notin Faults /\ Tracked /\ HeldBySlot /\ AcceptedHeld
    BY DEF DriversAnswer, TrackInv
  <1>1. ASSUME UNCHANGED <<holder, mem, cur>>, info' = info, Pending \subseteq Pending' PROVE Tracked'
    BY <1>0, <1>1, TrackedStays
  <1>2. ASSUME Aside PROVE Tracked'
    BY <1>1, <1>2, AsideFact, PendingFact, PendingNext
  <1>3. ASSUME MoveOn PROVE Tracked'
    <2>1. UNCHANGED <<holder, mem, cur, info>>
      BY <1>3, MoveOnFact
    <2>2. CASE JoinCreate
      BY <1>1, <2>1, <2>2, PendingFact DEF JoinCreate
    <2>3. CASE JoinGrpc
      BY <1>1, <2>1, <2>3, PendingFact, PendingNext DEF JoinGrpc
    <2>4. CASE CleanupDelete \/ DeleteShadow
      BY <1>1, <2>1, <2>4, PendingFact, PendingNext DEF CleanupDelete, DeleteShadow
    <2>5. CASE SweepList \/ \E i \in Slots : SweepDelete(i)
      BY <1>1, <2>1, <2>5, PendingFact DEF SweepList, SweepDelete
    <2> QED BY <1>3, <2>2, <2>3, <2>4, <2>5 DEF MoveOn
  <1>4. ASSUME Record PROVE Tracked'
    <2>1. /\ cur \in Claims /\ mem' = [mem EXCEPT ![cur] = info] /\ UNCHANGED holder
          /\ Pending = SlotsOf(cur)
      BY <1>4, PendingFact DEF Record
    <2>2. ASSUME NEW m \in Members, holder[m] # NoUid, NEW c \in Claims, NEW i \in SlotsOf(c),
                 mem[c][i] = holder[m]
          PROVE  mem'[c][i] = holder[m]
      <3>1. CASE c = cur
        <4>1. m = Work[cur][i]
          BY <1>0, <2>2, <3>1 DEF HeldBySlot
        <4>2. holder[m] = info[i]
          BY <1>0, <1>4, <2>1, <2>2, <3>1, <4>1 DEF AcceptedHeld, Accepted, Record
        <4> QED BY <2>1, <3>1, <4>2
      <3> QED BY <2>1, <2>2, <3>1
    <2>3. \A i \in Pending : mem'[cur][i] = info[i]
      BY <2>1
    <2> QED BY <1>0, <2>1, <2>2, <2>3, TrackedStays
  <1>5. ASSUME Drop PROVE Tracked'
    BY <1>1, <1>5, PendingFact DEF Drop
  <1>6. ASSUME CleanupUnprepare \/ UnprepareShadow PROVE Tracked'
    <2>1. /\ UNCHANGED <<mem, info, todo>>
          /\ Pending = todo /\ Pending' = todo \ {First(todo)}
      BY <1>6, PendingFact, PendingNext DEF CleanupUnprepare, UnprepareShadow
    <2>2. ASSUME NEW m \in Members, holder'[m] # NoUid
          PROVE  holder'[m] = holder[m] /\ info[First(todo)] # holder[m]
      BY <1>0, <1>6, <2>2, Released
    <2> QED BY <1>0, <2>1, <2>2, TrackedStays
  <1>7. ASSUME ReplyPrepare \/ ReplyUnprepare PROVE Tracked'
    <2>1. Pending = {} /\ UNCHANGED <<holder, mem>>
      BY <1>7, PendingFact DEF ReplyPrepare, ReplyUnprepare
    <2> QED BY <1>0, <2>1, TrackedStays
  <1>8. ASSUME NEW c \in Claims, KubeletPrepare(c) PROVE Tracked'
    <2>1. Pending = {} /\ UNCHANGED <<holder, mem>>
      BY <1>8, PendingFact DEF KubeletPrepare, PrepareBegin
    <2> QED BY <1>0, <2>1, TrackedStays
  <1>9. ASSUME NEW c \in Claims, KubeletUnprepare(c) PROVE Tracked'
    <2>1. /\ Pending = {} /\ UNCHANGED holder /\ info' = mem[c]
          /\ mem' = [mem EXCEPT ![c] = NoRecord]
          /\ todo' = {i \in SlotsOf(c) : mem[c][i] # NoUid}
          /\ mem[c] # NoRecord => pc' = "unprepare"
      BY <1>9, PendingFact DEF KubeletUnprepare, UnprepareBegin
    <2>2. ASSUME NEW m \in Members, holder[m] # NoUid, NEW d \in Claims, NEW i \in SlotsOf(d),
                 mem[d][i] = holder[m]
          PROVE  mem'[d][i] = holder[m] \/ \E j \in Pending' : info'[j] = holder[m]
      <3>1. CASE d = c
        <4>1. i \in Slots /\ mem[c] # NoRecord
          BY <2>2, <3>1, SlotFacts DEF NoRecord
        <4>2. i \in Pending' /\ info'[i] = holder[m]
          BY <2>1, <2>2, <3>1, <4>1, PendingNext
        <4> QED BY <4>2
      <3> QED BY <2>1, <2>2, <3>1
    <2> QED BY <1>0, <2>1, <2>2, TrackedStays
  <1>10. ASSUME NEW i \in Slots, CreateStep(i) PROVE Tracked'
    <2>1. Pending = {} /\ UNCHANGED <<holder, mem>>
      BY <1>10, CreateFact, PendingFact
    <2> QED BY <1>0, <2>1, TrackedStays
  <1>11. ASSUME NEW j \in Slots, GrpcPrepare(j) PROVE Tracked'
    <2>1. /\ cur \in Claims /\ j \in SlotsOf(cur) /\ UNCHANGED mem /\ info' = info
          /\ Pending = SlotsOf(cur) /\ Pending' = SlotsOf(cur)
          /\ holder' = holder \/ holder' = DriverPrepares(j)
      BY <1>11, PendingFact, PendingNext DEF GrpcPrepare, InPhase, SetSlot, Records
    <2>2. ASSUME NEW m \in Members PROVE holder'[m] = holder[m] \/ holder'[m] = info[j]
      BY <2>1, PreparesOne
    <2> QED BY <1>0, <2>1, <2>2 DEF Tracked, Recorded
  <1> QED BY <1>0, <1>2, <1>3, <1>4, <1>5, <1>6, <1>7, <1>8, <1>9, <1>10, <1>11, Steps

\* Without a crash the process stays up.
LEMMA UpNext ==
  ASSUME "crash" \notin Faults, up, TypeOK, [Next]_vars
  PROVE  up'
  <1>1. ASSUME Record \/ Drop \/ CleanupUnprepare \/ UnprepareShadow \/ ReplyPrepare \/ ReplyUnprepare
        PROVE  UNCHANGED up
    BY <1>1 DEF Record, Drop, CleanupUnprepare, UnprepareShadow, ReplyPrepare, ReplyUnprepare
  <1>2. ASSUME NEW c \in Claims, KubeletPrepare(c) \/ KubeletUnprepare(c) PROVE UNCHANGED up
    BY <1>2 DEF KubeletPrepare, PrepareBegin, KubeletUnprepare, UnprepareBegin
  <1>3. ASSUME NEW i \in Slots, GrpcPrepare(i) PROVE UNCHANGED up
    BY <1>3 DEF GrpcPrepare
  <1> QED BY <1>1, <1>2, <1>3, Steps, AsideFact, MoveOnFact, CreateFact

LEMMA TrackInit == Init => TrackInv
  BY ClaimAssumption DEF Init, PluginInit, TrackInv, Tracked, HeldBySlot, AcceptedHeld

\* The inductive invariant behind PreparedDeviceTracked.
LEMMA TrackAlways ==
  ASSUME NamesDistinct, DriversAnswer
  PROVE  Spec => [](TypeOK /\ OwnershipInv /\ CallInv /\ TrackInv)
  <1>1. TypeOK /\ OwnershipInv /\ CallInv /\ ShadowInv /\ TrackInv /\ [Next]_vars => TrackInv'
    BY UpNext, TrackedNext, HeldNext, AcceptedNext DEF TrackInv, DriversAnswer
  <1>2. Spec => [](TypeOK /\ OwnershipInv /\ CallInv /\ ShadowInv)
    BY TypeCorrect, ShadowsOwned, CallInit, CallNext, ShadowInit, ShadowNext, PTL DEF Spec
  <1> QED BY <1>1, <1>2, TrackInit, PTL DEF Spec

\* When shadow names are distinct, the process does not crash and no answer of
\* a driver is lost, a prepared device is always known to the plugin, whatever
\* requests to the API server and writes to disk fail, whatever the kubelet
\* retries and whichever shadows others delete.
THEOREM PreparedDevicesTracked ==
  ASSUME NamesDistinct, DriversAnswer
  PROVE  Spec => []PreparedDeviceTracked
  <1>1. TypeOK /\ TrackInv => PreparedDeviceTracked
    <2> SUFFICES ASSUME TypeOK, TrackInv PROVE PreparedDeviceTracked
      OBVIOUS
    <2>1. todo \subseteq Slots /\ (pc # "idle" => SlotsOf(cur) \subseteq Slots)
      BY SlotFacts DEF TypeOK, PluginTypeOK
    <2>2. Pending \subseteq Slots
      BY <2>1, PendingFact
    <2> QED BY <2>2 DEF TrackInv, Tracked, PreparedDeviceTracked, InFlight
  <1> QED BY <1>1, TrackAlways, PTL

----------------------------------------------------------------------------
(* Release                                                                 *)

LEMMA ReleaseInit == Init => ReleaseInv
  BY DEF Init, PluginInit, ReleaseInv, UnprepareSteps

LEMMA ReleaseNext ==
  ASSUME "crash" \notin Faults, up, TypeOK, CallInv, ReleaseInv, [Next]_vars
  PROVE  ReleaseInv'
  <1> USE DEF TypeOK, PluginTypeOK
  <1>1. ASSUME UNCHANGED <<cur, kstate>>, pc' # "idle" => pc # "idle",
               pc' \in UnprepareSteps => pc \in UnprepareSteps,
               mem' = mem \/ (pc' \notin UnprepareSteps /\ pc # "idle" /\ mem' = [mem EXCEPT ![cur] = info])
        PROVE  ReleaseInv'
    BY <1>1 DEF ReleaseInv, Served
  <1>2. ASSUME PluginStep, UNCHANGED kstate PROVE ReleaseInv'
    <2>1. /\ UNCHANGED cur /\ pc # "idle"
          /\ pc' \in UnprepareSteps => pc \in UnprepareSteps
      BY <1>2, PluginStays DEF PrepareSteps, UnprepareSteps
    <2>2. CASE Record
      BY <1>1, <1>2, <2>1, <2>2 DEF Record, UnprepareSteps
    <2>3. ASSUME ~ Record PROVE mem' = mem
      BY <1>2, <2>3 DEF PluginStep, PostShadow, UpdateStatus, UndoCreate, GetExisting, InSlot,
         GrpcPrepare, SweepDelete, JoinCreate, JoinGrpc, CleanupUnprepare, CleanupDelete,
         UnprepareShadow, DeleteShadow, SweepList, Drop
    <2> QED BY <1>1, <1>2, <2>1, <2>2, <2>3
  <1>3. ASSUME DriverStep PROVE ReleaseInv'
    BY <1>1, <1>2, <1>3 DEF DriverStep, Crash, Fault, Restart, Recompute
  <1>4. ASSUME OwnerGC \/ ReconcilerStep \/ UNCHANGED vars PROVE ReleaseInv'
    BY <1>1, <1>4 DEF OwnerGC, ReconcilerStep, Reconcile, ReconcileList, ReconcileCheck,
       ReconcileDelete
  <1>5. ASSUME NEW c \in Claims, Schedule(c) \/ PodDelete(c) \/ Deallocate(c) \/ DeleteClaim(c)
        PROVE  ReleaseInv'
    BY <1>5 DEF Schedule, PodDelete, Deallocate, DeleteClaim, SetPod, ReleaseInv, Served
  <1>6. ASSUME NEW c \in Claims, KubeletPrepare(c) PROVE ReleaseInv'
    BY <1>6 DEF KubeletPrepare, PrepareBegin, ReleaseInv, Served, UnprepareSteps
  <1>7. ASSUME NEW c \in Claims, KubeletUnprepare(c) PROVE ReleaseInv'
    BY <1>7 DEF KubeletUnprepare, UnprepareBegin, ReleaseInv, Served
  <1>8. ASSUME ReplyPrepare PROVE ReleaseInv'
    BY <1>8 DEF ReplyPrepare, CallEnds, SetPod, ReleaseInv, Served, UnprepareSteps
  <1>9. ASSUME ReplyUnprepare PROVE ReleaseInv'
    BY <1>9 DEF ReplyUnprepare, CallEnds, SetPod, ReleaseInv, Served, UnprepareSteps
  <1> QED BY <1>3, <1>4, <1>5, <1>6, <1>7, <1>8, <1>9 DEF Next, Done

\* Under the same assumptions no device is left prepared on a node whose pods
\* are all gone.
THEOREM PodsReleaseDevices ==
  ASSUME NamesDistinct, DriversAnswer
  PROVE  Spec => []DevicesReleased
  <1>1. TypeOK /\ CallInv /\ TrackInv /\ ReleaseInv /\ [Next]_vars => ReleaseInv'
    BY ReleaseNext DEF TrackInv, DriversAnswer
  <1>2. TypeOK /\ TrackInv /\ ReleaseInv => DevicesReleased
    <2> SUFFICES ASSUME TypeOK, TrackInv, ReleaseInv, pc = "idle", NEW m \in Members, holder[m] # NoUid,
                        \A c \in Claims : kstate[c] \in {"none", "gone"}
                 PROVE  FALSE
      BY DEF DevicesReleased
    <2>1. \A c \in Claims : mem[c] = NoRecord
      BY DEF ReleaseInv, Served
    <2>2. \A c \in Claims : \A i \in SlotsOf(c) : mem[c][i] = NoUid
      BY <2>1, SlotFacts DEF NoRecord
    <2>3. Pending = {}
      BY PendingFact
    <2> QED BY <2>2, <2>3 DEF TrackInv, Tracked, Recorded
  <1> QED BY <1>1, <1>2, ReleaseInit, TrackAlways, PTL DEF Spec

----------------------------------------------------------------------------
(* The gauge                                                               *)

LEMMA GaugeInit == Init => GaugeInv
  <1> SUFFICES ASSUME Init PROVE GaugeInv
    OBVIOUS
  <1>1. OnRecord = {} /\ up /\ claimsActive = 0 /\ pc = "idle"
    BY DEF Init, PluginInit, OnRecord
  <1>2. IsFiniteSet(OnRecord) /\ Cardinality(OnRecord) = 0
    BY <1>1, FS_EmptySet
  <1>3. Owed = 0
    BY <1>1 DEF Owed, UnprepareSteps
  <1> QED BY <1>1, <1>2, <1>3 DEF GaugeInv

LEMMA GaugeNext ==
  ASSUME "crash" \notin Faults
  PROVE  TypeOK /\ GaugeInv /\ [Next]_vars => GaugeInv'
  <1> SUFFICES ASSUME TypeOK, GaugeInv, [Next]_vars PROVE GaugeInv'
    OBVIOUS
  <1> USE DEF TypeOK, PluginTypeOK
  <1>0. /\ up /\ up' /\ IsFiniteSet(OnRecord) /\ Cardinality(OnRecord) \in Nat
        /\ Cardinality(OnRecord) + Owed <= claimsActive
    BY UpNext, FS_CardinalityType DEF GaugeInv
  <1>1. Owed \in {0, 1} /\ Owed' \in {0, 1}
    BY DEF Owed
  <1>2. ASSUME UNCHANGED <<mem, claimsActive>>, Owed' \in {Owed, 0} PROVE GaugeInv'
    <2>1. UNCHANGED OnRecord
      BY <1>2 DEF OnRecord
    <2> QED BY <1>0, <1>1, <1>2, <2>1 DEF GaugeInv
  <1>3. ASSUME Aside PROVE GaugeInv'
    BY <1>2, <1>3, AsideFact DEF Owed
  <1>4. ASSUME MoveOn PROVE GaugeInv'
    <2>1. UNCHANGED <<mem, claimsActive, info>>
      BY <1>4, MoveOnFact
    <2>2. \/ pc' \notin UnprepareSteps
          \/ pc \in UnprepareSteps \ {"unprepared"} /\ pc' \in UnprepareSteps \ {"unprepared"}
      BY <1>4 DEF MoveOn, JoinCreate, JoinGrpc, CleanupDelete, DeleteShadow, SweepList, SweepDelete,
         UnprepareSteps
    <2>3. Owed' \in {Owed, 0}
      BY <2>1, <2>2 DEF Owed
    <2> QED BY <1>2, <2>1, <2>3
  <1>5. ASSUME CleanupUnprepare \/ UnprepareShadow PROVE GaugeInv'
    BY <1>2, <1>5 DEF CleanupUnprepare, UnprepareShadow, Owed, UnprepareSteps
  <1>6. ASSUME ReplyPrepare \/ ReplyUnprepare PROVE GaugeInv'
    BY <1>2, <1>6 DEF ReplyPrepare, ReplyUnprepare, CallEnds, Owed, UnprepareSteps
  <1>7. ASSUME NEW c \in Claims, KubeletPrepare(c) PROVE GaugeInv'
    BY <1>2, <1>7 DEF KubeletPrepare, PrepareBegin, Owed, UnprepareSteps
  <1>8. ASSUME NEW i \in Slots, CreateStep(i) PROVE GaugeInv'
    BY <1>2, <1>8, CreateFact DEF Owed, UnprepareSteps
  <1>9. ASSUME NEW i \in Slots, GrpcPrepare(i) PROVE GaugeInv'
    BY <1>2, <1>9 DEF GrpcPrepare, InPhase, Owed, UnprepareSteps
  <1>10. ASSUME NEW c \in Claims, KubeletUnprepare(c) PROVE GaugeInv'
    <2>1. /\ pc = "idle" /\ info' = mem[c] /\ UNCHANGED claimsActive
          /\ mem' = [mem EXCEPT ![c] = NoRecord]
          /\ pc' \in {"sweep", "unprepare"}
      BY <1>10 DEF KubeletUnprepare, UnprepareBegin
    <2>2. OnRecord' = OnRecord \ {c}
      BY <2>1 DEF OnRecord
    <2>3. /\ IsFiniteSet(OnRecord')
          /\ Cardinality(OnRecord') = IF c \in OnRecord THEN Cardinality(OnRecord) - 1
                                                        ELSE Cardinality(OnRecord)
      BY <1>0, <2>2, FS_RemoveElement
    <2>4. Owed = 0 /\ Owed' = IF c \in OnRecord THEN 1 ELSE 0
      BY <2>1 DEF Owed, OnRecord, UnprepareSteps
    <2> QED BY <1>0, <2>1, <2>3, <2>4 DEF GaugeInv
  <1>11. ASSUME Record PROVE GaugeInv'
    <2>1. /\ cur \in Claims /\ mem' = [mem EXCEPT ![cur] = info]
          /\ claimsActive' = claimsActive + 1 /\ pc = "record" /\ pc' = "prepared"
      BY <1>11 DEF Record
    <2>2. Owed = 0 /\ Owed' = 0
      BY <2>1 DEF Owed, UnprepareSteps
    <2>3. CASE info = NoRecord
      <3>1. OnRecord' = OnRecord \ {cur}
        BY <2>1, <2>3 DEF OnRecord
      <3>2. IsFiniteSet(OnRecord') /\ Cardinality(OnRecord') <= Cardinality(OnRecord)
        BY <1>0, <3>1, FS_Subset
      <3>3. Cardinality(OnRecord') \in Nat
        BY <3>2, FS_CardinalityType
      <3> QED BY <1>0, <2>1, <2>2, <3>2, <3>3 DEF GaugeInv
    <2>4. CASE info # NoRecord
      <3>1. OnRecord' = OnRecord \cup {cur}
        BY <2>1, <2>4 DEF OnRecord
      <3>2. /\ IsFiniteSet(OnRecord')
            /\ Cardinality(OnRecord') = IF cur \in OnRecord THEN Cardinality(OnRecord)
                                                            ELSE Cardinality(OnRecord) + 1
        BY <1>0, <3>1, FS_AddElement
      <3> QED BY <1>0, <2>1, <2>2, <3>2 DEF GaugeInv
    <2> QED BY <2>3, <2>4
  <1>12. ASSUME Drop PROVE GaugeInv'
    <2>1. /\ UNCHANGED <<mem, info>> /\ pc = "drop" /\ pc' = "unprepared"
          /\ claimsActive' = claimsActive \/ (info # NoRecord /\ claimsActive' = claimsActive - 1)
      BY <1>12 DEF Drop
    <2>2. OnRecord' = OnRecord
      BY <2>1 DEF OnRecord
    <2>3. Owed = (IF info # NoRecord THEN 1 ELSE 0) /\ Owed' = 0
      BY <2>1 DEF Owed, UnprepareSteps
    <2> QED BY <1>0, <2>1, <2>2, <2>3 DEF GaugeInv
  <1> QED BY <1>0, <1>3, <1>4, <1>5, <1>6, <1>7, <1>8, <1>9, <1>10, <1>11, <1>12, Steps

\* As long as the process lives the gauge covers the records, for every
\* number of claims, every failure and every retry.
THEOREM GaugeCovers == Spec => []GaugeCoversRecords
  <1>1. CASE "crash" \in Faults
    <2>1. GaugeCoversRecords
      BY <1>1 DEF GaugeCoversRecords
    <2> QED BY <2>1, PTL
  <1>2. CASE "crash" \notin Faults
    <2>1. TypeOK /\ GaugeInv => GaugeCoversRecords
      <3> SUFFICES ASSUME TypeOK, GaugeInv PROVE Cardinality(OnRecord) <= claimsActive
        BY DEF GaugeCoversRecords, OnRecord
      <3>1. Owed \in {0, 1} /\ Cardinality(OnRecord) \in Nat /\ claimsActive \in Int
        BY FS_CardinalityType DEF Owed, GaugeInv, TypeOK, PluginTypeOK
      <3>2. Cardinality(OnRecord) + Owed <= claimsActive
        BY DEF GaugeInv
      <3> QED BY <3>1, <3>2
    <2>2. TypeOK /\ GaugeInv /\ [Next]_vars => GaugeInv'
      BY <1>2, GaugeNext
    <2> QED BY <2>1, <2>2, GaugeInit, TypeCorrect, PTL DEF Spec
  <1> QED BY <1>1, <1>2
============================================================================

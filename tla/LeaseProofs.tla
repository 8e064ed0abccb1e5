---------------------------- MODULE LeaseProofs ----------------------------
(***************************************************************************)
(* Proof that the node implements DeviceLease, for every set of claims,    *)
(* members, uids and drivers and every work list: the initial state maps   *)
(* to DeviceLease's, and every step of the node to one of its actions or   *)
(* to a stuttering step.                                                   *)
(***************************************************************************)
EXTENDS RunningPodProofs

USE DEF vars, pluginVars, claimVars, nodeVars, callVars, reconcilerVars
USE DEF GrpcPrepareCall, GrpcUnprepareCall, DeleteCall, SaveShadows, DeleteShadows, ListAll
USE DEF persistShadows, deleteShadowState

----------------------------------------------------------------------------
(* Shadows and the devices prepared for them                               *)

LEMMA ShadowInit == Init => ShadowInv
  BY DEF Init, PluginInit, ClaimInit, ShadowInv

\* Shadows that disappear and devices that are released disturb nothing.
LEMMA ShadowShrink ==
  ASSUME TypeOK, ShadowInv, api' \subseteq api,
         \A m \in Members : holder'[m] \in {holder[m], NoUid}
  PROVE  ShadowInv'
  <1>1. \A s \in api : s.uid # NoUid
    BY ClaimAssumption DEF TypeOK, PluginTypeOK, ClaimTypeOK, ShadowSet
  <1> QED BY <1>1 DEF ShadowInv

LEMMA ReleasedFact ==
  ASSUME NEW i, NEW m \in Members, holder' \in {holder, DriverReleases(i)}
  PROVE  holder'[m] \in {holder[m], NoUid}
  BY DEF DriverReleases

LEMMA ShadowNext ==
  ASSUME NamesDistinct
  PROVE  TypeOK /\ OwnershipInv /\ ShadowInv /\ [Next]_vars => ShadowInv'
  <1> SUFFICES ASSUME TypeOK, OwnershipInv, ShadowInv, [Next]_vars PROVE ShadowInv'
    OBVIOUS
  <1> USE DEF TypeOK, PluginTypeOK, ClaimTypeOK
  <1>1. ASSUME NEW i \in Slots, PostShadow(i) PROVE ShadowInv'
    <2>1. api' = api \/ api' = api \cup {NewShadow(cur, MemberOf(i), FreshUid)}
      BY <1>1 DEF PostShadow
    <2>2. UNCHANGED holder /\ \A m \in Members : holder[m] # FreshUid
      BY <1>1, FreshFact DEF PostShadow, InSlot, FreshUids
    <2> QED BY <2>1, <2>2 DEF ShadowInv, NewShadow
  <1>2. ASSUME NEW i \in Slots, UpdateStatus(i) PROVE ShadowInv'
    <2>1. /\ cur \in Claims /\ i \in SlotsOf(cur) /\ UNCHANGED holder
          /\ api' = api \/ api' = Allocated(info[i], MemberOf(i))
      BY <1>2 DEF UpdateStatus, InPhase, InSlot
    <2>2. CASE api' = Allocated(info[i], MemberOf(i))
      <3> SUFFICES ASSUME NEW s \in api'
                   PROVE  /\ s.alloc # NoMember =>
                               \E j \in SlotsOf(s.owner) : s.alloc = Work[s.owner][j]
                          /\ \A m \in Members : holder[m] = s.uid => s.alloc = m
        BY <2>1 DEF ShadowInv
      <3>1. PICK t \in api : /\ s.name = t.name /\ s.uid = t.uid /\ s.owner = t.owner
                             /\ IF t.uid = info[i] THEN s.alloc = MemberOf(i) ELSE s = t
        BY <2>2, AllocatedFact
      <3>2. CASE t.uid = info[i]
        <4>1. t.owner = cur /\ t.name = shadowClaimName(cur, MemberOf(i)) /\ MemberOf(i) \in Members
          BY <2>1, <3>2, SlotFacts DEF OwnershipInv, CallOwnsShadow, NameOf, MemberOf
        <4>2. t.alloc \in {NoMember, MemberOf(i)}
          BY <4>1, <2>1, NameDetermines
        <4> QED BY <2>1, <3>1, <3>2, <4>1, <4>2, ClaimAssumption DEF ShadowInv, MemberOf
      <3>3. CASE t.uid # info[i]
        BY <3>1, <3>3 DEF ShadowInv
      <3> QED BY <3>2, <3>3
    <2> QED BY <2>1, <2>2 DEF ShadowInv
  <1>3. ASSUME NEW i \in Slots, GrpcPrepare(i) PROVE ShadowInv'
    <2>1. /\ cur \in Claims /\ i \in SlotsOf(cur) /\ UNCHANGED api
          /\ holder' = holder \/ holder' = DriverPrepares(i)
      BY <1>3 DEF GrpcPrepare, InPhase
    <2>2. ASSUME NEW s \in api, NEW m \in Members, DriverPrepares(i)[m] = s.uid PROVE s.alloc = m
      <3>1. CASE m = MemberOf(i) /\ Readable(i) # {}
        <4>1. PICK t \in Readable(i) : TRUE
          BY <3>1
        <4>2. t \in api /\ t.uid = info[i] /\ t.alloc = m
          BY <2>1, <3>1, <4>1, ReadableFact
        <4>3. s.uid = info[i]
          BY <2>1, <2>2, <3>1, PreparesOne
        <4> QED BY <4>2, <4>3 DEF OwnershipInv, UniqueShadows
      <3> QED BY <2>1, <2>2, <3>1, PreparesOne DEF ShadowInv
    <2> QED BY <2>1, <2>2 DEF ShadowInv
  <1>4. ASSUME CleanupUnprepare \/ UnprepareShadow PROVE ShadowInv'
    <2>1. api' = api /\ holder' \in {holder, DriverReleases(First(todo))}
      BY <1>4 DEF CleanupUnprepare, UnprepareShadow
    <2> QED BY <2>1, ReleasedFact, ShadowShrink
  <1>5. ASSUME api' \subseteq api, UNCHANGED holder PROVE ShadowInv'
    BY <1>5, ShadowShrink
  <1>6. ASSUME NEW i \in Slots, UndoCreate(i) \/ GetExisting(i) \/ SweepDelete(i) PROVE ShadowInv'
    BY <1>5, <1>6, WithoutFact DEF UndoCreate, GetExisting, SweepDelete, InSlot
  <1>7. ASSUME JoinCreate \/ JoinGrpc \/ Record \/ CleanupDelete \/ DeleteShadow \/ SweepList \/ Drop
               \/ Crash \/ Restart \/ Recompute
        PROVE  ShadowInv'
    BY <1>5, <1>7, WithoutFact DEF JoinCreate, JoinGrpc, Record, CleanupDelete, DeleteShadow, SweepList,
       Drop, Crash, Restart, Recompute
  <1>8. ASSUME OwnerGC \/ ReplyPrepare \/ ReplyUnprepare \/ ReconcilerStep PROVE ShadowInv'
    BY <1>5, <1>8, WithoutFact DEF OwnerGC, ReplyPrepare, ReplyUnprepare, ReconcilerStep, Reconcile,
       ReconcileList, ReconcileCheck, ReconcileDelete
  <1>9. ASSUME NEW c \in Claims, Schedule(c) \/ PodDelete(c) \/ Deallocate(c) \/ DeleteClaim(c)
                                 \/ KubeletPrepare(c) \/ KubeletUnprepare(c)
        PROVE  ShadowInv'
    BY <1>5, <1>9 DEF Schedule, PodDelete, Deallocate, DeleteClaim, KubeletPrepare, PrepareBegin,
       KubeletUnprepare, UnprepareBegin
  <1> QED BY <1>1, <1>2, <1>3, <1>4, <1>5, <1>6, <1>7, <1>8, <1>9
          DEF Next, Done, DriverStep, PluginStep

----------------------------------------------------------------------------
(* Leases                                                                  *)

\* The device is prepared for a shadow of the claim.
Leases(m, c) == \E s \in Owned(c) : s.alloc = m /\ s.uid = holder[m]

\* The refinement mapping says whose shadow a device is prepared for.
LEMMA LeaseFact ==
  TypeOK /\ OwnershipInv =>
    \A m \in Members : /\ LeaseOf(m) \in Claims \cup {NoClaim}
                       /\ \A c \in Claims : LeaseOf(m) = c <=> Leases(m, c)
  <1> SUFFICES ASSUME TypeOK, OwnershipInv, NEW m \in Members
               PROVE  /\ LeaseOf(m) \in Claims \cup {NoClaim}
                      /\ \A c \in Claims : LeaseOf(m) = c <=> Leases(m, c)
    OBVIOUS
  <1>1. \A s \in api : s.owner \in Claims
    BY DEF TypeOK, PluginTypeOK, ClaimTypeOK, ShadowSet
  <1>2. CASE LeaseShadows(m) = {}
    BY <1>2, ClaimAssumption DEF LeaseOf, LeaseShadows, WithUid, Leases, Owned
  <1>3. CASE LeaseShadows(m) # {}
    <2>1. PICK s \in LeaseShadows(m) : s = CHOOSE t \in LeaseShadows(m) : TRUE
      BY <1>3
    <2>2. LeaseOf(m) = s.owner /\ s \in api /\ s.uid = holder[m] /\ s.alloc = m
      BY <1>3, <2>1 DEF LeaseOf, LeaseShadows, WithUid
    <2>3. \A t \in api : t.uid = holder[m] => t = s
      BY <2>2 DEF OwnershipInv, UniqueShadows
    <2> QED BY <1>1, <2>2, <2>3 DEF Leases, Owned
  <1> QED BY <1>2, <1>3

\* A step changes a lease only by changing who holds the device.
LEMMA LeaseChange ==
  TypeOK /\ OwnershipInv /\ TypeOK' /\ OwnershipInv' =>
    \A m \in Members :
      /\ (\A c \in Claims : Leases(m, c)' <=> Leases(m, c)) => LeaseOf(m)' = LeaseOf(m)
      /\ (\A c \in Claims : ~ Leases(m, c)') => LeaseOf(m)' = NoClaim
      /\ \A c \in Claims : Leases(m, c)' => LeaseOf(m)' = c
  <1>1. (TypeOK /\ OwnershipInv)' =>
          (\A m \in Members : /\ LeaseOf(m) \in Claims \cup {NoClaim}
                              /\ \A c \in Claims : LeaseOf(m) = c <=> Leases(m, c))'
    BY LeaseFact, PTL
  <1> QED BY <1>1, LeaseFact, ClaimAssumption

\* What DeviceLease allows a step to do to the leases of running pods.
Spared(m) == \A c \in Claims : Leases(m, c) => ~ Runs(c)
Kept(m)   == \A c \in Claims : Leases(m, c)' <=> Leases(m, c)
Freed(m)  == Spared(m) /\ \A c \in Claims : ~ Leases(m, c)'

\* A shadow is removed: at most the device prepared for it loses its lease.
LEMMA ShadowRemoved ==
  ASSUME NamesDistinct, TypeOK, OwnershipInv, CallInv, ReconcilerInv, BackedInv, ShadowInv,
         [Next]_vars, UNCHANGED holder, NEW s \in api, api' = api \ {s}
  PROVE  \/ \A m \in Members : Kept(m)
         \/ \E m \in Members : Freed(m) /\ \A n \in Members \ {m} : Kept(n)
  <1>1. s.owner \in Claims /\ s.alloc \in Members \cup {NoMember}
    BY DEF TypeOK, PluginTypeOK, ClaimTypeOK, ShadowSet
  <1>2. ASSUME NEW n \in Members, n # s.alloc PROVE Kept(n)
    BY <1>2 DEF Kept, Leases, Owned
  <1>3. CASE s.alloc \in Members /\ s.uid = holder[s.alloc]
    <2> DEFINE m == s.alloc
    <2>1. \A c \in Claims : ~ Leases(m, c)'
      BY <1>3 DEF Leases, Owned, OwnershipInv, UniqueShadows
    <2>2. ASSUME NEW c \in Claims, Leases(m, c), Runs(c) PROVE FALSE
      <3>1. s.owner = c
        BY <1>3, <2>2 DEF Leases, Owned, OwnershipInv, UniqueShadows
      <3>2. c # cur /\ claimState[c] # "deleted"
        BY <2>2, CallNotRunning DEF BackedInv, Runs
      <3> QED BY <3>1, <3>2, OthersKept
    <2> QED BY <1>2, <1>3, <2>1, <2>2 DEF Freed, Spared
  <1>4. CASE s.alloc \in Members /\ s.uid # holder[s.alloc]
    BY <1>2, <1>4 DEF Kept, Leases, Owned
  <1>5. CASE s.alloc = NoMember
    BY <1>2, <1>5, ClaimAssumption
  <1> QED BY <1>1, <1>3, <1>4, <1>5

\* Names identify shadows: a deletion removes at most one.
LEMMA DeletesOne ==
  ASSUME OwnershipInv, NEW n, NEW failed, DeleteCall(n, failed)
  PROVE  api' = api \/ \E s \in api : api' = api \ {s}
  <1>1. \A s, t \in Named(n) : s = t
    BY DEF Named, OwnershipInv, UniqueShadows
  <1>2. Named(n) = {} \/ \E s \in api : Named(n) = {s}
    BY <1>1 DEF Named
  <1> QED BY <1>2 DEF Without

\* Unprepare frees the device of the call's own shadow.
LEMMA DriverFrees ==
  ASSUME TypeOK, OwnershipInv, CallInv, BackedInv, ShadowInv,
         CleanupUnprepare \/ UnprepareShadow
  PROVE  \/ \A m \in Members : Kept(m)
         \/ \E m \in Members : Freed(m) /\ \A n \in Members \ {m} : Kept(n)
  <1> DEFINE i == First(todo)
  <1>1. /\ cur \in Claims /\ i \in SlotsOf(cur) /\ UNCHANGED api
        /\ holder' \in {holder, DriverReleases(i)}
    BY LoopSlot DEF CleanupUnprepare, UnprepareShadow, LoopSteps
  <1>2. ~ Runs(cur)
    BY <1>1, CallNotRunning DEF BackedInv
  <1> HIDE DEF i
  <1>3. CASE holder' = holder
    BY <1>1, <1>3 DEF Kept, Leases, Owned
  <1>4. CASE holder' = DriverReleases(i)
    <2>1. \A m \in Members : holder'[m] = IF holder[m] = info[i] /\ Driver[m] = Driver[MemberOf(i)]
                                          THEN NoUid ELSE holder[m]
      BY <1>4 DEF DriverReleases
    <2>2. \A s \in api : s.uid # NoUid /\ s.alloc \in Members \cup {NoMember}
      BY ClaimAssumption DEF TypeOK, PluginTypeOK, ClaimTypeOK, ShadowSet
    <2>3. ASSUME NEW m \in Members, ~ \E s \in api : s.uid = info[i] /\ s.alloc = m PROVE Kept(m)
      BY <1>1, <2>1, <2>2, <2>3 DEF Kept, Leases, Owned
    <2>4. CASE \E s \in api : s.uid = info[i] /\ s.alloc \in Members
      <3>1. PICK s \in api : s.uid = info[i] /\ s.alloc \in Members
        BY <2>4
      <3>2. \A n \in Members \ {s.alloc} : Kept(n)
        BY <2>3, <3>1 DEF OwnershipInv, UniqueShadows
      <3>3. s.owner = cur
        BY <1>1, <3>1 DEF OwnershipInv, CallOwnsShadow
      <3>4. holder'[s.alloc] = NoUid \/ holder'[s.alloc] = holder[s.alloc]
        BY <2>1, <3>1
      <3>5. CASE holder'[s.alloc] = holder[s.alloc]
        BY <1>1, <3>2, <3>5 DEF Kept, Leases, Owned
      <3>6. CASE holder'[s.alloc] = NoUid /\ holder[s.alloc] # NoUid
        <4>1. holder[s.alloc] = info[i]
          BY <2>1, <3>1, <3>6
        <4>2. Spared(s.alloc)
          BY <1>2, <3>1, <3>3, <4>1 DEF Spared, Leases, Owned, OwnershipInv, UniqueShadows
        <4>3. \A c \in Claims : ~ Leases(s.alloc, c)'
          BY <1>1, <2>2, <3>6 DEF Leases, Owned
        <4> QED BY <3>1, <3>2, <4>2, <4>3 DEF Freed
      <3> QED BY <3>4, <3>5, <3>6
    <2>5. CASE ~ \E s \in api : s.uid = info[i] /\ s.alloc \in Members
      BY <2>3, <2>5
    <2> QED BY <2>4, <2>5
  <1> QED BY <1>1, <1>3, <1>4

\* A driver's acceptance grants the device of the slot to the call's claim,
\* and takes it from no running pod.
LEMMA DriverGrants ==
  ASSUME NamesDistinct, TypeOK, OwnershipInv, BackedInv, ShadowInv, NEW i \in Slots, GrpcPrepare(i)
  PROVE  \/ \A m \in Members : Kept(m)
         \/ /\ cur \in Claims /\ i \in SlotsOf(cur) /\ MemberOf(i) \in Members
            /\ Spared(MemberOf(i)) /\ Leases(MemberOf(i), cur)'
            /\ \A n \in Members \ {MemberOf(i)} : Kept(n)
  <1>1. /\ cur \in Claims /\ i \in SlotsOf(cur) /\ UNCHANGED <<api, cur>> /\ pc = "grpc"
        /\ \/ holder' = holder
           \/ holder' = DriverPrepares(i) /\ Readable(i) # {}
    BY DEF GrpcPrepare, InPhase, TypeOK, PluginTypeOK, DriverAccepts
  <1>2. CASE holder' = holder
    BY <1>1, <1>2 DEF Kept, Leases, Owned
  <1>3. CASE holder' = DriverPrepares(i) /\ Readable(i) # {}
    <2>1. PICK s \in Readable(i) : TRUE
      BY <1>3
    <2>2. /\ s \in api /\ s.owner = cur /\ s.uid = info[i] /\ s.alloc = MemberOf(i)
          /\ MemberOf(i) \in Members
      BY <1>1, <2>1, ReadableFact
    <2>3. Leases(MemberOf(i), cur)'
      BY <1>1, <1>3, <2>2, PreparesOne DEF Leases, Owned, MemberOf
    <2>4. ASSUME NEW n \in Members, n # MemberOf(i) PROVE Kept(n)
      <3>1. holder'[n] = holder[n]
        BY <1>1, <1>3, <2>4, PreparesOne
      <3> QED BY <1>1, <3>1 DEF Kept, Leases, Owned
    <2>5. ASSUME NEW d \in Claims, Leases(MemberOf(i), d), Runs(d) PROVE FALSE
      <3>1. \E j \in SlotsOf(d) : MemberOf(i) = Work[d][j]
        BY <2>2, <2>5, ClaimAssumption DEF Leases, Owned, ShadowInv
      <3> QED BY <1>1, <2>5, <3>1 DEF BackedInv, CallSparesPods, MemberOf
    <2> QED BY <1>1, <2>2, <2>3, <2>4, <2>5 DEF Spared
  <1> QED BY <1>1, <1>2, <1>3

----------------------------------------------------------------------------
(* Steps                                                                   *)

\* The state of DeviceLease that the node's state maps to.
Pods   == {c \in Claims : kstate[c] = "running" /\ claimState[c] = "allocated"}
Leased == [m \in Members |-> LeaseOf(m)]

\* A device that no running pod has is leased to no running pod.
LEMMA SparedFact ==
  ASSUME TypeOK, OwnershipInv, NEW m \in Members, Spared(m)
  PROVE  Leased[m] \notin Pods
  BY LeaseFact DEF Leased, Spared, Pods, Runs

LEMMA LeasesKept ==
  ASSUME TypeOK, OwnershipInv, TypeOK', OwnershipInv', \A m \in Members : Kept(m)
  PROVE  UNCHANGED Leased
  BY LeaseChange DEF Kept, Leased

\* No pod starts or stops, and at most one device that no running pod has
\* changes its lease.
LeaseStutter == UNCHANGED <<Pods, Leased>>
LeaseRevoke  == \E m \in Members : /\ Leased[m] \notin Pods
                                   /\ Leased' = [Leased EXCEPT ![m] = NoClaim]
                                   /\ UNCHANGED Pods
LeaseGrant   == \E m \in Members : \E c \in Claims :
                  /\ \E i \in SlotsOf(c) : m = Work[c][i]
                  /\ Leased[m] \notin Pods
                  /\ Leased' = [Leased EXCEPT ![m] = c]
                  /\ UNCHANGED Pods
LeaseStart   == \E c \in Claims : /\ \A i \in SlotsOf(c) : Leased[Work[c][i]] = c
                                  /\ Pods' = Pods \cup {c}
                                  /\ UNCHANGED Leased
LeaseStop    == \E c \in Claims : Pods' = Pods \ {c} /\ UNCHANGED Leased

LEMMA FreedFact ==
  ASSUME TypeOK, OwnershipInv, TypeOK', OwnershipInv', UNCHANGED Pods,
         \/ \A m \in Members : Kept(m)
         \/ \E m \in Members : Freed(m) /\ \A n \in Members \ {m} : Kept(n)
  PROVE  LeaseStutter \/ LeaseRevoke
  <1>1. CASE \A m \in Members : Kept(m)
    BY <1>1, LeasesKept DEF LeaseStutter
  <1>2. ASSUME NEW m \in Members, Freed(m), \A n \in Members \ {m} : Kept(n) PROVE LeaseRevoke
    <2>1. Leased[m] \notin Pods
      BY <1>2, SparedFact DEF Freed
    <2>2. LeaseOf(m)' = NoClaim /\ \A n \in Members \ {m} : LeaseOf(n)' = LeaseOf(n)
      BY <1>2, LeaseChange DEF Freed, Kept
    <2>3. Leased' = [Leased EXCEPT ![m] = NoClaim]
      BY <2>2 DEF Leased
    <2> QED BY <2>1, <2>3 DEF LeaseRevoke
  <1> QED BY <1>1, <1>2

\* Every step of the node is a step of the leases, or leaves them alone.
LEMMA LeaseStep ==
  ASSUME NamesDistinct, TypeOK, OwnershipInv, CallInv, ReconcilerInv, BackedInv, ShadowInv,
         TypeOK', OwnershipInv', [Next]_vars
  PROVE  LeaseStutter \/ LeaseRevoke \/ LeaseGrant \/ LeaseStart \/ LeaseStop
  <1> USE DEF TypeOK, PluginTypeOK, ClaimTypeOK
  <1>1. ASSUME UNCHANGED <<api, holder>> PROVE UNCHANGED Leased
    BY <1>1, LeasesKept DEF Kept, Leases, Owned
  <1>2. ASSUME UNCHANGED <<kstate, claimState>> PROVE UNCHANGED Pods
    BY <1>2 DEF Pods
  <1>3. ASSUME UNCHANGED <<kstate, claimState, api, holder>> PROVE LeaseStutter
    BY <1>1, <1>2, <1>3 DEF LeaseStutter
  <1>4. ASSUME UNCHANGED <<kstate, claimState, holder>>,
               api' = api \/ \E s \in api : api' = api \ {s}
        PROVE  LeaseStutter \/ LeaseRevoke
    <2>1. CASE \E s \in api : api' = api \ {s}
      BY <1>2, <1>4, <2>1, ShadowRemoved, FreedFact
    <2> QED BY <1>3, <1>4, <2>1
  <1>5. ASSUME NEW c \in Claims, Schedule(c) PROVE LeaseStutter
    <2>1. \A d \in Claims : Runs(d)' <=> Runs(d)
      BY <1>5 DEF Schedule, SetPod, Runs
    <2>2. UNCHANGED Pods
      BY <2>1 DEF Pods, Runs
    <2> QED BY <1>1, <1>5, <2>2 DEF Schedule, LeaseStutter
  <1>6. ASSUME NEW c \in Claims, PodDelete(c) \/ Deallocate(c) \/ DeleteClaim(c) PROVE LeaseStop
    <2>1. \A d \in Claims : Runs(d)' <=> Runs(d) /\ d # c
      BY <1>6 DEF PodDelete, Deallocate, DeleteClaim, SetPod, Runs
    <2>2. Pods' = Pods \ {c}
      BY <2>1 DEF Pods, Runs
    <2> QED BY <1>1, <1>6, <2>2 DEF PodDelete, Deallocate, DeleteClaim, LeaseStop
  <1>7. ASSUME NEW c \in Claims, KubeletPrepare(c) \/ KubeletUnprepare(c) PROVE LeaseStutter
    BY <1>3, <1>7 DEF KubeletPrepare, PrepareBegin, KubeletUnprepare, UnprepareBegin
  <1>8. ASSUME ReplyPrepare PROVE LeaseStutter \/ LeaseStart
    <2>1. cur \in Claims /\ UNCHANGED <<claimState, api, holder>>
      BY <1>8 DEF ReplyPrepare
    <2>2. CASE claimState[cur] = "allocated" /\ ~ err /\ kstate' = [kstate EXCEPT ![cur] = "running"]
      <3>1. \A d \in Claims : Runs(d)' <=> Runs(d) \/ d = cur
        BY <2>1, <2>2 DEF Runs
      <3>2. Pods' = Pods \cup {cur}
        BY <2>1, <3>1 DEF Pods, Runs
      <3>3. ASSUME NEW i \in SlotsOf(cur) PROVE Leased[Work[cur][i]] = cur
        <4>1. Work[cur][i] \in Members
          BY <2>1, SlotFacts
        <4>2. Leases(Work[cur][i], cur)
          BY <1>8, <2>1, <2>2 DEF ReplyPrepare, BackedInv, CallBacked, Backed, Leases
        <4> QED BY <2>1, <4>1, <4>2, LeaseFact DEF Leased
      <3> QED BY <1>1, <2>1, <3>2, <3>3 DEF LeaseStart
    <2>3. CASE kstate' = kstate
      BY <1>3, <2>1, <2>3
    <2>4. CASE claimState[cur] # "allocated" /\ kstate' = [kstate EXCEPT ![cur] = "running"]
      <3>1. \A d \in Claims : Runs(d)' <=> Runs(d)
        BY <2>1, <2>4 DEF Runs
      <3>2. UNCHANGED Pods
        BY <3>1 DEF Pods, Runs
      <3> QED BY <1>1, <2>1, <3>2 DEF LeaseStutter
    <2> QED BY <1>8, <2>2, <2>3, <2>4 DEF ReplyPrepare, SetPod
  <1>9. ASSUME ReplyUnprepare PROVE LeaseStutter \/ LeaseStop
    <2>1. cur \in Claims /\ UNCHANGED <<claimState, api, holder>>
      BY <1>9 DEF ReplyUnprepare
    <2>2. CASE kstate' = [kstate EXCEPT ![cur] = "gone"]
      <3>1. \A d \in Claims : Runs(d)' <=> Runs(d) /\ d # cur
        BY <2>1, <2>2 DEF Runs
      <3>2. Pods' = Pods \ {cur}
        BY <3>1 DEF Pods, Runs
      <3> QED BY <1>1, <2>1, <3>2 DEF LeaseStop
    <2> QED BY <1>3, <1>9, <2>1, <2>2 DEF ReplyUnprepare, SetPod
  <1>10. ASSUME OwnerGC \/ ReconcilerStep PROVE LeaseStutter \/ LeaseRevoke
    <2>1. UNCHANGED <<kstate, claimState, holder>>
      BY <1>10 DEF OwnerGC, ReconcilerStep, Reconcile, ReconcileList, ReconcileCheck, ReconcileDelete
    <2>2. api' = api \/ \E s \in api : api' = api \ {s}
      BY <1>10, DeletesOne DEF OwnerGC, ReconcilerStep, Reconcile, ReconcileList, ReconcileCheck,
         ReconcileDelete
    <2> QED BY <1>4, <2>1, <2>2
  <1>11. ASSUME NEW i \in Slots, PostShadow(i), UNCHANGED kstate PROVE LeaseStutter
    <2>1. /\ api' = api \/ api' = api \cup {NewShadow(cur, MemberOf(i), FreshUid)}
          /\ UNCHANGED <<claimState, holder>>
      BY <1>11 DEF PostShadow, InSlot
    <2>2. \A m \in Members : Kept(m)
      BY <2>1, ClaimAssumption DEF Kept, Leases, Owned, NewShadow
    <2> QED BY <1>2, <1>11, <2>1, <2>2, LeasesKept DEF LeaseStutter
  <1>12. ASSUME NEW i \in Slots, UpdateStatus(i), UNCHANGED kstate PROVE LeaseStutter
    <2>1. /\ api' = api \/ api' = Allocated(info[i], MemberOf(i))
          /\ cur \in Claims /\ i \in SlotsOf(cur) /\ UNCHANGED <<claimState, holder>>
      BY <1>12 DEF UpdateStatus, InSlot, InPhase
    <2>2. CASE api' = Allocated(info[i], MemberOf(i))
      <3>1. ASSUME NEW m \in Members, NEW c \in Claims, Leases(m, c) PROVE Leases(m, c)'
        <4>1. PICK s \in api : s.owner = c /\ s.alloc = m /\ s.uid = holder[m]
          BY <3>1 DEF Leases, Owned
        <4>2. CASE s.uid # info[i]
          <5>1. s \in api'
            BY <2>2, <4>2 DEF Allocated
          <5> QED BY <2>1, <4>1, <5>1 DEF Leases, Owned
        <4>3. CASE s.uid = info[i]
          <5> DEFINE t == [s EXCEPT !.alloc = MemberOf(i)]
          <5>1. t \in api'
            BY <2>2, <4>3 DEF Allocated
          <5>2. s.name = NameOf(i) /\ s.owner = cur /\ MemberOf(i) \in Members
            BY <2>1, <4>3, SlotFacts DEF OwnershipInv, CallOwnsShadow, MemberOf
          <5>3. s.alloc = MemberOf(i)
            BY <2>1, <4>1, <5>2, NameDetermines, ClaimAssumption DEF NameOf
          <5>4. t.owner = c /\ t.uid = holder[m] /\ t.alloc = m
            BY <4>1, <5>3 DEF ShadowSet
          <5> QED BY <2>1, <5>1, <5>4 DEF Leases, Owned
        <4> QED BY <4>2, <4>3
      <3>2. ASSUME NEW m \in Members, NEW c \in Claims, Leases(m, c)' PROVE Leases(m, c)
        <4>1. PICK s \in api' : s.owner = c /\ s.alloc = m /\ s.uid = holder[m]
          BY <2>1, <3>2 DEF Leases, Owned
        <4>2. PICK t \in api : s.uid = t.uid /\ s.owner = t.owner
          BY <2>2, <4>1, AllocatedFact
        <4>3. t.alloc = m
          BY <4>1, <4>2 DEF ShadowInv
        <4> QED BY <4>1, <4>2, <4>3 DEF Leases, Owned
      <3> QED BY <1>2, <1>12, <2>1, <3>1, <3>2, LeasesKept DEF Kept, LeaseStutter
    <2> QED BY <1>3, <1>12, <2>1, <2>2
  <1>13. ASSUME NEW i \in Slots, GrpcPrepare(i), UNCHANGED kstate PROVE LeaseStutter \/ LeaseGrant
    <2>1. UNCHANGED Pods /\ UNCHANGED cur
      BY <1>2, <1>13 DEF GrpcPrepare
    <2>2. CASE \A m \in Members : Kept(m)
      BY <2>1, <2>2, LeasesKept DEF LeaseStutter
    <2>3. CASE /\ cur \in Claims /\ i \in SlotsOf(cur) /\ MemberOf(i) \in Members
               /\ Spared(MemberOf(i)) /\ Leases(MemberOf(i), cur)'
               /\ \A n \in Members \ {MemberOf(i)} : Kept(n)
      <3> DEFINE m == Work[cur][i]
      <3>1. m \in Members /\ Leased[m] \notin Pods
        BY <2>3, SparedFact DEF MemberOf
      <3>2. LeaseOf(m)' = cur /\ \A n \in Members \ {m} : LeaseOf(n)' = LeaseOf(n)
        BY <2>1, <2>3, LeaseChange DEF MemberOf, Kept
      <3>3. Leased' = [Leased EXCEPT ![m] = cur]
        BY <2>1, <3>2 DEF Leased
      <3> QED BY <2>1, <2>3, <3>1, <3>3 DEF LeaseGrant
    <2> QED BY <1>13, <2>2, <2>3, DriverGrants
  <1>14. ASSUME CleanupUnprepare \/ UnprepareShadow, UNCHANGED kstate
         PROVE  LeaseStutter \/ LeaseRevoke
    BY <1>2, <1>14, DriverFrees, FreedFact DEF CleanupUnprepare, UnprepareShadow
  <1>15. ASSUME NEW i \in Slots, UndoCreate(i) \/ GetExisting(i) \/ SweepDelete(i), UNCHANGED kstate
         PROVE  LeaseStutter \/ LeaseRevoke
    BY <1>4, <1>15, DeletesOne DEF UndoCreate, GetExisting, SweepDelete, InSlot
  <1>16. ASSUME CleanupDelete \/ DeleteShadow, UNCHANGED kstate PROVE LeaseStutter \/ LeaseRevoke
    BY <1>4, <1>16, DeletesOne DEF CleanupDelete, DeleteShadow
  <1>17. ASSUME JoinCreate \/ JoinGrpc \/ Record \/ SweepList \/ Drop \/ Crash \/ Restart \/ Recompute,
                UNCHANGED kstate
         PROVE  LeaseStutter
    BY <1>3, <1>17 DEF JoinCreate, JoinGrpc, Record, SweepList, Drop, Crash, Restart, Recompute
  <1>18. ASSUME UNCHANGED vars PROVE LeaseStutter
    BY <1>3, <1>18
  <1> QED BY <1>5, <1>6, <1>7, <1>8, <1>9, <1>10, <1>11, <1>12, <1>13, <1>14, <1>15, <1>16, <1>17,
             <1>18 DEF Next, Done, DriverStep, PluginStep

----------------------------------------------------------------------------
(* The refinement                                                          *)

LEMMA LeaseInitial == Init => Promise!LeaseInit
  <1> SUFFICES ASSUME Init PROVE Promise!LeaseInit
    OBVIOUS
  <1> USE DEF Init, PluginInit, ClaimInit
  <1>1. {c \in Claims : kstate[c] = "running" /\ claimState[c] = "allocated"} = {}
    OBVIOUS
  <1>2. \A m \in Members : LeaseOf(m) = NoClaim
    BY DEF LeaseOf, LeaseShadows, WithUid
  <1>3. [m \in Members |-> LeaseOf(m)] = [m \in Members |-> NoClaim]
    BY <1>2
  <1> QED BY <1>1, <1>3 DEF Promise!LeaseInit

\* When shadow names are distinct, composite devices do not share underlying
\* devices, the reconciler's Get does not fail and the kubelet prepares a pod
\* once, the node keeps the promise of DeviceLease: prepareClaim, its clean-up,
\* unprepareClaim, crashes, lost answers, retries, the reconciler and the
\* garbage collector start no pod without its devices and take none from a
\* running pod.
THEOREM NodeImplementsLease ==
  ASSUME NamesDistinct, DevicesExclusive, ReconcilerReliable, PrepareOnce
  PROVE  Spec => ImplementsLease
  <1> DEFINE AllInv == TypeOK /\ OwnershipInv /\ CallInv /\ ReconcilerInv /\ BackedInv /\ ShadowInv
  <1>1. Spec => []AllInv
    BY ShadowInit, ShadowNext, CallAndReconciler, BackedAlways, PTL DEF Spec
  <1>2. AllInv /\ AllInv' /\ [Next]_vars => [Promise!LeaseNext]_(Promise!leaseVars)
    <2> SUFFICES ASSUME AllInv, AllInv', [Next]_vars
                 PROVE  [Promise!LeaseNext]_(Promise!leaseVars)
      OBVIOUS
    <2>1. LeaseStutter \/ LeaseRevoke \/ LeaseGrant \/ LeaseStart \/ LeaseStop
      BY LeaseStep
    <2>2. ASSUME LeaseStutter PROVE UNCHANGED Promise!leaseVars
      BY <2>2 DEF LeaseStutter, Pods, Leased, Promise!leaseVars
    <2>3. ASSUME LeaseRevoke PROVE Promise!LeaseNext
      BY <2>3 DEF LeaseRevoke, Pods, Leased, Promise!LeaseNext, Promise!Revoke
    <2>4. ASSUME LeaseGrant PROVE Promise!LeaseNext
      BY <2>4 DEF LeaseGrant, Pods, Leased, Promise!LeaseNext, Promise!Grant
    <2>5. ASSUME LeaseStart PROVE Promise!LeaseNext
      BY <2>5 DEF LeaseStart, Pods, Leased, Promise!LeaseNext, Promise!StartPod
    <2>6. ASSUME LeaseStop PROVE Promise!LeaseNext
      BY <2>6 DEF LeaseStop, Pods, Leased, Promise!LeaseNext, Promise!StopPod
    <2> QED BY <2>1, <2>2, <2>3, <2>4, <2>5, <2>6
  <1> QED BY <1>1, <1>2, LeaseInitial, PTL DEF Spec, ImplementsLease, Promise!LeaseSpec
============================================================================

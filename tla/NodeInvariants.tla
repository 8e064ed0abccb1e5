-------------------------- MODULE NodeInvariants --------------------------
(***************************************************************************)
(* The inductive invariants behind the properties of NodeLifecycle, and    *)
(* the assumptions under which they hold.  OwnershipInv, in NodeLifecycle  *)
(* itself, is the first of them; each of the others rests on it.           *)
(***************************************************************************)
EXTENDS LeaseRefinement

(* Assumptions.  For each of them a run with an expected violation shows   *)
(* what happens without it.                                                *)

\* Claims whose composite devices are different use different underlying
\* devices: no device belongs to two composite devices.
DevicesExclusive ==
  \A c, d \in Claims : c # d /\ DevicesOf[c] \cap DevicesOf[d] = {}
    => \A i \in SlotsOf(c) : \A j \in SlotsOf(d) : Work[c][i] # Work[d][j]

\* The reconciler's Get of a composite claim does not fail.
ReconcilerReliable == "reconcile" \notin Faults

\* The kubelet does not call Prepare again for a running pod.
PrepareOnce == "kubelet" \notin Faults

\* The process does not crash, and no answer of an underlying driver is lost.
DriversAnswer == "crash" \notin Faults /\ "grpc" \notin Faults

----------------------------------------------------------------------------
(* Calls                                                                   *)

PrepareSteps   == {"create", "grpc", "record", "cleanup", "cleanup_del", "prepared"}
UnprepareSteps == {"unprepare", "unprepare_del", "sweep", "sweep_del", "drop", "unprepared"}
LoopSteps      == {"cleanup", "cleanup_del", "unprepare", "unprepare_del", "sweep_del"}

\* The sequential loops of the plugin have a slot to work on, and records
\* have uids for slots of their claim only.
CallInv ==
  /\ pc = "idle" => cur = NoClaim
  /\ pc \in LoopSteps => todo # {} /\ todo \subseteq SlotsOf(cur)
  /\ \A i \in Slots : info[i] # NoUid => cur \in Claims /\ i \in SlotsOf(cur)
  /\ \A c \in Claims : \A i \in Slots :
       mem[c][i] # NoUid \/ bolt[c][i] # NoUid => i \in SlotsOf(c)

----------------------------------------------------------------------------
(* The reconciler                                                          *)

\* A shadow's owner has existed; so a pass that does not find the owner has
\* found a deleted one, and goes on to delete a shadow that stays an orphan.
ReconcilerInv ==
  /\ \A s \in api : claimState[s.owner] # "absent"
  /\ pc = "create" => claimState[cur] # "absent"
  /\ \A r \in rlist : /\ claimState[r.owner] # "absent"
                      /\ \E m \in Members : r.name = shadowClaimName(r.owner, m)
  /\ rdel # NoName => \E c \in Claims : \E m \in Members :
                        rdel = shadowClaimName(c, m) /\ claimState[c] = "deleted"

----------------------------------------------------------------------------
(* Running pods                                                            *)

Runs(c) == kstate[c] = "running" /\ claimState[c] = "allocated"

\* The device of slot i is prepared for a shadow of the claim.
Backed(c, i) == \E s \in Owned(c) : s.alloc = Work[c][i] /\ s.uid = holder[Work[c][i]]

\* Allocated claims have different devices.
AllocationExclusive ==
  \A c, d \in Claims : c # d /\ claimState[c] = "allocated" /\ claimState[d] = "allocated"
    => DevicesOf[c] \cap DevicesOf[d] = {}

\* A call is never for a running pod, and Prepare takes no device of one.
CallSparesPods ==
  /\ pc \in PrepareSteps => kstate[cur] \in {"pending", "terminating"}
  /\ pc \in UnprepareSteps => kstate[cur] = "terminating"
  /\ pc \in {"create", "grpc"} =>
       \A d \in Claims : Runs(d) =>
         \A i \in SlotsOf(cur) : \A j \in SlotsOf(d) : Work[cur][i] # Work[d][j]

\* What the call has achieved so far holds until the pod is started.
CallBacked ==
  cur \in Claims /\ claimState[cur] = "allocated" =>
    \A i \in SlotsOf(cur) : Accepted(i) \/ (pc = "prepared" /\ ~err) => Backed(cur, i)

\* A pod comes to the node when its claim has been allocated.
PodsHaveClaims == \A c \in Claims : claimState[c] = "absent" => kstate[c] = "none"

CleanupAfterError == pc \in {"cleanup", "cleanup_del"} => err

\* The strengthening of RunningPodBacked.
BackedInv ==
  /\ PodsHaveClaims /\ AllocationExclusive /\ CallSparesPods
  /\ CleanupAfterError /\ CallBacked /\ RunningPodBacked

----------------------------------------------------------------------------
(* Leases                                                                  *)

\* A shadow allocates a device of its claim, and a device prepared for an
\* existing shadow is the one that the shadow allocates.
ShadowInv ==
  \A s \in api :
    /\ s.alloc # NoMember => \E i \in SlotsOf(s.owner) : s.alloc = Work[s.owner][i]
    /\ \A m \in Members : holder[m] = s.uid => s.alloc = m

----------------------------------------------------------------------------
(* Release                                                                 *)

\* The slots of the call in flight whose devices may be prepared without
\* being on record.
Pending ==
  CASE pc \in {"grpc", "record"}                 -> SlotsOf(cur)
    [] pc \in {"cleanup", "unprepare"}           -> todo
    [] pc \in {"cleanup_del", "unprepare_del"}   -> todo \ {First(todo)}
    [] OTHER                                     -> {}

\* A uid on record, or in the hands of the call, is held by the device of its
\* slot only: releasing it there releases it for good.
HeldBySlot ==
  \A m \in Members : holder[m] # NoUid =>
    /\ cur \in Claims => \A i \in SlotsOf(cur) : info[i] = holder[m] => m = Work[cur][i]
    /\ \A c \in Claims : \A i \in SlotsOf(c) : mem[c][i] = holder[m] => m = Work[c][i]

\* An accepted device is prepared for the call's own shadow, the only one of
\* its name.
AcceptedHeld ==
  cur \in Claims => \A i \in SlotsOf(cur) : Accepted(i) =>
    /\ holder[Work[cur][i]] = info[i]
    /\ \A s \in Named(NameOf(i)) : s.uid = info[i]

Tracked ==
  \A m \in Members : holder[m] # NoUid =>
    Recorded(holder[m]) \/ \E i \in Pending : info[i] = holder[m]

\* The strengthening of PreparedDeviceTracked.
TrackInv == up /\ Tracked /\ HeldBySlot /\ AcceptedHeld

Served(c) == kstate[c] \in {"pending", "running", "terminating"}

\* Records and calls belong to pods that are not gone, and Unprepare has
\* taken the record.
ReleaseInv ==
  /\ \A c \in Claims : mem[c] # NoRecord => Served(c)
  /\ pc # "idle" => Served(cur)
  /\ pc \in UnprepareSteps => mem[cur] = NoRecord

----------------------------------------------------------------------------
(* The gauge                                                               *)

OnRecord == {c \in Claims : mem[c] # NoRecord}

\* Unprepare has taken a record and not lowered the gauge yet.
Owed == IF pc \in UnprepareSteps \ {"unprepared"} /\ info # NoRecord THEN 1 ELSE 0

\* The strengthening of GaugeCoversRecords.
GaugeInv == /\ up
            /\ IsFiniteSet(OnRecord)
            /\ Cardinality(OnRecord) + Owed <= claimsActive
===========================================================================

--------------------------- MODULE NodeLifecycle ---------------------------
(***************************************************************************)
(* One node: the kubelet, which calls the composite driver for the pods it *)
(* runs and retries failed calls; the cluster, which allocates, frees and  *)
(* deletes composite claims; the garbage collector; and the driver's own   *)
(* plugin and reconciler.  Kubelet, scheduler and garbage collector are    *)
(* external to the repository.                                             *)
(***************************************************************************)
EXTENDS OrphanReconciler

VARIABLE kstate  \* [Claims -> KStates]: the pod that uses a claim, as the
                 \*   kubelet sees it

vars == <<pluginVars, reconcilerVars, kstate>>

KStates == {"none", "pending", "running", "terminating", "gone"}

Init ==
  /\ PluginInit
  /\ ReconcilerInit
  /\ kstate = [c \in Claims |-> "none"]

SetPod(c, k) == kstate' = [kstate EXCEPT ![c] = k]

----------------------------------------------------------------------------
(* Cluster                                                                 *)

\* The scheduler allocates free composite devices to a new claim and binds
\* the pod to the node.  Live claims have different names.
Schedule(c) ==
  /\ claimState[c] = "absent"
  /\ \A d \in Claims : /\ Live(d) => ClaimName[d] # ClaimName[c]
                       /\ claimState[d] = "allocated" => DevicesOf[d] \cap DevicesOf[c] = {}
  /\ claimState' = [claimState EXCEPT ![c] = "allocated"]
  /\ SetPod(c, "pending")
  /\ UNCHANGED <<api, nodeVars, callVars, budget, reconcilerVars>>

PodDelete(c) ==
  /\ kstate[c] \in {"pending", "running"}
  /\ SetPod(c, "terminating")
  /\ UNCHANGED <<pluginVars, reconcilerVars>>

\* The resource claim controller frees the claim when its pod is gone.
Deallocate(c) ==
  /\ kstate[c] = "gone" /\ claimState[c] = "allocated"
  /\ claimState' = [claimState EXCEPT ![c] = "deallocated"]
  /\ UNCHANGED <<api, nodeVars, callVars, budget, reconcilerVars, kstate>>

\* A claim in use is deleted only when somebody removes its finalizer.
DeleteClaim(c) ==
  /\ \/ claimState[c] = "deallocated" /\ NoFault
     \/ claimState[c] = "allocated" /\ Fault("force")
  /\ claimState' = [claimState EXCEPT ![c] = "deleted"]
  /\ UNCHANGED <<api, nodeVars, callVars, reconcilerVars, kstate>>

\* The garbage collector follows the shadow's OwnerReference, which has the
\* composite claim's uid.
OwnerGC ==
  /\ \E s \in api : claimState[s.owner] = "deleted" /\ api' = api \ {s}
  /\ UNCHANGED <<claimState, nodeVars, callVars, budget, reconcilerVars, kstate>>

----------------------------------------------------------------------------
(* Kubelet                                                                 *)

\* PrepareResourceClaims: until it succeeds for a pending pod; once more for
\* a running pod when the kubelet restarts.
KubeletPrepare(c) ==
  /\ \/ kstate[c] = "pending" /\ NoFault
     \/ kstate[c] = "running" /\ Fault("kubelet")
  /\ PrepareBegin(c)
  /\ UNCHANGED <<reconcilerVars, kstate>>

\* UnprepareResourceClaims: until it succeeds for a pod that terminated.
KubeletUnprepare(c) ==
  /\ kstate[c] = "terminating"
  /\ UnprepareBegin(c)
  /\ UNCHANGED <<reconcilerVars, kstate>>

\* The plugin's answer; it may come after the kubelet gave up waiting.
ReplyPrepare ==
  /\ pc = "prepared"
  /\ \/ /\ NoFault
        /\ IF ~err /\ kstate[cur] = "pending" THEN SetPod(cur, "running")
                                              ELSE UNCHANGED kstate
     \/ Fault("timeout") /\ UNCHANGED kstate
  /\ CallEnds
  /\ UNCHANGED <<claimVars, nodeVars, reconcilerVars>>

ReplyUnprepare ==
  /\ pc = "unprepared"
  /\ \/ /\ NoFault
        /\ IF err THEN UNCHANGED kstate ELSE SetPod(cur, "gone")
     \/ Fault("timeout") /\ UNCHANGED kstate
  /\ CallEnds
  /\ UNCHANGED <<claimVars, nodeVars, reconcilerVars>>

----------------------------------------------------------------------------
DriverStep == /\ PluginStep \/ Crash \/ Restart \/ Recompute
              /\ UNCHANGED <<reconcilerVars, kstate>>

ReconcilerStep == Reconcile /\ UNCHANGED kstate

\* Everything has been cleaned up and nothing is left to do.
Done ==
  /\ pc = "idle" /\ api = {} /\ rlist = {} /\ rdel = NoName
  /\ \A c \in Claims : claimState[c] = "deleted" /\ kstate[c] = "gone"
  /\ UNCHANGED vars

Next ==
  \/ \E c \in Claims : \/ Schedule(c) \/ PodDelete(c) \/ Deallocate(c) \/ DeleteClaim(c)
                       \/ KubeletPrepare(c) \/ KubeletUnprepare(c)
  \/ ReplyPrepare \/ ReplyUnprepare
  \/ DriverStep
  \/ ReconcilerStep
  \/ OwnerGC
  \/ Done

Spec == Init /\ [][Next]_vars

(***************************************************************************)
(* Fairness.  A started call runs to its end; the process is restarted by  *)
(* its DaemonSet; the informer's 30 s resync triggers recompute and the    *)
(* reconciler's ticker a new pass; the kubelet's pod workers retry, and    *)
(* the helper's lock is handed to every waiting call.  Nothing is assumed  *)
(* of users, scheduler, claim controller or garbage collector.             *)
(***************************************************************************)
Fairness ==
  /\ WF_vars(PluginStep /\ UNCHANGED <<reconcilerVars, kstate>>)
  /\ WF_vars(ReplyPrepare \/ ReplyUnprepare)
  /\ WF_vars(Restart /\ UNCHANGED <<reconcilerVars, kstate>>)
  /\ WF_vars(Recompute /\ UNCHANGED <<reconcilerVars, kstate>>)
  /\ WF_vars(ReconcilerStep)
  /\ \A c \in Claims : SF_vars(KubeletPrepare(c)) /\ SF_vars(KubeletUnprepare(c))

FairSpec == Spec /\ Fairness

----------------------------------------------------------------------------
(* Properties                                                              *)

\* Type correctness of the whole node.
TypeOK ==
  /\ PluginTypeOK
  /\ ReconcilerTypeOK
  /\ kstate \in [Claims -> KStates]

\* A uid the plugin has on record for a member of a claim, in memory or on
\* disk (prepareClaim, restoreFromState), is never the uid of a shadow that
\* belongs to another claim or allocates another device: what Unprepare
\* releases with it is the claim's own.
RecordOwnsShadow ==
  \A c \in Claims : \A i \in SlotsOf(c) : \A s \in api :
    s.uid \in {mem[c][i], bolt[c][i]} => s.owner = c /\ s.alloc = Work[c][i]

(* The strengthening that makes RecordOwnsShadow inductive.                *)

\* Every shadow is named after its owner and one member, and allocates at
\* most that member.
ShadowWellFormed ==
  \A s \in api : \E m \in Members :
    s.name = shadowClaimName(s.owner, m) /\ s.alloc \in {NoMember, m}

UniqueShadows == \A s, t \in api : s.name = t.name \/ s.uid = t.uid => s = t

\* The driver has accepted slot i's shadow, so its allocation was readable.
Accepted(i) == pc = "record" \/ (pc = "grpc" /\ stat[i] = "done")

CallOwnsShadow ==
  cur \in Claims =>
    \A i \in SlotsOf(cur) : \A s \in api :
      s.uid = info[i] => /\ s.owner = cur /\ s.name = NameOf(i)
                         /\ Accepted(i) => s.alloc = MemberOf(i)

IdleClean == pc = "idle" => info = NoRecord

\* Whoever refers to a shadow by uid, the plugin's maps or the call in flight,
\* refers to a shadow of the right claim and member; names and uids identify
\* shadows.  This is what makes reuse after AlreadyExists, which compares the
\* name only, safe when names are distinct.
OwnershipInv ==
  ShadowWellFormed /\ UniqueShadows /\ CallOwnsShadow /\ IdleClean /\ RecordOwnsShadow

\* While a pod runs with its allocated claim, every device of the claim is
\* prepared at its driver for a shadow that exists and belongs to the claim,
\* so that prepareClaim's success is not undone behind the pod's back.
RunningPodBacked ==
  \A c \in Claims :
    kstate[c] = "running" /\ claimState[c] = "allocated" =>
      \A i \in SlotsOf(c) :
        \E s \in Owned(c) : s.alloc = Work[c][i] /\ s.uid = holder[Work[c][i]]

Recorded(u) == \E c \in Claims : \E i \in SlotsOf(c) : mem[c][i] = u
InFlight(u) == \E i \in Slots : info[i] = u

\* A device prepared at an underlying driver is always known to the plugin:
\* its shadow's uid is in the in-memory map or in the hands of the call in
\* flight, so that some later Unprepare can name it.
PreparedDeviceTracked ==
  \A m \in Members : holder[m] # NoUid => Recorded(holder[m]) \/ InFlight(holder[m])

\* When every pod that used a composite claim on the node is gone, no
\* underlying device is left prepared (unprepareClaim).
DevicesReleased ==
  (pc = "idle" /\ \A c \in Claims : kstate[c] \in {"none", "gone"})
    => \A m \in Members : holder[m] = NoUid

\* While the process lives the gauge ClaimsActive counts every claim on
\* record, and it is never negative: prepareClaim, its retries, and
\* unprepareClaim with and without a record keep it in step from above.  (A
\* restart loses it: restoreFromState does not count.)
GaugeCoversRecords ==
  "crash" \notin Faults => Cardinality({c \in Claims : mem[c] # NoRecord}) <= claimsActive

\* A shadow of an allocated claim disappears only through the plugin's own
\* call for that claim: no reconciler pass (of any node), garbage collection
\* or call for another claim removes it.
LiveShadowRemovedOnlyByItsHandler ==
  [][\A s \in api : claimState[s.owner] = "allocated" /\ WithUid(s.uid)' = {}
        => cur = s.owner]_vars

\* A pod that terminates gets rid of its claim (kubelet retries with
\* unprepareClaim's error and record handling), whatever fails on the way.
UnprepareCompletes ==
  \A c \in Claims : kstate[c] = "terminating" ~> kstate[c] = "gone"

\* An exclusive driver holds the device for a shadow that does not exist: it
\* refuses every new shadow, and nobody can name the old one to it.
Stranded(m) == Driver[m] \in Exclusive /\ holder[m] # NoUid /\ WithUid(holder[m]) = {}

\* A pending pod starts unless it is deleted, loses its claim or needs a
\* stranded device: nothing else that a failed or interrupted prepareClaim
\* leaves behind blocks the kubelet's retries for good.
PrepareConverges ==
  \A c \in Claims :
    kstate[c] = "pending" ~> \/ kstate[c] # "pending" \/ claimState[c] # "allocated"
                            \/ \E i \in SlotsOf(c) : Stranded(Work[c][i])

\* Shadows of a deleted composite claim are deleted (reconcileOrphans), even
\* without the garbage collector.
OrphansCollected ==
  \A c \in Claims : claimState[c] = "deleted" ~> Owned(c) = {}
============================================================================

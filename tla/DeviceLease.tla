---------------------------- MODULE DeviceLease ----------------------------
(***************************************************************************)
(* What a node promises its pods, without shadow claims, records and gRPC  *)
(* calls: an underlying device is leased to one claim at a time, a pod     *)
(* starts only with all the devices of its claim, and no lease is revoked  *)
(* or passed on while the pod runs.                                        *)
(***************************************************************************)
EXTENDS FiniteSets

CONSTANTS
  Claims, Members,
  Wants,    \* [Claims -> SUBSET Members]: the devices of a claim
  NoClaim

VARIABLES
  running,  \* claims whose pod runs
  lease     \* [Members -> Claims \cup {NoClaim}]

leaseVars == <<running, lease>>

LeaseInit ==
  /\ running = {}
  /\ lease = [m \in Members |-> NoClaim]

\* The device may be taken over from a claim that has no running pod.
Grant(c, m) ==
  /\ m \in Wants[c]
  /\ lease[m] \notin running
  /\ lease' = [lease EXCEPT ![m] = c]
  /\ UNCHANGED running

Revoke(m) ==
  /\ lease[m] \notin running
  /\ lease' = [lease EXCEPT ![m] = NoClaim]
  /\ UNCHANGED running

StartPod(c) ==
  /\ \A m \in Wants[c] : lease[m] = c
  /\ running' = running \cup {c}
  /\ UNCHANGED lease

StopPod(c) ==
  /\ running' = running \ {c}
  /\ UNCHANGED lease

LeaseNext ==
  \/ \E c \in Claims : StartPod(c) \/ StopPod(c) \/ \E m \in Members : Grant(c, m)
  \/ \E m \in Members : Revoke(m)

LeaseSpec == LeaseInit /\ [][LeaseNext]_leaseVars
============================================================================

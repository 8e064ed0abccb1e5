-------------------------- MODULE LeaseRefinement --------------------------
(***************************************************************************)
(* The node implements DeviceLease.  A device is leased to the owner of    *)
(* the shadow claim that it is prepared for, as long as that shadow exists *)
(* and allocates the device.                                               *)
(***************************************************************************)
EXTENDS NodeLifecycle

LeaseShadows(m) == {s \in WithUid(holder[m]) : s.alloc = m}

LeaseOf(m) == IF LeaseShadows(m) = {} THEN NoClaim
              ELSE (CHOOSE s \in LeaseShadows(m) : TRUE).owner

Promise == INSTANCE DeviceLease WITH
  Wants   <- [c \in Claims |-> {Work[c][i] : i \in SlotsOf(c)}],
  running <- {c \in Claims : kstate[c] = "running" /\ claimState[c] = "allocated"},
  lease   <- [m \in Members |-> LeaseOf(m)]

\* Every step of the plugin, the kubelet, the reconciler, the garbage
\* collector and the cluster is a step of DeviceLease or leaves the leases
\* alone: no interleaving of prepareClaim, its clean-up, a crash and a
\* retry starts a pod without a device or takes one from a running pod.
ImplementsLease == Promise!LeaseSpec
============================================================================

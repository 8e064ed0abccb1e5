-------------------------- MODULE MCNodeLifecycle --------------------------
(***************************************************************************)
(* Small instances of NodeLifecycle.  A composite device pairs a GPU, whose *)
(* driver is exclusive, with a NIC, whose driver is not.                   *)
(***************************************************************************)
EXTENDS NodeInvariants

CONSTANTS c1, c2, gpu, nic, gpuDriver, nicDriver, dev1

MCWork == [c \in Claims |-> <<gpu, nic>>]

\* A composition may list the same source twice: the two members of c1 are
\* one device.
TwiceWork == [c \in Claims |-> IF c = c1 THEN <<gpu, gpu>> ELSE <<gpu, nic>>]

MCDriver == [m \in Members |-> IF m = gpu THEN gpuDriver ELSE nicDriver]
MCDevicesOf == [c \in Claims |-> {dev1}]

\* Every claim has a name of its own.
OwnNames == [c \in Claims |-> c]
MCHashPrefix == [n \in {c1, c2} |-> n]
MCSuffix == [m \in Members |-> m]
============================================================================

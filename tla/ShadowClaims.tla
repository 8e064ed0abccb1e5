--------------------------- MODULE ShadowClaims ---------------------------
(***************************************************************************)
(* The ResourceClaim objects of the API server that the driver works with, *)
(* and the operations pkg/shadow/claims.go performs on them.               *)
(*                                                                         *)
(* A composite claim is the claim of a user's pod.  A shadow claim is      *)
(* created by the driver for ONE underlying device of a composite claim,   *)
(* with a pre-filled allocation, and is what the underlying DRA driver is  *)
(* asked to prepare.                                                       *)
(***************************************************************************)
EXTENDS Naturals, Sequences, FiniteSets

CONSTANTS
  Claims,      \* composite claims, identified by their metadata.uid
  Members,     \* underlying devices (store.DeviceMember)
  Work,        \* [Claims -> Seq(Members)]: the members of all the composite
               \*   devices in a claim's allocation, in allocation order
  MaxWork,     \* bound on the length of a work list
  ClaimName,   \* namespace and name of a composite claim; a deleted claim's
               \*   name may be used again by another claim
  HashPrefix,  \* claim name -> the hex prefix put into shadow names
  Suffix,      \* member -> "source-device", cut to what 63 bytes leave
  Uids,        \* metadata.uid values of shadow claims
  NoUid, NoMember, NoClaim, NoName

Slots      == 1 .. MaxWork
SlotsOf(c) == DOMAIN Work[c]

ASSUME ClaimAssumption ==
  /\ MaxWork \in Nat \ {0}
  /\ Work \in [Claims -> Seq(Members)]
  /\ \A c \in Claims : Len(Work[c]) \in Slots
  /\ NoUid \notin Uids
  /\ NoMember \notin Members
  /\ NoClaim \notin Claims

VARIABLES
  claimState,  \* [Claims -> ClaimStates]: the composite claims
  api          \* the set of shadow claims that exist

claimVars == <<claimState, api>>

ClaimStates == {"absent", "allocated", "deallocated", "deleted"}

\* A live composite claim is one the API server still returns.
Live(c) == claimState[c] \in {"allocated", "deallocated"}

\* Mutant: the name does not depend on the composite claim.
NameOfMember(c, m) == <<"shadow", Suffix[m]>>

(***************************************************************************)
(* shadowClaimName: deterministic, from the claim's NAME (not its uid) and *)
(* the member's source and device.                                         *)
(***************************************************************************)
shadowClaimName(c, m) == <<HashPrefix[ClaimName[c]], Suffix[m]>>

\* What the names are meant to be: no two members of any claims share one.
\* It fails when a claim's name is used again, and when 63 bytes are too few.
NamesDistinct ==
  \A c, d \in Claims : \A m, n \in Members :
    shadowClaimName(c, m) = shadowClaimName(d, n) => c = d /\ m = n

NameSet == {shadowClaimName(c, m) : c \in Claims, m \in Members}

\* A shadow claim: owner is both the OwnerReference and the label
\* composite-claim-uid, alloc the device in status.allocation.
ShadowSet == [name : NameSet, uid : Uids, owner : Claims,
              alloc : Members \cup {NoMember}]

Named(n)  == {s \in api : s.name = n}
Owned(c)  == {s \in api : s.owner = c}
WithUid(u) == {s \in api : s.uid = u}

(***************************************************************************)
(* ClaimManager.Create posts the object without a status; the allocation   *)
(* is a second request.                                                    *)
(***************************************************************************)
NewShadow(c, m, u) ==
  [name |-> shadowClaimName(c, m), uid |-> u, owner |-> c, alloc |-> NoMember]

\* The allocation of the shadow claim with this uid, set by UpdateStatus.
Allocated(u, m) ==
  {IF s.uid = u THEN [s EXCEPT !.alloc = m] ELSE s : s \in api}

\* Deletion is by name, without a uid precondition (claims.go Delete).
Without(n) == api \ Named(n)

ClaimInit ==
  /\ claimState = [c \in Claims |-> "absent"]
  /\ api = {}

ClaimTypeOK ==
  /\ claimState \in [Claims -> ClaimStates]
  /\ api \in SUBSET ShadowSet
===========================================================================

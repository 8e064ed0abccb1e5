------------------------- MODULE OrphanReconciler -------------------------
(***************************************************************************)
(* pkg/plugin/reconciler.go: every node's driver lists ALL shadow claims   *)
(* periodically and deletes those whose composite claim it cannot find.    *)
(* The model has one pass at a time, and it is independent of this node's  *)
(* process: the pass may be that of another node.                          *)
(***************************************************************************)
EXTENDS CompositePlugin

VARIABLES
  rlist,  \* shadows of the List result still to be looked at
  rdel    \* name of the shadow about to be deleted, or NoName

reconcilerVars == <<rlist, rdel>>

\* The fields of a listed object that the pass uses.
Listed(s) == [name |-> s.name, owner |-> s.owner]

ReconcilerInit == rlist = {} /\ rdel = NoName

ReconcileList ==
  /\ rlist = {} /\ rdel = NoName
  /\ api # {}
  /\ rlist' = {Listed(s) : s \in api}
  /\ UNCHANGED <<pluginVars, rdel>>

\* Mutant: a claim without an in-memory record counts as gone.
OwnerPrepared(c) == \E d \in Claims : mem[d] # NoRecord /\ ClaimName[d] = ClaimName[c]

\* Mutant: a deleted claim counts as found.
OwnerEver(c) == \E d \in Claims : claimState[d] # "absent" /\ ClaimName[d] = ClaimName[c]

\* The owner is looked up by NAME; its uid and allocation are not compared.
OwnerFound(c) == \E d \in Claims : Live(d) /\ ClaimName[d] = ClaimName[c]

\* Any error of the Get, transient ones included, counts as "not found".
ReconcileCheck(s) ==
  /\ rdel = NoName /\ s \in rlist
  /\ rlist' = rlist \ {s}
  /\ \/ NoFault /\ rdel' = IF OwnerFound(s.owner) THEN NoName ELSE s.name
     \/ Fault("reconcile") /\ rdel' = s.name
  /\ UNCHANGED <<claimVars, nodeVars, callVars>>

ReconcileDelete ==
  /\ rdel # NoName
  /\ \E failed \in BOOLEAN : DeleteCall(rdel, failed)
  /\ rdel' = NoName
  /\ UNCHANGED <<claimState, nodeVars, callVars, rlist>>

Reconcile ==
  \/ ReconcileList
  \/ \E s \in rlist : ReconcileCheck(s)
  \/ ReconcileDelete

ListedSet == [name : NameSet, owner : Claims]

ReconcilerTypeOK ==
  /\ rlist \in SUBSET ListedSet
  /\ rdel \in NameSet \cup {NoName}
===========================================================================

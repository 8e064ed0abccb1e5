-------------------------- MODULE CompositePlugin --------------------------
(***************************************************************************)
(* pkg/plugin: the node plugin that answers the kubelet's Prepare and      *)
(* Unprepare calls for composite claims by creating shadow claims and      *)
(* calling the underlying DRA drivers over gRPC, with its in-memory map    *)
(* and its bolt state store (pkg/store/state.go).                          *)
(*                                                                         *)
(* The kubeletplugin helper serialises calls, so there is at most one call *)
(* in flight: pc says where it is and cur for which claim.  Each API       *)
(* request, gRPC request and disk write is a step of its own; the process  *)
(* can crash between any two of them.  Slot i of a call is the i-th member *)
(* of the work list prepareClaim builds.                                   *)
(***************************************************************************)
EXTENDS ShadowClaims, Integers

CONSTANTS
  Drivers,     \* underlying DRA drivers
  Driver,      \* [Members -> Drivers]
  Exclusive,   \* drivers that refuse a device another claim has prepared;
               \*   the others let the last claim win
  Devices,     \* composite devices this node can offer
  DevicesOf,   \* [Claims -> SUBSET Devices]: the devices of an allocation
  Faults,      \* the kinds of fault that may happen
  MaxFaults    \* bound on the number of faults in a behaviour

FaultKinds == {"api", "grpc", "bolt", "crash", "devices", "timeout",
               "kubelet", "force", "reconcile"}

ASSUME PluginAssumption ==
  /\ Driver \in [Members -> Drivers]
  /\ Exclusive \subseteq Drivers
  /\ DevicesOf \in [Claims -> SUBSET Devices]
  /\ Faults \subseteq FaultKinds
  /\ MaxFaults \in Nat

VARIABLES
  holder,       \* [Members -> shadow uid its driver has it prepared for]
  mem,          \* CompositePlugin.shadowClaims
  bolt,         \* StateStore: the persisted records
  up,           \* the driver process is running
  deviceStore,  \* composite devices DeviceStore knows
  claimsActive, \* gauge metrics.ClaimsActive
  pc, cur,      \* position and composite claim of the call in flight
  stat,         \* [Slots -> StatSet]: where each goroutine of prepareClaim is
  info,         \* [Slots -> uid]: shadows, or the uid a goroutine works with
  todo,         \* slots the sequential loops have not handled yet
  err,          \* the call has met an error
  budget        \* faults that may still happen

nodeVars   == <<holder, mem, bolt, up, deviceStore, claimsActive>>
callVars   == <<pc, cur, stat, info, todo, err>>
pluginVars == <<claimVars, nodeVars, callVars, budget>>

PcSet   == {"idle", "create", "grpc", "record", "cleanup", "cleanup_del",
            "unprepare", "unprepare_del", "sweep", "sweep_del", "drop",
            "prepared", "unprepared"}
StatSet == {"todo", "posted", "undo", "exists", "done", "failed"}
Uid0    == Uids \cup {NoUid}
Records == [Slots -> Uid0]

\* The absent record; a present one has a uid for each slot of its claim.
NoRecord == [i \in Slots |-> NoUid]
AllTodo  == [i \in Slots |-> "todo"]

\* A fault of this kind happens in this step (and uses up the budget).
Fault(kind) == /\ kind \in Faults
               /\ budget > 0
               /\ budget' = budget - 1
NoFault     == UNCHANGED budget

MemberOf(i) == Work[cur][i]
NameOf(i)   == shadowClaimName(cur, MemberOf(i))
First(T)    == CHOOSE i \in T : \A j \in T : i <= j

\* The API server gives a new object a uid nothing refers to.
FreshUids ==
  {u \in Uids : /\ WithUid(u) = {}
                /\ \A m \in Members : holder[m] # u
                /\ \A i \in Slots : /\ info[i] # u
                                    /\ \A c \in Claims : mem[c][i] # u /\ bolt[c][i] # u}
FreshUid == CHOOSE u \in FreshUids : TRUE

PluginInit ==
  /\ ClaimInit
  /\ holder = [m \in Members |-> NoUid]
  /\ mem = [c \in Claims |-> NoRecord]
  /\ bolt = [c \in Claims |-> NoRecord]
  /\ up = TRUE
  /\ deviceStore = {}
  /\ claimsActive = 0
  /\ pc = "idle" /\ cur = NoClaim
  /\ stat = AllTodo /\ info = NoRecord /\ todo = {} /\ err = FALSE
  /\ budget = MaxFaults

----------------------------------------------------------------------------
(* Underlying drivers (external: modelled from how grpc_client.go uses     *)
(* them and what docs/ARCHITECTURE.md says of them).                       *)

\* The helper of the underlying driver reads the shadow claim by name and
\* rejects one whose uid differs or that has no allocation.
Readable(i) == {s \in Named(NameOf(i)) : s.uid = info[i] /\ s.alloc # NoMember}

DriverAccepts(i) ==
  \E s \in Readable(i) :
    Driver[MemberOf(i)] \in Exclusive /\ Driver[s.alloc] = Driver[MemberOf(i)]
      => holder[s.alloc] \in {NoUid, info[i]}

\* Only devices of the called driver are prepared by it.
DriverPrepares(i) ==
  [m \in Members |->
     IF \E s \in Readable(i) : s.alloc = m /\ Driver[m] = Driver[MemberOf(i)]
     THEN info[i] ELSE holder[m]]

DriverReleases(i) ==
  [m \in Members |->
     IF holder[m] = info[i] /\ Driver[m] = Driver[MemberOf(i)]
     THEN NoUid ELSE holder[m]]

----------------------------------------------------------------------------
(* Requests.  A request that fails may have taken effect before the answer *)
(* was lost.                                                               *)

\* GRPCClient.Prepare: NodePrepareResources for the shadow of slot i.
GrpcPrepareCall(i, failed) ==
  \/ /\ NoFault
     /\ failed = ~DriverAccepts(i)
     /\ holder' = IF DriverAccepts(i) THEN DriverPrepares(i) ELSE holder
  \/ /\ Fault("grpc")
     /\ failed
     /\ \/ UNCHANGED holder
        \/ DriverAccepts(i) /\ holder' = DriverPrepares(i)

\* GRPCClient.Unprepare: NodeUnprepareResources, by the recorded uid.
GrpcUnprepareCall(i, failed) ==
  \/ NoFault /\ ~failed /\ holder' = DriverReleases(i)
  \/ Fault("grpc") /\ failed /\ holder' \in {holder, DriverReleases(i)}

\* ClaimManager.Delete: an object that is not there is an error.
DeleteCall(n, failed) ==
  \/ NoFault /\ failed = (Named(n) = {}) /\ api' = Without(n)
  \/ Fault("api") /\ failed /\ api' \in {api, Without(n)}

\* StateStore: one transaction each.
SaveShadows(c, record) ==
  \/ NoFault /\ bolt' = [bolt EXCEPT ![c] = record]
  \/ Fault("bolt") /\ UNCHANGED bolt

DeleteShadows(c) ==
  \/ NoFault /\ bolt' = [bolt EXCEPT ![c] = NoRecord]
  \/ Fault("bolt") /\ UNCHANGED bolt

\* ListAll may fail altogether, and skips records it cannot decode.
ListAll(records) ==
  \/ NoFault /\ records = bolt
  \/ /\ Fault("bolt")
     /\ \E C \in SUBSET Claims :
          records = [c \in Claims |-> IF c \in C THEN bolt[c] ELSE NoRecord]

----------------------------------------------------------------------------
(* prepareClaim                                                            *)

\* Entry of prepareClaim: a claim without allocation, and a device the
\* DeviceStore does not know, end the call before any side effect.
PrepareBegin(c) ==
  /\ up /\ pc = "idle"
  /\ cur' = c
  /\ IF claimState[c] = "allocated" /\ DevicesOf[c] \subseteq deviceStore
     THEN pc' = "create" /\ err' = FALSE
     ELSE pc' = "prepared" /\ err' = TRUE
  /\ UNCHANGED <<claimVars, nodeVars, stat, info, todo>>

SetSlot(i, st, u) ==
  /\ stat' = [stat EXCEPT ![i] = st]
  /\ info' = [info EXCEPT ![i] = u]

InPhase(i, phase, st) == pc = phase /\ i \in SlotsOf(cur) /\ stat[i] = st

InSlot == UNCHANGED <<claimState, nodeVars, pc, cur, todo, err>>

\* ClaimManager.Create, first request: POST of the object.
PostShadow(i) ==
  /\ InPhase(i, "create", "todo")
  /\ FreshUids # {}
  /\ LET posted == IF Named(NameOf(i)) = {}
                   THEN api \cup {NewShadow(cur, MemberOf(i), FreshUid)} ELSE api
     IN \/ /\ NoFault
           /\ api' = posted
           /\ IF Named(NameOf(i)) = {} THEN SetSlot(i, "posted", FreshUid)
                                       ELSE SetSlot(i, "exists", NoUid)
        \/ /\ Fault("api")
           /\ api' \in {api, posted}
           /\ SetSlot(i, "failed", NoUid)
  /\ InSlot

\* ClaimManager.Create, second request: UpdateStatus writes the allocation.
UpdateStatus(i) ==
  /\ InPhase(i, "create", "posted")
  /\ LET updated == Allocated(info[i], MemberOf(i))
     IN \/ /\ NoFault
           /\ api' = updated
           /\ SetSlot(i, IF WithUid(info[i]) = {} THEN "undo" ELSE "done", info[i])
        \/ /\ Fault("api")
           /\ api' \in {api, updated}
           /\ SetSlot(i, "undo", info[i])
  /\ InSlot

\* ClaimManager.Create, failed UpdateStatus: the object is deleted again and
\* the error of that deletion is ignored.
UndoCreate(i) ==
  /\ InPhase(i, "create", "undo")
  /\ \E failed \in BOOLEAN : DeleteCall(NameOf(i), failed)
  /\ SetSlot(i, "failed", NoUid)
  /\ InSlot

\* Mutant: the uid is taken from the wrong field of the object.
GetExistingWrongField(i) ==
  /\ InPhase(i, "create", "exists") /\ Named(NameOf(i)) # {}
  /\ NoFault
  /\ SetSlot(i, "done", NameOf(i))
  /\ UNCHANGED api
  /\ InSlot

\* Mutant: an existing object without allocation is refused, and left there.
GetExistingStrict(i) ==
  /\ InPhase(i, "create", "exists")
  /\ NoFault
  /\ LET usable == {s \in Named(NameOf(i)) : s.alloc # NoMember}
     IN IF usable = {} THEN SetSlot(i, "failed", NoUid)
                       ELSE SetSlot(i, "done", (CHOOSE s \in usable : TRUE).uid)
  /\ UNCHANGED api
  /\ InSlot

\* AlreadyExists: the existing object is fetched by name and used as it is.
GetExisting(i) ==
  /\ InPhase(i, "create", "exists")
  /\ \/ /\ NoFault
        /\ IF Named(NameOf(i)) = {}
           THEN SetSlot(i, "failed", NoUid)
           ELSE SetSlot(i, "done", (CHOOSE s \in Named(NameOf(i)) : TRUE).uid)
     \/ Fault("api") /\ SetSlot(i, "failed", NoUid)
  /\ UNCHANGED api
  /\ InSlot

\* End of phase one.  One failure sends the shadows that were obtained (the
\* ones that existed before the call too) to cleanupShadows.
JoinCreate ==
  /\ pc = "create"
  /\ \A i \in SlotsOf(cur) : stat[i] \in {"done", "failed"}
  /\ LET obtained == {i \in SlotsOf(cur) : stat[i] = "done"}
     IN IF obtained = SlotsOf(cur)
        THEN pc' = "grpc" /\ UNCHANGED <<todo, err>>
        ELSE /\ pc' = IF obtained = {} THEN "prepared" ELSE "cleanup"
             /\ todo' = obtained
             /\ err' = TRUE
  /\ stat' = AllTodo
  /\ UNCHANGED <<claimVars, nodeVars, cur, info, budget>>

\* Phase two: one NodePrepareResources call per shadow, in parallel.
GrpcPrepare(i) ==
  /\ InPhase(i, "grpc", "todo")
  /\ \E failed \in BOOLEAN :
       /\ GrpcPrepareCall(i, failed)
       /\ SetSlot(i, IF failed THEN "failed" ELSE "done", info[i])
  /\ UNCHANGED <<claimVars, mem, bolt, up, deviceStore, claimsActive, pc, cur, todo, err>>

\* Mutant: the call succeeds when any of the drivers answered.
JoinGrpcAny ==
  /\ pc = "grpc"
  /\ \A i \in SlotsOf(cur) : stat[i] \in {"done", "failed"}
  /\ IF \E i \in SlotsOf(cur) : stat[i] = "done"
     THEN pc' = "record" /\ UNCHANGED <<todo, err>>
     ELSE pc' = "cleanup" /\ todo' = SlotsOf(cur) /\ err' = TRUE
  /\ stat' = AllTodo
  /\ UNCHANGED <<claimVars, nodeVars, cur, info, budget>>

\* End of phase two.  One failure sends all the shadows to cleanupShadows.
JoinGrpc ==
  /\ pc = "grpc"
  /\ \A i \in SlotsOf(cur) : stat[i] \in {"done", "failed"}
  /\ IF \A i \in SlotsOf(cur) : stat[i] = "done"
     THEN pc' = "record" /\ UNCHANGED <<todo, err>>
     ELSE pc' = "cleanup" /\ todo' = SlotsOf(cur) /\ err' = TRUE
  /\ stat' = AllTodo
  /\ UNCHANGED <<claimVars, nodeVars, cur, info, budget>>

\* A failed write is only logged.
persistShadows(c) == SaveShadows(c, info)

\* The record is kept in memory and persisted.
Record ==
  /\ pc = "record"
  /\ mem' = [mem EXCEPT ![cur] = info]
  /\ persistShadows(cur)
  /\ claimsActive' = claimsActive + 1
  /\ pc' = "prepared"
  /\ UNCHANGED <<claimVars, holder, up, deviceStore, cur, stat, info, todo, err>>

\* Mutant: the failed call's shadows are deleted without Unprepare.
CleanupDeleteOnly ==
  /\ pc = "cleanup" /\ pc' = "cleanup_del"
  /\ UNCHANGED <<claimVars, nodeVars, cur, stat, info, todo, err, budget>>

\* cleanupShadows: for each shadow in order Unprepare, then Delete; both
\* errors are ignored.
CleanupUnprepare ==
  /\ pc = "cleanup"
  /\ \E failed \in BOOLEAN : GrpcUnprepareCall(First(todo), failed)
  /\ pc' = "cleanup_del"
  /\ UNCHANGED <<claimVars, mem, bolt, up, deviceStore, claimsActive, cur, stat, info, todo, err>>

CleanupDelete ==
  /\ pc = "cleanup_del"
  /\ \E failed \in BOOLEAN : DeleteCall(NameOf(First(todo)), failed)
  /\ todo' = todo \ {First(todo)}
  /\ pc' = IF todo' = {} THEN "prepared" ELSE "cleanup"
  /\ UNCHANGED <<claimState, nodeVars, cur, stat, info, err>>

----------------------------------------------------------------------------
(* unprepareClaim                                                          *)

\* Mutant: the in-memory record stays until Unprepare has succeeded.
UnprepareBeginKeep(c) ==
  /\ up /\ pc = "idle"
  /\ cur' = c
  /\ info' = mem[c]
  /\ todo' = {i \in SlotsOf(c) : mem[c][i] # NoUid}
  /\ pc' = IF mem[c] = NoRecord THEN "sweep" ELSE "unprepare"
  /\ UNCHANGED <<claimVars, nodeVars, stat, err, budget>>

\* The in-memory record is taken out of the map before anything is undone.
UnprepareBegin(c) ==
  /\ up /\ pc = "idle"
  /\ cur' = c
  /\ info' = mem[c]
  /\ mem' = [mem EXCEPT ![c] = NoRecord]
  /\ todo' = {i \in SlotsOf(c) : mem[c][i] # NoUid}
  /\ pc' = IF mem[c] = NoRecord THEN "sweep" ELSE "unprepare"
  /\ UNCHANGED <<claimVars, holder, bolt, up, deviceStore, claimsActive, stat, err, budget>>

\* Mutant: no Unprepare for a shadow that has disappeared.
UnprepareShadowIfFound ==
  /\ pc = "unprepare"
  /\ NoFault
  /\ holder' = IF Named(NameOf(First(todo))) = {} THEN holder ELSE DriverReleases(First(todo))
  /\ pc' = "unprepare_del"
  /\ UNCHANGED <<claimVars, mem, bolt, up, deviceStore, claimsActive, cur, stat, info, todo, err>>

UnprepareShadow ==
  /\ pc = "unprepare"
  /\ \E failed \in BOOLEAN : /\ GrpcUnprepareCall(First(todo), failed)
                             /\ err' = (err \/ failed)
  /\ pc' = "unprepare_del"
  /\ UNCHANGED <<claimVars, mem, bolt, up, deviceStore, claimsActive, cur, stat, info, todo>>

DeleteShadow ==
  /\ pc = "unprepare_del"
  /\ \E failed \in BOOLEAN : /\ DeleteCall(NameOf(First(todo)), failed)
                             /\ err' = (err \/ failed)
  /\ todo' = todo \ {First(todo)}
  /\ pc' = IF todo' = {} THEN "drop" ELSE "unprepare"
  /\ UNCHANGED <<claimState, nodeVars, cur, stat, info>>

\* DeleteForCompositeClaim, used when there is no record: the claim's shadows
\* are listed by label and deleted one by one.  Its errors are swallowed, and
\* no underlying driver is called.
SweepList ==
  /\ pc = "sweep"
  /\ LET listed == {i \in SlotsOf(cur) : \E s \in Owned(cur) : s.name = NameOf(i)}
     IN \/ /\ NoFault
           /\ todo' = listed
           /\ pc' = IF listed = {} THEN "drop" ELSE "sweep_del"
        \/ Fault("api") /\ pc' = "drop" /\ UNCHANGED todo
  /\ UNCHANGED <<claimVars, nodeVars, cur, stat, info, err>>

SweepDelete(i) ==
  /\ pc = "sweep_del" /\ i \in todo
  /\ \E failed \in BOOLEAN : DeleteCall(NameOf(i), failed)
  /\ todo' = todo \ {i}
  /\ pc' = IF todo' = {} THEN "drop" ELSE "sweep_del"
  /\ UNCHANGED <<claimState, nodeVars, cur, stat, info, err>>

\* deleteShadowState: runs whatever happened before; its error is only logged.
deleteShadowState(c) == DeleteShadows(c)

\* Mutant: the gauge goes down for a claim without a record, too.
DropAlways ==
  /\ pc = "drop"
  /\ deleteShadowState(cur)
  /\ claimsActive' = IF ~err THEN claimsActive - 1 ELSE claimsActive
  /\ pc' = "unprepared"
  /\ UNCHANGED <<claimVars, holder, mem, up, deviceStore, cur, stat, info, todo, err>>

Drop ==
  /\ pc = "drop"
  /\ deleteShadowState(cur)
  /\ claimsActive' = IF ~err /\ info # NoRecord THEN claimsActive - 1 ELSE claimsActive
  /\ pc' = "unprepared"
  /\ UNCHANGED <<claimVars, holder, mem, up, deviceStore, cur, stat, info, todo, err>>

----------------------------------------------------------------------------
(* Process lifetime and the device inventory                               *)

\* The call in flight is over: its local variables are gone.
CallEnds ==
  /\ pc' = "idle" /\ cur' = NoClaim
  /\ stat' = AllTodo /\ info' = NoRecord /\ todo' = {} /\ err' = FALSE

Crash ==
  /\ up /\ Fault("crash")
  /\ up' = FALSE
  /\ mem' = [c \in Claims |-> NoRecord]
  /\ deviceStore' = {}
  /\ claimsActive' = 0
  /\ CallEnds
  /\ UNCHANGED <<claimVars, holder, bolt>>

\* NewCompositePlugin with restoreFromState.
Restart ==
  /\ ~up
  /\ up' = TRUE
  /\ ListAll(mem')
  /\ UNCHANGED <<claimVars, holder, bolt, deviceStore, claimsActive, callVars>>

\* Synthesizer.recompute replaces the whole DeviceStore with what the
\* underlying drivers publish at that moment.
Recompute ==
  /\ up
  /\ \/ deviceStore # Devices /\ NoFault /\ deviceStore' = Devices
     \/ Fault("devices") /\ \E D \in SUBSET Devices : D # deviceStore /\ deviceStore' = D
  /\ UNCHANGED <<claimVars, holder, mem, bolt, up, claimsActive, callVars>>

----------------------------------------------------------------------------
PluginStep ==
  \/ \E i \in Slots : \/ PostShadow(i) \/ UpdateStatus(i) \/ UndoCreate(i)
                      \/ GetExisting(i) \/ GrpcPrepare(i) \/ SweepDelete(i)
  \/ JoinCreate \/ JoinGrpc \/ Record \/ CleanupUnprepare \/ CleanupDelete
  \/ UnprepareShadow \/ DeleteShadow \/ SweepList \/ Drop

PluginTypeOK ==
  /\ ClaimTypeOK
  /\ holder \in [Members -> Uid0]
  /\ mem \in [Claims -> Records]
  /\ bolt \in [Claims -> Records]
  /\ up \in BOOLEAN
  /\ deviceStore \in SUBSET Devices
  /\ claimsActive \in Int
  /\ pc \in PcSet
  /\ cur \in Claims \cup {NoClaim}
  /\ pc # "idle" => cur \in Claims
  /\ stat \in [Slots -> StatSet]
  /\ info \in Records
  /\ todo \in SUBSET Slots
  /\ err \in BOOLEAN
  /\ budget \in Nat
============================================================================

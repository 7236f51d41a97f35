----------------------------- MODULE Lifecycle -----------------------------
(***************************************************************************)
(* The life of a NodeClaim and the cluster-api Machines launched for it:   *)
(* CloudProvider.Create (pkg/cloudprovider/cloudprovider.go, machine.go),  *)
(* the providerid controller (pkg/controllers/nodeclaim/providerid), the   *)
(* garbage collector (pkg/controllers/nodeclaim/garbagecollection) and     *)
(* CloudProvider.Delete/Get/List, called by karpenter's NodeClaim          *)
(* finalizer and by the collector.                                         *)
(*                                                                         *)
(* A Machine id stands for the name GenerateName gives it; its providerID  *)
(* is the id of the instance, written here as the Machine id (one instance *)
(* per Machine).  Which Machine is launched, and its failures, are         *)
(* FailureLoop.tla's subject; here every Machine launches.                 *)
(***************************************************************************)
EXTENDS Naturals, FiniteSets

CONSTANTS
    NodeClaims,   \* NodeClaim names karpenter creates
    MachineIds,   \* names Machines can be generated with
    None          \* no Machine / empty providerID

VARIABLES
    nc,           \* nc[n]: the NodeClaim object n
    mc,           \* mc[m]: the Machine object m
    gcPc,         \* the collector's Reconcile: "idle" or "listed"
    gcRetrieved   \* what its CloudProvider.List returned

vars == <<nc, mc, gcPc, gcRetrieved>>

(* nc[n].st: "none" (not created yet), "live", "deleting" (deletion        *)
(* timestamp set, finalizer pending), "gone".  launching: the Machine a    *)
(* Create returned that karpenter has not recorded yet; owned: the         *)
(* owned-machine annotation karpenter recorded; pid: Status.ProviderID.    *)
NCStates == {"none", "live", "deleting", "gone"}
NodeClaimRec == [st : NCStates, launching : MachineIds \cup {None},
                 owned : MachineIds \cup {None}, pid : MachineIds \cup {None}]

(* mc[m].st: "free" (name not used yet), "live", "deleting" (phase         *)
(* Deleting), "gone".  hasPid: Spec.ProviderID is set; aged: created more  *)
(* than 30s ago.                                                           *)
MCStates == {"free", "live", "deleting", "gone"}
MachineRec == [st : MCStates, owner : NodeClaims \cup {None}, hasPid : BOOLEAN, aged : BOOLEAN]

Exists(m) == mc[m].st \in {"live", "deleting"}
InCluster(n) == nc[n].st \in {"live", "deleting"}

TypeOK ==
    /\ nc \in [NodeClaims -> NodeClaimRec]
    /\ mc \in [MachineIds -> MachineRec]
    /\ gcPc \in {"idle", "listed"}
    /\ gcRetrieved \subseteq [m : MachineIds, hasPid : BOOLEAN]

Init ==
    /\ nc = [n \in NodeClaims |-> [st |-> "none", launching |-> None, owned |-> None, pid |-> None]]
    /\ mc = [m \in MachineIds |-> [st |-> "free", owner |-> None, hasPid |-> FALSE, aged |-> FALSE]]
    /\ gcPc = "idle"
    /\ gcRetrieved = {}

-----------------------------------------------------------------------------
(* Karpenter and CloudProvider.Create.                                     *)

\* The provisioner creates NodeClaim n.
ProvisionNodeClaim(n) ==
    /\ nc[n].st = "none"
    /\ nc' = [nc EXCEPT ![n].st = "live"]
    /\ UNCHANGED <<mc, gcPc, gcRetrieved>>

(* CloudProvider.Create for a NodeClaim karpenter has not recorded as      *)
(* launched: machine.Create creates a Machine with a generated name, owned *)
(* by and labelled with n, and Create returns machineToNodeClaim of it     *)
(* (owned-machine = its name).                                             *)
Create(n) ==
    /\ nc[n].st = "live" /\ nc[n].launching = None /\ nc[n].owned = None
    /\ \E m \in MachineIds :
         /\ mc[m].st = "free"
         /\ mc' = [mc EXCEPT ![m] = [st |-> "live", owner |-> n, hasPid |-> FALSE, aged |-> FALSE]]
         /\ nc' = [nc EXCEPT ![n].launching = m]
    /\ UNCHANGED <<gcPc, gcRetrieved>>

\* Karpenter persists the launch: the returned annotations land on n.
LaunchRecorded(n) ==
    /\ nc[n].launching # None
    /\ nc' = [nc EXCEPT ![n].owned = nc[n].launching, ![n].launching = None]
    /\ UNCHANGED <<mc, gcPc, gcRetrieved>>

(* The launch is not persisted (Create's answer lost, or the NodeClaim     *)
(* patch fails): karpenter will call Create again.                         *)
LaunchLost(n) ==
    /\ nc[n].launching # None
    /\ nc' = [nc EXCEPT ![n].launching = None]
    /\ UNCHANGED <<mc, gcPc, gcRetrieved>>

\* Disruption, registration timeout or the failure controller deletes n.
DeleteNodeClaim(n) ==
    /\ nc[n].st = "live" /\ nc[n].launching = None
    /\ nc' = [nc EXCEPT ![n].st = "deleting"]
    /\ UNCHANGED <<mc, gcPc, gcRetrieved>>

-----------------------------------------------------------------------------
(* The cloud and cluster-api.                                              *)

\* The instance comes up and the Machine gets its ProviderID.
MachineProvisioned(m) ==
    /\ mc[m].st = "live" /\ ~mc[m].hasPid
    /\ mc' = [mc EXCEPT ![m].hasPid = TRUE]
    /\ UNCHANGED <<nc, gcPc, gcRetrieved>>

(* 30s pass since the Machine was created.  Karpenter records a launch     *)
(* well within 30s of the Create: the collector's age guard relies on it.  *)
MachineAges(m) ==
    /\ Exists(m) /\ ~mc[m].aged
    /\ \A n \in NodeClaims : nc[n].launching # m
    /\ mc' = [mc EXCEPT ![m].aged = TRUE]
    /\ UNCHANGED <<nc, gcPc, gcRetrieved>>

\* Cluster-api terminates the instance of a deleted Machine and removes it.
MachineRemoved(m) ==
    /\ mc[m].st = "deleting"
    /\ mc' = [mc EXCEPT ![m].st = "gone"]
    /\ UNCHANGED <<nc, gcPc, gcRetrieved>>

-----------------------------------------------------------------------------
(* The machine provider.                                                   *)

(* machine.Get(providerID): the first listed Machine whose Spec.ProviderID *)
(* equals it; NotFound if none.                                            *)
MachineGet(pid) == IF Exists(pid) /\ mc[pid].hasPid THEN {pid} ELSE {}

\* Defect: a Machine being deleted is not found by its ProviderID.
MachineDeleteDeletingAsGone(name, pid) ==
    IF pid # None
    THEN IF MachineGet(pid) # {} /\ mc[pid].st = "live"
         THEN [del |-> MachineGet(pid), notFound |-> FALSE, nilDelete |-> FALSE]
         ELSE [del |-> {}, notFound |-> TRUE, nilDelete |-> FALSE]
    ELSE IF \A m \in MachineIds : ~Exists(m) THEN [del |-> {}, notFound |-> TRUE, nilDelete |-> FALSE]
    ELSE [del |-> {}, notFound |-> FALSE,
          nilDelete |-> \E m \in MachineIds : Exists(m) /\ mc[m].owner = name]

(* machine.Delete for a NodeClaim named name with Status.ProviderID pid:   *)
(* the Machines it deletes, or NotFound.  Without a providerID it lists   *)
(* the Machines: NotFound if there are none; for one owned by name it      *)
(* calls Delete on the nil machine (nilDelete); otherwise it returns nil.  *)
MachineDelete(name, pid) ==
    IF pid # None
    THEN IF MachineGet(pid) # {} THEN [del |-> MachineGet(pid), notFound |-> FALSE, nilDelete |-> FALSE]
         ELSE [del |-> {}, notFound |-> TRUE, nilDelete |-> FALSE]
    ELSE IF \A m \in MachineIds : ~Exists(m) THEN [del |-> {}, notFound |-> TRUE, nilDelete |-> FALSE]
    ELSE [del |-> {}, notFound |-> FALSE,
          nilDelete |-> \E m \in MachineIds : Exists(m) /\ mc[m].owner = name]

\* Kubernetes Delete of a Machine: its phase becomes Deleting.
MarkDeleting(ms) == [m \in MachineIds |-> IF m \in ms /\ mc[m].st = "live"
                                          THEN [mc[m] EXCEPT !.st = "deleting"] ELSE mc[m]]

-----------------------------------------------------------------------------
(* The providerid controller: for a NodeClaim without a ProviderID, list   *)
(* the Machines labelled with its name and copy Items[0]'s ProviderID     *)
(* once it has one.  Items come in the order of their generated names, so *)
(* any of them can be first.                                               *)
ProviderIDReconcile(n) ==
    /\ InCluster(n) /\ nc[n].pid = None
    /\ \E first \in {m \in MachineIds : Exists(m) /\ mc[m].owner = n} :
         /\ mc[first].hasPid
         /\ nc' = [nc EXCEPT ![n].pid = first]
    /\ UNCHANGED <<mc, gcPc, gcRetrieved>>

(* Karpenter's NodeClaim finalizer.  Without a ProviderID there is no      *)
(* instance to terminate and the finalizer goes.  Otherwise it calls       *)
(* CloudProvider.Delete, which deletes the Machine, and waits until the    *)
(* provider answers NotFound.                                              *)
Finalize(n) ==
    /\ nc[n].st = "deleting"
    /\ LET res == MachineDelete(n, nc[n].pid)
       IN  \/ /\ nc[n].pid = None
              /\ nc' = [nc EXCEPT ![n].st = "gone"]
              /\ UNCHANGED mc
           \/ /\ nc[n].pid # None /\ ~res.notFound
              /\ \E m \in res.del : mc[m].st = "live"
              /\ mc' = MarkDeleting(res.del)
              /\ UNCHANGED nc
           \/ /\ nc[n].pid # None /\ res.notFound
              /\ nc' = [nc EXCEPT ![n].st = "gone"]
              /\ UNCHANGED mc
    /\ UNCHANGED <<gcPc, gcRetrieved>>

-----------------------------------------------------------------------------
(* The garbage collector's Reconcile, in two steps: CloudProvider.List     *)
(* first, then the NodeClaim and Machine lists and the collection, as the *)
(* code orders them.                                                       *)

(* machine.List: the Machines with an owner reference of kind NodeClaim.   *)
MachineList == {m \in MachineIds : Exists(m) /\ mc[m].owner # None}

(* CloudProvider.List: machine.List's Machines,                           *)
(* each through machineToNodeClaim (ProviderID, owned-machine = its name,  *)
(* a deletion timestamp in phase Deleting), kept if managed-by is set (it  *)
(* always is) and not deleting.                                            *)
GCListCloud ==
    /\ gcPc = "idle"
    /\ gcRetrieved' = {[m |-> m, hasPid |-> mc[m].hasPid] : m \in {x \in MachineList : mc[x].st = "live"}}
    /\ gcPc' = "listed"
    /\ UNCHANGED <<nc, mc>>

\* Defect: no age guard.
GCCandidatesNoAge(retrieved, resolved) ==
    {r \in retrieved : r.m \notin resolved}

(* A retrieved Machine is collected when no NodeClaim in the cluster names *)
(* it as owned-machine and it was created more than 30s ago.               *)
GCCandidates(retrieved, resolved) ==
    {r \in retrieved : r.m \notin resolved /\ mc[r.m].aged}

\* Defect: only CloudProvider.Delete; the Machine-by-name cleanup is missing.
garbageCollectNoCleanup(r) ==
    LET res == MachineDelete(None, IF r.hasPid THEN r.m ELSE None)
    IN  IF res.notFound THEN {} ELSE res.del

(* garbageCollect: CloudProvider.Delete of the retrieved NodeClaim (no     *)
(* name, the Machine's ProviderID); NotFound ends it; otherwise the        *)
(* Machine of that name in the listed Machines is deleted.  The Machines  *)
(* it deletes.                                                             *)
garbageCollect(r) ==
    LET res == MachineDelete(None, IF r.hasPid THEN r.m ELSE None)
    IN  IF res.notFound THEN {} ELSE res.del \cup (IF Exists(r.m) THEN {r.m} ELSE {})

GCCollect ==
    /\ gcPc = "listed"
    /\ LET resolved == {nc[n].owned : n \in {x \in NodeClaims : InCluster(x)}} \ {None}
       IN  mc' = MarkDeleting(UNION {garbageCollect(r) : r \in GCCandidates(gcRetrieved, resolved)})
    /\ gcPc' = "idle"
    /\ gcRetrieved' = {}
    /\ UNCHANGED nc

-----------------------------------------------------------------------------
Next ==
    \/ \E n \in NodeClaims :
         \/ ProvisionNodeClaim(n) \/ Create(n) \/ LaunchRecorded(n) \/ LaunchLost(n)
         \/ DeleteNodeClaim(n) \/ ProviderIDReconcile(n) \/ Finalize(n)
    \/ \E m \in MachineIds : MachineProvisioned(m) \/ MachineAges(m) \/ MachineRemoved(m)
    \/ GCListCloud
    \/ GCCollect

(* The collector is a singleton requeued every 10s to 1min; time passes;   *)
(* cluster-api finishes deleting a Machine.                                *)
Fairness ==
    /\ WF_vars(GCListCloud) /\ WF_vars(GCCollect)
    /\ \A m \in MachineIds : WF_vars(MachineAges(m)) /\ WF_vars(MachineRemoved(m))

Spec == Init /\ [][Next]_vars /\ Fairness

-----------------------------------------------------------------------------
Orphan(m) ==
    /\ Exists(m)
    /\ \A n \in NodeClaims : InCluster(n) => nc[n].owned # m /\ nc[n].launching # m

(* The collector never deletes the Machine of a NodeClaim that is not      *)
(* being deleted: the Machine a live NodeClaim records as owned-machine    *)
(* stays live.  This rests on the 30s age guard and on listing the cloud  *)
(* before the NodeClaims.                                                  *)
OwnedMachineAlive ==
    \A n \in NodeClaims :
        nc[n].st = "live" /\ nc[n].owned # None => mc[nc[n].owned].st = "live"

(* A NodeClaim's ProviderID is the one of the Machine it owns: karpenter   *)
(* matches the Node that registers with it to the NodeClaim.               *)
ProviderIDIsOwnedMachine ==
    \A n \in NodeClaims :
        InCluster(n) /\ nc[n].pid # None /\ nc[n].owned # None => nc[n].pid = nc[n].owned

(* No Machine leaks: a Machine no NodeClaim owns or is launching is        *)
(* eventually removed, whether or not its instance ever got a ProviderID.  *)
OrphanCollected ==
    \A m \in MachineIds : Orphan(m) ~> mc[m].st = "gone"


-----------------------------------------------------------------------------
(* The refinement mapping onto Instances.tla: a NodeClaim knows the        *)
(* Machine it is launching, else its owned-machine, and tracks its         *)
(* ProviderID; a Machine is a running instance while live, a terminating   *)
(* one while deleting.                                                     *)
InstState == [free |-> "free", live |-> "running", deleting |-> "terminating", gone |-> "gone"]

absClaim ==
    [n \in NodeClaims |->
        [st |-> nc[n].st, tracked |-> nc[n].pid,
         inst |-> IF nc[n].launching # None THEN nc[n].launching ELSE nc[n].owned]]

absInst == [m \in MachineIds |-> [st |-> InstState[mc[m].st], owner |-> mc[m].owner]]

Abs == INSTANCE Instances WITH InstanceIds <- MachineIds, claim <- absClaim, inst <- absInst

(* Create, the providerid controller, the finalizer's CloudProvider.Delete *)
(* and the collector together keep the provider's promises (Instances):    *)
(* a known instance is never terminated, a NodeClaim goes only after the   *)
(* instance it tracks, orphans are eventually terminated.                  *)
ImplementsInstances == Abs!Spec

=============================================================================

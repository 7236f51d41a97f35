--------------------------- MODULE ClassLifecycle ---------------------------
(***************************************************************************)
(* Lifecycle.tla's NodeClaims and Machines together with the NodeClass     *)
(* they all reference (NodeClass.tla).  The two meet in three places:      *)
(* karpenter creates NodeClaims only for a class that exists; Create       *)
(* resolves the class (resolveNodeClassFromNodeClaim: a deleting class is  *)
(* an error) and requires it Ready; the termination controller waits for   *)
(* the NodeClaims in the cluster that reference the class.                 *)
(***************************************************************************)
CONSTANTS
    NodeClaims, MachineIds, None,
    SubnetIds, SgIds, KeyIds, SubnetZone, VpcSubnets, TagKeys, TagVals, NoTag, Star, NoID,
    SubnetTerms, SgTerms, KeyTerms, InitTags, MaxCloudChanges, NoZoneID, MaxZoneNumber

VARIABLES nc, mc, gcPc, gcRetrieved,
          cloudRes, cloudTags, changes, status, ready, finalizer, phase, listed, termPc, patchedSince

lcVars == <<nc, mc, gcPc, gcRetrieved>>

LC == INSTANCE Lifecycle

\* Lifecycle's InCluster: the NodeClaim exists in the API server.
InCluster(n) == nc[n].st \in {"live", "deleting"}

NC == INSTANCE NodeClass WITH classClaims <- {n \in NodeClaims : InCluster(n)}

\* The controllers only ever see a class the API server admitted.
ASSUME \A k \in NC!Kinds : NC!AdmittedTerms(NC!TermsOf[k], NC!MaxItems[k])

classVars == <<cloudRes, cloudTags, changes, status, ready, finalizer, phase, listed, termPc, patchedSince>>

allVars == <<lcVars, classVars>>

\* Defect: a deleting class is resolved like a live one.
ClassLaunchableWhileDeleting == phase # "gone" /\ ready

(* CloudProvider.Create's first checks: resolveNodeClassFromNodeClaim      *)
(* (NotFound, or the terminating error for a deleting class) and the Ready *)
(* condition.                                                              *)
ClassLaunchable == phase = "live" /\ ready

Init == LC!Init /\ NC!NodeClassInit

(* resolveNodeClassFromNodePool: a Get of the class; unlike the NodeClaim  *)
(* variant it does not refuse a deleting class.                            *)
resolveNodeClassFromNodePool == phase # "gone"

(* GetInstanceTypes: the class, then instancetype.List without refresh,    *)
(* which fails on a class with no subnets in its status.  (Its other       *)
(* failures only make karpenter wait.)                                     *)
GetInstanceTypes == resolveNodeClassFromNodePool /\ status.subnet # {}

(* Karpenter provisions NodeClaims for a NodePool whose GetInstanceTypes   *)
(* returns types: also while the class is deleting.                        *)
ProvisionForClass(n) ==
    /\ GetInstanceTypes
    /\ LC!ProvisionNodeClaim(n)
    /\ UNCHANGED classVars

LaunchForClass(n) ==
    /\ ClassLaunchable
    /\ LC!Create(n)
    /\ UNCHANGED classVars

LifecycleStep ==
    /\ \/ \E n \in NodeClaims :
            \/ LC!LaunchRecorded(n) \/ LC!LaunchLost(n) \/ LC!DeleteNodeClaim(n)
            \/ LC!ProviderIDReconcile(n) \/ LC!Finalize(n)
       \/ \E m \in MachineIds : LC!MachineProvisioned(m) \/ LC!MachineAges(m) \/ LC!MachineRemoved(m)
       \/ LC!GCListCloud \/ LC!GCCollect
    /\ UNCHANGED classVars

ClassStep ==
    /\ \/ NC!StatusReconcile \/ NC!TermList \/ NC!TermUpdate \/ NC!DeleteClass \/ NC!CloudChange
    /\ UNCHANGED lcVars

Next ==
    \/ \E n \in NodeClaims : ProvisionForClass(n) \/ LaunchForClass(n)
    \/ LifecycleStep
    \/ ClassStep

(* Lifecycle's fairness; the termination controller is requeued (10m, on   *)
(* conflict, on every NodeClaim deletion).                                 *)
Spec ==
    /\ Init /\ [][Next]_allVars
    /\ WF_allVars(LC!GCListCloud /\ UNCHANGED classVars) /\ WF_allVars(LC!GCCollect /\ UNCHANGED classVars)
    /\ \A m \in MachineIds : /\ WF_allVars(LC!MachineAges(m) /\ UNCHANGED classVars)
                             /\ WF_allVars(LC!MachineRemoved(m) /\ UNCHANGED classVars)
    /\ WF_allVars(NC!TermList /\ UNCHANGED lcVars) /\ WF_allVars(NC!TermUpdate /\ UNCHANGED lcVars)

-----------------------------------------------------------------------------
\* Every variable of both components holds a value of its type; the class
\* status has the shape of TKEMachineNodeClassStatus.
ClassTypeOK == LC!TypeOK /\ NC!NodeClassTypeOK

SelectionResolved == NC!SelectionResolved

ZoneIDsRoundTrip == NC!ZoneIDsRoundTrip

OwnedMachineAlive == LC!OwnedMachineAlive

OrphanCollected == LC!OrphanCollected

\* The NodeClaims and Machines implement Instances.tla's promises (see
\* Lifecycle's ImplementsInstances), also while the class comes and goes.
ImplementsInstances == LC!ImplementsInstances

(* No NodeClaim that has launched a Machine outlives its class: the class  *)
(* is removed only after every launched NodeClaim is gone.  A NodeClaim    *)
(* karpenter creates after termination listed none can no longer launch.   *)
LaunchedClaimsKeepClass ==
    phase = "gone" =>
        \A n \in NodeClaims : InCluster(n) => nc[n].owned = None /\ nc[n].launching = None

(* A deleting class that no NodeClaim references is eventually removed,    *)
(* unless a NodeClaim referencing it appears first.                        *)
ClassRemovalProgress ==
    (phase = "deleting" /\ \A n \in NodeClaims : ~InCluster(n))
        ~> (phase = "gone" \/ \E n \in NodeClaims : InCluster(n))

=============================================================================

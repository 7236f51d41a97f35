---------------------------- MODULE FailureLoop ----------------------------
(***************************************************************************)
(* The provisioning feedback loop of the TKE provider:                     *)
(*  - CloudProvider.Create (pkg/cloudprovider/cloudprovider.go) lists the  *)
(*    catalog (instancetype.List: quota of the subnet zones and of the     *)
(*    zones of existing NodeClaims, minus blocked offerings), lets         *)
(*    machine.Create pick one offering (Selection.tla) and creates the     *)
(*    Machine; a failed kube create blocks the offering;                   *)
(*  - the cloud provisions the Machine or marks it Failed;                 *)
(*  - the nodeclaim.failure controller (pkg/controllers/nodeclaim/failure) *)
(*    counts insufficient-capacity failures, blocks offerings that keep    *)
(*    failing or fail for another reason, and deletes failed Machines;     *)
(*  - the blacklist cache entries expire (BlacklistCache.tla).             *)
(* One NodeClaim launches at most one Machine, so both are indexed by the  *)
(* NodeClaim.  Karpenter itself (the provisioner creating NodeClaims, the  *)
(* disruption controller removing nodes) is the environment.               *)
(***************************************************************************)
EXTENDS BlacklistCache, Selection

CONSTANTS
    NodeClaims,         \* NodeClaim names (each owns at most one Machine)
    Quota,              \* vendor quota: offerings [type, cap, zone, price, available]
    Requests,           \* NodeClaim requirements [caps, zones]
    TypeThreshold,      \* 3 in isFailureWithInsufficientResources
    SpotZoneThreshold,  \* 50 in isFailureWithInsufficientResources
    SubnetChoices,      \* the zone sets the nodeclass subnets can resolve to
    NoMachine,
    NoNodeClaim

ASSUME Caps = {Spot, OnDemand}
ASSUME SubnetChoices \subseteq SUBSET Zones
ASSUME MaxCount > TypeThreshold /\ MaxCount > SpotZoneThreshold

VARIABLES
    nodeClaim,      \* nodeClaim[n]: NoNodeClaim or the request it was created with
    machine,        \* machine[n]: NoMachine or the Machine owned by NodeClaim n
    subnetZones,    \* zones of nodeClass.Status.Subnets
    panicked,       \* a nil pointer was dereferenced in CloudProvider.Create
    claimDeleting   \* NodeClaims whose deletion karpenter's finalizer has yet to finish

vars == <<blocked, failCount, failTTL, nodeClaim, machine, subnetZones, panicked, claimDeleting>>

\* Failure kinds, by what the failure controller reads from FailureReason and
\* FailureMessage: InvalidConfiguration with one of the four insufficient-
\* resource messages; LimitExceeded.UserSpotQuota; anything else.
Failures == {"insufficient", "userSpotQuota", "other"}

Machines == [type : Types, cap : Caps, zone : Zones,
             phase : {"Provisioning", "Running", "Failed"},
             failure : Failures \cup {"none"},
             aged : BOOLEAN,       \* created more than 30s ago
             deleting : BOOLEAN]   \* deleted, held by the Machine's finalizer

Key(m) == <<m.type, m.cap, m.zone>>

TypeOK ==
    /\ CacheTypeOK
    /\ nodeClaim \in [NodeClaims -> Requests \cup {NoNodeClaim}]
    /\ machine \in [NodeClaims -> Machines \cup {NoMachine}]
    /\ subnetZones \in SUBSET Zones
    /\ panicked \in BOOLEAN
    /\ claimDeleting \subseteq NodeClaims

Init ==
    /\ CacheInit
    /\ nodeClaim = [n \in NodeClaims |-> NoNodeClaim]
    /\ machine = [n \in NodeClaims |-> NoMachine]
    /\ subnetZones \in SubnetChoices
    /\ panicked = FALSE
    /\ claimDeleting = {}

-----------------------------------------------------------------------------
(* instancetype.List: the zones asked for are the subnet zones plus the    *)
(* zones of NodeClaims already launched (getInstanceTypes' existedZones);  *)
(* an offering is built for each quota record not isBlocked.               *)

existedZones == {machine[n].zone : n \in {x \in NodeClaims : machine[x] # NoMachine}}

List == {o \in Quota : /\ o.zone \in subnetZones \cup existedZones
                       /\ ~isBlocked(o.type, o.cap, o.zone)}

\* CloudProvider.Create's preconditions for NodeClaim n: the NodeClass is
\* Ready (it has subnets) and the NodeClaim, not being deleted (karpenter
\* finalizes it instead), has not launched yet.
CanLaunch(n) ==
    /\ nodeClaim[n] # NoNodeClaim
    /\ n \notin claimDeleting
    /\ machine[n] = NoMachine
    /\ subnetZones # {}

(* CloudProvider.Create for NodeClaim n, with one of its four outcomes:    *)
(*  - no instance type resolves: InsufficientCapacityError, upon which     *)
(*    karpenter deletes the NodeClaim;                                     *)
(*  - the chosen zone has no subnet: machine.Create returns nil, nil and   *)
(*    an error, and CloudProvider.Create reads providerSpec.InstanceType   *)
(*    and mc.GetLabels() of the nil results;                               *)
(*  - kubeClient.Create of the Machine succeeds;                           *)
(*  - kubeClient.Create fails: BlockInstanceType(the chosen type, its      *)
(*    capacity type, its zone) and the error goes back to karpenter.       *)
Create(n) ==
    LET cat     == List
        choices == LaunchChoices(cat, nodeClaim[n])
    IN  /\ CanLaunch(n)
        /\ \/ /\ resolveInstanceTypes(cat, nodeClaim[n]) = {}
              /\ nodeClaim' = [nodeClaim EXCEPT ![n] = NoNodeClaim]
              /\ UNCHANGED <<blocked, failCount, failTTL, machine, subnetZones, panicked, claimDeleting>>
           \/ /\ \E o \in choices : o.zone \notin subnetZones
              /\ panicked' = TRUE
              /\ UNCHANGED <<blocked, failCount, failTTL, nodeClaim, machine, subnetZones, claimDeleting>>
           \/ /\ \E o \in choices :
                    /\ o.zone \in subnetZones
                    /\ machine' = [machine EXCEPT ![n] =
                          [type |-> o.type, cap |-> o.cap, zone |-> o.zone,
                           phase |-> "Provisioning", failure |-> "none", aged |-> FALSE,
                           deleting |-> FALSE]]
              /\ UNCHANGED <<blocked, failCount, failTTL, nodeClaim, subnetZones, panicked, claimDeleting>>
           \/ /\ \E o \in choices :
                    /\ o.zone \in subnetZones
                    /\ blocked' = BlockKeys(blocked, {Key(o)})
              /\ UNCHANGED <<failCount, failTTL, nodeClaim, machine, subnetZones, panicked, claimDeleting>>

-----------------------------------------------------------------------------
(* The nodeclaim.failure controller's Reconcile, one whole pass.           *)

\* cnt[k]: what GetInsufficientFailureCount returns for key k when called.
isFailureWithInsufficientResources(m, cnt) ==
    /\ m.failure = "insufficient"
    /\ ~(m.cap = Spot /\ cnt[<<Wild, m.cap, m.zone>>] > SpotZoneThreshold)
    /\ ~(cnt[Key(m)] > TypeThreshold)

\* The counts before the pass.
CountsNow == [k \in Patterns |-> GetInsufficientFailureCount(k[1], k[2], k[3])]

\* Machines without a ProviderID, owned by a NodeClaim, older than 30s.
Candidates == {n \in NodeClaims : /\ machine[n] # NoMachine
                                  /\ machine[n].phase # "Running"
                                  /\ machine[n].aged}

insufficientMachines ==
    {n \in Candidates : isFailureWithInsufficientResources(machine[n], CountsNow)}

(* refreshInstanceTypes: AddInsufficientFailure(type, cap, zone) for each  *)
(* insufficient machine, and ("*", spot, zone) for a spot one.  The forced *)
(* List refresh only flushes the quota cache; its result is discarded.     *)
FailureAdds(k) ==
    Cardinality({n \in insufficientMachines : Key(machine[n]) = k})
    + (IF k[1] = Wild /\ k[2] = Spot
       THEN Cardinality({n \in insufficientMachines :
                             machine[n].cap = Spot /\ machine[n].zone = k[3]})
       ELSE 0)

\* Defect: the second filter reads the counts from before the adds.
CountBeforeAdds(t, c, z) == GetInsufficientFailureCount(t, c, z)

\* The count the second filter reads, after refreshInstanceTypes' adds.
CountAfterAdds(t, c, z) == CountAfter(<<t, c, z>>, FailureAdds(<<t, c, z>>))

unknowFailureMachines ==
    {n \in Candidates : /\ machine[n].failure # "none"
                        /\ ~isFailureWithInsufficientResources(machine[n],
                              [k \in Patterns |-> CountAfterAdds(k[1], k[2], k[3])])}

\* blockInstanceTypes: the exact offering, or every type of the capacity
\* type in the zone for a user spot quota failure.
BlockedBy(m) ==
    IF m.failure = "userSpotQuota" THEN <<Wild, m.cap, m.zone>> ELSE Key(m)

\* Defect: only the unknown-failure list is deleted.
failureMachinesUnknownOnly == unknowFailureMachines

\* failureMachines: both lists; a Machine may be in both.
failureMachines == insufficientMachines \cup unknowFailureMachines

(* deleteFailureMachine, run in parallel for each failed Machine: Delete  *)
(* of its owner NodeClaim (NotFound returns nil and skips the Machine),    *)
(* then Delete of the Machine unless that call fails (deleteFails), which  *)
(* fails the pass.  Both stay listed until their finalizers finish.        *)
deleteFailureMachine(failed, deleteFails) ==
    [n \in NodeClaims |->
        IF n \in failed /\ nodeClaim[n] # NoNodeClaim /\ n \notin deleteFails
        THEN [machine[n] EXCEPT !.deleting = TRUE]
        ELSE machine[n]]

FailureReconcile ==
    LET failed == failureMachines
        owned  == {n \in failed : nodeClaim[n] # NoNodeClaim}
    IN  /\ failed # {}
        /\ AddFailures([k \in Patterns |-> FailureAdds(k)])
        /\ blocked' = BlockKeys(blocked, {BlockedBy(machine[n]) : n \in unknowFailureMachines})
        /\ claimDeleting' = claimDeleting \cup owned
        /\ \E deleteFails \in SUBSET owned : machine' = deleteFailureMachine(failed, deleteFails)
        /\ UNCHANGED <<nodeClaim, subnetZones, panicked>>

-----------------------------------------------------------------------------
(* Environment.                                                            *)

\* Karpenter's provisioner creates a NodeClaim with some requirements.
ProvisionNodeClaim(n) ==
    /\ nodeClaim[n] = NoNodeClaim
    /\ machine[n] = NoMachine
    /\ \E r \in Requests : nodeClaim' = [nodeClaim EXCEPT ![n] = r]
    /\ UNCHANGED <<blocked, failCount, failTTL, machine, subnetZones, panicked, claimDeleting>>

\* The cloud gives the Machine a ProviderID, or fails it.
MachineRunning(n) ==
    /\ machine[n] # NoMachine
    /\ machine[n].phase = "Provisioning"
    /\ machine' = [machine EXCEPT ![n].phase = "Running"]
    /\ UNCHANGED <<blocked, failCount, failTTL, nodeClaim, subnetZones, panicked, claimDeleting>>

MachineFailed(n) ==
    /\ machine[n] # NoMachine
    /\ machine[n].phase = "Provisioning"
    /\ \E f \in Failures :
          machine' = [machine EXCEPT ![n].phase = "Failed", ![n].failure = f]
    /\ UNCHANGED <<blocked, failCount, failTTL, nodeClaim, subnetZones, panicked, claimDeleting>>

\* 30 seconds pass since the Machine's creation.
MachineAges(n) ==
    /\ machine[n] # NoMachine
    /\ ~machine[n].aged
    /\ machine' = [machine EXCEPT ![n].aged = TRUE]
    /\ UNCHANGED <<blocked, failCount, failTTL, nodeClaim, subnetZones, panicked, claimDeleting>>

\* Karpenter disrupts a running node: NodeClaim and Machine go away.
RemoveNode(n) ==
    /\ machine[n] # NoMachine
    /\ machine[n].phase = "Running"
    /\ ~machine[n].deleting
    /\ nodeClaim' = [nodeClaim EXCEPT ![n] = NoNodeClaim]
    /\ machine' = [machine EXCEPT ![n] = NoMachine]
    /\ UNCHANGED <<blocked, failCount, failTTL, subnetZones, panicked, claimDeleting>>

\* The Machine's finalizer finishes: it leaves the API server.
MachineGone(n) ==
    /\ machine[n] # NoMachine
    /\ machine[n].deleting
    /\ machine' = [machine EXCEPT ![n] = NoMachine]
    /\ UNCHANGED <<blocked, failCount, failTTL, nodeClaim, subnetZones, panicked, claimDeleting>>

(* Karpenter's finalizer of a deleting NodeClaim.  The NodeClaims the     *)
(* failure controller deletes have no ProviderID (their Machine has none,  *)
(* and the providerid controller copies it from there), so karpenter does  *)
(* not call CloudProvider.Delete: the finalizer goes and the Machine stays.*)
FinalizeNodeClaim(n) ==
    /\ n \in claimDeleting
    /\ nodeClaim' = [nodeClaim EXCEPT ![n] = NoNodeClaim]
    /\ claimDeleting' = claimDeleting \ {n}
    /\ UNCHANGED <<blocked, failCount, failTTL, machine, subnetZones, panicked>>

(* The nodeclaim.garbagecollection controller, for a Machine listed by     *)
(* CloudProvider.List (owned by a NodeClaim, not deleting) that no         *)
(* NodeClaim in the cluster names and older than 30s: CloudProvider.Delete *)
(* without a ProviderID finds no Machine owned by the nameless NodeClaim   *)
(* and returns nil, and the Machine of that name is deleted.               *)
GarbageCollect(n) ==
    /\ machine[n] # NoMachine
    /\ ~machine[n].deleting
    /\ machine[n].aged
    /\ nodeClaim[n] = NoNodeClaim
    /\ machine' = [machine EXCEPT ![n].deleting = TRUE]
    /\ UNCHANGED <<blocked, failCount, failTTL, nodeClaim, subnetZones, panicked, claimDeleting>>

\* The nodeclass status controller re-resolves the subnets.
SubnetsResolved ==
    /\ \E s \in SubnetChoices : subnetZones' = s /\ s # subnetZones
    /\ UNCHANGED <<blocked, failCount, failTTL, nodeClaim, machine, panicked, claimDeleting>>

\* One tick of the blacklist cache's clock.
Tick ==
    /\ CacheTick
    /\ UNCHANGED <<nodeClaim, machine, subnetZones, panicked, claimDeleting>>

Next ==
    \/ \E n \in NodeClaims :
          \/ Create(n)
          \/ ProvisionNodeClaim(n)
          \/ MachineRunning(n)
          \/ MachineFailed(n)
          \/ MachineAges(n)
          \/ RemoveNode(n)
          \/ MachineGone(n)
          \/ FinalizeNodeClaim(n)
          \/ GarbageCollect(n)
    \/ FailureReconcile
    \/ SubnetsResolved
    \/ Tick

(* The failure controller is a singleton requeued every 10s to 1min; a    *)
(* Machine's age and the cache clock advance with time; finalizers of      *)
(* deleted objects are reconciled until they finish; the garbage          *)
(* collector is a singleton requeued every 10s to 1min as well.            *)
Fairness ==
    /\ WF_vars(FailureReconcile)
    /\ \A n \in NodeClaims : /\ WF_vars(MachineAges(n))
                             /\ WF_vars(MachineGone(n))
                             /\ WF_vars(FinalizeNodeClaim(n))
                             /\ WF_vars(GarbageCollect(n))

Spec == Init /\ [][Next]_vars /\ Fairness

-----------------------------------------------------------------------------
(* Properties.                                                             *)

\* Pattern p covers the offering key k: each field equal or the wildcard.
Covers(p, k) == \A i \in 1..3 : p[i] \in {Wild, k[i]}

(* A Machine is never created for an offering that a live blocked-ins      *)
(* entry covers, whatever its wildcards: isBlocked's eight lookups in      *)
(* instancetype.List must miss no pattern that BlockInstanceType can set.  *)
NoLaunchOnBlocked ==
    [][\A n \in NodeClaims :
          (machine[n] = NoMachine /\ machine'[n] # NoMachine) =>
              ~\E p \in Patterns : Live(p) /\ Covers(p, Key(machine'[n]))]_vars

(* Escalation: when the failure controller first deletes a Machine that   *)
(* failed for insufficient resources and its offering had already been    *)
(* counted TypeThreshold times in the window, the same pass blocks the    *)
(* offering: the unknown-failure filter must read the counts              *)
(* refreshInstanceTypes has just incremented.                              *)
EscalationBlocks ==
    [][\A n \in NodeClaims :
          (/\ machine[n] # NoMachine
           /\ machine[n].failure = "insufficient"
           /\ n \notin claimDeleting /\ n \in claimDeleting'
           /\ GetInsufficientFailureCount(machine[n].type, machine[n].cap,
                                          machine[n].zone) >= TypeThreshold)
              => blocked'[Key(machine[n])] > 0]_vars

(* Every Machine that fails is eventually deleted by the failure           *)
(* controller, whichever list (insufficient or unknown) it falls in.       *)
FailedMachineRemoved ==
    \A n \in NodeClaims :
        (machine[n] # NoMachine /\ machine[n].phase = "Failed") ~> machine[n] = NoMachine

(* Spec 4.4: a spot shortage seen more than SpotZoneThreshold times in a   *)
(* zone "escalates to blocking the wildcard spot offering for that zone":  *)
(* a pass that deletes a spot insufficient-resources Machine of zone z     *)
(* while the ("*", spot, z) count is over the threshold blocks ("*", spot, *)
(* z).                                                                     *)
SpotZoneEscalation ==
    [][\A n \in NodeClaims :
          (/\ machine[n] # NoMachine
           /\ machine[n].failure = "insufficient"
           /\ machine[n].cap = Spot
           /\ n \notin claimDeleting /\ n \in claimDeleting'
           /\ GetInsufficientFailureCount(Wild, Spot, machine[n].zone) > SpotZoneThreshold)
              => blocked'[<<Wild, Spot, machine[n].zone>>] > 0]_vars

(* Spec 4.6 step 4 and 6: no subnet for the chosen zone is an error        *)
(* surfaced to the caller; CloudProvider.Create must not dereference the   *)
(* nil results machine.Create returns with it.                             *)
NoNilDereference == ~panicked

=============================================================================

---------------------------- MODULE MCCapacity ----------------------------
(***************************************************************************)
(* Checks the capacity calculator of Capacity.tla for every quota record   *)
(* of a few core counts and the memory sizes around each band edge, both   *)
(* Kubernetes version branches, every shape of cluster metadata List can   *)
(* hand over, and a zone with no, a small or a large ENI limit.  One step  *)
(* runs NewInstanceType; then the run stops.                               *)
(***************************************************************************)
EXTENDS Capacity, Options

CONSTANTS
    MemGB,        \* quota memory sizes (GB)
    Cores,        \* quota core counts
    EniIPs,       \* TKERouteENIStaticIP values of a zone's limit table
    MaxNodePods,  \* ClusterNetworkSettings.MaxNodePodNum values
    SystemDisks   \* system disk sizes (GB), 0 for a class without one

VARIABLES q, newer, limits, cls, disks, it

(* The options the controller starts with (Options.tla): the variables of *)
(* a deployment, one of them left unset and given on the command line,    *)
(* and an overhead variable ParseFloat refuses, so WithDefaultFloat64     *)
(* falls back to 0.075.  Parse must accept them: the controller exits     *)
(* otherwise.                                                              *)
MCEnv ==
    ("REGION" :> "ap-guangzhou") @@ ("CLUSTER_ID" :> NoEnv) @@ ("SECRET_ID" :> "id")
    @@ ("SECRET_KEY" :> "key") @@ ("VM_MEMORY_OVERHEAD_PERCENT" :> "7.5%")
MCArgs == "cluster-id" :> "cls-1"
MCFloatText == "7.5%" :> [ok |-> FALSE, val |-> 0]

ASSUME Parse(MCEnv, MCArgs).ok

\* options.VMMemoryOverheadPercent as Parse leaves it.
MCOverhead == Parse(MCEnv, MCArgs).opts[OverheadFlag]

vars == <<q, newer, limits, cls, disks, it>>

Quota == [type : {"t"}, cpu : Cores, memory : MemGB]

\* A zone's limit table: empty, or one entry for the type.
LimitTables ==
    {{}} \cup {{[type |-> "t", eniip |-> n, directeni |-> 0, subeni |-> 0]} : n \in EniIPs}

\* DescribeClusters' answer: the zero Cluster, or a Property and network
\* settings of each kind.
Clusters ==
    {[property |-> FALSE, networkType |-> "", vpcCniType |-> "", metaFeature |-> FALSE,
      settings |-> FALSE, maxNodePodNum |-> 0]}
    \cup [property : {TRUE}, networkType : {"GR", "VPC-CNI"}, vpcCniType : {"", "tke-route-eni"},
          metaFeature : BOOLEAN, settings : BOOLEAN, maxNodePodNum : MaxNodePods]

(* A class's disks the API server admits: the system disk, and no data    *)
(* disk, a data disk on a kubelet path, a kubelet disk followed by one     *)
(* elsewhere, or two kubelet disks (the last one counts).                  *)
DiskLayouts ==
    {d \in [sys  : SystemDisks,
            data : {<<>>, <<[mount |-> "kubelet", size |-> 30]>>,
                    <<[mount |-> "kubelet", size |-> 20], [mount |-> "other", size |-> 500]>>,
                    <<[mount |-> "kubelet", size |-> 40], [mount |-> "kubelet", size |-> 20]>>}] :
        AdmittedDisks(d.sys, d.data)}

NotYet == [capacity |-> <<>>]

Init ==
    /\ q \in Quota
    /\ newer \in BOOLEAN
    /\ limits \in LimitTables
    /\ cls \in Clusters
    /\ disks \in DiskLayouts
    /\ it = NotYet

Evaluate ==
    /\ it = NotYet
    /\ it' = NewInstanceType(q, newer, StorageInGB(disks.sys, disks.data), limits, cls)
    /\ UNCHANGED <<q, newer, limits, cls, disks>>

Spec == Init /\ [][Evaluate]_vars

-----------------------------------------------------------------------------
(* Spec 8: kube-reserved resources never shrink as the type grows: the    *)
(* legacy memory table and the CPU table of the version branch give the    *)
(* evaluated type no more than a type with one more GB, or one more core.  *)
(* MemGB and Cores hold the sizes just below and at every band edge.       *)
ReservationMonotone ==
    it # NotYet =>
        /\ LevelsEval(MemLevel, q.memory) <= LevelsEval(MemLevel, q.memory + 1)
        /\ kubeReservedCpu(newer, q.cpu * 1000) <= kubeReservedCpu(newer, (q.cpu + 1) * 1000)

(* Spec 8: memory capacity is non-decreasing in the memory size: a type    *)
(* with one more GB than the evaluated one has at least its capacity,      *)
(* whichever kdump bands the two sizes fall in.                            *)
MemoryCapacityMonotone ==
    it # NotYet => it.memory <= memory((q.memory + 1) * 1024)

(* Every instance type the catalog builds leaves memory and CPU to         *)
(* schedule on: kube-reserved and the eviction floor stay below capacity   *)
(* for any pod count the cluster metadata can produce.                     *)
AllocatablePositive ==
    it # NotYet => it.allocMem > 0 /\ it.allocCpu > 0

(* CloudProvider.Get and List rebuild a NodeClaim from its Machine's       *)
(* annotations (machineToNodeClaim): the Machine that machine.Create       *)
(* writes for the type resolves, and reads back with the nonzero capacity *)
(* and allocatable the type had at launch, ENI and EIP resources and the   *)
(* storage of every disk layout included.                                  *)
MachineRoundTrip ==
    it # NotYet =>
        machineToNodeClaim(MachineAnnotations(it))
            = [ok |-> TRUE, capacity |-> PickNonZero(it.capacity),
               allocatable |-> PickNonZero(Allocatable(it.capacity, it.overhead))]

(* The kdump table reserves crash-dump memory for every instance of at     *)
(* least 1800MiB: its bands are meant to cover all sizes above that.       *)
KdumpCoversLargeInstances ==
    q.memory * 1024 >= 1800 => KdumpsEval(KdumpLevels, q.memory * 1024) > 0

=============================================================================

------------------------------ MODULE Launch ------------------------------
(***************************************************************************)
(* The labels a launch leaves on its NodeClaim.  machine.Create copies the *)
(* first type's family, cpu and memory requirements and the capacity type *)
(* of its cheapest compatible offering into the Machine's labels, and the  *)
(* zone name ZoneFromID gives for that offering's zone ID into its Zone.   *)
(* CloudProvider.Create returns machineToNodeClaim of that Machine, which  *)
(* rebuilds an instance type from those labels (resolveMachineToInstance-  *)
(* Type: Atoi of the cpu and memory labels, IDFromZone of the zone) and    *)
(* turns every requirement of one value into a label                       *)
(* (computeRequirements).  Label keys are the code's keys without the API  *)
(* group prefix; the NodeClaim and NodeClass name labels of the Machine    *)
(* are left out: machineToNodeClaim does not read them.                    *)
(***************************************************************************)
EXTENDS Selection, Zone, FiniteSets

CONSTANTS
    TypeQuota,  \* TypeQuota[t]: the quota item of type t, [cpu, memory, family]
    QuotaZone   \* QuotaZone[id]: the zone name of the quota items of zone ID id

(* createOfferings labels an offering with IDFromZone of its quota item's  *)
(* zone (topology.kubernetes.io/zone) and with that zone name itself (the *)
(* CBS topology label).                                                    *)
ASSUME \A id \in DOMAIN QuotaZone : IDFromZone(QuotaZone[id]) = id

LabelInstanceFamily == "instance-family"
LabelInstanceCPU == "instance-cpu"
LabelInstanceMemoryGB == "instance-memory-gb"
LabelCBSToplogy == "topology.com.tencent.cloud.csi.cbs/zone"
InstanceTypeKey == "node.kubernetes.io/instance-type"
ArchKey == "kubernetes.io/arch"
OSKey == "kubernetes.io/os"
ZoneKey == "topology.kubernetes.io/zone"
WindowsBuildKey == "node.kubernetes.io/windows-build"
CapacityTypeKey == "karpenter.sh/capacity-type"
NodePoolKey == "karpenter.sh/nodepool"

(* computeRequirements: requirement key -> allowed values, over the type's *)
(* available offerings offs ([cap, zone, cbs]).  fmt.Sprint of the cpu and *)
(* memory; the windows-build requirement (DoesNotExist) has no values.     *)
computeRequirements(offs, q) ==
    (InstanceTypeKey :> {q.type}) @@ (ArchKey :> {"amd64"}) @@ (OSKey :> {"linux"})
    @@ (ZoneKey :> {o.zone : o \in offs}) @@ (LabelCBSToplogy :> {o.cbs : o \in offs})
    @@ (WindowsBuildKey :> {}) @@ (CapacityTypeKey :> {o.cap : o \in offs})
    @@ (LabelInstanceCPU :> {ToString(q.cpu)}) @@ (LabelInstanceMemoryGB :> {ToString(q.memory)})
    @@ (LabelInstanceFamily :> {q.family})

\* A catalog offering with the labels createOfferings gave it.
CatalogOffering(o) == [cap |-> o.cap, zone |-> o.zone, cbs |-> QuotaZone[o.zone]]

\* The one value of a requirement (Values()[0] of a one-value requirement).
TheValue(vals) == CHOOSE v \in vals : TRUE

(* machine.Create's Machine for the launch offering o: the labels from     *)
(* instanceTypes[0]'s requirements, the capacity type of o (the code's     *)
(* Cheapest() over the same offerings again), and a zone name ZoneFromID   *)
(* gives for o's zone ID.  No Machine when ZoneFromID fails.               *)
CreateMachine(cat, o, nodePool) ==
    LET q    == [type |-> o.type] @@ TypeQuota[o.type]
        reqs == computeRequirements({CatalogOffering(x) : x \in Available(Offers(cat, o.type))}, q)
    IN  {[instanceType |-> o.type, zone |-> z,
          labels |-> (NodePoolKey :> nodePool)
                     @@ (LabelInstanceFamily :> TheValue(reqs[LabelInstanceFamily]))
                     @@ (LabelInstanceCPU :> TheValue(reqs[LabelInstanceCPU]))
                     @@ (LabelInstanceMemoryGB :> TheValue(reqs[LabelInstanceMemoryGB]))
                     @@ (CapacityTypeKey :> o.cap)] : z \in ZoneFromIDs(o.zone)}

\* Defect: the Machine's zone is read as region-region-number.
resolveMachineRequirementsThreeParts(m) ==
    LET q   == [type |-> m.instanceType, family |-> m.labels[LabelInstanceFamily],
                cpu |-> Atoi(m.labels[LabelInstanceCPU]),
                memory |-> Atoi(m.labels[LabelInstanceMemoryGB])]
        off == [cap |-> m.labels[CapacityTypeKey], zone |-> IDFromZoneThreeParts(m.zone),
                cbs |-> m.zone]
    IN  IF AtoiOk(m.labels[LabelInstanceCPU]) /\ AtoiOk(m.labels[LabelInstanceMemoryGB])
        THEN [ok |-> TRUE, reqs |-> computeRequirements({off}, q)]
        ELSE [ok |-> FALSE]

(* resolveMachineToInstanceType's type and its one offering: Atoi of the   *)
(* cpu and memory labels (an error when either fails), the zone ID         *)
(* IDFromZone gives for the Machine's zone (its error ignored), and that   *)
(* zone name as the CBS zone.                                              *)
resolveMachineRequirements(m) ==
    LET q   == [type |-> m.instanceType, family |-> m.labels[LabelInstanceFamily],
                cpu |-> Atoi(m.labels[LabelInstanceCPU]),
                memory |-> Atoi(m.labels[LabelInstanceMemoryGB])]
        off == [cap |-> m.labels[CapacityTypeKey], zone |-> IDFromZone(m.zone), cbs |-> m.zone]
    IN  IF AtoiOk(m.labels[LabelInstanceCPU]) /\ AtoiOk(m.labels[LabelInstanceMemoryGB])
        THEN [ok |-> TRUE, reqs |-> computeRequirements({off}, q)]
        ELSE [ok |-> FALSE]

(* machineToNodeClaim's labels: every requirement of exactly one value,    *)
(* and the Machine's nodepool label when it has one.                       *)
nodeClaimLabels(reqs, m) ==
    LET single == {k \in DOMAIN reqs : Cardinality(reqs[k]) = 1}
        pool   == IF NodePoolKey \in DOMAIN m.labels THEN NodePoolKey :> m.labels[NodePoolKey]
                  ELSE <<>>
    IN  pool @@ [k \in single |-> TheValue(reqs[k])]

\* The labels of the NodeClaim Create returns for a Machine m.
CreatedLabels(m) == nodeClaimLabels(resolveMachineRequirements(m).reqs, m)

=============================================================================

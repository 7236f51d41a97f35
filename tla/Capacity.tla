----------------------------- MODULE Capacity -----------------------------
(***************************************************************************)
(* The capacity and overhead calculator of pkg/providers/instancetype      *)
(* (level.go, kdump.go, types.go): what NewInstanceType computes for one   *)
(* quota record.  Pure operators.                                          *)
(*                                                                         *)
(* Units.  TLC integers are 32-bit, so memory is kept in MiB (the vendor   *)
(* reports whole GB, and every kdump bound is a whole MiB).  A Level's     *)
(* float factor is an exact rational num/Den with one denominator per      *)
(* table, and Levels.eval's int64(sum) is the floor of the exact sum (the  *)
(* sums are non-negative).  memory()'s ceil to a whole byte is left out:   *)
(* the capacity is kept exactly, in thousandths of a MiB.                  *)
(***************************************************************************)
EXTENDS Naturals, Sequences, TLC

CONSTANTS
    VMMemoryOverheadPermille,  \* options.VMMemoryOverheadPercent x 1000 (0.075)
    TopHigh                    \* 1 << 31, the last levels' high bound

\* A Level [low, high, base, fact]: fact is the numerator over the table's
\* denominator.
RECURSIVE LevelsSum(_, _)

\* Defect: past high a level contributes nothing instead of its full span.
LevelEvalNoClamp(l, r) ==
    IF r < l.low THEN 0
    ELSE IF r < l.high THEN (r - l.low) * l.fact + l.base
    ELSE 0

\* Level.eval times the denominator.
LevelEval(l, r) ==
    IF r < l.low THEN 0
    ELSE IF r < l.high THEN (r - l.low) * l.fact + l.base
    ELSE (l.high - l.low) * l.fact + l.base

LevelsSum(ls, r) ==
    IF ls = <<>> THEN 0 ELSE LevelEval(Head(ls), r) + LevelsSum(Tail(ls), r)

\* Levels.eval: int64 of the float sum.  tbl = [den, levels].
LevelsEval(tbl, r) == LevelsSum(tbl.levels, r) \div tbl.den

Lvl(lo, hi, base, fact, den) == [low |-> lo, high |-> hi, base |-> base * den, fact |-> fact]

(* kubeReservedResources' tables.  memLevel in MiB per GB, factors x 1024  *)
(* over 25; the CPU tables in millicores over 400.                         *)
MemLevel ==
    [den |-> 25, levels |-> <<Lvl(0, 4, 0, 6400, 25), Lvl(4, 8, 0, 5120, 25),
                             Lvl(8, 16, 0, 2560, 25), Lvl(16, 128, 0, 1536, 25),
                             Lvl(128, TopHigh, 0, 512, 25)>>]
CpuLevelNew ==
    [den |-> 400, levels |-> <<Lvl(0, 1000, 60, 0, 400), Lvl(1000, 2000, 0, 4, 400),
                              Lvl(2000, 4000, 0, 2, 400), Lvl(4000, TopHigh, 0, 1, 400)>>]
CpuLevelLegacy ==
    [den |-> 400, levels |-> <<Lvl(0, 4000, 100, 0, 400), Lvl(4000, 64000, 0, 10, 400),
                              Lvl(64000, 128000, 0, 5, 400), Lvl(128000, TopHigh, 0, 2, 400)>>]

-----------------------------------------------------------------------------
(* kdump.go.  Bounds in MiB.  The third band's high is math.MaxInt32 bytes *)
(* = 2^31 - 1: a whole number of MiB is below it iff it is below 2048 MiB. *)
MaxInt32MiB == 2048

\* Defect: the 64-128GiB band reserves 1.5GiB.
KdumpLevelsWide ==
    <<[low |-> 1800,   high |-> 65536,       reserved |-> 256],
      [low |-> 65536,  high |-> 131072,      reserved |-> 1536],
      [low |-> 131072, high |-> MaxInt32MiB, reserved |-> 768]>>

KdumpLevels ==
    <<[low |-> 1800,   high |-> 65536,       reserved |-> 256],
      [low |-> 65536,  high |-> 131072,      reserved |-> 512],
      [low |-> 131072, high |-> MaxInt32MiB, reserved |-> 768]>>

KdumpEval(k, r) == IF r < k.low \/ r >= k.high THEN 0 ELSE k.reserved

\* Kdumps.eval: the first non-zero level, else 0.
RECURSIVE KdumpsEval(_, _)
KdumpsEval(ks, r) ==
    IF ks = <<>> THEN 0
    ELSE IF KdumpEval(Head(ks), r) > 0 THEN KdumpEval(Head(ks), r)
    ELSE KdumpsEval(Tail(ks), r)

-----------------------------------------------------------------------------
(* types.go.                                                               *)

\* memory(): (m - kdump) * (1 - overhead) for m MiB, in thousandths of a MiB.
memory(m) == (m - KdumpsEval(KdumpLevels, m)) * (1000 - VMMemoryOverheadPermille)

\* pods(): 0 stands for a nil pointer (lo.FromPtr).
pods(cpu, eniip, maxPods, podsPerCore) ==
    LET count == IF maxPods > 0 THEN maxPods
                 ELSE IF eniip > 0 THEN (IF eniip < 61 THEN 61 ELSE eniip)
                 ELSE 110
    IN  IF podsPerCore > 0 /\ podsPerCore * cpu < count THEN podsPerCore * cpu ELSE count

\* eip(): one band of six cores per extra address, nine at most.
EipBands ==
    {[lo |-> 1, hi |-> 5, n |-> 1], [lo |-> 6, hi |-> 11, n |-> 2], [lo |-> 12, hi |-> 17, n |-> 3],
     [lo |-> 18, hi |-> 23, n |-> 4], [lo |-> 24, hi |-> 29, n |-> 5], [lo |-> 30, hi |-> 35, n |-> 6],
     [lo |-> 36, hi |-> 41, n |-> 7], [lo |-> 42, hi |-> 47, n |-> 8], [lo |-> 48, hi |-> TopHigh, n |-> 9]}
eip(cpu) ==
    IF \E b \in EipBands : cpu \in b.lo..b.hi
    THEN (CHOOSE b \in EipBands : cpu \in b.lo..b.hi).n
    ELSE 1

\* eni(): the zone's limits for the type, [eniip, directeni, subeni], 0 for nil.
NoLimits == [eniip |-> 0, directeni |-> 0, subeni |-> 0]
eni(t, limits) ==
    IF \E l \in limits : l.type = t
    THEN LET l == CHOOSE x \in limits : x.type = t
         IN  [eniip |-> l.eniip, directeni |-> l.directeni, subeni |-> l.subeni]
    ELSE NoLimits

(* NewInstanceType's cluster branch: a non-VPC-CNI cluster with            *)
(* MaxNodePodNum > 3 fixes maxPods; a cluster without VPC-CNI drops the    *)
(* ENI limits.  cls.property is FALSE for a Cluster whose Property is nil  *)
(* (the zero value).                                                       *)
ClusterMaxPods(cls, maxPods) ==
    IF cls.property /\ cls.networkType # "VPC-CNI" /\ cls.settings /\ cls.maxNodePodNum > 3
    THEN cls.maxNodePodNum - 3 ELSE maxPods
ClusterEniLimits(cls, limits) ==
    IF cls.property /\ cls.vpcCniType = "" /\ cls.networkType # "VPC-CNI" /\ ~cls.metaFeature
    THEN {} ELSE limits

\* Defect: the Cmp test reversed, so the larger of floor and legacy is kept.
kubeReservedMemoryMax(newer, podCount, memInGB) ==
    LET floor == 20 * podCount + 256
        legacy == LevelsEval(MemLevel, memInGB)
    IN  IF ~newer THEN legacy ELSE IF legacy > floor THEN legacy ELSE floor

\* kubeReservedResources: memory in MiB, CPU in millicores.
kubeReservedMemory(newer, podCount, memInGB) ==
    LET floor == 20 * podCount + 256
        legacy == LevelsEval(MemLevel, memInGB)
    IN  IF ~newer THEN legacy ELSE IF legacy < floor THEN legacy ELSE floor
kubeReservedCpu(newer, cpuMilli) ==
    LevelsEval(IF newer THEN CpuLevelNew ELSE CpuLevelLegacy, cpuMilli)

\* evictionThreshold with the nil evictionHard List passes: 100Mi.
EvictionMemoryMiB == 100

(* List's storageInGB: the system disk less 15GB (a 50GB disk when the    *)
(* class names none, systemDisk = 0), replaced by the size less 5GB of the *)
(* last data disk mounted on a kubelet path, and at least 0.  A data disk  *)
(* is [mount, size] with mount already path.Clean'ed: "kubelet" for one of *)
(* /var, /var/lib, /var/lib/kubelet and /var/lib/container.                *)
(* The class's disk sizes the API server admits (kubebuilder markers on   *)
(* SystemDisk.Size and DataDisk.Size): a system disk of 20..2048GB (0: the *)
(* class has none), data disks of 20..32000GB in steps of 10.  Under them  *)
(* StorageInGB is at least 5: its clamp at 0 never applies.               *)
AdmittedDisks(systemDisk, dataDisks) ==
    /\ systemDisk = 0 \/ systemDisk \in 20..2048
    /\ \A i \in DOMAIN dataDisks : /\ dataDisks[i].size \in 20..32000
                                  /\ dataDisks[i].size % 10 = 0

StorageInGB(systemDisk, dataDisks) ==
    LET sys  == IF systemDisk = 0 THEN 50 - 15 ELSE systemDisk - 15
        kube == {i \in DOMAIN dataDisks : dataDisks[i].mount = "kubelet"}
        last == CHOOSE i \in kube : \A j \in kube : j <= i
        s    == IF kube = {} THEN sys ELSE dataDisks[last].size - 5
    IN  IF s < 0 THEN 0 ELSE s

(* computeCapacity as a resource list (name -> amount; memory in          *)
(* thousandths of a MiB, ephemeral storage in MB): eip when the zone has   *)
(* ENI limits, eni-ip, direct-eni (again as eni) and sub-eni when they     *)
(* name the type (eni() returns nil pointers otherwise).                   *)
computeCapacity(q, storageInGB, maxPods, lims) ==
    LET e    == eni(q.type, lims)
        base == ("cpu" :> q.cpu * 1000) @@ ("memory" :> memory(q.memory * 1024))
                @@ ("ephemeral-storage" :> storageInGB * 1000)
                @@ ("pods" :> pods(q.cpu, e.eniip, maxPods, 0))
        eips == IF lims # {} THEN "eip" :> eip(q.cpu) ELSE <<>>
        enis == IF \E l \in lims : l.type = q.type
                THEN ("eni-ip" :> e.eniip) @@ ("direct-eni" :> e.directeni)
                     @@ ("eni" :> e.directeni) @@ ("sub-eni" :> e.subeni)
                ELSE <<>>
    IN  base @@ eips @@ enis

(* evictionThreshold with a nil evictionHard: 100Mi, and a tenth of the    *)
(* storage rounded up.                                                     *)
evictionThreshold(capacity) ==
    ("memory" :> 1000 * EvictionMemoryMiB)
    @@ ("ephemeral-storage" :> (capacity["ephemeral-storage"] + 9) \div 10)

(* NewInstanceType for quota record q = [type, cpu, memory] with List's   *)
(* arguments (no maxPods, podsPerCore or reserved overrides, so           *)
(* systemReservedResources of nil is empty): the capacity and overhead    *)
(* lists, and the pods, memory, eip and allocatable memory and CPU they   *)
(* give.                                                                   *)
NewInstanceType(q, newer, storageInGB, limits, cls) ==
    LET lims == ClusterEniLimits(cls, limits)
        cap  == computeCapacity(q, storageInGB, ClusterMaxPods(cls, 0), lims)
        kube == ("memory" :> 1000 * kubeReservedMemory(newer, cap["pods"], q.memory))
                @@ ("cpu" :> kubeReservedCpu(newer, q.cpu * 1000))
        evic == evictionThreshold(cap)
    IN  [capacity |-> cap,
         overhead |-> ("kube-reserved" :> kube) @@ ("system-reserved" :> <<>>)
                      @@ ("eviction-threshold" :> evic),
         pods     |-> cap["pods"],
         memory   |-> cap["memory"],
         eip      |-> IF "eip" \in DOMAIN cap THEN cap["eip"] ELSE 0,
         allocMem |-> cap["memory"] - kube["memory"] - evic["memory"],
         allocCpu |-> cap["cpu"] - kube["cpu"]]

-----------------------------------------------------------------------------
(* The Machine's annotations.  An annotation is keyed by <<group, name>>   *)
(* (api.CapacityGroup + api.AnnotationCPU ...); its value is the amount,   *)
(* since Quantity.String and resource.MustParse are inverse.               *)
Overheads == {"kube-reserved", "system-reserved", "eviction-threshold"}

\* A list's quantity of a resource: the zero Quantity when it lacks it.
Amount(l, n) == IF n \in DOMAIN l THEN l[n] ELSE 0

NetNames == {"eni-ip", "direct-eni", "eni", "sub-eni", "eip"}

\* Defect: kube-reserved memory replaced by the zero storage quantity too.
MachineAnnotationsNoZeroCheck(it) ==
    LET lists == ("capacity" :> it.capacity) @@ it.overhead
        keys  == {<<"capacity", n>> : n \in {"cpu", "memory", "pods", "ephemeral-storage"}}
                 \cup {<<"kube-reserved", n>> : n \in {"cpu", "memory"}}
                 \cup {<<"eviction-threshold", n>> : n \in {"memory", "ephemeral-storage"}}
                 \cup {<<"system-reserved", n>> :
                        n \in {x \in {"cpu", "memory", "ephemeral-storage"} :
                                 Amount(it.overhead["system-reserved"], x) # 0}}
                 \cup {<<"capacity", n>> : n \in NetNames \cap DOMAIN it.capacity}
        ann   == [k \in keys |-> Amount(lists[k[1]], k[2])]
    IN  [ann EXCEPT ![<<"kube-reserved", "memory">>] =
                        Amount(it.overhead["kube-reserved"], "ephemeral-storage")]

(* machine.Create's annotations of instanceTypes[0]: capacity cpu, memory, *)
(* pods and storage, kube-reserved cpu and memory and the eviction memory *)
(* and storage always (a zero Quantity for a missing entry); kube-reserved *)
(* memory overwritten by kube-reserved storage when that is nonzero;       *)
(* system-reserved entries that are nonzero; the ENI and EIP capacities    *)
(* the list has.                                                           *)
MachineAnnotations(it) ==
    LET lists == ("capacity" :> it.capacity) @@ it.overhead
        keys  == {<<"capacity", n>> : n \in {"cpu", "memory", "pods", "ephemeral-storage"}}
                 \cup {<<"kube-reserved", n>> : n \in {"cpu", "memory"}}
                 \cup {<<"eviction-threshold", n>> : n \in {"memory", "ephemeral-storage"}}
                 \cup {<<"system-reserved", n>> :
                        n \in {x \in {"cpu", "memory", "ephemeral-storage"} :
                                 Amount(it.overhead["system-reserved"], x) # 0}}
                 \cup {<<"capacity", n>> : n \in NetNames \cap DOMAIN it.capacity}
        ann   == [k \in keys |-> Amount(lists[k[1]], k[2])]
        kubeStorage == Amount(it.overhead["kube-reserved"], "ephemeral-storage")
    IN  IF kubeStorage # 0
        THEN [ann EXCEPT ![<<"kube-reserved", "memory">>] = kubeStorage]
        ELSE ann

(* resourceListFromAnnotations: the group's cpu, memory, pods, storage,    *)
(* ENI and EIP annotations that exist, parsed.                             *)
resourceListFromAnnotations(group, ann) ==
    LET names == {n \in {"cpu", "memory", "pods", "ephemeral-storage"} \cup NetNames :
                    <<group, n>> \in DOMAIN ann}
    IN  [n \in names |-> ann[<<group, n>>]]

(* resolveMachineToInstanceType: the four lists from the annotations (the  *)
(* type NewInstanceType builds from the labels keeps only its name and     *)
(* requirements); an error when the capacity has no cpu or no memory.     *)
resolveMachineToInstanceType(ann) ==
    LET capacity == resourceListFromAnnotations("capacity", ann)
    IN  IF {"cpu", "memory"} \subseteq DOMAIN capacity
        THEN [ok |-> TRUE, capacity |-> capacity,
              overhead |-> [g \in Overheads |-> resourceListFromAnnotations(g, ann)]]
        ELSE [ok |-> FALSE]

\* InstanceType.Allocatable: capacity less the sum of the overheads.
Allocatable(capacity, overhead) ==
    [n \in DOMAIN capacity |->
        capacity[n] - Amount(overhead["kube-reserved"], n)
                    - Amount(overhead["system-reserved"], n)
                    - Amount(overhead["eviction-threshold"], n)]

\* machineToNodeClaim's resourceFilter: lo.PickBy the nonzero quantities.
PickNonZero(l) == [n \in {x \in DOMAIN l : l[x] # 0} |-> l[n]]

(* machineToNodeClaim: the NodeClaim's capacity and allocatable, or        *)
(* [ok |-> FALSE] when the Machine does not resolve.                       *)
machineToNodeClaim(ann) ==
    LET t == resolveMachineToInstanceType(ann)
    IN  IF ~t.ok THEN t
        ELSE [ok |-> TRUE, capacity |-> PickNonZero(t.capacity),
              allocatable |-> PickNonZero(Allocatable(t.capacity, t.overhead))]

=============================================================================

# TLA+ models of karpenter-provider-tke

These TLA+ modules model the Tencent Cloud (TKE) provider for Karpenter:
how it builds the catalog of instance types, picks an offering, launches a
cluster-api Machine, reacts to launch failures, reads Machines back as
NodeClaims, resolves and removes its NodeClass, and collects orphaned Machines.
PROJECT.json lists every component, run, mutant, map entry, finding and
hazard. This file explains them.

## The system

| Part | Source | State | Operations |
|---|---|---|---|
| Blacklist cache | `providers/instancetype/instancetype.go` 212-274 | one go-cache: `blocked-ins-t-c-z` (30m) and `failure-ins-t-c-z` counters (1h from the last increment) | `BlockInstanceType`, `isBlocked` (8 wildcard lookups), `GetInsufficientFailureCount`, `AddInsufficientFailure`, expiry |
| Catalog | `instancetype.go` `List`, `getInstanceTypes`, `getENILimits` | `providerCache` (10m): quota, ENI limits (keyed by the hash of the subnet zones) and cluster info | list quota for the subnet zones plus the zones of existing NodeClaims; drop blocked offerings; build each type |
| Capacity | `instancetype/types.go`, `level.go`, `kdump.go` | none (pure) | capacity, pods, ENI/EIP resources, kube-reserved, eviction thresholds |
| Selection | `cloudprovider.go` `resolveInstanceTypes`; `machine.go` `Create`, `filterInstanceTypes`, `filterUnwantedSpot`, `orderInstanceTypesByPrice` | none (pure) | pick the first type by price and its cheapest compatible offering |
| Create | `cloudprovider.go` `Create`; `machine.go` `Create` | Machines | resolve the class, list types, pick, create the Machine with its labels and annotations |
| Machine provider | `machine.go` `Get`, `List`, `Delete`; `cloudprovider.go` `Get`, `List`, `Delete`, `machineToNodeClaim` | Machines | read Machines back as NodeClaims, delete by name or ProviderID |
| Failure controller | `controllers/nodeclaim/failure` | none; reads Machines, writes the cache | one pass: classify, count, block, delete |
| GC and providerid | `controllers/nodeclaim/garbagecollection`, `.../providerid` | none | collect Machines no NodeClaim owns; copy a Machine's ProviderID to its NodeClaim |
| NodeClass status | `controllers/nodeclass/status`, `providers/vpc`, `providers/sshkey`, `providers/zone` | `nodeClass.Status`, Ready | resolve the selector terms through the cloud, set Ready |
| NodeClass termination | `controllers/nodeclass/termination` | the class finalizer | wait for the class's NodeClaims, then drop the finalizer |
| Options | `operator/options`, `util/util.go` | the parsed options | environment defaults, flag parsing, `Validate` |

How the parts interact:

1. Karpenter calls `GetInstanceTypes` and then `Create` for a NodeClaim.
2. `Create` checks that the class exists, is not being deleted and is Ready.
3. `Create` lists the catalog, which skips every offering `isBlocked` reports. `machine.Create` then narrows the catalog to one offering.
4. The Machine carries the type's capacity and overheads as annotations. `CloudProvider.Get` and `List` rebuild the NodeClaim from them.
5. The cloud gives the Machine a ProviderID, or marks it failed.
6. The failure controller looks at Machines older than 30s that have no ProviderID.
   - It counts "insufficient" failures and blocks offerings that keep failing or fail for another reason.
   - It deletes the NodeClaim and then the Machine.
7. The garbage collector deletes Machines that no NodeClaim records as owned-machine.
8. The termination controller removes a deleted class once none of its NodeClaims remain.

## Modules

- **BlacklistCache.tla**: the cache as three functions over key triples `Patterns`, with `Wild` for `"*"`.
  - `blocked` holds the remaining life of a block.
  - `failCount` and `failTTL` hold a counter and its remaining life.
  - Time is counted in ticks.
- **Selection.tla / MCSelection.tla**: the selection pipeline as pure operators over a catalog, which is a set of offering records. MCSelection enumerates every catalog and request, and takes one `Select` step.
- **Launch.tla**: the labels of a launch, on top of Selection and Zone.
  - `CreateMachine` is the Machine's labels and zone that `machine.Create` derives from the launched offering. The family, cpu and memory come from the type's `computeRequirements`. The zone is a name `ZoneFromID` gives.
  - `resolveMachineRequirements` rebuilds the type's requirements from those labels (`resolveMachineToInstanceType`: Atoi, then `IDFromZone` with its error ignored).
  - `nodeClaimLabels` keeps every requirement of one value, plus the nodepool label (`machineToNodeClaim`).
  - An `ASSUME` states what `createOfferings` does: an offering's zone label is `IDFromZone` of its quota zone.
- **FailureLoop.tla / MCFailureLoop.tla**: the cache and selection composed with `CloudProvider.Create` (four outcomes) and the failure controller.
  - `FailureReconcile` is one whole `Reconcile` pass.
  - `deleteFailureMachine` deletes the NodeClaim, then the Machine. The Machine delete can fail.
  - Deleted objects stay listed until `MachineGone` (the Machine's finalizer) or `FinalizeNodeClaim` (karpenter's) removes them. The NodeClaims this controller deletes have no ProviderID, so karpenter's finalizer does not call `CloudProvider.Delete` and leaves the Machine alone, as `Lifecycle`'s `Finalize` does.
  - `GarbageCollect` is the collector deleting a Machine whose NodeClaim is gone. When a pass deletes the NodeClaim but fails to delete the Machine, every later pass gets NotFound on the NodeClaim and skips the Machine. With `GarbageCollect` disabled, TLC finds `FailedMachineRemoved` violated in 10 states; the collector is what removes such a Machine.
  - Environment actions: karpenter (`ProvisionNodeClaim`, `RemoveNode`), the cloud (`MachineRunning`, `MachineFailed`), time (`MachineAges`, `Tick`) and the subnet status (`SubnetsResolved`).
- **Capacity.tla / MCCapacity.tla**: the calculator.
  - `Levels.eval` and the kdump table are RECURSIVE operators over exact rationals.
  - `computeCapacity` returns a resource list: name to amount, memory in thousandths of a MiB, storage in MB.
  - `StorageInGB` computes the storage from the class disks.
  - `NewInstanceType` builds the capacity and overhead lists.
  - The Machine's annotations: `MachineAnnotations` (machine.go 240-283) writes them; `resourceListFromAnnotations`, `resolveMachineToInstanceType` and `machineToNodeClaim` read them back.
  - `AdmittedDisks` is the CRD's disk-size rule (tkemachinenodeclass.go 143-163).
  - MCCapacity takes `VMMemoryOverheadPermille` from `Options.tla`'s `Parse` of a deployment's environment and arguments. An `ASSUME` requires that `Parse` accepts them, as the controller exits otherwise. The overhead variable's text is one `ParseFloat` refuses, so `WithDefaultFloat64` falls back to 0.075.
  - MCCapacity enumerates quota records, version branches, cluster metadata, ENI tables and disk layouts, and takes one `Evaluate` step.
- **Catalog.tla / MCCatalog.tla**: `List` with its cache entries, expiry, refresh flush and the failure of any vendor call. A cached value is abstracted to the zones it was fetched for.
- **Lifecycle.tla**: NodeClaims and Machines.
  - `Create`: a Machine with a generated name, owned by the NodeClaim.
  - A launch is recorded (`LaunchRecorded`) or lost (`LaunchLost`). A lost launch is retried.
  - `ProviderIDReconcile` (`Items[0]` of the labelled Machines).
  - `Finalize`: karpenter's finalizer with `CloudProvider.Delete`.
  - The collector in two steps: `GCListCloud`, then `GCCollect`.
  - The machine provider: `MachineGet`, `MachineList`, `MachineDelete`.
  - `absClaim` and `absInst` map the NodeClaims and Machines onto `Instances`.
- **Instances.tla**: the abstract specification. It states what the provider promises karpenter about instances, with no Machine objects, collector passes or ProviderID copies.
  - A NodeClaim knows the instance launched for it, and tracks the one whose ProviderID it carries.
  - An instance is launched only for a live NodeClaim that knows none.
  - An instance a live NodeClaim knows is never terminated.
  - A NodeClaim is removed only after the instance it tracks is gone.
  - An instance no NodeClaim in the cluster knows is eventually terminated.
  - `Lifecycle` implements it. `ImplementsInstances` is `INSTANCE Instances WITH` the mapping, and its `Spec` is a property of the class_lifecycle run.
- **Options.tla**: the options as operators.
  - `AddFlags` gives every flag its default from an environment variable. `WithDefaultString` and `WithDefaultFloat64` are the defaults. `WithDefaultFloat64` drops `ParseFloat`'s error and keeps the default.
  - `Parse` sets the flags given on the command line. A float flag that does not parse fails it.
  - `Validate` combines both checks (multierr), so a negative overhead and a missing field are both reported.
  - A text's float value is the table `FloatText`, in thousandths. The four string options matter only as empty or not.
- **Zone.tla**: `ZoneFromIDs` and `IDFromZone` over the region table. A name is the sequence of its segments. `ZoneFromID` ranges over a Go map, so it is the set of answers the code can return.
- **NodeClass.tla**: one class with its status and termination controllers against a changing cloud.
  - `getFilterSets` (with `getSGFilterSets`, the same code over the security-group terms), `ListSubnets`, `ListSecurityGroups` and `ListKeyPairs` turn selector terms into vendor filters.
  - `StatusReconcile` resolves all three kinds and patches the status and Ready.
  - `TermList` / `TermUpdate` are the termination controller.
  - `CloudChange` retags or deletes cloud resources.
- **ClassLifecycle.tla / MCClassLifecycle.tla**: Lifecycle and NodeClass composed through `INSTANCE`.
  - The class's NodeClaims are the Lifecycle NodeClaims in the cluster.
  - Karpenter provisions only while `GetInstanceTypes` succeeds, which includes a class that is being deleted.
  - `Create` requires `ClassLaunchable`.

## Runs

| Run | Expect | What it shows |
|---|---|---|
| selection | pass | Over every catalog of 2 types x 2 zones x 2 capacity types and every request, the mixed-launch spot filter never empties the candidates, and a launch that is not mixed picks the cheapest allowed offering. The NodeClaim Create returns carries the launched offering's type, capacity type and zone ID, the CBS zone name, the cpu, memory and family, and the nodepool (`LaunchLabelsMatch`). |
| selection_mixed | violation | `filterUnwantedSpot` takes the on-demand reference price from offerings in zones the request does not allow. It drops an allowed cheap on-demand type and launches a dearer spot one. |
| failure_loop | pass | No Machine is created on an offering a live block covers (`NoLaunchOnBlocked`). A pass that first deletes an insufficient Machine whose offering already reached `TypeThreshold` blocks it (`EscalationBlocks`). Every failed Machine is eventually removed (`FailedMachineRemoved`), if need be by the garbage collector. |
| spot_zone_escalation | violation | Past the spot-zone threshold, the controller blocks only the exact offering, not ("*", spot, zone) as spec 4.4 says. |
| nil_dereference | violation | After the subnets shrink, `Create` picks a zone of an existing NodeClaim that has no subnet, and dereferences the nil results of `machine.Create`. |
| capacity | pass | Kube-reserved resources and memory capacity never shrink from one size to the next. Every type keeps positive allocatable memory and CPU. The NodeClaim rebuilt from a Machine's annotations has the capacity and allocatable of the type it was launched for (`MachineRoundTrip`). |
| capacity_kdump | violation | The last kdump band ends at MaxInt32 bytes, below its own low bound, so instances of 128GiB or more reserve no kdump memory. |
| catalog | pass | A successful `List` uses quota and ENI limits fetched for its current subnet zones, across subnet changes, expiry and a `List` that fails after storing some entries. |
| catalog_cluster_info | violation | On a cluster-info cache miss (after the 10-minute expiry, or the flush of a refreshing `List`), `List` never assigns `clsInfo`. The types are built from the zero Cluster and ignore MaxNodePodNum. The next `List` that hits the entry is correct. |
| catalog_zones | violation | The quota cache key hashes only the subnet zones. An entry stored under subnet zones S, even by a `List` that then fails, is reused after a NodeClaim launched outside S, so `List` misses that zone. |
| class_lifecycle | pass | The composed system has these properties. Every variable has its type, and the class status has the shape of `TKEMachineNodeClassStatus` (`ClassTypeOK`). No owned Machine is collected (`OwnedMachineAlive`). Orphans are eventually removed (`OrphanCollected`). A class never outlives a launched NodeClaim (`LaunchedClaimsKeepClass`). A deleting, unreferenced class is eventually removed (`ClassRemovalProgress`). A status pass that lists every kind stores exactly what the selectors select (`SelectionResolved`). Subnet zone IDs round-trip through the zone table (`ZoneIDsRoundTrip`). The NodeClaims and Machines implement `Instances` (`ImplementsInstances`). The refinement fails if `CloudProvider.Delete` answers NotFound for a Machine cluster-api is still terminating: the NodeClaim would go while its instance runs. |
| providerid_owned | violation | After a lost launch and a retried `Create`, the providerid controller can copy the ProviderID of the orphaned first Machine. The collector then deletes the instance the NodeClaim tracks. |

Each property of a passing run has a mutant in PROJECT.json: a plausible bug in
the mapped code under which TLC finds the property violated. Examples: a strict
`<` in the spot filter, a missing wildcard lookup, the counts read before the
adds, a collector without its age guard, a `"*"` tag read as a value, a zone name
always read as region-region-number, a deleting class treated as launchable, and
the kube-reserved memory annotation overwritten unconditionally.

## Bounds and why they are enough

- **Selection.** 2 types, 2 zones and 2 capacity types. Each slot is absent, sold out, or priced 1 or 2 (1..3 for the violation run, whose trace needs three price levels). This covers ties, cheaper incompatible offerings, and mixed and plain launches.
- **Failure loop.**
  - One NodeClaim, with the subnets ranging over every subset, so that liveness stays under five minutes.
  - The violation runs use two NodeClaims, so one NodeClaim's zone can outlive the subnets.
  - The thresholds are scaled to 1 (2 for the type threshold in the spot-zone run). Counters saturate above both thresholds; every decision is `count > threshold`, so saturation changes none.
  - Cache entries live 1 tick.
- **Capacity.**
  - Core counts and memory sizes just below and at every band edge (up to 129 cores and 128GB).
  - Both version branches, every cluster shape, and ENI tables absent, small and large.
  - Disks are the ones the API server admits (`AdmittedDisks`, from the kubebuilder markers on `SystemDisk.Size` and `DataDisk.Size`). System disks: none and the smallest admitted one (20GB). Data-disk layouts: none, a kubelet disk, a kubelet disk followed by another, and two kubelet disks (the last one counts). Under admission `StorageInGB` is at least 5GB, so its clamp at 0 is unreachable and is not exercised.
  - About 2M states.
- **Catalog.** Two zones, an ENI table in one of them, and a GR cluster with 64 pods per node. Every vendor call can fail.
- **Class lifecycle.**
  - One NodeClaim and one Machine.
  - Three subnets in two regions, one of them a four-segment `fsi` zone, and one outside the VPC.
  - Two security groups, one key, ID and tag terms including `"*"`, and one cloud change.
  - 41k states. With a second Machine an earlier version of the run took over 30 minutes. `providerid_owned` uses two Machines on Lifecycle alone.
- **Launch labels.** The selection run's zones are the IDs 100003 (`ap-guangzhou-3`) and 110001 (`ap-shenzhen-fsi-1`, a three-segment region). The two types differ in cpu (2, 4), memory (4, 8) and family, so a swapped or stale label would show.
- **Admission.** `ClassLifecycle` assumes the class's selector terms pass `AdmittedTerms` (non-empty, within MaxItems, an id or tags on every term, not all with both, no empty tag key or value). TLC checks the assumption before it explores.
- **Zones.** Zone numbers up to 9. An ad hoc check over the whole region table with these numbers found no two regions whose ranges overlap.

## Fairness

Only what the code's scheduling justifies is assumed:

- The failure controller, the collector and the termination controller are singletons or requeued controllers (10s to 1min; 10m and on every NodeClaim deletion). This gives WF on their passes.
- Time passes: `MachineAges` and the cache clock.
- Finalizers of deleted objects run to completion: cluster-api's for a Machine, and karpenter's for a NodeClaim.
- In FailureLoop the garbage collector is weakly fair. Karpenter's finalizer of a failed NodeClaim removes only the finalizer: the NodeClaim has no ProviderID, so `CloudProvider.Delete` is not called. The Machine is then removed only by the collector, once it has aged. The failure controller's retried Machine delete is not assumed to succeed eventually (`deleteFails` may recur), so `FailedMachineRemoved` rests on the collector.
- In Instances (the abstract side of the `ImplementsInstances` refinement), termination of an orphan instance and completion of a termination are weakly fair. On the Lifecycle side these map to the collector's pass and the cloud's termination.
- Karpenter's provisioning, the cloud's outcomes, subnet changes and cloud changes are not assumed fair.

## Findings

See `findings` in PROJECT.json: two spec divergences in the failure controller
and the spot filter, a nil dereference in `Create`, the empty kdump band, the
unassigned cluster info, a quota cache key that omits the NodeClaim zones, and
the providerid controller's `Items[0]`.

Observed but unreachable: `machine.Create` (machine.go 255-257) overwrites the
kube-reserved memory annotation with kube-reserved ephemeral storage when that
is nonzero. `List` never passes a kubeReserved override, so the entry is always
absent. `MachineAnnotations` keeps the branch.

## Not modelled

- **Catalog requests and responses.** The request filters and response parsing in `getInstanceTypes` are only their outcomes: `FetchOutcomes` makes any of their error returns fail `List`.
- **Overrides.** The kubeReserved, systemReserved and evictionHard overrides. `List` passes nil, so `mustParsePercentage` and `computeEvictionSignal` are unreachable.
- **The Machine spec.** Disks, internet access, kubelet args and scripts are copied fields with no behaviour.
- **Staging defaults.** The staging package's `defaults.go` is never registered (the package has no `RegisterDefaults`), so it is dead code here.
- **Operator wiring.** `operator.go` only constructs clients, caches and providers. `ToContext` and `FromContext` carry the options. Options.tla models `Validate`. It refuses only a negative overhead, so a fraction of 1 or more passes and makes every memory capacity zero or negative (hazard at options_validation.go:48). It is listed as a hazard without a run. The capacity run uses the options of a valid deployment.
- **API and staging types.** They are declarations. Their validation rules are modelled as `AdmittedTerms`, `AdmittedTerm` and `AdmittedDisks`, except for the id patterns, because ids are model values. Scheme registration is not modelled.
- **Go semantics.** The models assume Go 1.22 or later, with a new loop variable per iteration. Karpenter v1 requires it. Under older semantics every entry of `machine.List` (machine.go:100) would alias the last Machine listed.

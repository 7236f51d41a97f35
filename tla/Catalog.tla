------------------------------ MODULE Catalog ------------------------------
(***************************************************************************)
(* The instance-type provider's List (pkg/providers/instancetype/          *)
(* instancetype.go) with its providerCache: the on-demand and spot quota,  *)
(* the ENI limits and the cluster info, each cached for 10m by SetDefault  *)
(* under a key built from the hash of the subnet zones ("cluster-info"     *)
(* has one key).  A cached quota value is abstracted to the set of zones   *)
(* it was fetched for; the ENI limits to the zones they were fetched for;  *)
(* the cluster info to "present".  The pods of the one instance type the   *)
(* model follows are computed by Capacity.tla from what List hands to      *)
(* NewInstanceType.                                                        *)
(***************************************************************************)
EXTENDS Capacity

CONSTANTS
    Zones,        \* zone names
    Cluster,      \* the cluster's DescribeClusters record (Capacity's shape)
    EniLimit,     \* EniLimit[z]: the zone's DescribeVpcCniPodLimits table
    TypeZone,     \* the zone of the quota item List builds the type from
    TypeCpu,      \* its cores
    Absent        \* no (live) cache entry

ASSUME TypeZone \in Zones

VARIABLES
    subnetZones,  \* zones of nodeClass.Status.Subnets
    claimZones,   \* zones of the class's NodeClaims (existedZones)
    odCache,      \* odCache[k]: zones of "instance-types-od-<hash k>", or Absent
    spotCache,    \* the same for "instance-types-spot-<hash k>"
    eniCache,     \* the same for "eni-limits-spot-<hash k>"
    clsCached,    \* "cluster-info" is in the cache
    result        \* what List returned, in the step right after it

catVars == <<subnetZones, claimZones, odCache, spotCache, eniCache, clsCached, result>>

Keys == SUBSET Zones

\* The quota item of the followed type, and its pods as NewInstanceType
\* computes them (the storage of a class without disks).
TypeQuota == [type |-> "t", cpu |-> TypeCpu, memory |-> 8]
PodsOf(lims, cls) == NewInstanceType(TypeQuota, TRUE, 35, lims, cls).pods

\* The zero tke2018.Cluster: Property is nil.
ZeroCluster ==
    [property |-> FALSE, networkType |-> "", vpcCniType |-> "", metaFeature |-> FALSE,
     settings |-> FALSE, maxNodePodNum |-> 0]

NoResult == [ok |-> FALSE, err |-> FALSE]
Failed == [ok |-> FALSE, err |-> TRUE]

\* The vendor calls a List may fail at, in the order it makes them.
Steps == <<"version", "od", "spot", "eni", "cls">>
StepNo(s) == CHOOSE i \in DOMAIN Steps : Steps[i] = s
None == "none"

CatalogInit ==
    /\ subnetZones \in SUBSET Zones
    /\ claimZones = {}
    /\ odCache = [k \in Keys |-> Absent]
    /\ spotCache = [k \in Keys |-> Absent]
    /\ eniCache = [k \in Keys |-> Absent]
    /\ clsCached = FALSE
    /\ result = NoResult

\* Defect: the key does not depend on the subnets.
CacheKeyFixed(subnets) == {}

(* The key suffix: hashstructure of the subnet-zone set (SlicesAsSets).    *)
CacheKey(subnets) == subnets

\* Defect: refresh leaves the cache as it is.
FlushCacheNever(c, refresh) == c

(* "if refresh { providerCache.Flush() }".                                 *)
FlushCache(c, refresh) == IF refresh THEN [k \in DOMAIN c |-> Absent] ELSE c

(* getInstanceTypes' zone filter: the subnet zones, then the zones of the  *)
(* class's NodeClaims that are not subnet zones.                           *)
QueryZones(subnets, claims) == subnets \cup claims

(* The zones getENILimits asks DescribeVpcCniPodLimits for: each zone of  *)
(* the class's subnets, once.                                              *)
getENILimits(subnets) == subnets

(* The outcomes of List's vendor calls: none fails, the version fails     *)
(* (ServerVersion, or semver.Make of the normalised GitVersion), or one of *)
(* the fetches made fails: in getInstanceTypes the NodeClaim List,         *)
(* SetActionParameters, Send, the HTTP error, either Unmarshal or an       *)
(* invalid response; in getENILimits DescribeVpcCniPodLimits; for the      *)
(* cluster info DescribeClusters.  The later calls are not made.           *)
FetchOutcomes(fetches) == {None, "version"} \cup fetches

(* List(ctx, nodeClass, refresh), the whole call.  fail is the vendor call *)
(* that returns an error, or None; a call that hits the cache makes no     *)
(* request.  Every fetch that succeeded before the failing one has been    *)
(* stored with SetDefault; a failure returns an error and no catalog.      *)
List(refresh) ==
    LET od0   == FlushCache(odCache, refresh)
        spot0 == FlushCache(spotCache, refresh)
        eni0  == FlushCache(eniCache, refresh)
        cls0  == clsCached /\ ~refresh
        key   == CacheKey(subnetZones)
        zs    == QueryZones(subnetZones, claimZones)
        miss  == [s \in {"od", "spot", "eni", "cls"} |->
                    CASE s = "od" -> od0[key] = Absent
                      [] s = "spot" -> spot0[key] = Absent
                      [] s = "eni" -> eni0[key] = Absent
                      [] s = "cls" -> ~cls0]
        Fetches == IF subnetZones = {} THEN {} ELSE {s \in DOMAIN miss : miss[s]}
    IN  \E fail \in FetchOutcomes(Fetches) :
          LET Done(s) == s \in Fetches /\ (fail = None \/ StepNo(s) < StepNo(fail))
              odZ   == IF miss["od"] THEN zs ELSE od0[key]
              spotZ == IF miss["spot"] THEN zs ELSE spot0[key]
              eniZ  == IF miss["eni"] THEN getENILimits(subnetZones) ELSE eni0[key]
              \* clsInfo is assigned only on a cache hit (lines 144-158).
              cls   == IF cls0 THEN Cluster ELSE ZeroCluster
              lims  == IF TypeZone \in eniZ THEN EniLimit[TypeZone] ELSE {}
          IN  /\ odCache' = IF Done("od") THEN [od0 EXCEPT ![key] = zs] ELSE od0
              /\ spotCache' = IF Done("spot") THEN [spot0 EXCEPT ![key] = zs] ELSE spot0
              /\ eniCache' = IF Done("eni") THEN [eni0 EXCEPT ![key] = getENILimits(subnetZones)] ELSE eni0
              /\ clsCached' = (cls0 \/ Done("cls"))
              /\ result' =
                   IF fail # None \/ subnetZones = {} THEN Failed
                   ELSE [ok |-> TRUE, refresh |-> refresh, subnets |-> subnetZones, inUse |-> zs,
                         listed |-> TypeZone \in odZ \cup spotZ, od |-> odZ, spot |-> spotZ, eni |-> eniZ,
                         lims |-> lims, pods |-> PodsOf(lims, cls)]
              /\ UNCHANGED <<subnetZones, claimZones>>

-----------------------------------------------------------------------------
(* The environment.                                                        *)

\* The nodeclass status controller re-resolves the subnets.
SubnetsResolved ==
    /\ \E s \in SUBSET Zones \ {subnetZones} : subnetZones' = s
    /\ result' = NoResult
    /\ UNCHANGED <<claimZones, odCache, spotCache, eniCache, clsCached>>

\* Karpenter launches a NodeClaim of the class in a subnet zone ...
ClaimLaunched ==
    /\ \E z \in subnetZones \ claimZones : claimZones' = claimZones \cup {z}
    /\ result' = NoResult
    /\ UNCHANGED <<subnetZones, odCache, spotCache, eniCache, clsCached>>

\* ... and deletes one.
ClaimRemoved ==
    /\ \E z \in claimZones : claimZones' = claimZones \ {z}
    /\ result' = NoResult
    /\ UNCHANGED <<subnetZones, odCache, spotCache, eniCache, clsCached>>

(* A providerCache entry reaches its 10m expiry (cache.New(10m, 1m)).      *)
Expire ==
    /\ \/ \E k \in Keys :
            \/ /\ odCache[k] # Absent
               /\ odCache' = [odCache EXCEPT ![k] = Absent]
               /\ UNCHANGED <<spotCache, eniCache, clsCached>>
            \/ /\ spotCache[k] # Absent
               /\ spotCache' = [spotCache EXCEPT ![k] = Absent]
               /\ UNCHANGED <<odCache, eniCache, clsCached>>
            \/ /\ eniCache[k] # Absent
               /\ eniCache' = [eniCache EXCEPT ![k] = Absent]
               /\ UNCHANGED <<odCache, spotCache, clsCached>>
       \/ /\ clsCached
          /\ clsCached' = FALSE
          /\ UNCHANGED <<odCache, spotCache, eniCache>>
    /\ result' = NoResult
    /\ UNCHANGED <<subnetZones, claimZones>>

(* Karpenter lists without refresh (GetInstanceTypes, resolveInstanceTypes *)
(* in Create); the failure controller lists with refresh after it counts   *)
(* an insufficient-capacity failure.                                       *)
CatalogNext ==
    \/ \E refresh \in BOOLEAN : List(refresh)
    \/ SubnetsResolved
    \/ ClaimLaunched
    \/ ClaimRemoved
    \/ Expire

CatalogSpec == CatalogInit /\ [][CatalogNext]_catVars

-----------------------------------------------------------------------------
CatalogTypeOK ==
    /\ subnetZones \subseteq Zones /\ claimZones \subseteq Zones
    /\ \A c \in {odCache, spotCache, eniCache} : c \in [Keys -> (SUBSET Zones) \cup {Absent}]
    /\ clsCached \in BOOLEAN

(* A successful List builds the catalog from quota and ENI limits fetched  *)
(* for (at least) the current subnet zones, whatever the cache held: an    *)
(* entry filled for other subnets is never read after they change.         *)
SubnetZonesCovered ==
    result.ok => result.subnets \subseteq result.od \cap result.spot \cap result.eni

(* Spec 4.5: the quota is "for the zones currently in use", subnet zones   *)
(* and the zones of the class's NodeClaims, so that shrinking the subnets  *)
(* does not orphan capacity lookups.                                       *)
CatalogCoversZonesInUse ==
    result.ok => result.inUse \subseteq result.od \cap result.spot

(* The pods capacity of a listed type is the one the cluster's network     *)
(* settings give it (NewInstanceType's cluster branch), on every List.     *)
ClusterPodsHonoured ==
    result.ok /\ result.listed => result.pods = PodsOf(result.lims, Cluster)

=============================================================================

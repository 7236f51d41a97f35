---------------------------- MODULE MCSelection ----------------------------
(***************************************************************************)
(* Checks the launch-time selection of Selection.tla over every catalog of *)
(* two instance types, two zones and both capacity types, each offering    *)
(* absent, sold out, or sellable at one of a few prices, and every request.   *)
(* One step runs machine.Create's selection; then the run stops.           *)
(***************************************************************************)
EXTENDS Launch

CONSTANTS TypeNames, ZoneNames, Prices

\* Two types of different sizes and families; a zone of a two-segment and
\* one of a three-segment region.
MCTypeQuota == [t \in TypeNames |-> [cpu |-> 2 * t, memory |-> 4 * t,
                                     family |-> IF t = 1 THEN "S5" ELSE "SA2"]]
MCQuotaZone == (100003 :> <<"ap", "guangzhou", "3">>) @@ (110001 :> <<"ap", "shenzhen", "fsi", "1">>)
NodePool == "default"

VARIABLES cat, req, launched, done

vars == <<cat, req, launched, done>>

Caps == {Spot, OnDemand}
Slots == TypeNames \X Caps \X ZoneNames

\* A slot's quota record: 0 absent, SoldOut not sellable, else sellable at
\* that price.
SoldOut == 1 + CHOOSE p \in Prices : \A q \in Prices : q <= p
SlotValues == {0, SoldOut} \cup Prices

CatalogOf(f) ==
    {[type |-> s[1], cap |-> s[2], zone |-> s[3],
      price |-> IF f[s] = SoldOut THEN SoldOut - 1 ELSE f[s],
      available |-> f[s] \in Prices] : s \in {x \in Slots : f[x] # 0}}

Requests == [caps : SUBSET Caps \ {{}}, zones : SUBSET ZoneNames \ {{}}]

Init ==
    /\ \E f \in [Slots -> SlotValues] : cat = CatalogOf(f)
    /\ req \in Requests
    /\ launched = {}
    /\ done = FALSE

\* machine.Create's selection, run once for (cat, req).
Select ==
    /\ ~done
    /\ launched' = LaunchChoices(cat, req)
    /\ done' = TRUE
    /\ UNCHANGED <<cat, req>>

Next == Select

Spec == Init /\ [][Next]_vars

TypeOK ==
    /\ req \in Requests
    /\ launched \subseteq cat
    /\ done \in BOOLEAN

(* machine.Create indexes instanceTypes[0] after the spot filter: when     *)
(* resolveInstanceTypes found a candidate, filterInstanceTypes must leave  *)
(* at least one, or the launch panics with an index out of range.          *)
FilterKeepsACandidate ==
    LET its == resolveInstanceTypes(cat, req)
    IN  its # {} => filterInstanceTypes(cat, req, its) # {}

(* When the launch is not a mixed spot/on-demand one, the offering         *)
(* launched is the cheapest available offering of the whole catalog that  *)
(* the request allows (orderInstanceTypesByPrice + Cheapest()).            *)
CheapestWhenNotMixed ==
    LET its == resolveInstanceTypes(cat, req)
        allowed == Compatible(Available(cat), req)
    IN  (done /\ ~isMixedCapacityLaunch(cat, req, its)) =>
            /\ launched # {} <=> allowed # {}
            /\ \A o \in launched : o.price = MinPrice(allowed)

(* Spec 4.6 step 1: in a mixed launch spot is kept "only when not pricier  *)
(* than on-demand": the launched offering costs no more than the cheapest  *)
(* available on-demand offering the request allows.                        *)
MixedLaunchNotPricierThanOnDemand ==
    LET its == resolveInstanceTypes(cat, req)
        od == {o \in Compatible(Available(cat), req) : o.cap = OnDemand}
    IN  (done /\ isMixedCapacityLaunch(cat, req, its)) =>
            \A o \in launched : o.price <= MinPrice(od)

(* CloudProvider.Create returns machineToNodeClaim of the Machine that     *)
(* machine.Create made for the launch.  That NodeClaim carries the labels  *)
(* of the offering launched: its type, capacity type and zone ID, the zone *)
(* name of its quota item as the CBS zone, the type's cpu, memory and      *)
(* family, and the NodeClaim's nodepool.  On the way they pass through the *)
(* Machine's labels, Sprint and Atoi, and ZoneFromID then IDFromZone.      *)
LaunchLabelsMatch ==
    \A o \in launched :
        LET q        == TypeQuota[o.type]
            expected ==
                (NodePoolKey :> NodePool) @@ (InstanceTypeKey :> o.type)
                @@ (ArchKey :> "amd64") @@ (OSKey :> "linux")
                @@ (ZoneKey :> o.zone) @@ (LabelCBSToplogy :> QuotaZone[o.zone])
                @@ (CapacityTypeKey :> o.cap) @@ (LabelInstanceFamily :> q.family)
                @@ (LabelInstanceCPU :> ToString(q.cpu))
                @@ (LabelInstanceMemoryGB :> ToString(q.memory))
        IN  /\ CreateMachine(cat, o, NodePool) # {}
            /\ \A m \in CreateMachine(cat, o, NodePool) :
                   resolveMachineRequirements(m).ok /\ CreatedLabels(m) = expected

=============================================================================

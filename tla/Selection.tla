----------------------------- MODULE Selection -----------------------------
(***************************************************************************)
(* Launch-time narrowing of the instance-type catalog to one offering:     *)
(*   CloudProvider.resolveInstanceTypes (pkg/cloudprovider)                *)
(*   machine.DefaultProvider.Create, filterInstanceTypes,                  *)
(*   isMixedCapacityLaunch, filterUnwantedSpot, orderInstanceTypesByPrice  *)
(*   (pkg/providers/machine/machine.go).                                   *)
(* A catalog is a set of offerings [type, cap, zone, price, available]; an *)
(* instance type is its name together with the offerings of that name.    *)
(* Type names are natural numbers so that the name tie-break of the price *)
(* sort (a string comparison in the code) is a total order.  A scheduling *)
(* request is [caps, zones]: the capacity types and zones its             *)
(* requirements allow; it carries no minValues, so the price filter runs.  *)
(***************************************************************************)
EXTENDS Naturals, FiniteSets

CONSTANTS
    Spot,        \* "spot"
    OnDemand,    \* "on-demand"
    NoPrice      \* math.MaxFloat64: the price of "no offering"

Offers(cat, t) == {o \in cat : o.type = t}
TypesOf(cat) == {o.type : o \in cat}
Available(os) == {o \in os : o.available}
Compatible(os, req) == {o \in os : o.cap \in req.caps /\ o.zone \in req.zones}

\* The lowest price in a set of offerings, NoPrice for none.
MinPrice(os) ==
    IF os = {} THEN NoPrice
    ELSE CHOOSE p \in {o.price : o \in os} : \A o \in os : p <= o.price

\* Offerings.Cheapest(): the offerings attaining the lowest price (the code
\* takes the first of them in vendor order, which the model leaves open).
Cheapest(os) == {o \in os : o.price = MinPrice(os)}

(* resolveInstanceTypes: the types whose requirements are compatible with  *)
(* the request and that have an available compatible offering.  Their      *)
(* requirements list exactly the zones and capacity types of their         *)
(* available offerings, so the second condition implies the first.        *)
(* resources.Fits(requests, allocatable) is not modelled.                  *)
resolveInstanceTypes(cat, req) ==
    {t \in TypesOf(cat) : Compatible(Available(Offers(cat, t)), req) # {}}

isMixedCapacityLaunch(cat, req, its) ==
    LET os == Compatible(Available({o \in cat : o.type \in its}), req)
    IN  /\ Spot \in req.caps
        /\ OnDemand \in req.caps
        /\ \E o \in os : o.cap = Spot
        /\ \E o \in os : o.cap # Spot

(* filterUnwantedSpot: cheapestOnDemand is taken over every available      *)
(* on-demand offering of the candidates, and a type is kept when its       *)
(* cheapest available offering (any zone, any capacity) is not dearer.     *)
\* Defect: a type is kept only when strictly cheaper than on-demand.
filterUnwantedSpotStrict(cat, its) ==
    LET cheapestOnDemand ==
            MinPrice({o \in Available({x \in cat : x.type \in its}) : o.cap = OnDemand})
    IN  {t \in its : /\ Available(Offers(cat, t)) # {}
                     /\ MinPrice(Available(Offers(cat, t))) < cheapestOnDemand}

filterUnwantedSpot(cat, its) ==
    LET cheapestOnDemand ==
            MinPrice({o \in Available({x \in cat : x.type \in its}) : o.cap = OnDemand})
    IN  {t \in its : /\ Available(Offers(cat, t)) # {}
                     /\ MinPrice(Available(Offers(cat, t))) <= cheapestOnDemand}

\* filterExoticInstanceTypes returns its input unchanged.
filterExoticInstanceTypes(its) == its

filterInstanceTypes(cat, req, its) ==
    LET generic == filterExoticInstanceTypes(its)
    IN  IF isMixedCapacityLaunch(cat, req, generic)
        THEN filterUnwantedSpot(cat, generic)
        ELSE generic

\* Defect: the sort key ignores the request's compatibility.
LaunchPriceAnyOffering(cat, req, t) == MinPrice(Available(Offers(cat, t)))

\* The sort key of orderInstanceTypesByPrice for type t.
LaunchPrice(cat, req, t) == MinPrice(Compatible(Available(Offers(cat, t)), req))

(* orderInstanceTypesByPrice followed by instanceTypes[0]: the type with   *)
(* the lowest LaunchPrice, ties to the lower name.  (Truncate to 60 types  *)
(* keeps the cheapest 60; with fewer candidates it is the identity.)       *)
orderInstanceTypesByPrice(cat, req, its) ==
    CHOOSE t \in its :
        \A u \in its \ {t} :
            \/ LaunchPrice(cat, req, t) < LaunchPrice(cat, req, u)
            \/ LaunchPrice(cat, req, t) = LaunchPrice(cat, req, u) /\ t < u

(* The offerings machine.Create may launch for a request: the cheapest     *)
(* available compatible offerings of the first type after filtering and    *)
(* ordering.  Empty when resolveInstanceTypes leaves nothing (Create then  *)
(* returns an InsufficientCapacityError before reaching the provider).     *)
LaunchChoices(cat, req) ==
    LET its == resolveInstanceTypes(cat, req)
        kept == filterInstanceTypes(cat, req, its)
    IN  IF its = {} \/ kept = {} THEN {}
        ELSE Cheapest(Compatible(Available(
                 Offers(cat, orderInstanceTypesByPrice(cat, req, kept))), req))

=============================================================================

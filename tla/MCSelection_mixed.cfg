CONSTANTS
    Spot = "spot"
    OnDemand = "on-demand"
    NoPrice = 1000
    TypeNames = {1, 2}
    ZoneNames = {100003, 110001}
    TypeQuota <- MCTypeQuota
    QuotaZone <- MCQuotaZone
    NoZoneID = NoZoneID
    MaxZoneNumber = 9
    Prices = {1, 2, 3}
SPECIFICATION Spec
CHECK_DEADLOCK FALSE
INVARIANTS
    MixedLaunchNotPricierThanOnDemand

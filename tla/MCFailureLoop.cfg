CONSTANTS
    Types = {1, 2}
    Caps = {"spot", "on-demand"}
    Zones = {"z1", "z2"}
    Spot = "spot"
    OnDemand = "on-demand"
    Wild = Wild
    NoPrice = 1000
    NoMachine = NoMachine
    NoNodeClaim = NoNodeClaim
    NodeClaims = {n1}
    SubnetChoices = {{}, {"z1"}, {"z2"}, {"z1", "z2"}}
    Quota <- MCQuota
    Requests <- MCRequests
    BlockTTL = 1
    FailureTTL = 1
    TypeThreshold = 1
    SpotZoneThreshold = 1
    MaxCount = 2

SPECIFICATION Spec

INVARIANTS
    TypeOK

PROPERTIES
    NoLaunchOnBlocked
    EscalationBlocks
    FailedMachineRemoved

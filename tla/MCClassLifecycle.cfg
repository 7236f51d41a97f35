CONSTANTS
    NodeClaims = {n1}
    MachineIds = {m1}
    None = None
    s1 = s1  s2 = s2  s3 = s3  g1 = g1  g2 = g2  k1 = k1
    SubnetIds <- MCSubnetIds
    SgIds <- MCSgIds
    KeyIds <- MCKeyIds
    VpcSubnets <- MCVpcSubnets
    SubnetZone <- MCSubnetZone
    SubnetTerms <- MCSubnetTerms
    SgTerms <- MCSgTerms
    KeyTerms <- MCKeyTerms
    InitTags <- MCInitTags
    TagKeys = {"env"}
    TagVals = {"a", "b"}
    NoTag = NoTag
    Star = Star
    NoID = NoID
    NoZoneID = NoZoneID
    MaxZoneNumber = 9
    MaxCloudChanges = 1
SPECIFICATION Spec
INVARIANTS
    ClassTypeOK
    OwnedMachineAlive
    ZoneIDsRoundTrip
    LaunchedClaimsKeepClass
PROPERTIES
    SelectionResolved
    OrphanCollected
    ImplementsInstances
    ClassRemovalProgress

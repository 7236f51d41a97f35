CONSTANTS
    VMMemoryOverheadPermille = 75
    TopHigh = 1073741824
    Zones = {"z1", "z2"}
    Cluster <- MCCluster
    EniLimit <- MCEniLimit
    TypeZone = "z2"
    TypeCpu = 4
    Absent = Absent
SPECIFICATION CatalogSpec
INVARIANTS
    SubnetZonesCovered

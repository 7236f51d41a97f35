CONSTANTS
    VMMemoryOverheadPermille <- MCOverhead
    NoEnv = NoEnv
    FloatText <- MCFloatText
    TopHigh = 1073741824
    MemGB = {1, 8, 64, 127, 128, 256}
    Cores = {1, 2, 4, 5, 6, 8, 48, 64, 65, 128, 129}
    EniIPs = {20, 100}
    MaxNodePods = {0, 3, 4, 64, 256}
    SystemDisks = {0}
SPECIFICATION Spec
CHECK_DEADLOCK FALSE
INVARIANT
    KdumpCoversLargeInstances

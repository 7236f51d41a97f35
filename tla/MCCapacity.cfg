CONSTANTS
    VMMemoryOverheadPermille <- MCOverhead
    NoEnv = NoEnv
    FloatText <- MCFloatText
    TopHigh = 1073741824
    MemGB = {1, 2, 3, 4, 5, 7, 8, 9, 15, 16, 17, 32, 63, 64, 65, 127, 128}
    Cores = {1, 2, 3, 4, 5, 6, 8, 48, 63, 64, 65, 127, 128, 129}
    EniIPs = {20, 100}
    MaxNodePods = {0, 3, 4, 64, 256}
    SystemDisks = {0, 20}
SPECIFICATION Spec
CHECK_DEADLOCK FALSE
INVARIANTS
    ReservationMonotone
    MemoryCapacityMonotone
    AllocatablePositive
    MachineRoundTrip

CONSTANTS
    NodeClaims = {n1}
    MachineIds = {m1, m2}
    None = None
SPECIFICATION Spec
INVARIANT
    ProviderIDIsOwnedMachine

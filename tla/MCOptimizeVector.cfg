\* Every vector of up to four of the seven networks, optimized and added to.
SPECIFICATION Spec
CONSTANTS
    Bits = 4
    MaxIp = 15
    FirstV4 = 8
    LastV4 = 11
    V4Bits = 2
    Networks <- MCNetworks
    MaxNetworks = 4
INVARIANTS
    TypeOK
    OnlyIncludedRemoved
    NoneIncludedInLater
    NoneIncludedWhenLargestFirst
PROPERTIES
    OptimizeReturns

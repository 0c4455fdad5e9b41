\* Every vector of up to two ranges of the eight addresses.
SPECIFICATION Spec
CONSTANTS
    Bits = 3
    MaxIp = 7
    FirstV4 = 2
    LastV4 = 3
    V4Bits = 1
    SizeMax = 5
    InputAddrs <- MCInputAddrs
    Offsets <- MCOffsets
    Limits = {0, 2, 5}
    MaxRanges = 2
    MaxResult = 7
INVARIANTS
    TypeOK
    AddressesExact
    AlgebraRight

\* Every input of up to three of the eleven entries, every set of flags.
SPECIFICATION Spec
CONSTANTS
    Bits = 4
    MaxIp = 15
    FirstV4 = 8
    LastV4 = 11
    V4Bits = 2
    Entries <- MCEntries
    MaxEntries = 3
INVARIANTS
    TypeOK
    CoverageKept
    MergedApart
    Ordered
    OrderKept
PROPERTIES
    ParseReturns

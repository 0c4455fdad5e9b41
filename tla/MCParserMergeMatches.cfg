\* Two entries are enough: a network and a range which touches it.
SPECIFICATION Spec
CONSTANTS
    Bits = 4
    MaxIp = 15
    FirstV4 = 8
    LastV4 = 11
    V4Bits = 2
    Entries <- MCEntries
    MaxEntries = 2
INVARIANTS
    MatchesKept

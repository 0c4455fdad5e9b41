\* Every sequence of operations on three streams.
SPECIFICATION Spec
CONSTANTS
    Streams = {s1, s2, s3}
    Modes = {"all", "address"}
    Seps = {",", "newline"}
    Default <- MCDefault
    Infos = {i1, i2, i3, i4}
    NoInfo = NoInfo
    Freed = Freed
INVARIANTS
    TypeOK
    OwnedOnce
PROPERTIES
    ImplementsStreamFlags

\* Every sequence of calls on one address, one socket.
SPECIFICATION Spec
CONSTANTS
    PathSize = 5
    Bytes <- MCBytes
    Controls <- MCControls
    Schemes <- MCSchemes
    LetterSchemes <- MCLetterSchemes
    Paths <- MCPaths
    Structures <- MCStructures
    KernelNames <- MCKernelNames
    MaxFiles = 1
INVARIANTS
    TypeOK
    NoStaleBytes
    RoundTrips
PROPERTIES
    ThrowsWithoutChange
    UnlinksOwnFile

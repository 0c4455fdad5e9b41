\* Three threads, of which one has an address of its own.
SPECIFICATION Spec
CONSTANTS
    Threads = {t1, t2, t3}
    Owners = {t1}
    Shared = Shared
    None = None
    Ips <- MCIps
    HostMasks <- MCHostMasks
INVARIANTS
    TypeOK
    SharedIsRightWhenQuiet
    WrongOnlyAsUnknown
    OwnAnswerRight
PROPERTIES
    SharedSettles

\* One thread and an address of its own are enough: it moves to the next IP.
SPECIFICATION Spec
CONSTANTS
    Threads = {t1}
    Owners = {t1}
    Shared = Shared
    None = None
    Ips <- MCIps
    HostMasks <- MCHostMasks
INVARIANTS
    AnswerIsRight

\* Every search while the network has any of four configurations.
SPECIFICATION SearchSpec
CONSTANTS
    Bits = 5
    MaxIp = 31
    FirstV4 = 8
    LastV4 = 15
    V4Bits = 3
    Configs <- MCConfigs
    Asked <- MCAsked
    NoPointer = NoPointer
INVARIANTS
    SearchTypeOK
    AnswerRight

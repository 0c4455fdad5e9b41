\* Every sequence of up to three setters, or of at most two options of a
\* validator; nineteen texts.
SPECIFICATION SessionSpec
CONSTANTS
    Bits = 4
    MaxIp = 15
    FirstV4 = 8
    LastV4 = 11
    V4Bits = 2
    MaxPort = 7
    Literal <- MCLiteral
    Number <- MCNumber
    V6Words <- MCV6Words
    DottedWords <- MCDottedWords
    Texts <- MCTexts
    AddressTexts <- MCAddressTexts
    MaskTexts <- MCMaskTexts
    PortNumbers <- MCPortNumbers
    OptionLists <- MCOptionLists
    Resolvers <- MCResolvers
    Services <- MCServices
    PrintModes <- MCPrintModes
    MaxSetters = 3
    MaxErrors = 0
INVARIANTS
    SessionTypeOK
    EntriesSettled
    PortPolicy
    Ipv4MaskFits
    VerdictFresh
    SingleAddress
    PrintedReadsBack

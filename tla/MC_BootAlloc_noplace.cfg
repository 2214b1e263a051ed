CONSTANTS
    W = 8
    FreememLen = 3
    SlotBits = 0
    RootCNodeSizeBits = 5
    TCBBits = 1
    PageBits = 2
    BIFrameBits = 2
    ASIDPoolBits = 2
    VSpaceBits = 2
    PageTableBits = 2
    Points <- MC_Points
    ExtraChoices <- MC_ExtraChoices
    NPagingChoices <- MC_NPagingChoices
    OverflowChecks = FALSE
    NumInitialCaps = 14
    CapSlot <- MC_CapSlot
    PTLevels = 3
    PTIndexBits = 1
    VRegs <- MC_VRegs
    UIRegs <- MC_UIRegs
    ExtraSizes <- MC_ExtraSizes
    IRQs <- MC_IRQs
    IRQInvalid = 0
    KernelTimerIRQ = 2
    DomSchedule <- MC_DomSchedule
    NumDomains = 1
SPECIFICATION BootSpec

INVARIANT RootServerAlwaysPlaced

SPECIFICATION ReallocSpec
CONSTANTS
    Page = 8
    Step = 16
    MaxAddress = 50
    HostPages = 7
    Aligns = {1, 8, 16}
    DebugSizes = {1, 4, 9}
    NewSizes = {1, 60}
    Data = {32}
    SmallBins = 1
    Top = 312
INVARIANTS
    TagsAreLive
    GrowthFits
    BlocksTile
    BinsHoldTheFree
PROPERTIES
    PoisonStays
    KeepsBlocks
    DebugKeepsBlocks
CHECK_DEADLOCK FALSE

SPECIFICATION MCSpec
CONSTANTS
    ChunkSize = 4
    ChunkGap = 2
    Depth = 2
    FirstHeights = {1}
    MaxChain = 6
    MaxRemoved = 1
    MaxDeaths = 1
    t1 = t1
    t2 = t2
    bad = bad
    Pools <- MCPools
    BadTxs = {bad}
    Divider = 2
    Young = 4
    MaxDelay = 1
    MaxRender = 3
    PageLength = 2
    CacheSize = 3
    SpendableAge = 2
    FirstLength = 3
    MaxLength = 5
    Replaceable = 2
    MaxReorgs = 1
    First = 2
    End = 3
    RingAge = 1
    InitialHeight = 3
    TopHeight = 5
    MaxCut = 3
    MaxCuts = 1
    u1 = u1
    OurTxs = {u1}
    LastBlocks = 2
    ShortLedgers = {1}
    LongestLedger = 4
    Rewound = 2
    MaxRewinds = 1
INVARIANTS
    CountedBlocksStand
    ListIsOnePool InfoIsWhatItSeems
    LastRowsStood ReaderSeesEveryBlock
    OnlyRemovedBlocksEndIt MixedBlockIsTheLast OnlyOrphansLoseInputs
    SearchMissesNothing SearchIsExplained
PROPERTIES
    CheckpointGrows ThreadCatchesUp InfoHeals
CHECK_DEADLOCK FALSE

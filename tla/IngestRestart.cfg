SPECIFICATION FairSpec
CONSTANTS
    end_block_height = 2
    HashMap = {"tx"}
    Table = {"BLOCK_DATA", "TX_INDEX", "RM_INDEX"}
    Batch = 2
    CrashAt = {"parse", "flag", "join", "done"}
    MaxCrashes = 2
INVARIANTS HeightInv NoSharedIds OneRowPerIdRange
PROPERTY RunEnds

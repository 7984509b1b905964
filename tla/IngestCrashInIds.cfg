SPECIFICATION Spec
CONSTANTS
    end_block_height = 2
    HashMap = {"stealth"}
    Table = {"SA_INDEX"}
    Batch = 2
    CrashAt = {"ids"}
    MaxCrashes = 1
INVARIANTS IndexesOfSAStored

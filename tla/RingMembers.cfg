SPECIFICATION FairSpec
CONSTANTS
    Key = {1, 2, 3}
    Bits <- Covered
    PastEnd = {0, 99}
    MaxMixins = 3
    MaxCrashes = 1
INVARIANTS IdsInv LookupsExplained
PROPERTIES RunEnds KeepsIdPromise

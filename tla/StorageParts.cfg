SPECIFICATION MCSpec
CONSTANTS
    MaxProducers = 5
    MaxHeight = 8
    Vectors <- MCVectors
    Threads <- MCThreads
    VectorOf <- MCVectorOf
    Lookers <- MCLookers
    MaxPushed = 3
    Keys = {1, 2}
    BitsOf <- MCBitsOf
    Bytes = {0}
    Producers <- MCProducers
    MixinsOf <- MCMixinsOf
    Garbage = Garbage
    NumBatches = 3
    BatchRows = 2
    MaxFaults = 2
    Width = 14
    TableSize = 2
    Primes <- MCPrimes
    Codes = {97, 122}
    TextLengths = {2, 5}
    WindowLength = 3
    FilterSize = 56
    PublicKeys = {k1, k2}
    MaxBlocks = 2
    MaxTxs = 2
    MaxOutputs = 3
    MaxInputs = 2
    MaxMixins = 2
INVARIANTS
    BlocksShared
    PoolKeepsRows
    SecondIdExplained PairsKeepTheirKeys
    LossIsAtTheEnd
    SearchIsRight
    RowsJoin HashesLeadToRows
PROPERTIES
    PoolFinishes KeepsThePromise ProducersKeepIdPromise

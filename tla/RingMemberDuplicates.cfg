SPECIFICATION Spec
CONSTANTS
    Key = {1, 2}
    Bits <- Apart
    PastEnd = {0}
    MaxMixins = 3
    MaxCrashes = 1
INVARIANTS TotalWithoutDuplicates

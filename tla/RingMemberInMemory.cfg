SPECIFICATION Spec
CONSTANTS
    Key = {1, 2}
    Bits <- Apart
    PastEnd = {0, 99}
    MaxMixins = 3
    MaxCrashes = 0
INVARIANTS ValueIsInTheMemory

SPECIFICATION PagesSpec
CONSTANTS
    PageLength = 2
    CacheSize = 3
    SpendableAge = 2
    FirstLength = 3
    MaxLength = 5
    Replaceable = 2
    MaxReorgs = 1
INVARIANT WrongRowsAreDitched
CHECK_DEADLOCK FALSE

SPECIFICATION Spec
CONSTANTS
    Producer = {p1}
    Thread = {"runSAIdHashMappingThread", "runSaDataStoreThread"}
    Batch = 2
    MaxRows = 3
    Kept <- AllVectors
    Queue <- MCQueue
    Follows <- MCFollows
    Body <- MCBody
    OneByOne <- MCOneByOne
    ElseExit <- MCElseExit
    ExitTest <- MCExitTest
INVARIANTS NothingLeftBehind

SPECIFICATION FairSpec
CONSTANTS
    Producer = {p1}
    Thread = {"runBlockMainThread", "runTxMainThread", "runKeyImageMainThread"}
    Batch = 2
    MaxRows = 3
    Kept <- AllVectors
    Queue <- MCQueue
    Follows <- MCFollowsOne
    Body <- MCBody
    OneByOne <- MCOneByOne
    ElseExit <- MCElseExit
    ExitTest <- MCExitTest
INVARIANTS TypeOK Conserved PopsARow NothingLeftBehind ReadsStayGood
PROPERTIES ImplementsLog EveryThreadStops

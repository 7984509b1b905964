SPECIFICATION Spec
CONSTANTS
    Producer = {p1, p2}
    Thread = {"dataConsumerThread"}
    Batch = 2
    MaxRows = 2
    Kept = {"blockHashIdVector", "outputOfBlock", "txHashIdVector", "outputOfStealthAddresses", "outputOfTx", "outputIndexOfTx", "outputIndexOfRingMembers"}
    Queue <- MCQueue
    Follows <- MCFollows
    Body <- MCBody
    OneByOne <- MCOneByOne
    ElseExit <- MCElseExit
    ExitTest <- MCExitTest
INVARIANT ExitIsSafe

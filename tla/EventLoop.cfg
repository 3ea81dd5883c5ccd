CONSTANTS
    Object = {o1, o2, o3}
    Null = Null
    Listen = Listen
    HttpTimer = HttpTimer
    Second = 1
    CloseTimeout = 2
SPECIFICATION FairSpec
INVARIANTS ListsExact TimersExact NoStaleEvent PassExact
PROPERTY SocketsEnd

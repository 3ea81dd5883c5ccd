CONSTANTS
    Key = {k1, k2}
    Value = {x}
    NoValue = NoValue
    Peer <- Peers
    BINARY_BROADCAST <- Broadcast
    RELAY_QUERY <- Query
    Op = {1}
    VARIABLE_REPLY = 200
    MaxRequests = 3
    MaxWaiting = 2
SPECIFICATION FairSpec
INVARIANTS AnswersRight 
PROPERTY EveryRequestAnswered
CHECK_DEADLOCK FALSE

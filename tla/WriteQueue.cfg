SPECIFICATION FairSpec
CONSTANTS
    Thread = {owner}
    Owner = owner
    Room = 2
    MaxMessages = 6
    MaxInput = 2
CHECK_DEADLOCK FALSE
INVARIANTS TypeOK CloseIsLast PollExact
PROPERTIES ImplementsFifo QueueDrains CloseEnds

SPECIFICATION FairSpec
CONSTANTS
    Thread = {t1, t2, t3}
    CharMax = 127
    MaxGarbage = 2
INVARIANTS TypeOK DriftBounded 
PROPERTIES HandlerEventuallyRuns QuietGarbageFreed QuietLockHeals

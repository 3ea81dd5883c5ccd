SPECIFICATION Spec
CONSTANTS
    Thread = {t1, t2}
    CharMax = 127
    MaxGarbage = 2
INVARIANTS ReclaimExcludesHandlers

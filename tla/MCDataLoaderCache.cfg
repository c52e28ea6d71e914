CONSTANTS
    k1 = k1
    k2 = k2
    c1 = c1
    c2 = c2
    Key = {k1, k2}
    Client = {c1, c2}
    MaxBatchSize = 2
    CacheKinds = {"none", "hashmap", "lru"}
    Cap = 1
    MaxVersion = 2
    MaxManage = 1
SPECIFICATION MCSpec
SYMMETRY Symmetry
INVARIANTS
    ClearIsFinal
    AnswerSound
CHECK_DEADLOCK FALSE

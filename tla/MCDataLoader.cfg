CONSTANTS
    k1 = k1
    k2 = k2
    c1 = c1
    c2 = c2
    c3 = c3
    Key = {k1, k2}
    Client = {c1, c2, c3}
    MaxBatchSize = 2
    CacheKinds = {"none", "hashmap"}
    Cap = 1
    MaxVersion = 1
    MaxManage = 1
SPECIFICATION MCSpec
SYMMETRY Symmetry
INVARIANTS
    TypeOK
    Scheduled
    SenderInOnePlace
    QueueBelowThreshold
CHECK_DEADLOCK FALSE

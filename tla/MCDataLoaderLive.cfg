CONSTANTS
    k1 = k1
    k2 = k2
    c1 = c1
    c2 = c2
    Key = {k1, k2}
    Client = {c1, c2}
    MaxBatchSize = 2
    CacheKinds = {"hashmap"}
    Cap = 1
    MaxVersion = 1
    MaxManage = 2
SPECIFICATION MCFairSpec
PROPERTIES
    EveryCallReturns
CHECK_DEADLOCK FALSE

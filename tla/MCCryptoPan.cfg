CONSTANTS
    Width = 3
    CACHEBITS = 2
    MAX_CRYPTIO_CACHE_SIZE = 2
    Mask <- Masks
    Key <- Keys
    Asked <- Four
    Asked6 <- Two6
SPECIFICATION Spec
INVARIANTS
    CachedIsComputed
    PrefixPreserving
    CacheIsLru

\* Three workers, a lease of two renewals, two attempts; two processes that fetch an archive,
\* one of them told to start over; three calls for two keys of a cache, one of them of
\* sources that are Parquet files.
SPECIFICATION Spec
CONSTANTS
    Workers = {w1, w2, w3}
    NoWorker = NoWorker
    LeaseLength = 2
    RenewTicks = 1
    MaxAttempts = 2
    MaxGeneration = 2
    spare = w3
    Fetchers = {f1, f2}
    NoFetcher = NoFetcher
    Forced = {f2}
    Tables = {t1, t2}
    Pieces = 2
    MaxTries = 2
    MaxDead = 1
    c1 = c1 c2 = c2 c3 = c3 ka = ka kb = kb fa = fa fb = fb
    Preparers = {c1, c2, c3}
    KeyOf <- OfKey
    Keys = {ka, kb}
    FilesOf <- CachedIn
    ParquetKeys = {ka}
    Regenerating = {c2}
    NoFile = NoFile
INVARIANTS LeaseTypeOK DownloadedOnce WrongTableHasWriter ExtractionIsNeeded CacheIsGenuine
PROPERTIES FirstLeaseIsHonoured DeadOwnerIsReplaced FetchEnds
CHECK_DEADLOCK FALSE

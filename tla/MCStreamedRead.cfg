SPECIFICATION FairSpec
CHECK_DEADLOCK FALSE
CONSTANTS
    q1 = q1
    q2 = q2
    ann = ann
    bob = bob
    nobody = nobody
    Slot = {q1, q2}
    User = {ann, bob}
    Anonymous = nobody
    Reader <- ReaderSet
    Readable <- ReadableDocs
    Text <- TextSet
    ArrayField = "rows"
    Documents <- Responses
    Workloads <- Loads
    OnlyAuthenticated = {"_local"}
    LOGIN_CACHE_TTL = 2
    LOGIN_CACHE_MAX_ENTRIES = 3
    MaxPassword = 1
    HighWaterMark = 3
    MAX_ERROR_BODY_BYTES = 2
INVARIANTS
    ReadTypeOK
    CacheBounded
    FilteredAnswer
    SourceReleased
PROPERTIES
    EvictionSparesLive
    OldPasswordEnds
    ReadsEnd

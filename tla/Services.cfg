SPECIFICATION Spec
CONSTANTS
    p = p
    q = q
    Me = me
    Peers = {p, q}
    Scenarios <- Everything
    CALIB_CHUNK = 2
    TopN = 2
    EmbeddingBlob <- Blob
    EMBEDDING_CHUNK_BYTES = 2
    CHAIN_ENTRIES_PER_CHUNK = 2
    Digests = {1, 2}
    Browsers = {b1, b2, b3}
    RECENT_BROWSER_CLIENTS_MAX = 2
CHECK_DEADLOCK FALSE
INVARIANTS
    TypeOK
    AnswersAreOwn
    VerifiedWasClaimed
    SharedSpace
    LiveIsKept
    RecentAskedLast
PROPERTIES
    CalibratedByTheSamples
    CallsEnd

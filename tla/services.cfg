\* One request of ask_json and three providers, any of which may be busy or lost.
\* Two books of up to four batches for two slots; two books of up to four pages
\* for two slots.  Three logins from one address when two failures block it.
\* Two books that share a passage, with one edit.
SPECIFICATION ServicesSpec
CONSTANTS
    Callers = {r1}
    Requests = {r1}
    Books = {b1}
    Questions = {q1}
    Endpoints = {"json"}
    NumProviders = 3
    NoBook = NoBook
    NoReply = NoReply
    Failure = Failure
    NoLoop = NoLoop
    EMBED_BATCH_SIZE = 2
    CONCURRENT_BATCHES = 2
    MAX_RETRIES = 2
    Lengths = {0, 3, 7}
    MaxJobs = 2
    Replies = {"vectors", "limited", "failed", "rejected"}
    OCR_CONCURRENT_BATCHES = 2
    OCR_MAX_RETRIES = 2
    PageCounts = {1, 4}
    MaxBooks = 2
    OcrReplies = {"text", "empty", "limited", "failed", "rejected"}
    LOGIN_MAX_FAILURES = 2
    Logins = {l1, l2, l3}
    Addresses = {a1}
    Users = {u1}
    NoUser = NoUser
    NoAddress = NoAddress
    MayDie = TRUE
    v1 = v1
    v2 = v2
    p1 = p1
    p2 = p2
    Volumes = {v1, v2}
    Ids = {p1, p2}
    IdsOf <- MCIdsOf
    Editors = {e1}
    MaxEdits = 1
    Nowhere = Nowhere
CHECK_DEADLOCK FALSE
INVARIANTS
    AskedInOrder
    FallbackIsLastResort
    SlotsKept
    VectorsInOrder
    OcrNeverWaits
    FailuresBounded
    BlocksAreTimed
    IndexesInStep
PROPERTIES
    AllAnswered
    EmbeddingEnds
    BlockedIsFreed

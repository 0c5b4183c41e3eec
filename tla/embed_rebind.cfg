\* The service never refuses; two books of four batches in one process.
SPECIFICATION EmbedSpec
CONSTANTS
    NoLoop = NoLoop
    EMBED_BATCH_SIZE = 2
    CONCURRENT_BATCHES = 2
    MAX_RETRIES = 2
    Lengths = {7}
    MaxJobs = 2
    Replies = {"vectors"}
CHECK_DEADLOCK FALSE
INVARIANTS
    FailsOnlyRefused

\* Two slots and the reaper, one fault of any kind but a failed Meilisearch
\* task.  Tesseract holds the event loop: every extraction may lose its heartbeat
\* and be revoked and sent again while it is still at work.
SPECIFICATION Spec
CONSTANTS
    Books = {b1}
    Jobs = {j1}
    Tasks = {t1, t2}
    Workers = {w1, w2}
    Dispatchers = {}
    Reapers = {r1}
    NoBook = NoBook
    NoTask = NoTask
    OCR_ENGINE = "tesseract"
    Faults = {"exception", "childLost", "nodeCrash", "redelivery", "missedBeat", "earlyReap", "apiCrash", "beatCrash", "slowImport"}
    Alone = {}
    MaxFaults = 1
SYMMETRY Symmetry
CHECK_DEADLOCK FALSE
INVARIANTS
    TypeOK
    TerminalMeansSettled
    CheckpointHonest
    ReadyIsSearchable

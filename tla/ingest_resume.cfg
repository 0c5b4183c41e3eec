\* A worker node dies once and its task is delivered again.
SPECIFICATION Spec
CONSTANTS
    Books = {b1}
    Jobs = {j1}
    Tasks = {t1, t2}
    Workers = {w1, w2}
    Dispatchers = {}
    Reapers = {}
    NoBook = NoBook
    NoTask = NoTask
    OCR_ENGINE = "gemini"
    Faults = {"nodeCrash"}
    Alone = {}
    MaxFaults = 1
SYMMETRY Symmetry
CHECK_DEADLOCK FALSE
INVARIANTS
    ReadyHasChunks

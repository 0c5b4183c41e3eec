\* A book is reprocessed while its first task is still at work.
SPECIFICATION AdminSpec
CONSTANTS
    Books = {b1}
    Jobs = {j1, j2}
    Tasks = {t1, t2}
    Workers = {w1, w2}
    Dispatchers = {}
    Reapers = {}
    Requests = {q1}
    AdminsWait = FALSE
    LargeBooks = {}
    NoBook = NoBook
    NoTask = NoTask
    OCR_ENGINE = "gemini"
    Faults = {}
    Alone = {}
    MaxFaults = 0
SYMMETRY Symmetry
CHECK_DEADLOCK FALSE
INVARIANTS
    SearchableWhenQuiet

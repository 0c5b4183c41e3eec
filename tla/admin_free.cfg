\* Two admins who act at any time on a large book, and a call that fails or a request that dies.
SPECIFICATION AdminSpec
CONSTANTS
    Books = {b1}
    Jobs = {j1, j2, j3}
    Tasks = {t1, t2}
    Workers = {w1}
    Dispatchers = {}
    Reapers = {}
    Requests = {q1, q2}
    AdminsWait = FALSE
    LargeBooks = {b1}
    NoBook = NoBook
    NoTask = NoTask
    OCR_ENGINE = "gemini"
    Faults = {"exception", "apiCrash", "taskFails", "slowImport"}
    Alone = {}
    MaxFaults = 1
SYMMETRY Symmetry
CHECK_DEADLOCK FALSE
PROPERTIES
    NoResurrection
INVARIANTS
    FileOutlivesRow

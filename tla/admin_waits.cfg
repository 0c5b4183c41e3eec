\* Admins who touch a book only when its job is over, with two overlapping
\* dispatchers and two faults of the worker or of beat.
SPECIFICATION AdminSpec
CONSTANTS
    Books = {b1}
    Jobs = {j1, j2}
    Tasks = {t1, t2}
    Workers = {w1}
    Dispatchers = {d1, d2}
    Reapers = {}
    Requests = {q1, q2}
    AdminsWait = TRUE
    LargeBooks = {}
    NoBook = NoBook
    NoTask = NoTask
    OCR_ENGINE = "gemini"
    Faults = {"childLost", "nodeCrash", "redelivery", "beatCrash", "exception", "slowImport"}
    Alone = {}
    MaxFaults = 2
SYMMETRY Symmetry
CHECK_DEADLOCK FALSE
INVARIANTS
    OneDispatchPerBook
    DeleteIsFinal
    SearchableUnlessServed
PROPERTIES
    SecondRowOnlyUnclaimed

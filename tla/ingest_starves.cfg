\* No fault at all, with the default engine: the reaper and one book whose OCR
\* may take longer than the reaper's period.
SPECIFICATION FairSpec
CONSTANTS
    Books = {b1}
    Jobs = {j1}
    Tasks = {t1, t2}
    Workers = {w1}
    Dispatchers = {}
    Reapers = {r1}
    NoBook = NoBook
    NoTask = NoTask
    OCR_ENGINE = "tesseract"
    Faults = {}
    Alone = {}
    MaxFaults = 0
CHECK_DEADLOCK FALSE
PROPERTIES
    PendingSettles

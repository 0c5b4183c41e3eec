\* Liveness with one slot, a dispatcher and a reaper: the upload's process and a run
\* of the dispatcher or the reaper die, or two such runs; or, by itself, the task's
\* pool process is lost or Meilisearch fails the import or is late with it.
SPECIFICATION FairSpec
CONSTANTS
    Books = {b1}
    Jobs = {j1}
    Tasks = {t1, t2}
    Workers = {w1}
    Dispatchers = {d1}
    Reapers = {r1}
    NoBook = NoBook
    NoTask = NoTask
    OCR_ENGINE = "gemini"
    Faults = {"apiCrash", "childLost", "beatCrash", "taskFails", "slowImport"}
    Alone = {"childLost", "taskFails", "slowImport"}
    MaxFaults = 2
CHECK_DEADLOCK FALSE
PROPERTIES
    PendingSettles
    JobSettles

\* Two requests that ask the same question of the same or of different books.
SPECIFICATION AskSpec
CONSTANTS
    Callers = {r1, r2}
    Requests = {r1, r2}
    Books = {b1, b2}
    Questions = {q1}
    Endpoints = {"json", "stream"}
    NumProviders = 1
    NoBook = NoBook
    NoReply = NoReply
    Failure = Failure
SYMMETRY Symmetry
CHECK_DEADLOCK FALSE
INVARIANTS
    AskTypeOK
    RepliesInScope
    RetriesOnce
PROPERTIES
    ImplementsService

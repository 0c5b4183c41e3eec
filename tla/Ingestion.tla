------------------------------ MODULE Ingestion ------------------------------
(***************************************************************************)
(* The ingestion pipeline: a PDF is uploaded, a Celery task extracts,      *)
(* chunks, embeds and indexes it, a beat-scheduled dispatcher sends tasks  *)
(* for the rows that are still "queued", and a beat-scheduled reaper sends *)
(* them again for the rows whose worker gives no heartbeat.                *)
(*                                                                         *)
(* One action is one database transaction, one call to an external store   *)
(* or one message; the actors interleave between any two of them.  Data is *)
(* abstracted to what control depends on: a list of pages or of chunks is  *)
(* "there" or empty, total_pages is set or not, total_chunks is zero or    *)
(* not.                                                                    *)
(***************************************************************************)
EXTENDS Naturals, FiniteSets

CONSTANTS
    Books,        \* book ids
    Jobs,         \* ids of processing_jobs rows
    Tasks,        \* Celery task ids, a pool: see Fresh
    Workers,      \* slots of the worker pool (celery --concurrency)
    Dispatchers,  \* runs of dispatch_pending that may overlap
    Reapers,      \* runs of reap_stale_jobs that may overlap
    NoBook, NoTask,
    OCR_ENGINE,   \* settings.OCR_ENGINE: "tesseract", the default, or "gemini"
    Faults,       \* the kinds of fault that may happen
    Alone,        \* those of them beside which no other fault happens
    MaxFaults     \* how many faults happen in all

FaultKinds ==
    {"exception",     \* a call to a database, a store or a service raises
     "childLost",     \* a pool process dies; Celery acknowledges its message
     "nodeCrash",     \* the worker node dies; its message stays unacknowledged
     "redelivery",    \* the broker's visibility timeout passes during a run
     "missedBeat",    \* the heartbeat lapses although the event loop is free
     "earlyReap",     \* the reaper looks between a claim and its first heartbeat
     "apiCrash",      \* a request stops in the middle: the API process dies, or
                      \* a call of the handler's own raises
     "beatCrash",     \* a dispatcher or a reaper dies in the middle of a run
     "taskFails",     \* Meilisearch accepts documents and then fails the task
     "slowImport"}    \* ... or has not run the task when the wait for it ends

ASSUME IngestionAssumption ==
    /\ NoBook \notin Books
    /\ NoTask \notin Tasks
    /\ OCR_ENGINE \in {"tesseract", "gemini"}
    /\ Faults \subseteq FaultKinds
    /\ MaxFaults \in Nat

VARIABLES
    book,      \* rows of table books
    job,       \* rows of table processing_jobs
    file,      \* the books whose PDF is in MinIO
    vectors,   \* the books with points in Qdrant
    texts,     \* the books with documents that a search in Meilisearch finds
    imports,   \* the books with documents still in Meilisearch's task queue
    upload,    \* progress of each book's upload request
    message,   \* the broker: the message of each task
    revoked,   \* task ids whose revocation was broadcast
    worker,    \* the worker slots and the task each runs
    beat,      \* the books whose heartbeat key is alive in Redis
    lock,      \* the dispatch:lock:<book> keys in Redis
    dispatcher, reaper,
    faults     \* number of faults so far; all there are after one of Alone

stores == <<book, job, file, vectors, texts, imports>>
queue  == <<message, revoked>>
vars   == <<stores, upload, queue, worker, beat, lock, dispatcher, reaper,
            faults>>

-----------------------------------------------------------------------------
(* The definitions whose names begin with Mutant are plausible mistakes in the
   definition that follows: each breaks a property, so that the property says
   something about the code. *)
\* The reaper's query forgets the first phase.
MutantActive == {"chunking", "embedding", "indexing"}
Active   == {"extracting", "chunking", "embedding", "indexing"}
Terminal == {"completed", "failed"}
JobStatus == {"queued"} \cup Active \cup Terminal
Checkpoints == {"none", "extracting", "chunking", "embedding", "indexing",
                "completed"}

Book == [status: {"absent", "pending", "ready", "failed"},
         pages: BOOLEAN, chunks: BOOLEAN]
NoBookRow == [status |-> "absent", pages |-> FALSE, chunks |-> FALSE]

Job == [book: Books \cup {NoBook}, status: JobStatus, checkpoint: Checkpoints,
        task: Tasks \cup {NoTask}]
NoJobRow == [book |-> NoBook, status |-> "queued", checkpoint |-> "none",
             task |-> NoTask]

\* The statements at which a worker waits, in the order of the code.
Working == {"fetch", "extract", "savePages", "toChunking", "chunk",
            "toEmbedding", "embed", "qdrant", "meili", "setReady", "complete",
            "announce"}
Running == {"claim", "readJob", "readBook"} \cup Working
Worker == [pc: {"idle", "failing"} \cup Running,
           task: Tasks \cup {NoTask}, book: Books \cup {NoBook},
           resume: Checkpoints, pages: BOOLEAN, chunks: BOOLEAN]
Idle == [pc |-> "idle", task |-> NoTask, book |-> NoBook, resume |-> "none",
         pages |-> FALSE, chunks |-> FALSE]

Message == [state: {"gone", "ready", "unacked"}, book: Books \cup {NoBook}]
NoMessage == [state |-> "gone", book |-> NoBook]

\* A row as a run of beat's tasks remembers it from its SELECT: the dispatcher
\* whether a task had claimed it, the reaper which.  "cur" is the row in hand.
Queued == [job: Jobs, book: Books, claimed: BOOLEAN]
Stale  == [job: Jobs, book: Books, task: Tasks \cup {NoTask}]
Dispatcher == [pc: {"idle", "next", "arm", "check", "mark", "send"},
               todo: SUBSET Queued, cur: SUBSET Queued]
Reaper == [pc: {"idle", "check", "next", "requeue", "send"},
           todo: SUBSET Stale, stale: SUBSET Stale, cur: SUBSET Stale]
NoDispatch == [pc |-> "idle", todo |-> {}, cur |-> {}]
NoReap == [pc |-> "idle", todo |-> {}, stale |-> {}, cur |-> {}]

TypeOK ==
    /\ book \in [Books -> Book]
    /\ job \in [Jobs -> Job]
    /\ file \in SUBSET Books
    /\ vectors \in SUBSET Books
    /\ texts \in SUBSET Books
    /\ imports \in SUBSET Books
    /\ upload \in [Books -> {"new", "stored", "committed", "done"}]
    /\ message \in [Tasks -> Message]
    /\ revoked \in SUBSET Tasks
    /\ worker \in [Workers -> Worker]
    /\ beat \in SUBSET Books
    /\ lock \in [Books -> {"free", "bare", "expiring"}]
    /\ dispatcher \in [Dispatchers -> Dispatcher]
    /\ reaper \in [Reapers -> Reaper]
    /\ faults \in 0..MaxFaults

Init ==
    /\ book = [b \in Books |-> NoBookRow]
    /\ job = [j \in Jobs |-> NoJobRow]
    /\ file = {} /\ vectors = {} /\ texts = {} /\ imports = {}
    /\ upload = [b \in Books |-> "new"]
    /\ message = [t \in Tasks |-> NoMessage]
    /\ revoked = {}
    /\ worker = [w \in Workers |-> Idle]
    /\ beat = {}
    /\ lock = [b \in Books |-> "free"]
    /\ dispatcher = [d \in Dispatchers |-> NoDispatch]
    /\ reaper = [r \in Reapers |-> NoReap]
    /\ faults = 0

-----------------------------------------------------------------------------
Exists(b) == book[b].status # "absent"
RowsOf(b) == {j \in Jobs : job[j].book = b}

\* scalar_one_or_none raises MultipleResultsFound on a second row.
OneRowAtMost(b) == \A i, j \in RowsOf(b) : i = j

\* UPDATE processing_jobs ... WHERE book_id = b
SetStatus(b, status) ==
    job' = [j \in Jobs |-> IF job[j].book = b
                           THEN [job[j] EXCEPT !.status = status]
                           ELSE job[j]]
SetPhase(b, status, checkpoint) ==
    job' = [j \in Jobs |-> IF job[j].book = b
                           THEN [job[j] EXCEPT !.status = status,
                                               !.checkpoint = checkpoint]
                           ELSE job[j]]

Fault(kind) ==
    /\ kind \in Faults
    /\ faults < MaxFaults
    /\ kind \in Alone => faults = 0
    /\ faults' = IF kind \in Alone THEN MaxFaults ELSE faults + 1

(***************************************************************************)
(* The broker.  Task ids are uuids and never run out; the pool Tasks       *)
(* bounds how many are in flight or remembered, and an id that nobody      *)
(* refers to any more stands for a new one.                                *)
(***************************************************************************)
Fresh(t) ==
    /\ message[t].state = "gone"
    /\ \A w \in Workers : worker[w].task # t
    /\ \A j \in Jobs : job[j].task # t
    /\ \A r \in Reapers :
        \A s \in reaper[r].todo \cup reaper[r].stale \cup reaper[r].cur :
            s.task # t

\* process_book.delay(...)
Send(b) ==
    \E t \in Tasks :
        /\ Fresh(t)
        /\ message' = [message EXCEPT ![t] = [state |-> "ready", book |-> b]]
    /\ UNCHANGED revoked

\* Once the message is gone and nobody runs its task, its revocation is moot.
Forget(t, runners) == IF runners = {} THEN revoked \ {t} ELSE revoked
Runners(t) == {w \in Workers : worker[w].task = t}

\* A worker node went away, or its task outlives the visibility timeout: the
\* broker delivers the unacknowledged message again.
Redeliver(t) ==
    /\ message[t].state = "unacked"
    /\ \/ Runners(t) = {} /\ UNCHANGED faults
       \/ Runners(t) # {} /\ Fault("redelivery")
    /\ message' = [message EXCEPT ![t].state = "ready"]
    /\ UNCHANGED <<stores, upload, revoked, worker, beat, lock, dispatcher,
                   reaper>>

\* A worker discards a message whose id was revoked.
Discard(t) ==
    /\ message[t].state = "ready"
    /\ t \in revoked
    /\ message' = [message EXCEPT ![t] = NoMessage]
    /\ revoked' = Forget(t, Runners(t))
    /\ UNCHANGED <<stores, upload, worker, beat, lock, dispatcher, reaper,
                   faults>>

-----------------------------------------------------------------------------
(* upload_book: the PDF goes to MinIO, then one transaction inserts the book
   and its job row, then the task is sent. *)
UploadStore(b) ==
    /\ upload[b] = "new"
    /\ upload' = [upload EXCEPT ![b] = "stored"]
    /\ file' = file \cup {b}
    /\ UNCHANGED <<book, job, vectors, texts, imports, queue, worker, beat,
                   lock, dispatcher, reaper, faults>>

UploadCommit(b) ==
    /\ upload[b] = "stored"
    /\ \E j \in Jobs :
        /\ job[j].book = NoBook
        /\ job' = [job EXCEPT ![j] = [NoJobRow EXCEPT !.book = b]]
    /\ book' = [book EXCEPT ![b] = [NoBookRow EXCEPT !.status = "pending"]]
    /\ upload' = [upload EXCEPT ![b] = "committed"]
    /\ UNCHANGED <<file, vectors, texts, imports, queue, worker, beat, lock,
                   dispatcher, reaper, faults>>

UploadSend(b) ==
    /\ upload[b] = "committed"
    /\ Send(b)
    /\ upload' = [upload EXCEPT ![b] = "done"]
    /\ UNCHANGED <<stores, worker, beat, lock, dispatcher, reaper, faults>>

UploadCrash(b) ==
    /\ upload[b] \in {"stored", "committed"}
    /\ Fault("apiCrash")
    /\ upload' = [upload EXCEPT ![b] = "done"]
    /\ UNCHANGED <<stores, queue, worker, beat, lock, dispatcher, reaper>>

-----------------------------------------------------------------------------
(* process_book: _run_with_cleanup around process_book_async. *)
Goto(w, pc) == worker' = [worker EXCEPT ![w].pc = pc]

\* The task ends, normally or with an exception, and Celery acknowledges its
\* message (acks_late).  One that was redelivered meanwhile stays in the queue.
TaskEnds(w) ==
    LET t == worker[w].task IN
    /\ worker' = [worker EXCEPT ![w] = Idle]
    /\ IF message[t].state = "ready"
       THEN UNCHANGED queue
       ELSE /\ message' = [message EXCEPT ![t] = NoMessage]
            /\ revoked' = Forget(t, Runners(t) \ {w})

Take(w, t) ==
    /\ worker[w].pc = "idle"
    /\ message[t].state = "ready"
    /\ message' = [message EXCEPT ![t].state = "unacked"]
    /\ worker' = [worker EXCEPT ![w] = [Idle EXCEPT !.pc = "claim", !.task = t,
                                                    !.book = message[t].book]]
    /\ UNCHANGED <<stores, upload, revoked, beat, lock, dispatcher, reaper,
                   faults>>

\* The first statement of the task: whatever the rows say, they become
\* "extracting" and carry this task's id.
Claim(w) ==
    /\ worker[w].pc = "claim"
    /\ job' = [j \in Jobs |-> IF job[j].book = worker[w].book
                              THEN [job[j] EXCEPT !.status = "extracting",
                                                  !.task = worker[w].task]
                              ELSE job[j]]
    /\ Goto(w, "readJob")
    /\ UNCHANGED <<book, file, vectors, texts, imports, upload, queue, beat,
                   lock, dispatcher, reaper, faults>>

\* _read_job: no row ends the task, two rows raise, one row gives the
\* checkpoint to resume from.
ReadJob(w) ==
    LET b == worker[w].book IN
    /\ worker[w].pc = "readJob"
    /\ \/ /\ RowsOf(b) = {}
          /\ TaskEnds(w)
       \/ /\ ~OneRowAtMost(b)
          /\ Goto(w, "failing")
          /\ UNCHANGED queue
       \/ /\ OneRowAtMost(b)
          /\ \E j \in RowsOf(b) :
                worker' = [worker EXCEPT ![w].pc = "readBook",
                                         ![w].resume = job[j].checkpoint]
          /\ UNCHANGED queue
    /\ UNCHANGED <<stores, upload, beat, lock, dispatcher, reaper, faults>>

\* The first statement that runs: the phases before the checkpoint's are
\* skipped, and with them what they compute (pages and chunks stay empty).
FirstStep(checkpoint) ==
    CASE checkpoint \in {"none", "extracting"} -> "fetch"
      [] checkpoint = "chunking"  -> "chunk"
      [] checkpoint = "embedding" -> "embed"
      [] checkpoint = "indexing"  -> "qdrant"
      [] checkpoint = "completed" -> "idle"

\* The book is looked up, the heartbeat starts, the first phase is chosen.  A
\* checkpoint "completed" leaves nothing to do: the heartbeat is told to stop
\* before it has run.
ReadBook(w) ==
    LET b == worker[w].book
        next == FirstStep(worker[w].resume)
    IN
    /\ worker[w].pc = "readBook"
    /\ IF Exists(b) /\ next # "idle"
       THEN /\ worker' = [worker EXCEPT ![w].pc = next, ![w].resume = "none"]
            /\ beat' = beat \cup {b}
            /\ UNCHANGED queue
       ELSE TaskEnds(w) /\ UNCHANGED beat
    /\ UNCHANGED <<stores, upload, lock, dispatcher, reaper, faults>>

\* get_file raises when the PDF is gone.
Fetch(w) ==
    /\ worker[w].pc = "fetch"
    /\ Goto(w, IF worker[w].book \in file THEN "extract" ELSE "failing")
    /\ UNCHANGED <<stores, upload, queue, beat, lock, dispatcher, reaper,
                   faults>>

\* The progress loop of the extraction; every CHECKPOINT_INTERVAL pages it
\* writes the checkpoint too.  _extract_tesseract awaits nothing: the loop comes
\* to its turn again when the extraction is over.
ExtractProgress(w) ==
    LET b == worker[w].book IN
    /\ worker[w].pc = "extract"
    /\ OCR_ENGINE = "gemini"
    /\ IF OneRowAtMost(b)
       THEN /\ SetStatus(b, "extracting") \/ SetPhase(b, "extracting", "extracting")
            /\ UNCHANGED worker
       ELSE Goto(w, "failing") /\ UNCHANGED job
    /\ UNCHANGED <<book, file, vectors, texts, imports, upload, queue, beat,
                   lock, dispatcher, reaper, faults>>

\* The pages are not stored.
MutantExtract(w) ==
    /\ worker[w].pc = "extract"
    /\ worker' = [worker EXCEPT ![w].pc = "toChunking", ![w].pages = TRUE]
    /\ UNCHANGED <<stores, upload, queue, beat, lock, dispatcher, reaper,
                   faults>>

Extract(w) ==
    /\ worker[w].pc = "extract"
    /\ worker' = [worker EXCEPT ![w].pc = "savePages", ![w].pages = TRUE]
    /\ UNCHANGED <<stores, upload, queue, beat, lock, dispatcher, reaper,
                   faults>>

SavePages(w) ==
    LET b == worker[w].book IN
    /\ worker[w].pc = "savePages"
    /\ IF Exists(b) THEN book' = [book EXCEPT ![b].pages = TRUE]
                    ELSE UNCHANGED book
    /\ Goto(w, "toChunking")
    /\ UNCHANGED <<job, file, vectors, texts, imports, upload, queue, beat,
                   lock, dispatcher, reaper, faults>>

\* _update_job at the end of a phase: it reads started_at first, which raises
\* when the book has two rows.
EndPhase(w, from, status, to) ==
    /\ worker[w].pc = from
    /\ IF OneRowAtMost(worker[w].book)
       THEN SetPhase(worker[w].book, status, status) /\ Goto(w, to)
       ELSE Goto(w, "failing") /\ UNCHANGED job
    /\ UNCHANGED <<book, file, vectors, texts, imports, upload, queue, beat,
                   lock, dispatcher, reaper, faults>>

ToChunking(w)  == EndPhase(w, "toChunking", "chunking", "chunk")
ToEmbedding(w) == EndPhase(w, "toEmbedding", "embedding", "embed")
Embed(w)       == EndPhase(w, "embed", "indexing", "qdrant")

\* The chunks are cut from the pages in memory; the book is read again for
\* their metadata and must still exist.
Chunk(w) ==
    /\ worker[w].pc = "chunk"
    /\ IF Exists(worker[w].book)
       THEN worker' = [worker EXCEPT ![w].pc = "toEmbedding",
                                     ![w].chunks = worker[w].pages]
       ELSE Goto(w, "failing")
    /\ UNCHANGED <<stores, upload, queue, beat, lock, dispatcher, reaper,
                   faults>>

\* The book is made ready before the second index has its chunks.
MutantIndexQdrant(w) ==
    /\ worker[w].pc = "qdrant"
    /\ vectors' = IF worker[w].chunks THEN vectors \cup {worker[w].book} ELSE vectors
    /\ Goto(w, "setReady")
    /\ UNCHANGED <<book, job, file, texts, imports, upload, queue, beat, lock,
                   dispatcher, reaper, faults>>

\* index_to_qdrant.  What the server says to an upsert of no points is its own
\* affair: the call may return or raise.
IndexQdrant(w) ==
    LET b == worker[w].book IN
    /\ worker[w].pc = "qdrant"
    /\ \/ /\ worker[w].chunks
          /\ vectors' = vectors \cup {b}
          /\ Goto(w, "meili")
       \/ /\ ~worker[w].chunks
          /\ \E pc \in {"meili", "failing"} : Goto(w, pc)
          /\ UNCHANGED vectors
    /\ UNCHANGED <<book, job, file, texts, imports, upload, queue, beat, lock,
                   dispatcher, reaper, faults>>

\* index_to_meilisearch, and its task run within the wait.  Meilisearch runs its
\* tasks in order: what an earlier run had left in the queue came first.
IndexMeilisearch(w) ==
    LET b == worker[w].book IN
    /\ worker[w].pc = "meili"
    /\ IF worker[w].chunks
       THEN texts' = texts \cup {b} /\ imports' = imports \ {b}
       ELSE UNCHANGED <<texts, imports>>
    /\ Goto(w, "setReady")
    /\ UNCHANGED <<book, job, file, vectors, upload, queue, beat, lock,
                   dispatcher, reaper, faults>>

\* _wait_for_task looks at the task's status only after a timeout: a task that
\* fails before it is waited for like one that succeeds.
IndexTaskFails(w) ==
    /\ worker[w].pc = "meili"
    /\ Fault("taskFails")
    /\ Goto(w, "setReady")
    /\ UNCHANGED <<stores, upload, queue, beat, lock, dispatcher, reaper>>

\* Meilisearch is busy for longer than _wait_for_task waits: the run goes on with
\* its documents still in the queue.
IndexOutlasts(w) ==
    /\ worker[w].pc = "meili"
    /\ worker[w].chunks
    /\ Fault("slowImport")
    /\ imports' = imports \cup {worker[w].book}
    /\ Goto(w, "setReady")
    /\ UNCHANGED <<book, job, file, vectors, texts, upload, queue, beat, lock,
                   dispatcher, reaper>>

\* update_book_status: a transaction of its own.
SetReady(w) ==
    LET b == worker[w].book IN
    /\ worker[w].pc = "setReady"
    /\ IF Exists(b)
       THEN book' = [book EXCEPT ![b].status = "ready",
                                 ![b].chunks = worker[w].chunks]
       ELSE UNCHANGED book
    /\ Goto(w, "complete")
    /\ UNCHANGED <<job, file, vectors, texts, imports, upload, queue, beat,
                   lock, dispatcher, reaper, faults>>

\* The job gets the book's word for done.
MutantComplete(w) ==
    /\ worker[w].pc = "complete"
    /\ SetPhase(worker[w].book, "ready", "completed")
    /\ Goto(w, "announce")
    /\ UNCHANGED <<book, file, vectors, texts, imports, upload, queue, beat,
                   lock, dispatcher, reaper, faults>>

Complete(w) ==
    /\ worker[w].pc = "complete"
    /\ SetPhase(worker[w].book, "completed", "completed")
    /\ Goto(w, "announce")
    /\ UNCHANGED <<book, file, vectors, texts, imports, upload, queue, beat,
                   lock, dispatcher, reaper, faults>>

\* The events are published and the task returns.
Announce(w) ==
    /\ worker[w].pc = "announce"
    /\ TaskEnds(w)
    /\ UNCHANGED <<stores, upload, beat, lock, dispatcher, reaper, faults>>

\* The failure is not mirrored to the book.
MutantMarkFailed(w) ==
    /\ worker[w].pc = "failing"
    /\ SetStatus(worker[w].book, "failed")
    /\ TaskEnds(w)
    /\ UNCHANGED <<book, file, vectors, texts, imports, upload, beat, lock,
                   dispatcher, reaper, faults>>

\* _mark_failed: the rows and the book in one transaction.
MarkFailed(w) ==
    LET b == worker[w].book IN
    /\ worker[w].pc = "failing"
    /\ SetStatus(b, "failed")
    /\ IF Exists(b) THEN book' = [book EXCEPT ![b].status = "failed"]
                    ELSE UNCHANGED book
    /\ TaskEnds(w)
    /\ UNCHANGED <<file, vectors, texts, imports, upload, beat, lock,
                   dispatcher, reaper, faults>>

-----------------------------------------------------------------------------
(* What can go wrong in a worker. *)
\* Any awaited call may raise; publish_job_update raises after its row was
\* committed, so the next step is the one that fails.
StepFails(w) ==
    /\ worker[w].pc \in Running
    /\ Fault("exception")
    /\ Goto(w, "failing")
    /\ UNCHANGED <<stores, upload, queue, beat, lock, dispatcher, reaper>>

\* _mark_failed gives up after three attempts and only logs.
MarkFailedGivesUp(w) ==
    /\ worker[w].pc = "failing"
    /\ Fault("exception")
    /\ TaskEnds(w)
    /\ UNCHANGED <<stores, upload, beat, lock, dispatcher, reaper>>

\* The pool process is killed.  Without task_reject_on_worker_lost Celery
\* acknowledges the message of a lost process, acks_late or not.
ChildLost(w) ==
    /\ worker[w].pc # "idle"
    /\ Fault("childLost")
    /\ TaskEnds(w)
    /\ UNCHANGED <<stores, upload, beat, lock, dispatcher, reaper>>

NodeCrash(w) ==
    /\ worker[w].pc # "idle"
    /\ Fault("nodeCrash")
    /\ worker' = [worker EXCEPT ![w] = Idle]
    /\ UNCHANGED <<stores, upload, queue, beat, lock, dispatcher, reaper>>

\* A revocation with terminate=True reaches the node that runs the task.
Terminate(w) ==
    /\ worker[w].pc # "idle"
    /\ worker[w].task \in revoked
    /\ TaskEnds(w)
    /\ UNCHANGED <<stores, upload, beat, lock, dispatcher, reaper, faults>>

(* The heartbeat key: a TTL of 60 s, set again every 30 s while a task works. *)
Started(b) == \E w \in Workers : worker[w].book = b /\ worker[w].pc \in Working

\* The heartbeat is a task of the same event loop, and _extract_tesseract holds
\* that loop until every page is read: a run sends no heartbeat meanwhile.
Beating(b) ==
    \E w \in Workers :
        /\ worker[w].book = b
        /\ worker[w].pc \in Working
        /\ worker[w].pc = "extract" => OCR_ENGINE = "gemini"

BeatExpires(b) ==
    /\ b \in beat
    /\ \/ ~Beating(b) /\ UNCHANGED faults
       \/ Beating(b) /\ Fault("missedBeat")
    /\ beat' = beat \ {b}
    /\ UNCHANGED <<stores, upload, queue, worker, lock, dispatcher, reaper>>

BeatAgain(b) ==
    /\ Started(b)
    /\ b \notin beat
    /\ beat' = beat \cup {b}
    /\ UNCHANGED <<stores, upload, queue, worker, lock, dispatcher, reaper,
                   faults>>

(* The imports that Meilisearch was too busy for are done when nobody waits for
   them any more, or fail then (with the wait that ended this is one fault). *)
ImportDone(b) ==
    /\ b \in imports
    /\ texts' = texts \cup {b}
    /\ imports' = imports \ {b}
    /\ UNCHANGED <<book, job, file, vectors, upload, queue, worker, beat, lock,
                   dispatcher, reaper, faults>>

ImportFails(b) ==
    /\ b \in imports
    /\ "taskFails" \in Faults
    /\ imports' = imports \ {b}
    /\ UNCHANGED <<book, job, file, vectors, texts, upload, queue, worker, beat,
                   lock, dispatcher, reaper, faults>>

-----------------------------------------------------------------------------
RowsWith(statuses) ==
    {j \in Jobs : job[j].book # NoBook /\ job[j].status \in statuses}

\* UPDATE processing_jobs ... WHERE id = s.job: no effect on a deleted row, and
\* no look at the status the row has by now.
RowStill(s) == job[s.job].book = s.book

(* dispatch_pending: one SELECT, then for each row of the list a lock, a check
   of the heartbeat, an UPDATE and a message.  The lock is deleted at the end
   whoever holds it. *)
DispatchScan(d) ==
    /\ dispatcher[d].pc = "idle"
    /\ RowsWith({"queued"}) # {}
    /\ dispatcher' = [dispatcher EXCEPT
                        ![d].pc = "next",
                        ![d].todo = 
                            {[job |-> j, book |-> job[j].book,
                              claimed |-> job[j].task # NoTask] :
                                 j \in RowsWith({"queued"})}]
    /\ UNCHANGED <<stores, upload, queue, worker, beat, lock, reaper, faults>>

\* SET instead of SETNX.
MutantDispatchLock(d) ==
    /\ dispatcher[d].pc = "next"
    /\ \E s \in dispatcher[d].todo :
        /\ lock' = [lock EXCEPT ![s.book] = "bare"]
        /\ dispatcher' = [dispatcher EXCEPT ![d].pc = "arm",
                                            ![d].todo = @ \ {s},
                                            ![d].cur = {s}]
    /\ UNCHANGED <<stores, upload, queue, worker, beat, reaper, faults>>

\* SETNX of the lock; a row whose lock is taken is skipped.
DispatchLock(d) ==
    /\ dispatcher[d].pc = "next"
    /\ \E s \in dispatcher[d].todo :
        IF lock[s.book] = "free"
        THEN /\ lock' = [lock EXCEPT ![s.book] = "bare"]
             /\ dispatcher' = [dispatcher EXCEPT ![d].pc = "arm",
                                                 ![d].todo = @ \ {s},
                                                 ![d].cur = {s}]
        ELSE /\ dispatcher' = [dispatcher EXCEPT ![d].todo = @ \ {s}]
             /\ UNCHANGED lock
    /\ UNCHANGED <<stores, upload, queue, worker, beat, reaper, faults>>

\* EXPIRE of the lock.
DispatchArm(d) ==
    /\ dispatcher[d].pc = "arm"
    /\ \E s \in dispatcher[d].cur :
        lock' = IF lock[s.book] = "free"
                THEN lock ELSE [lock EXCEPT ![s.book] = "expiring"]
    /\ dispatcher' = [dispatcher EXCEPT ![d].pc = "check"]
    /\ UNCHANGED <<stores, upload, queue, worker, beat, reaper, faults>>

\* The row is done with: on to the next one, the lock deleted.
DispatchDone(d, s) ==
    /\ lock' = [lock EXCEPT ![s.book] = "free"]
    /\ dispatcher' = [dispatcher EXCEPT ![d].pc = "next", ![d].cur = {}]

\* A row that some task already carries and whose heartbeat is alive is left
\* alone, and so is one whose book is gone.
DispatchCheck(d) ==
    /\ dispatcher[d].pc = "check"
    /\ \E s \in dispatcher[d].cur :
        IF (s.claimed /\ s.book \in beat) \/ ~Exists(s.book)
        THEN DispatchDone(d, s)
        ELSE /\ dispatcher' = [dispatcher EXCEPT ![d].pc = "mark"]
             /\ UNCHANGED lock
    /\ UNCHANGED <<stores, upload, queue, worker, beat, reaper, faults>>

DispatchMark(d) ==
    /\ dispatcher[d].pc = "mark"
    /\ \E s \in dispatcher[d].cur :
        job' = IF RowStill(s)
               THEN [job EXCEPT ![s.job].status = "extracting"] ELSE job
    /\ dispatcher' = [dispatcher EXCEPT ![d].pc = "send"]
    /\ UNCHANGED <<book, file, vectors, texts, imports, upload, queue, worker,
                   beat, lock, reaper, faults>>

DispatchSend(d) ==
    /\ dispatcher[d].pc = "send"
    /\ \E s \in dispatcher[d].cur : Send(s.book) /\ DispatchDone(d, s)
    /\ UNCHANGED <<stores, upload, worker, beat, reaper, faults>>

DispatchEnd(d) ==
    /\ dispatcher[d].pc = "next"
    /\ dispatcher[d].todo = {}
    /\ dispatcher' = [dispatcher EXCEPT ![d] = NoDispatch]
    /\ UNCHANGED <<stores, upload, queue, worker, beat, lock, reaper, faults>>

DispatchCrash(d) ==
    /\ dispatcher[d].pc # "idle"
    /\ Fault("beatCrash")
    /\ dispatcher' = [dispatcher EXCEPT ![d] = NoDispatch]
    /\ UNCHANGED <<stores, upload, queue, worker, beat, lock, reaper>>

\* The lock's 120 s pass.  A run holds it for a few calls, far less.
Holds(d, b) == \E s \in dispatcher[d].cur : s.book = b
LockExpires(b) ==
    /\ lock[b] = "expiring"
    /\ \A d \in Dispatchers : ~Holds(d, b)
    /\ lock' = [lock EXCEPT ![b] = "free"]
    /\ UNCHANGED <<stores, upload, queue, worker, beat, dispatcher, reaper,
                   faults>>

-----------------------------------------------------------------------------
(* reap_stale_jobs: one SELECT, one heartbeat check per row, then for each
   stale row a revocation, an UPDATE and a message. *)
ReapScan(r) ==
    /\ reaper[r].pc = "idle"
    /\ RowsWith(Active) # {}
    /\ reaper' = [reaper EXCEPT
                    ![r].pc = "check",
                    ![r].todo = {[job |-> j, book |-> job[j].book,
                                  task |-> job[j].task] :
                                     j \in RowsWith(Active)}]
    /\ UNCHANGED <<stores, upload, queue, worker, beat, lock, dispatcher,
                   faults>>

\* A task that has claimed its rows and has not sent its first heartbeat, a few
\* milliseconds later, looks dead.  The reaper runs every five minutes: that it
\* hits these milliseconds is counted as a fault.
Starting(b) ==
    \E w \in Workers : worker[w].book = b /\ worker[w].pc \in {"readJob", "readBook"}

ReapCheck(r) ==
    /\ reaper[r].pc = "check"
    /\ \E s \in reaper[r].todo :
        /\ reaper' = [reaper EXCEPT
                         ![r].todo = @ \ {s},
                         ![r].stale = IF s.book \in beat THEN @ ELSE @ \cup {s}]
        /\ IF s.book \notin beat /\ Starting(s.book)
           THEN Fault("earlyReap") ELSE UNCHANGED faults
    /\ UNCHANGED <<stores, upload, queue, worker, beat, lock, dispatcher>>

\* All heartbeats are checked, or a stale row was dealt with: on to the next.
ReapNext(r) ==
    /\ \/ reaper[r].pc = "check" /\ reaper[r].todo = {}
       \/ reaper[r].pc = "next"
    /\ \/ /\ reaper[r].stale = {}
          /\ reaper' = [reaper EXCEPT ![r] = NoReap]
       \/ \E s \in reaper[r].stale :
             reaper' = [reaper EXCEPT ![r].pc = "requeue", ![r].cur = {s},
                                      ![r].stale = @ \ {s}]
    /\ UNCHANGED <<stores, upload, queue, worker, beat, lock, dispatcher,
                   faults>>

\* celery_app.control.revoke(task, terminate=True): a broadcast that matters to
\* the queued message or the run of that task, if there is one.
Revoke(task) ==
    revoked' = IF /\ task \in Tasks
                  /\ \/ message[task].state # "gone"
                     \/ Runners(task) # {}
               THEN revoked \cup {task}
               ELSE revoked

\* The checkpoint is kept.
MutantReapRequeue(r) ==
    /\ reaper[r].pc = "requeue"
    /\ \E s \in reaper[r].cur :
        /\ Revoke(s.task)
        /\ job' = IF RowStill(s) THEN [job EXCEPT ![s.job].status = "queued"] ELSE job
        /\ reaper' = [reaper EXCEPT ![r].pc = "send",
                                    ![r].cur = {[s EXCEPT !.task = NoTask]}]
    /\ UNCHANGED <<book, file, vectors, texts, imports, upload, message, worker,
                   beat, lock, dispatcher, faults>>

ReapRequeue(r) ==
    /\ reaper[r].pc = "requeue"
    /\ \E s \in reaper[r].cur :
        /\ Revoke(s.task)
        /\ IF Exists(s.book)
           THEN /\ job' = IF RowStill(s)
                          THEN [job EXCEPT ![s.job].status = "queued",
                                           ![s.job].checkpoint = "none"]
                          ELSE job
                /\ reaper' = [reaper EXCEPT ![r].pc = "send",
                                            ![r].cur = {[s EXCEPT !.task = NoTask]}]
           ELSE /\ reaper' = [reaper EXCEPT ![r].pc = "next", ![r].cur = {}]
                /\ UNCHANGED job
    /\ UNCHANGED <<book, file, vectors, texts, imports, upload, message, worker,
                   beat, lock, dispatcher, faults>>

ReapSend(r) ==
    /\ reaper[r].pc = "send"
    /\ \E s \in reaper[r].cur : Send(s.book)
    /\ reaper' = [reaper EXCEPT ![r].pc = "next", ![r].cur = {}]
    /\ UNCHANGED <<stores, upload, worker, beat, lock, dispatcher, faults>>

ReapCrash(r) ==
    /\ reaper[r].pc # "idle"
    /\ Fault("beatCrash")
    /\ reaper' = [reaper EXCEPT ![r] = NoReap]
    /\ UNCHANGED <<stores, upload, queue, worker, beat, lock, dispatcher>>

-----------------------------------------------------------------------------
UploadNext(b) == UploadStore(b) \/ UploadCommit(b) \/ UploadSend(b)

\* What a worker does when nothing goes wrong outside it.
WorkerStep(w) ==
    \/ Claim(w) \/ ReadJob(w) \/ ReadBook(w)
    \/ Fetch(w) \/ Extract(w) \/ SavePages(w) \/ ToChunking(w)
    \/ Chunk(w) \/ ToEmbedding(w) \/ Embed(w)
    \/ IndexQdrant(w) \/ IndexMeilisearch(w)
    \/ SetReady(w) \/ Complete(w) \/ Announce(w)
    \/ MarkFailed(w)

WorkerFault(w) ==
    \/ StepFails(w) \/ MarkFailedGivesUp(w) \/ ChildLost(w) \/ NodeCrash(w)
    \/ IndexTaskFails(w) \/ IndexOutlasts(w) \/ Terminate(w)

DispatcherStep(d) ==
    \/ DispatchScan(d) \/ DispatchLock(d) \/ DispatchArm(d)
    \/ DispatchCheck(d) \/ DispatchMark(d) \/ DispatchSend(d)
    \/ DispatchEnd(d)

ReaperStep(r) ==
    \/ ReapScan(r) \/ ReapCheck(r) \/ ReapNext(r)
    \/ ReapRequeue(r) \/ ReapSend(r)

Next ==
    \/ \E b \in Books : \/ UploadNext(b) \/ UploadCrash(b)
                        \/ BeatExpires(b) \/ BeatAgain(b)
                        \/ LockExpires(b)
                        \/ ImportDone(b) \/ ImportFails(b)
    \/ \E t \in Tasks : Redeliver(t) \/ Discard(t)
    \/ \E w \in Workers : \/ \E t \in Tasks : Take(w, t)
                          \/ WorkerStep(w) \/ ExtractProgress(w)
                          \/ WorkerFault(w)
    \/ \E d \in Dispatchers : DispatcherStep(d) \/ DispatchCrash(d)
    \/ \E r \in Reapers : ReaperStep(r) \/ ReapCrash(r)

Spec == Init /\ [][Next]_vars

\* A slot takes a message when it is free and goes on with its task when it is
\* not; beat runs the dispatcher every minute and the reaper every five; keys
\* expire and heartbeats are sent; the broker delivers again what a lost node had
\* taken and drops what was revoked.  Nothing is assumed of faults, of revocations
\* that reach a run, of the progress loop or of Meilisearch's queue.
Fairness ==
    /\ \A b \in Books : /\ WF_vars(UploadNext(b))
                        /\ WF_vars(IF Beating(b) THEN BeatAgain(b) ELSE BeatExpires(b))
                        /\ WF_vars(LockExpires(b))
    /\ \A t \in Tasks :
        WF_vars((Runners(t) = {} /\ Redeliver(t)) \/ Discard(t))
    /\ \A w \in Workers : WF_vars(WorkerStep(w) \/ \E t \in Tasks : Take(w, t))
    /\ \A d \in Dispatchers : WF_vars(DispatcherStep(d))
    /\ \A r \in Reapers : WF_vars(ReaperStep(r))

FairSpec == Spec /\ Fairness

-----------------------------------------------------------------------------
(* Properties. *)
Rows == {j \in Jobs : job[j].book # NoBook}

\* A row that says the work is over - completed or failed - belongs to a book
\* that says so too: no book stays "pending" behind a finished job, with any
\* number of duplicate runs, crashes and reaps.  (_mark_failed writes both rows
\* in one transaction; update_book_status commits before the job completes.)
TerminalMeansSettled ==
    \A j \in Rows : job[j].status \in Terminal =>
        book[job[j].book].status \in {"ready", "failed"}

\* A checkpoint never runs ahead of what is committed: past the extraction the
\* book's page count is stored, and "completed" is never written for a book
\* nobody made ready.
CheckpointHonest ==
    \A j \in Rows :
        /\ job[j].checkpoint \in {"chunking", "embedding", "indexing", "completed"}
              => book[job[j].book].pages
        /\ job[j].checkpoint = "completed"
              => book[job[j].book].status \in {"ready", "failed"}

\* Both indexes have the book, or Meilisearch has it in its queue.
Indexed(b) == b \in vectors /\ b \in texts \cup imports

\* A book that is offered with a non-zero chunk count is in both indexes:
\* update_book_status runs after index_to_qdrant and index_to_meilisearch of the
\* same run, whatever other runs do and however busy Meilisearch is, as long as
\* it fails no import.
ReadyIsSearchable ==
    \A b \in Books : book[b].status = "ready" /\ book[b].chunks => Indexed(b)

\* Two runs of the dispatcher never deal with the same book at a time: the
\* SETNX lock, as long as its 120 s outlast one row's handling.
OneDispatchPerBook ==
    \A b \in Books, d, e \in Dispatchers : Holds(d, b) /\ Holds(e, b) => d = e

\* A ready book has chunks: what a crashed run had computed is computed again or
\* restored when its task is resumed.
ReadyHasChunks ==
    \A b \in Books : book[b].status = "ready" => book[b].chunks

\* A queued row that nothing will take up.  A dispatcher died between the SETNX
\* and the EXPIRE of its lock, so that the lock never goes and every later
\* dispatcher skips the book; the reaper does not look at queued rows; and no
\* upload, message or run is left to do without either.
Stranded(b) ==
    /\ lock[b] = "bare"
    /\ \A d \in Dispatchers : ~Holds(d, b)
    /\ \E j \in RowsOf(b) : job[j].status = "queued"
    /\ upload[b] = "done"
    /\ \A t \in Tasks : message[t].book # b
    /\ \A w \in Workers : worker[w].book # b
    /\ \A r \in Reapers :
        \A s \in reaper[r].todo \cup reaper[r].stale \cup reaper[r].cur :
            s.book # b

\* No book stays pending for ever, with up to MaxFaults of the run's kinds of
\* fault, but in one case: it is stranded behind a lock without a TTL.  (Once it
\* is not pending it is ready or failed: the pipeline takes no book away.)
PendingSettles ==
    \A b \in Books : []<>(book[b].status # "pending" \/ Stranded(b))

\* No job row stays "queued" or in an active phase for ever, but in the same case.
JobSettles ==
    \A j \in Jobs :
        []<>(\/ j \notin Rows
             \/ job[j].status \in Terminal
             \/ \E b \in Books : j \in RowsOf(b) /\ Stranded(b))

-----------------------------------------------------------------------------
(* The inductive invariant behind TypeOK, TerminalMeansSettled,
   CheckpointHonest and ReadyIsSearchable. *)

\* Whatever refers to a book refers to one that was committed: rows, messages,
\* runs, the lists of the dispatcher and of the reaper.
UploadsRefer ==
    \A b \in Books : /\ upload[b] \in {"new", "stored"} => ~Exists(b)
                     /\ upload[b] = "committed" => Exists(b)
RowsRefer == \A j \in Rows : Exists(job[j].book)
MessagesRefer ==
    \A t \in Tasks : message[t].state # "gone" =>
        message[t].book \in Books /\ Exists(message[t].book)
RunsRefer ==
    \A w \in Workers : worker[w].pc # "idle" =>
        /\ worker[w].task \in Tasks
        /\ worker[w].book \in Books
        /\ Exists(worker[w].book)
DispatchersRefer ==
    \A d \in Dispatchers : \A s \in dispatcher[d].todo \cup dispatcher[d].cur :
        Exists(s.book)
ReapersRefer ==
    \A r \in Reapers :
        \A s \in reaper[r].todo \cup reaper[r].stale \cup reaper[r].cur :
            Exists(s.book)
RefersToBooks ==
    /\ UploadsRefer /\ RowsRefer /\ MessagesRefer /\ RunsRefer
    /\ DispatchersRefer /\ ReapersRefer

PastExtraction == {"toChunking", "chunk", "toEmbedding", "embed", "qdrant",
                   "meili", "setReady", "complete", "announce"}

\* What a run has done by the time it stands at a statement.
HonestRun(w) ==
    LET b == worker[w].book IN
    /\ worker[w].pc \in PastExtraction => book[b].pages
    /\ worker[w].pc = "readBook"
       /\ worker[w].resume \in {"chunking", "embedding", "indexing", "completed"}
          => book[b].pages
    /\ worker[w].pc \in {"meili", "setReady"} /\ worker[w].chunks
          => b \in vectors
    /\ worker[w].pc = "setReady" /\ worker[w].chunks
          => b \in texts \cup imports \/ "taskFails" \in Faults
    /\ worker[w].pc = "complete" => book[b].status \in {"ready", "failed"}
RunsHonest == \A w \in Workers : HonestRun(w)

SearchableUnlessTaskFails == "taskFails" \notin Faults => ReadyIsSearchable

IngestionInv ==
    /\ TypeOK
    /\ RefersToBooks
    /\ RunsHonest
    /\ TerminalMeansSettled
    /\ CheckpointHonest
    /\ SearchableUnlessTaskFails
=============================================================================

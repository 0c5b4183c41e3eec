------------------------------ MODULE BookAdmin ------------------------------
(***************************************************************************)
(* The admin's requests on a book, delete_book and reprocess_book, beside  *)
(* the ingestion pipeline.  Neither takes a lock and neither waits for the *)
(* task it revokes: each is a sequence of calls to Postgres, the broker,   *)
(* Qdrant, Meilisearch and MinIO that interleaves with everything else.    *)
(*                                                                         *)
(* update_book changes titles and languages only, which this model does    *)
(* not carry.                                                              *)
(***************************************************************************)
EXTENDS Ingestion

CONSTANTS
    Requests,    \* the requests that may be made
    AdminsWait,  \* TRUE: an admin leaves alone a book that is being processed
    LargeBooks   \* the books with more than 1000 chunks

ASSUME BookAdminAssumption ==
    /\ AdminsWait \in BOOLEAN
    /\ LargeBooks \subseteq Books

VARIABLE request   \* the progress of each request

adminVars == <<vars, request>>

\* "doomed" is what the request's DELETE statement selected, "seen" the book as
\* its session loaded it, "left" the indexes still to be cleared, "missed"
\* what was there all the same when the call that clears it had returned (a
\* history field: the properties read it, no action does).
Request == [op: {"none", "delete", "reprocess"},
            pc: {"new", "indexes", "file", "commit", "send", "done", "error",
                 "died"},
            book: Books \cup {NoBook}, seen: Book, doomed: SUBSET Jobs,
            left: SUBSET {"vectors", "texts"},
            missed: SUBSET {"vectors", "texts", "file"}]
NoRequest == [op |-> "none", pc |-> "new", book |-> NoBook, seen |-> NoBookRow,
              doomed |-> {}, left |-> {}, missed |-> {}]

AdminInit ==
    /\ Init
    /\ request = [r \in Requests |-> NoRequest]

-----------------------------------------------------------------------------
InFlight(r) == request[r].pc \notin {"new", "done", "error", "died"}
Served(b) == \E r \in Requests : InFlight(r) /\ request[r].book = b

\* Nothing in the pipeline works on the book and nothing is about to.
AtRest(b) ==
    /\ upload[b] = "done"
    /\ \A j \in RowsOf(b) : job[j].status \in Terminal
    /\ \A t \in Tasks : message[t].book # b
    /\ \A w \in Workers : worker[w].book # b
    /\ \A d \in Dispatchers :
        \A s \in dispatcher[d].todo \cup dispatcher[d].cur : s.book # b
    /\ \A r \in Reapers :
        \A s \in reaper[r].todo \cup reaper[r].stale \cup reaper[r].cur :
            s.book # b

\* Nor does a request.
Quiet(b) == AtRest(b) /\ ~Served(b)

TasksOf(b) == {job[j].task : j \in RowsOf(b)} \ {NoTask}

\* The old row is forgotten.
MutantDoomed(b, op) == {}
\* reprocess_book deletes the row only if it had a task.
Doomed(b, op) ==
    IF op = "reprocess" /\ TasksOf(b) # {} THEN RowsOf(b) ELSE {}

\* Both handlers read the book, then its one row, and revoke the row's task.  A
\* second row raises.
Begin(r, b, op) ==
    /\ request[r].pc = "new"
    /\ Exists(b)
    /\ AdminsWait => Quiet(b)
    /\ IF OneRowAtMost(b)
       THEN /\ request' = [request EXCEPT ![r] =
                 [op |-> op, pc |-> "indexes", book |-> b, seen |-> book[b],
                  doomed |-> Doomed(b, op),
                  left |-> {"vectors", "texts"}, missed |-> {}]]
            /\ IF TasksOf(b) = {} THEN UNCHANGED revoked
                                  ELSE \E t \in TasksOf(b) : Revoke(t)
       ELSE /\ request' = [request EXCEPT ![r].op = op, ![r].pc = "error",
                                          ![r].book = b]
            /\ UNCHANGED revoked
    /\ UNCHANGED <<stores, upload, message, worker, beat, lock, dispatcher,
                   reaper, faults>>

Missed(r, what, stillThere) ==
    request[r].missed \cup (IF stillThere THEN {what} ELSE {})

\* reprocess_book takes delete_book's way through the PDF.
MutantCleared(r, index, stillThere) ==
    LET left == request[r].left \ {index} IN
    request' = [request EXCEPT
                  ![r].left = left,
                  ![r].missed = Missed(r, index, stillThere),
                  ![r].pc = IF left # {} THEN "indexes" ELSE "file"]
\* The handler goes on when the first of the two calls has returned.
MutantGathered(r, index, stillThere) ==
    request' = [request EXCEPT
                  ![r].left = @ \ {index},
                  ![r].missed = Missed(r, index, stillThere),
                  ![r].pc = IF request[r].op = "delete" THEN "file" ELSE "commit"]
\* The two indexes are cleared concurrently; when both calls have returned the
\* handler goes on.
Cleared(r, index, stillThere) ==
    LET left == request[r].left \ {index} IN
    request' = [request EXCEPT
                  ![r].left = left,
                  ![r].missed = Missed(r, index, stillThere),
                  ![r].pc = CASE left # {} -> "indexes"
                              [] left = {} /\ request[r].op = "delete" -> "file"
                              [] left = {} /\ request[r].op = "reprocess" -> "commit"]

\* _delete_from_qdrant logs a failure and returns.
DropVectors(r) ==
    LET b == request[r].book IN
    /\ request[r].pc = "indexes" /\ "vectors" \in request[r].left
    /\ \/ vectors' = vectors \ {b} /\ UNCHANGED faults
       \/ UNCHANGED vectors /\ Fault("exception")
    /\ Cleared(r, "vectors", b \in vectors')
    /\ UNCHANGED <<book, job, file, texts, imports, upload, queue, worker, beat,
                   lock, dispatcher, reaper>>

\* _delete_from_meilisearch looks up the documents that a search finds, 1000 at
\* most, and queues the deletion of their ids; it too logs a failure and returns.
\* Documents that are still in the queue are not found: they come after all,
\* unless they have the ids of some that are (a run of the same pages).
DropTexts(r) ==
    LET b == request[r].book IN
    /\ request[r].pc = "indexes" /\ "texts" \in request[r].left
    /\ \/ /\ texts' = texts \ ({b} \ LargeBooks)
          /\ imports' \in {imports, imports \ ({b} \cap texts)}
          /\ UNCHANGED faults
       \/ UNCHANGED <<texts, imports>> /\ Fault("exception")
    /\ Cleared(r, "texts", b \in texts' \cup imports')
    /\ UNCHANGED <<book, job, file, vectors, upload, queue, worker, beat, lock,
                   dispatcher, reaper>>

DropFile(r) ==
    LET b == request[r].book IN
    /\ request[r].pc = "file"
    /\ \/ file' = file \ {b} /\ UNCHANGED faults
       \/ UNCHANGED file /\ Fault("exception")
    /\ request' = [request EXCEPT ![r].pc = "commit",
                                  ![r].missed = Missed(r, "file", b \in file')]
    /\ UNCHANGED <<book, job, vectors, texts, imports, upload, queue, worker,
                   beat, lock, dispatcher, reaper>>

\* delete_book: rows and book go in one transaction.
DeleteRows(r) ==
    LET b == request[r].book IN
    /\ request[r].pc = "commit" /\ request[r].op = "delete"
    /\ job' = [j \in Jobs |-> IF job[j].book = b THEN NoJobRow ELSE job[j]]
    /\ book' = [book EXCEPT ![b] = NoBookRow]
    /\ request' = [request EXCEPT ![r].pc = "done"]
    /\ UNCHANGED <<file, vectors, texts, imports, upload, queue, worker, beat,
                   lock, dispatcher, reaper, faults>>

\* A row id is a new uuid: not one that anybody remembers.
FreshRow(j) ==
    /\ job[j].book = NoBook
    /\ \A d \in Dispatchers :
        \A s \in dispatcher[d].todo \cup dispatcher[d].cur : s.job # j
    /\ \A r \in Reapers :
        \A s \in reaper[r].todo \cup reaper[r].stale \cup reaper[r].cur :
            s.job # j
    /\ \A r \in Requests : j \notin request[r].doomed

\* The row's foreign key holds, and the UPDATE of the book finds its row.
MutantStillThere(q) == TRUE
StillThere(q) == Exists(q.book)

\* The status is not reset.
MutantResetColumn(seen, blank, now) == now
\* The session writes only the columns that differ from what it had loaded.
ResetColumn(seen, blank, now) == IF seen = blank THEN now ELSE blank

\* reprocess_book's transaction: the old row goes, the book is reset and a new
\* row comes.  If the book has gone meanwhile the transaction fails.
Recreate(r) ==
    LET q == request[r]
        now == book[q.book]
    IN
    /\ q.pc = "commit" /\ q.op = "reprocess"
    /\ IF StillThere(q)
       THEN /\ \E j \in Jobs :
                /\ FreshRow(j)
                /\ job' = [i \in Jobs |->
                             CASE i = j -> [NoJobRow EXCEPT !.book = q.book]
                               [] i # j /\ i \in q.doomed -> NoJobRow
                               [] OTHER -> job[i]]
            /\ book' = [book EXCEPT ![q.book] =
                 [status |-> ResetColumn(q.seen.status, "pending", now.status),
                  pages |-> ResetColumn(q.seen.pages, FALSE, now.pages),
                  chunks |-> ResetColumn(q.seen.chunks, FALSE, now.chunks)]]
            /\ request' = [request EXCEPT ![r].pc = "send", ![r].doomed = {}]
       ELSE /\ request' = [request EXCEPT ![r].pc = "error", ![r].doomed = {}]
            /\ UNCHANGED <<job, book>>
    /\ UNCHANGED <<file, vectors, texts, imports, upload, queue, worker, beat,
                   lock, dispatcher, reaper, faults>>

SendAgain(r) ==
    /\ request[r].pc = "send"
    /\ Send(request[r].book)
    /\ request' = [request EXCEPT ![r].pc = "done"]
    /\ UNCHANGED <<stores, upload, worker, beat, lock, dispatcher, reaper,
                   faults>>

\* Its process dies, or a call to Postgres or to the broker raises: the handler
\* goes no further.
RequestDies(r) ==
    /\ InFlight(r)
    /\ Fault("apiCrash")
    /\ request' = [request EXCEPT ![r].pc = "died", ![r].doomed = {}]
    /\ UNCHANGED <<stores, upload, queue, worker, beat, lock, dispatcher,
                   reaper>>

AdminStep(r) ==
    \/ \E b \in Books, op \in {"delete", "reprocess"} : Begin(r, b, op)
    \/ DropVectors(r) \/ DropTexts(r) \/ DropFile(r)
    \/ DeleteRows(r) \/ Recreate(r) \/ SendAgain(r)
    \/ RequestDies(r)

AdminNext ==
    \/ Next /\ UNCHANGED request
    \/ \E r \in Requests : AdminStep(r)

AdminSpec == AdminInit /\ [][AdminNext]_adminVars

-----------------------------------------------------------------------------
(* Properties. *)
AdminTypeOK ==
    /\ TypeOK
    /\ request \in [Requests -> Request]

\* A second job row, on which every later task, deletion and reprocessing of the
\* book raises (scalar_one_or_none), comes only beside a row that no task has
\* claimed: reprocess_book deletes the row that it read, if that had a task, and
\* when it commits that row is still the book's only one.
SecondRowOnlyUnclaimed ==
    [][\A b \in Books : OneRowAtMost(b) /\ ~OneRowAtMost(b)' =>
            RowsOf(b) # {} /\ TasksOf(b) = {}]_adminVars

\* "removes all data": once delete_book has answered, its book and its job rows
\* are gone, and an index or MinIO holds something of the book only if it did so
\* when the call that clears it returned.  Nothing is skipped, and nothing comes
\* back that was gone.
DeleteIsFinal ==
    \A r \in Requests : request[r].pc = "done" /\ request[r].op = "delete" =>
        LET b == request[r].book IN
        /\ ~Exists(b) /\ RowsOf(b) = {}
        /\ b \in vectors => "vectors" \in request[r].missed
        /\ b \in texts \cup imports => "texts" \in request[r].missed
        /\ b \in file => "file" \in request[r].missed

\* A ready book with chunks is in both indexes, except while a request is clearing
\* them.
SearchableUnlessServed ==
    \A b \in Books : book[b].status = "ready" /\ book[b].chunks /\ ~Served(b) =>
        Indexed(b)

\* The same, asked only when all work on the book is over.
SearchableWhenQuiet ==
    \A b \in Books : book[b].status = "ready" /\ book[b].chunks /\ Quiet(b) =>
        Indexed(b)

\* A book that is still offered can be processed again: its PDF is gone only
\* where a request to delete it is about to delete the rows too, or died before
\* it could.
FileOutlivesRow ==
    \A b \in Books : Exists(b) /\ b \notin file =>
        \E r \in Requests : /\ request[r].op = "delete"
                            /\ request[r].pc \in {"commit", "died"}
                            /\ request[r].left = {}
                            /\ request[r].book = b

\* A deleted book stays deleted: no run, reaper, dispatcher or reprocess_book
\* that began before brings back its row or a job row.
NoResurrection ==
    [][\A b \in Books : upload[b] = "done" /\ ~Exists(b) =>
            ~Exists(b)' /\ RowsOf(b)' = {}]_adminVars
=============================================================================

---------------------------- MODULE BookAdminProofs ----------------------------
(* Theorems about BookAdmin: what deletions and reprocessings, however many and
   at whatever time, never do to a book beside a pipeline that works on it. *)
EXTENDS BookAdmin, IngestionProofs

USE DEF stores, queue

\* A book that was not committed yet has no row; once its upload stored the PDF,
\* the PDF is there until a request begins.
UploadsHonest ==
    \A b \in Books : /\ upload[b] \in {"new", "stored"} => ~Exists(b)
                     /\ upload[b] = "stored" => b \in file

\* A request has a book that was committed; past the indexes it cleared both.
RequestsHonest ==
    \A r \in Requests :
        /\ request[r].pc # "new" => /\ request[r].op # "none"
                                    /\ request[r].book \in Books
                                    /\ upload[request[r].book] \in {"committed", "done"}
        /\ request[r].pc \in {"file", "commit"} => request[r].left = {}
        /\ request[r].pc = "file" => request[r].op = "delete"

\* FileOutlivesRow needs to know where a PDF comes from and where it goes;
\* NoResurrection that every row has a book.
AdminInv ==
    /\ AdminTypeOK /\ NamesBooks /\ LocksInv
    /\ RowsRefer /\ UploadsHonest /\ RequestsHonest
    /\ FileOutlivesRow

\* Nobody has asked for anything at first.
LEMMA InitAdmin == AdminInit => AdminInv
<1>. SUFFICES ASSUME AdminInit PROVE AdminInv OBVIOUS
<1>1. AdminTypeOK
  BY InitTypeOK DEF AdminInit, AdminTypeOK, Request, NoRequest, Book, NoBookRow
<1>2. NamesBooks BY DEF AdminInit, Init, NamesBooks, NoMessage, Idle
<1>3. RowsRefer BY DEF AdminInit, Init, RowsRefer, Rows, NoJobRow
<1>4. UploadsHonest /\ RequestsHonest /\ FileOutlivesRow
  BY DEF AdminInit, Init, UploadsHonest, RequestsHonest, FileOutlivesRow,
     Exists, NoBookRow, NoRequest
<1>. QED BY <1>1, <1>2, <1>3, <1>4, InitLocks DEF AdminInit, AdminInv

-----------------------------------------------------------------------------
(* What the pipeline does to the books, their rows and their files. *)

\* A message that is sent for a book names it.
LEMMA SendNames ==
  ASSUME TypeOK, NamesBooks, NEW b \in Books, Send(b), UNCHANGED worker
  PROVE  NamesBooks'
  BY DEF NamesBooks, Send, TypeOK, Message

\* Every step of the pipeline leaves its messages and runs with a book.
LEMMA PipelineNames ==
  ASSUME TypeOK, NamesBooks, [Next]_vars
  PROVE  NamesBooks'
<1>1. CASE UNCHANGED <<message, worker>> BY <1>1 DEF NamesBooks
<1>2. ASSUME NEW b \in Books,
             \/ UploadNext(b) \/ UploadCrash(b)
             \/ BeatExpires(b) \/ BeatAgain(b) \/ LockExpires(b)
             \/ ImportDone(b) \/ ImportFails(b)
      PROVE  NamesBooks'
  BY <1>1, <1>2, SendNames
     DEF UploadNext, UploadStore, UploadCommit, UploadSend, UploadCrash,
         BeatExpires, BeatAgain, LockExpires, ImportDone, ImportFails
<1>3. ASSUME NEW t \in Tasks, Redeliver(t) \/ Discard(t) PROVE NamesBooks'
  BY <1>3 DEF Redeliver, Discard, TypeOK, Message, NoMessage, NamesBooks
<1>4. ASSUME NEW w \in Workers, NEW t \in Tasks, Take(w, t) PROVE NamesBooks'
  BY <1>4 DEF Take, TypeOK, Message, NamesBooks, Idle
<1>5. ASSUME NEW w \in Workers,
             WorkerStep(w) \/ ExtractProgress(w) \/ WorkerFault(w)
      PROVE  NamesBooks'
  BY <1>5, WorkerKeeps DEF NamesBooks, RunGoesOn, Idle, NoMessage
<1>6. ASSUME NEW d \in Dispatchers, DispatcherStep(d) \/ DispatchCrash(d)
      PROVE  NamesBooks'
  BY ZenonT(40), <1>1, <1>6, DispatcherFields, SendNames
     DEF DispatcherStep, DispatchScan, DispatchLock, DispatchArm, DispatchCheck,
         DispatchMark, DispatchSend, DispatchEnd, DispatchCrash
<1>7. ASSUME NEW r \in Reapers, ReaperStep(r) \/ ReapCrash(r)
      PROVE  NamesBooks'
  BY <1>1, <1>7, ReaperFields, SendNames
     DEF ReaperStep, ReapScan, ReapCheck, ReapNext, ReapRequeue, ReapSend,
         ReapCrash
<1>. QED BY <1>1, <1>2, <1>3, <1>4, <1>5, <1>6, <1>7 DEF Next, vars

\* upload_book stores the PDF before it commits the rows.
UploadGoesOn(b) ==
    \/ upload'[b] = upload[b]
    \/ upload[b] = "new" /\ upload'[b] = "stored" /\ b \in file'
    \/ upload[b] \in {"stored", "committed"} /\ upload'[b] \in {"committed", "done"}

\* What the pipeline keeps: it deletes no book and no PDF, only upload_book makes
\* a book, and a row that is new or changed belongs to a book that exists.
BooksStand ==
    /\ \A b \in Books : /\ UploadGoesOn(b)
                        /\ Exists(b) => Exists(b)'
                        /\ Exists(b)' => \/ Exists(b)
                                         \/ /\ upload[b] = "stored"
                                            /\ upload'[b] = "committed"
                        /\ b \in file => b \in file'
    /\ \A j \in Jobs : \/ job'[j].book = job[j].book
                       \/ job'[j].book \in Books /\ Exists(job[j].book)'

\* No step of the pipeline does more.
LEMMA PipelineKeeps ==
  ASSUME TypeOK, NamesBooks, [Next]_vars
  PROVE  BooksStand
<1>1. CASE UNCHANGED <<book, job, file, upload>>
  BY <1>1 DEF BooksStand, UploadGoesOn, Exists
<1>2. ASSUME NEW b \in Books, UploadNext(b) \/ UploadCrash(b)
      PROVE  BooksStand
  <2>1. CASE UploadStore(b)
    BY <2>1 DEF UploadStore, BooksStand, UploadGoesOn, Exists, TypeOK
  <2>2. CASE UploadCommit(b)
    <3>1. \A c \in Books : c # b => book'[c] = book[c] /\ upload'[c] = upload[c]
      BY <2>2 DEF UploadCommit, TypeOK
    <3>2. /\ book'[b].status = "pending"
          /\ upload[b] = "stored" /\ upload'[b] = "committed"
          /\ file' = file
      BY <2>2 DEF UploadCommit, TypeOK, NoBookRow
    <3>3. \A j \in Jobs : job'[j] = job[j] \/ job'[j].book = b
      BY <2>2 DEF UploadCommit, TypeOK, NoJobRow
    <3>4. \A j \in Jobs : \/ job'[j].book = job[j].book
                          \/ job'[j].book \in Books /\ Exists(job[j].book)'
      BY <3>2, <3>3 DEF Exists
    <3>5. \A c \in Books : c # b => (Exists(c)' <=> Exists(c))
      BY <3>1 DEF Exists
    <3>. QED BY <3>1, <3>2, <3>4, <3>5 DEF BooksStand, UploadGoesOn, Exists
  <2>3. CASE UploadSend(b) \/ UploadCrash(b)
    BY <2>3 DEF UploadSend, UploadCrash, BooksStand, UploadGoesOn, Exists, TypeOK
  <2>. QED BY <1>2, <2>1, <2>2, <2>3 DEF UploadNext
<1>3. ASSUME NEW w \in Workers,
             WorkerStep(w) \/ ExtractProgress(w) \/ WorkerFault(w)
      PROVE  BooksStand
  <2>1. UNCHANGED file
    BY <1>3 DEF WorkerStep, WorkerFault, Claim, ReadJob, ReadBook, Fetch, Extract,
       ExtractProgress, SavePages, ToChunking, ToEmbedding, Embed, EndPhase,
       Chunk, IndexQdrant, IndexMeilisearch, SetReady, Complete, Announce,
       MarkFailed, StepFails, MarkFailedGivesUp, ChildLost, NodeCrash,
       IndexTaskFails, IndexOutlasts, Terminate
  <2>. QED BY SMTT(30), <1>3, <2>1, WorkerKeeps DEF BooksStand, UploadGoesOn
<1>4. ASSUME NEW d \in Dispatchers, DispatchMark(d) PROVE BooksStand
  <2>1. PICK s \in dispatcher[d].cur : DispatchMark(d)!2!(s)
    BY <1>4 DEF DispatchMark
  <2>2. \A j \in Jobs : job'[j].book = job[j].book
    BY <2>1, DispatcherFields DEF TypeOK, Job
  <2>. QED BY <1>4, <2>2 DEF DispatchMark, BooksStand, UploadGoesOn, Exists
<1>5. ASSUME NEW r \in Reapers, ReapRequeue(r) PROVE BooksStand
  <2>1. PICK s \in reaper[r].cur : ReapRequeue(r)!2!(s)
    BY <1>5 DEF ReapRequeue
  <2>2. \A j \in Jobs : [job[j] EXCEPT !.status = "queued", !.checkpoint = "none"].book
                            = job[j].book
    BY DEF TypeOK, Job
  <2>3. \A j \in Jobs : job'[j].book = job[j].book
    BY ZenonT(40), <2>1, <2>2, ReaperFields DEF TypeOK
  <2>. QED BY <1>5, <2>3 DEF ReapRequeue, BooksStand, UploadGoesOn, Exists
<1>6. CASE UNCHANGED vars BY <1>1, <1>6 DEF vars
<1>7. CASE \E b \in Books : \/ BeatExpires(b) \/ BeatAgain(b) \/ LockExpires(b)
                            \/ ImportDone(b) \/ ImportFails(b)
  BY <1>1, <1>7 DEF BeatExpires, BeatAgain, LockExpires, ImportDone, ImportFails
<1>8. CASE \E t \in Tasks : \/ Redeliver(t) \/ Discard(t)
                            \/ \E w \in Workers : Take(w, t)
  BY <1>1, <1>8 DEF Redeliver, Discard, Take
<1>9. CASE \E d \in Dispatchers : DispatcherStep(d) \/ DispatchCrash(d)
  BY <1>1, <1>4, <1>9 DEF DispatcherStep, DispatchScan, DispatchLock,
     DispatchArm, DispatchCheck, DispatchSend, DispatchEnd, DispatchCrash
<1>10. CASE \E r \in Reapers : ReaperStep(r) \/ ReapCrash(r)
  BY <1>1, <1>5, <1>10 DEF ReaperStep, ReapScan, ReapCheck, ReapNext, ReapSend,
     ReapCrash
<1>. QED BY <1>2, <1>3, <1>6, <1>7, <1>8, <1>9, <1>10 DEF Next

\* A step of the pipeline keeps the invariant.
LEMMA PipelineInv ==
  ASSUME AdminInv, [Next]_vars, UNCHANGED request
  PROVE  AdminInv'
<1>1. TypeOK /\ NamesBooks /\ LocksInv BY DEF AdminInv, AdminTypeOK
<1>2. TypeOK' BY <1>1, TypeStep
<1>3. NamesBooks' BY <1>1, PipelineNames
<1>4. LocksInv' BY <1>1, <1>2, LocksStep
<1>5. BooksStand BY <1>1, PipelineKeeps
<1>6. RowsRefer'
  <2>1. \A j \in Jobs : job[j].book \in Books \cup {NoBook}
    BY <1>1 DEF TypeOK, Job
  <2>2. \A j \in Jobs : job[j].book # NoBook => Exists(job[j].book)
    BY DEF AdminInv, RowsRefer, Rows
  <2>3. ASSUME NEW j \in Jobs, job'[j].book # NoBook
        PROVE  Exists(job[j].book)'
    <3>1. CASE job'[j].book = job[j].book
      BY <1>5, <2>1, <2>2, <2>3, <3>1 DEF BooksStand, Exists
    <3>2. CASE job'[j].book # job[j].book BY <1>5, <3>2 DEF BooksStand
    <3>. QED BY <3>1, <3>2
  <2>. QED BY <2>3 DEF RowsRefer, Rows
<1>7. UploadsHonest'
  BY <1>1, <1>5 DEF AdminInv, BooksStand, UploadGoesOn, UploadsHonest
<1>8. RequestsHonest'
  BY <1>1, <1>5 DEF AdminInv, BooksStand, UploadGoesOn, RequestsHonest
<1>9. FileOutlivesRow'
  BY <1>5 DEF AdminInv, BooksStand, UploadsHonest, FileOutlivesRow
<1>. QED
  BY <1>2, <1>3, <1>4, <1>6, <1>7, <1>8, <1>9 DEF AdminInv, AdminTypeOK

-----------------------------------------------------------------------------
(* What the requests do. *)

\* The types of a request's fields.
LEMMA RequestFields ==
  ASSUME AdminTypeOK, NEW r \in Requests
  PROVE  /\ request[r] \in Request
         /\ request[r].book \in Books \cup {NoBook}
         /\ request[r].left \in SUBSET {"vectors", "texts"}
         /\ request[r].missed \in SUBSET {"vectors", "texts", "file"}
         /\ request[r].op \in {"none", "delete", "reprocess"}
         /\ request[r].seen \in Book
  BY DEF AdminTypeOK, Request

\* A request touches neither slots nor dispatchers, locks nor uploads.
LEMMA AdminLeaves ==
  ASSUME NEW r \in Requests, AdminStep(r)
  PROVE  UNCHANGED <<upload, worker, beat, lock, dispatcher, reaper>>
  BY DEF AdminStep, Begin, DropVectors, DropTexts, DropFile, DeleteRows,
     Recreate, SendAgain, RequestDies

\* A request that has dropped its book's PDF and has not deleted its rows.
Gone(q) ==
    /\ request[q].op = "delete"
    /\ request[q].pc \in {"commit", "died"}
    /\ request[q].left = {}

\* A step that drops no PDF and leaves such requests as they are.
LEMMA StillGone ==
  ASSUME FileOutlivesRow,
         \A b \in Books : Exists(b)' /\ b \notin file' => Exists(b) /\ b \notin file,
         \A q \in Requests : Gone(q) => request'[q] = request[q]
  PROVE  FileOutlivesRow'
  BY DEF FileOutlivesRow, Gone

\* Beginning a request deletes nothing: it reads, and revokes a task.
LEMMA BeginInv ==
  ASSUME AdminInv, NEW r \in Requests, NEW b \in Books,
         NEW op \in {"delete", "reprocess"}, Begin(r, b, op)
  PROVE  AdminInv'
<1>1. \A q \in Requests : q # r => request'[q] = request[q]
  BY DEF Begin, AdminInv, AdminTypeOK
<1>2. /\ request[r].pc = "new" /\ request'[r].pc \in {"indexes", "error"}
      /\ request'[r].book = b /\ request'[r].op = op
  BY RequestFields DEF Begin, AdminInv, AdminTypeOK, Request
<1>3. request'[r] \in Request
  <2>1. book[b] \in Book /\ Doomed(b, op) \in SUBSET Jobs
    BY DEF AdminInv, AdminTypeOK, TypeOK, Doomed, RowsOf
  <2>2. CASE OneRowAtMost(b)
    <3>1. request'[r] = [op |-> op, pc |-> "indexes", book |-> b, seen |-> book[b],
                         doomed |-> Doomed(b, op), left |-> {"vectors", "texts"},
                         missed |-> {}]
      BY <2>2 DEF Begin, AdminInv, AdminTypeOK
    <3>. QED BY <2>1, <3>1 DEF Request
  <2>3. CASE ~OneRowAtMost(b)
    <3>1. request' = [request EXCEPT ![r].op = op, ![r].pc = "error", ![r].book = b]
      BY <2>3 DEF Begin
    <3>. QED BY ZenonT(40), <3>1, RequestFields DEF AdminInv, AdminTypeOK, Request
  <2>. QED BY <2>2, <2>3
<1>4. request' \in [Requests -> Request]
  BY <1>3 DEF Begin, AdminInv, AdminTypeOK
<1>5. revoked' \in SUBSET Tasks
  BY DEF Begin, AdminInv, AdminTypeOK, TypeOK, TasksOf, Revoke
<1>6. AdminTypeOK' BY <1>4, <1>5 DEF Begin, AdminInv, AdminTypeOK, TypeOK
<1>7. NamesBooks' /\ LocksInv' /\ RowsRefer' /\ UploadsHonest'
  BY DEF Begin, AdminInv, NamesBooks, LocksInv, LockedWhileHeld,
     OneDispatchPerBook, Holds, RowsRefer, Rows, Exists, UploadsHonest
<1>8. RequestsHonest'
  <2>1. upload[b] \in {"committed", "done"}
    BY DEF Begin, AdminInv, AdminTypeOK, TypeOK, UploadsHonest
  <2>. QED BY <1>1, <1>2, <2>1 DEF Begin, AdminInv, RequestsHonest
<1>9. FileOutlivesRow'
  <2>1. \A q \in Requests : Gone(q) => request'[q] = request[q]
    BY <1>1, <1>2 DEF Gone
  <2>. QED BY <2>1, StillGone DEF Begin, AdminInv, Exists
<1>. QED BY <1>6, <1>7, <1>8, <1>9 DEF AdminInv

\* A request that has begun goes on to x with the same book.
GoesOn(r, x) ==
    /\ request[r].pc # "new"
    /\ request' = [request EXCEPT ![r] = x]
    /\ x \in Request
    /\ x.book = request[r].book
    /\ x.op = request[r].op
    /\ x.pc \in {"file", "commit"} => x.left = {}
    /\ x.pc = "file" => x.op = "delete"
    /\ x.pc # "new"

\* It keeps the invariant if its writes keep the types, the books' rows and what
\* is known of their PDFs.
LEMMA GoesOnInv ==
  ASSUME AdminInv, NEW r \in Requests, NEW x, GoesOn(r, x), TypeOK', NamesBooks',
         UNCHANGED <<upload, lock, dispatcher>>,
         RowsRefer', FileOutlivesRow',
         \A b \in Books : Exists(b)' => Exists(b),
         \A b \in Books : b \in file => b \in file' \/ b = request[r].book
  PROVE  AdminInv'
<1>1. AdminTypeOK' BY DEF AdminInv, AdminTypeOK, GoesOn
<1>2. LocksInv'
  BY DEF AdminInv, LocksInv, LockedWhileHeld, OneDispatchPerBook, Holds
<1>3. upload[request[r].book] # "stored" BY DEF AdminInv, RequestsHonest, GoesOn
<1>4. UploadsHonest' BY <1>3 DEF AdminInv, UploadsHonest
<1>5. RequestsHonest'
  <2>1. request'[r] = x /\ \A q \in Requests : q # r => request'[q] = request[q]
    BY DEF AdminInv, AdminTypeOK, GoesOn
  <2>. QED BY <2>1 DEF AdminInv, RequestsHonest, GoesOn
<1>. QED BY <1>1, <1>2, <1>4, <1>5 DEF AdminInv

\* The rows, the book table and the files are as before.
LEMMA NoRowsTouched ==
  ASSUME AdminInv, UNCHANGED <<book, job, worker>>
  PROVE  /\ RowsRefer'
         /\ \A b \in Books : Exists(b)' <=> Exists(b)
         /\ message' = message => NamesBooks'
  BY DEF AdminInv, RowsRefer, Rows, Exists, NamesBooks

\* Clearing an index touches neither rows nor PDFs.
LEMMA DropIndexInv ==
  ASSUME AdminInv, NEW r \in Requests, DropVectors(r) \/ DropTexts(r)
  PROVE  AdminInv'
<1>. DEFINE x == request'[r]
<1>1. PICK index \in {"vectors", "texts"} :
         \E stillThere \in BOOLEAN : Cleared(r, index, stillThere)
  <2>1. /\ (request[r].book \in vectors') \in BOOLEAN
        /\ (request[r].book \in texts' \cup imports') \in BOOLEAN
    OBVIOUS
  <2>2. CASE DropVectors(r) BY <2>1, <2>2 DEF DropVectors
  <2>3. CASE DropTexts(r) BY <2>1, <2>3 DEF DropTexts
  <2>. QED BY <2>2, <2>3
<1>2. /\ request[r].pc = "indexes" /\ request[r].op \in {"delete", "reprocess"}
      /\ UNCHANGED <<book, job, file, message, worker, upload, lock, dispatcher>>
  BY RequestFields DEF DropVectors, DropTexts, AdminInv, RequestsHonest
<1>3. GoesOn(r, x)
  <2>0. PICK stillThere \in BOOLEAN : Cleared(r, index, stillThere) BY <1>1
  <2>m. Missed(r, index, stillThere) \in SUBSET {"vectors", "texts", "file"}
    BY RequestFields DEF Missed, AdminInv
  <2>1. /\ request' = [request EXCEPT ![r] = x]
        /\ x.op = request[r].op /\ x.book = request[r].book
        /\ x.pc \in {"indexes", "file", "commit"}
        /\ x.left = request[r].left \ {index}
        /\ x.pc # "indexes" => x.left = {}
        /\ x.pc = "file" => x.op = "delete"
        /\ x.seen = request[r].seen /\ x.doomed = request[r].doomed
        /\ x.missed = Missed(r, index, stillThere)
    BY ZenonT(40), <2>0, <1>2, RequestFields DEF Cleared, AdminInv, AdminTypeOK, Request
  <2>2. x \in Request
    BY ZenonT(40), <2>0, <2>m, <1>2, <2>1, RequestFields DEF Cleared, AdminInv, AdminTypeOK, Request
  <2>. QED BY <1>2, <2>1, <2>2 DEF GoesOn
<1>4. TypeOK'
  BY FaultType DEF DropVectors, DropTexts, AdminInv, AdminTypeOK, TypeOK
<1>5. FileOutlivesRow'
  <2>1. \A q \in Requests : Gone(q) => request'[q] = request[q]
    BY <1>2, <1>3 DEF Gone, GoesOn, AdminInv, AdminTypeOK
  <2>. QED BY <1>2, <2>1, StillGone DEF AdminInv, Exists
<1>. QED BY <1>2, <1>3, <1>4, <1>5, NoRowsTouched, GoesOnInv

\* The PDF goes when the indexes are clear: its request is the one that
\* FileOutlivesRow asks for.
LEMMA DropFileInv ==
  ASSUME AdminInv, NEW r \in Requests, DropFile(r)
  PROVE  AdminInv'
<1>. DEFINE missed == Missed(r, "file", request[r].book \in file')
            x == [request[r] EXCEPT !.pc = "commit", !.missed = missed]
<1>0. missed \in SUBSET {"vectors", "texts", "file"}
  BY RequestFields DEF Missed, AdminInv
<1>1. /\ request[r].op = "delete" /\ request[r].left = {}
      /\ request[r].pc = "file"
      /\ UNCHANGED <<book, job, message, worker, upload, lock, dispatcher>>
  BY DEF DropFile, AdminInv, RequestsHonest
<1>2. /\ request' = [request EXCEPT ![r] = x]
      /\ x \in Request /\ x.book = request[r].book /\ x.op = "delete"
      /\ x.left = {} /\ x.pc = "commit"
  <2>0. request' = [request EXCEPT ![r].pc = "commit", ![r].missed = missed]
    BY DEF DropFile
  <2>. HIDE DEF missed
  <2>1. request' = [request EXCEPT ![r] = x] BY <2>0 DEF AdminInv, AdminTypeOK
  <2>2. x \in Request /\ x.book = request[r].book /\ x.op = "delete"
        /\ x.left = {} /\ x.pc = "commit"
    BY <1>0, <1>1, RequestFields DEF AdminInv, Request
  <2>. QED BY <2>1, <2>2
<1>3. GoesOn(r, x) BY <1>1, <1>2 DEF GoesOn
<1>4. TypeOK'
  BY FaultType DEF DropFile, AdminInv, AdminTypeOK, TypeOK
<1>5. FileOutlivesRow'
  <2>1. ASSUME NEW b \in Books, Exists(b)', b \notin file'
        PROVE  \E q \in Requests : (Gone(q) /\ request[q].book = b)'
    <3>1. CASE b = request[r].book BY <1>2, <3>1 DEF Gone, AdminInv, AdminTypeOK
    <3>2. CASE b # request[r].book
      <4>1. Exists(b) /\ b \notin file
        BY <1>1, <2>1, <3>2 DEF DropFile, Exists
      <4>2. PICK q \in Requests : Gone(q) /\ request[q].book = b
        BY <4>1 DEF AdminInv, FileOutlivesRow, Gone
      <4>3. request'[q] = request[q]
        BY <1>2, <3>2, <4>2 DEF AdminInv, AdminTypeOK
      <4>. QED BY <4>2, <4>3 DEF Gone
    <3>. QED BY <3>1, <3>2
  <2>. QED BY <2>1 DEF FileOutlivesRow, Gone
<1>6. \A b \in Books : b \in file => b \in file' \/ b = request[r].book
  BY DEF DropFile
<1>. QED BY <1>1, <1>3, <1>4, <1>5, <1>6, NoRowsTouched, GoesOnInv

\* delete_book's transaction takes the rows with the book.
LEMMA DeleteRowsInv ==
  ASSUME AdminInv, NEW r \in Requests, DeleteRows(r)
  PROVE  AdminInv'
<1>. DEFINE x == [request[r] EXCEPT !.pc = "done"]
            gone == request[r].book
<1>1. gone \in Books /\ request[r].op = "delete" /\ request[r].pc = "commit"
  BY DEF DeleteRows, AdminInv, RequestsHonest
<1>2. x \in Request /\ x.book = gone /\ x.op = "delete" /\ x.pc = "done"
  BY <1>1, RequestFields DEF AdminInv, AdminTypeOK, Request
<1>3. GoesOn(r, x) BY <1>1, <1>2 DEF DeleteRows, GoesOn
<1>4. NoJobRow \in Job /\ NoBookRow \in Book
  BY DEF NoJobRow, Job, JobStatus, Checkpoints, NoBookRow, Book
<1>5. TypeOK' BY <1>4 DEF DeleteRows, AdminInv, AdminTypeOK, TypeOK
<1>6. /\ ~Exists(gone)'
      /\ \A b \in Books : b # gone => (Exists(b)' <=> Exists(b))
      /\ \A j \in Jobs : IF job[j].book = gone THEN job'[j].book = NoBook
                                               ELSE job'[j] = job[j]
  BY <1>1 DEF DeleteRows, AdminInv, AdminTypeOK, TypeOK, Exists, NoBookRow, NoJobRow
<1>7. RowsRefer'
  BY <1>6 DEF AdminInv, AdminTypeOK, TypeOK, Job, RowsRefer, Rows
<1>8. FileOutlivesRow'
  <2>1. ASSUME NEW b \in Books, Exists(b)', b \notin file'
        PROVE  \E q \in Requests : (Gone(q) /\ request[q].book = b)'
    <3>1. Exists(b) /\ b # gone /\ b \notin file BY <1>6, <2>1 DEF DeleteRows
    <3>2. PICK q \in Requests : Gone(q) /\ request[q].book = b
      BY <3>1 DEF AdminInv, FileOutlivesRow, Gone
    <3>3. request'[q] = request[q]
      BY <3>1, <3>2 DEF DeleteRows, AdminInv, AdminTypeOK
    <3>. QED BY <3>2, <3>3 DEF Gone
  <2>. QED BY <2>1 DEF FileOutlivesRow, Gone
<1>9. NamesBooks' BY DEF DeleteRows, AdminInv, NamesBooks
<1>. QED
  BY <1>3, <1>5, <1>6, <1>7, <1>8, <1>9, GoesOnInv DEF DeleteRows

\* reprocess_book's transaction makes rows only for a book that exists.
LEMMA RecreateInv ==
  ASSUME AdminInv, NEW r \in Requests, Recreate(r)
  PROVE  AdminInv'
<1>. DEFINE q == request[r]
<1>1. q.book \in Books /\ q.op = "reprocess" /\ q.pc = "commit"
  BY DEF Recreate, AdminInv, RequestsHonest
<1>2. ASSUME NEW pc \in {"send", "error"},
             request' = [request EXCEPT ![r].pc = pc, ![r].doomed = {}]
      PROVE  GoesOn(r, [q EXCEPT !.pc = pc, !.doomed = {}])
  BY ZenonT(40), <1>1, <1>2, RequestFields DEF AdminInv, AdminTypeOK, Request, GoesOn
<1>3. ASSUME NEW s \in Requests, Gone(s) PROVE request'[s] = request[s]
  BY <1>1, <1>3 DEF Gone, Recreate, AdminInv, AdminTypeOK
<1>4. NamesBooks' BY DEF Recreate, AdminInv, NamesBooks
<1>5. CASE ~StillThere(q)
  <2>1. TypeOK' BY <1>5 DEF Recreate, AdminInv, AdminTypeOK, TypeOK
  <2>2. FileOutlivesRow'
    BY <1>3, <1>5, StillGone DEF Recreate, AdminInv, Exists
  <2>. QED BY <1>2, <1>5, <2>1, <2>2, NoRowsTouched, GoesOnInv DEF Recreate
<1>6. CASE StillThere(q)
  <2>1. Exists(q.book) BY <1>6 DEF StillThere
  <2>2. PICK j \in Jobs :
           job' = [i \in Jobs |->
                     CASE i = j -> [NoJobRow EXCEPT !.book = q.book]
                       [] i # j /\ i \in q.doomed -> NoJobRow
                       [] OTHER -> job[i]]
    BY <1>6 DEF Recreate
  <2>3. /\ NoJobRow \in Job /\ NoJobRow.book = NoBook
        /\ [NoJobRow EXCEPT !.book = q.book] \in Job
        /\ [NoJobRow EXCEPT !.book = q.book].book = q.book
    BY <1>1 DEF NoJobRow, Job, JobStatus, Checkpoints
  <2>4. /\ job' \in [Jobs -> Job]
        /\ \A i \in Jobs : job'[i].book \in {q.book, NoBook, job[i].book}
    BY <2>2, <2>3 DEF AdminInv, AdminTypeOK, TypeOK
  <2>5. /\ book' \in [Books -> Book]
        /\ book'[q.book].status \in {"pending", book[q.book].status}
        /\ \A b \in Books : b # q.book => book'[b] = book[b]
    <3>1. book[q.book] \in Book BY <1>1 DEF AdminInv, AdminTypeOK, TypeOK
    <3>2. book' = [book EXCEPT ![q.book] =
                 [status |-> ResetColumn(q.seen.status, "pending", book[q.book].status),
                  pages |-> ResetColumn(q.seen.pages, FALSE, book[q.book].pages),
                  chunks |-> ResetColumn(q.seen.chunks, FALSE, book[q.book].chunks)]]
      BY <1>6 DEF Recreate
    <3>. QED BY <1>1, <3>1, <3>2 DEF ResetColumn, AdminInv, AdminTypeOK, TypeOK, Book
  <2>6. \A b \in Books : Exists(b)' <=> Exists(b)
    BY <2>1, <2>5 DEF Exists
  <2>7. TypeOK' BY <1>6, <2>4, <2>5 DEF Recreate, AdminInv, AdminTypeOK, TypeOK
  <2>8. RowsRefer'
    <3>1. ASSUME NEW i \in Jobs, job'[i].book # NoBook PROVE Exists(job[i].book)'
      <4>1. job'[i].book \in Books BY <2>4, <3>1 DEF Job
      <4>2. Exists(job[i].book) \/ job'[i].book = q.book
        BY <2>4, <3>1 DEF AdminInv, RowsRefer, Rows
      <4>. QED BY <1>1, <2>1, <2>4, <2>6, <3>1, <4>1, <4>2 DEF Exists
    <3>. QED BY <3>1 DEF RowsRefer, Rows
  <2>9. FileOutlivesRow'
    BY <1>3, <2>6, StillGone DEF Recreate, AdminInv
  <2>. QED BY <1>2, <1>4, <1>6, <2>6, <2>7, <2>8, <2>9, GoesOnInv DEF Recreate
<1>. QED BY <1>5, <1>6

\* The new task is sent, or the process that serves the request dies.
LEMMA LastStepsInv ==
  ASSUME AdminInv, NEW r \in Requests, SendAgain(r) \/ RequestDies(r)
  PROVE  AdminInv'
<1>1. /\ request[r].book \in Books /\ request[r].pc # "new"
      /\ UNCHANGED <<book, job, file, worker, upload, lock, dispatcher>>
  BY DEF SendAgain, RequestDies, InFlight, AdminInv, RequestsHonest
<1>2. CASE SendAgain(r)
  <2>1. GoesOn(r, [request[r] EXCEPT !.pc = "done"])
    BY <1>1, <1>2, RequestFields
       DEF SendAgain, AdminInv, AdminTypeOK, Request, GoesOn
  <2>2. TypeOK'
    BY <1>1, <1>2, SendType DEF SendAgain, AdminInv, AdminTypeOK, TypeOK
  <2>3. NamesBooks'
    BY <1>1, <1>2, SendNames DEF SendAgain, AdminInv, AdminTypeOK
  <2>4. FileOutlivesRow'
    BY <1>1, <1>2, StillGone DEF SendAgain, Gone, AdminInv, AdminTypeOK, Exists
  <2>. QED BY <1>1, <2>1, <2>2, <2>3, <2>4, NoRowsTouched, GoesOnInv
<1>3. CASE RequestDies(r)
  <2>1. /\ GoesOn(r, [request[r] EXCEPT !.pc = "died", !.doomed = {}])
        /\ [request[r] EXCEPT !.pc = "died", !.doomed = {}].left = request[r].left
    BY ZenonT(40), <1>1, <1>3, RequestFields
       DEF RequestDies, AdminInv, AdminTypeOK, Request, GoesOn
  <2>2. TypeOK' BY <1>3, FaultType DEF RequestDies, AdminInv, AdminTypeOK, TypeOK
  <2>3. FileOutlivesRow'
    <3>1. ASSUME NEW q \in Requests, Gone(q)
          PROVE  Gone(q)' /\ request'[q].book = request[q].book
      BY <1>3, <2>1, <3>1, RequestFields
         DEF RequestDies, Gone, AdminInv, AdminTypeOK, Request
    <3>. QED BY <1>1, <3>1 DEF AdminInv, FileOutlivesRow, Gone, Exists
  <2>4. NamesBooks' BY <1>3 DEF RequestDies, AdminInv, NamesBooks
  <2>. QED BY <1>1, <2>1, <2>2, <2>3, <2>4, NoRowsTouched, GoesOnInv
<1>. QED BY <1>2, <1>3

\* Every step keeps the invariant.
LEMMA AdminInvStep == AdminInv /\ [AdminNext]_adminVars => AdminInv'
<1>. SUFFICES ASSUME AdminInv, [AdminNext]_adminVars PROVE AdminInv'
  OBVIOUS
<1>1. CASE [Next]_vars /\ UNCHANGED request BY <1>1, PipelineInv
<1>2. ASSUME NEW r \in Requests, AdminStep(r) PROVE AdminInv'
  BY <1>2, BeginInv, DropIndexInv, DropFileInv, DeleteRowsInv, RecreateInv,
     LastStepsInv DEF AdminStep
<1>. QED BY <1>1, <1>2 DEF AdminNext, adminVars

\* The inductive invariant holds in every reachable state, with any number of
\* admins who act at any time.
THEOREM AdminInvariant == AdminSpec => []AdminInv
  BY InitAdmin, AdminInvStep, PTL DEF AdminSpec

\* A book that still has its row has its PDF, unless the delete_book that
\* dropped it is about to delete the row or died there.
THEOREM FileKept == AdminSpec => []FileOutlivesRow
<1>1. AdminInv => FileOutlivesRow BY DEF AdminInv
<1>. QED BY <1>1, AdminInvariant, PTL

\* Nor do admins get two dispatchers to deal with one book.
THEOREM OneDispatchBesideAdmins == AdminSpec => []OneDispatchPerBook
<1>1. AdminInv => OneDispatchPerBook BY DEF AdminInv, LocksInv
<1>. QED BY <1>1, AdminInvariant, PTL

\* No request makes a book exist.
LEMMA AdminMakesNone ==
  ASSUME AdminInv, NEW r \in Requests, AdminStep(r), NEW b \in Books, Exists(b)'
  PROVE  Exists(b)
<1>1. CASE UNCHANGED book BY <1>1 DEF Exists
<1>2. CASE DeleteRows(r)
  BY <1>2 DEF DeleteRows, Exists, AdminInv, AdminTypeOK, TypeOK, NoBookRow
<1>3. CASE Recreate(r)
  BY <1>3 DEF Recreate, StillThere, Exists, AdminInv, AdminTypeOK, TypeOK
<1>. QED
  BY <1>1, <1>2, <1>3 DEF AdminStep, Begin, DropVectors, DropTexts, DropFile,
     SendAgain, RequestDies

\* A deleted book stays deleted, and without rows: no run, reaper, dispatcher or
\* reprocess_book that began before brings one back.
THEOREM StaysDeleted == AdminSpec => NoResurrection
<1>1. ASSUME AdminInv, AdminInv', [AdminNext]_adminVars,
             NEW b \in Books, upload[b] = "done", ~Exists(b)
      PROVE  ~Exists(b)' /\ RowsOf(b)' = {}
  <2>1. ~Exists(b)'
    <3>1. CASE [Next]_vars
      BY <1>1, <3>1, PipelineKeeps DEF AdminInv, AdminTypeOK, BooksStand
    <3>2. CASE \E r \in Requests : AdminStep(r)
      BY <1>1, <3>2, AdminMakesNone
    <3>. QED BY <1>1, <3>1, <3>2 DEF AdminNext, adminVars
  <2>2. RowsOf(b)' = {}
    BY <1>1, <2>1, IngestionAssumption DEF AdminInv, RowsRefer, Rows, RowsOf
  <2>. QED BY <2>1, <2>2
<1>2. AdminInv /\ AdminInv' /\ [AdminNext]_adminVars
        => [\A b \in Books : upload[b] = "done" /\ ~Exists(b) =>
              ~Exists(b)' /\ RowsOf(b)' = {}]_adminVars
  BY <1>1
<1>. QED BY <1>2, AdminInvariant, PTL DEF AdminSpec, NoResurrection
=============================================================================

--------------------------- MODULE IngestionProofs ---------------------------
(* Theorems about Ingestion, for every set of books, workers, dispatchers and
   reapers and every number of faults. *)
EXTENDS Ingestion, TLAPS

\* The initial state has its types.
LEMMA InitTypeOK == Init => TypeOK
  BY IngestionAssumption
     DEF Init, TypeOK, Book, NoBookRow, Job, NoJobRow, JobStatus, Checkpoints,
         Active, Terminal, Message, NoMessage, Worker, Running, Working, Idle,
         Dispatcher, NoDispatch, Reaper, NoReap

USE DEF stores, queue

\* The parts of TypeOK that the operators shared by several actions need.
LEMMA SetStatusType ==
  ASSUME TypeOK, NEW b, NEW status \in JobStatus, SetStatus(b, status)
  PROVE  job' \in [Jobs -> Job]
  BY DEF TypeOK, SetStatus, Job

\* So does an UPDATE of status and checkpoint.
LEMMA SetPhaseType ==
  ASSUME TypeOK, NEW b, NEW status \in JobStatus,
         NEW checkpoint \in Checkpoints, SetPhase(b, status, checkpoint)
  PROVE  job' \in [Jobs -> Job]
<1>1. \A j \in Jobs : [job[j] EXCEPT !.status = status, !.checkpoint = checkpoint] \in Job
  BY ZenonT(40) DEF TypeOK, Job
<1>. QED BY <1>1 DEF TypeOK, SetPhase

\* A run that goes to another statement keeps its type.
LEMMA GotoType ==
  ASSUME TypeOK, NEW w \in Workers, NEW pc \in {"idle", "failing"} \cup Running,
         Goto(w, pc)
  PROVE  worker' \in [Workers -> Worker]
  BY DEF TypeOK, Goto, Worker

\* process_book.delay keeps the broker's types.
LEMMA SendType ==
  ASSUME TypeOK, NEW b \in Books, Send(b)
  PROVE  message' \in [Tasks -> Message] /\ revoked' \in SUBSET Tasks
  BY DEF TypeOK, Send, Message

\* An idle slot is a slot.
LEMMA IdleType == Idle \in Worker
  BY DEF Idle, Worker, Running, Working, Checkpoints

\* The end of a task keeps the types of slots and broker.
LEMMA TaskEndsType ==
  ASSUME TypeOK, NEW w \in Workers, TaskEnds(w)
  PROVE  /\ worker' \in [Workers -> Worker]
         /\ message' \in [Tasks -> Message]
         /\ revoked' \in SUBSET Tasks
<1>1. worker' \in [Workers -> Worker]
  BY IdleType DEF TypeOK, TaskEnds
<1>2. message' \in [Tasks -> Message]
  BY DEF TypeOK, TaskEnds, Message, NoMessage
<1>3. revoked' \in SUBSET Tasks
  BY DEF TypeOK, TaskEnds, Forget
<1>. QED BY <1>1, <1>2, <1>3

\* The count of faults stays below its bound.
LEMMA FaultType ==
  ASSUME TypeOK, NEW kind, Fault(kind)
  PROVE  faults' \in 0..MaxFaults
  BY IngestionAssumption DEF TypeOK, Fault

\* The types of a slot's fields.
LEMMA WorkerFields ==
  ASSUME TypeOK, NEW w \in Workers
  PROVE  /\ worker[w] \in Worker
         /\ worker[w].pc \in {"idle", "failing"} \cup Running
         /\ worker[w].task \in Tasks \cup {NoTask}
         /\ worker[w].book \in Books \cup {NoBook}
         /\ worker[w].resume \in Checkpoints
         /\ worker[w].pages \in BOOLEAN
         /\ worker[w].chunks \in BOOLEAN
  BY DEF TypeOK, Worker

\* Messages and runs name books, which is all that the types need; whether the
\* book still exists is another matter, once an admin may delete it.
NamesBooks ==
    /\ \A t \in Tasks : message[t].state # "gone" => message[t].book \in Books
    /\ \A w \in Workers : worker[w].pc # "idle" =>
          worker[w].task \in Tasks /\ worker[w].book \in Books

\* What refers to a book that exists names it.
LEMMA RefersNames == RefersToBooks => NamesBooks
  BY DEF RefersToBooks, MessagesRefer, RunsRefer, NamesBooks

\* A slot that is not idle has a task and a book.
LEMMA Named ==
  ASSUME NamesBooks, NEW w \in Workers, worker[w].pc # "idle"
  PROVE  worker[w].task \in Tasks /\ worker[w].book \in Books
  BY DEF NamesBooks

\* A slot that is not idle has a task and a book that exists.
LEMMA AtWork ==
  ASSUME RefersToBooks, NEW w \in Workers, worker[w].pc # "idle"
  PROVE  worker[w].task \in Tasks /\ worker[w].book \in Books /\ Exists(worker[w].book)
  BY DEF RefersToBooks, RunsRefer

\* The updates of a row, a book and a remembered row keep their types.
LEMMA JobUpdates ==
  ASSUME NEW r \in Job, NEW status \in JobStatus,
  NEW checkpoint \in Checkpoints,
         NEW task \in Tasks \cup {NoTask}
  PROVE  /\ [r EXCEPT !.status = status] \in Job
         /\ [r EXCEPT !.status = status, !.checkpoint = checkpoint] \in Job
         /\ [r EXCEPT !.status = status, !.task = task] \in Job
  BY DEF Job

\* Storing total_pages keeps a book's type.
LEMMA BookUpdates ==
  ASSUME NEW r \in Book
  PROVE  [r EXCEPT !.pages = TRUE] \in Book
  BY DEF Book

\* upload_book keeps every type.
LEMMA TypeUpload ==
  ASSUME TypeOK, NEW b \in Books, UploadNext(b) \/ UploadCrash(b)
  PROVE  TypeOK'
<1>1. CASE UploadStore(b) BY <1>1 DEF UploadStore, TypeOK
<1>2. CASE UploadCommit(b)
  <2>1. job' \in [Jobs -> Job]
    BY <1>2 DEF UploadCommit, TypeOK, Job, NoJobRow, JobStatus, Checkpoints
  <2>2. book' \in [Books -> Book]
    BY <1>2 DEF UploadCommit, TypeOK, Book, NoBookRow
  <2>. QED BY <1>2, <2>1, <2>2 DEF UploadCommit, TypeOK
<1>3. CASE UploadSend(b)
  BY <1>3, SendType DEF UploadSend, TypeOK
<1>4. CASE UploadCrash(b)
  BY <1>4, FaultType DEF UploadCrash, TypeOK
<1>. QED BY <1>1, <1>2, <1>3, <1>4 DEF UploadNext

\* The broker's redeliveries and discards keep every type.
LEMMA TypeBroker ==
  ASSUME TypeOK, NEW t \in Tasks, Redeliver(t) \/ Discard(t)
  PROVE  TypeOK'
<1>1. CASE Redeliver(t)
  <2>1. message' \in [Tasks -> Message] BY <1>1 DEF Redeliver, TypeOK, Message
  <2>2. faults' \in 0..MaxFaults BY <1>1, FaultType DEF Redeliver, TypeOK
  <2>. QED BY <1>1, <2>1, <2>2 DEF Redeliver, TypeOK
<1>2. CASE Discard(t)
  BY <1>2 DEF Discard, TypeOK, Message, NoMessage, Forget
<1>. QED BY <1>1, <1>2

\* Every statement of process_book keeps every type.
LEMMA TypeWorker ==
  ASSUME TypeOK, NamesBooks, NEW w \in Workers,
         WorkerStep(w) \/ ExtractProgress(w)
  PROVE  TypeOK'
<1>0. /\ {"failing", "readJob", "readBook"} \cup Working \subseteq {"idle", "failing"} \cup Running
      /\ Active \cup Terminal \subseteq JobStatus
      /\ "extracting" \in Active
  BY DEF Running, Working, Active, Terminal, JobStatus
<1>1. CASE Claim(w)
  <2>1. job' \in [Jobs -> Job]
    <3>1. \A j \in Jobs : [job[j] EXCEPT !.status = "extracting", !.task = worker[w].task] \in Job
      BY <1>0, WorkerFields, JobUpdates DEF TypeOK
    <3>. QED BY <1>1, <3>1 DEF Claim, TypeOK
  <2>. QED BY <1>0, <1>1, <2>1, GotoType DEF Claim, TypeOK
<1>2. CASE ReadJob(w)
  <2>1. CASE TaskEnds(w) BY <1>2, <2>1, TaskEndsType DEF ReadJob, TypeOK
  <2>2. CASE Goto(w, "failing") /\ UNCHANGED queue
     BY <1>2, <2>2, GotoType DEF ReadJob, TypeOK
  <2>3. ASSUME NEW j \in Jobs,
               worker' = [worker EXCEPT ![w].pc = "readBook", ![w].resume = job[j].checkpoint],
               message' = message, revoked' = revoked
        PROVE  TypeOK'
    <3>1. worker' \in [Workers -> Worker]
      <4>1. [worker[w] EXCEPT !.pc = "readBook", !.resume = job[j].checkpoint] \in Worker
        BY ZenonT(40), <1>0, <2>3, WorkerFields DEF TypeOK, Worker, Job
      <4>. QED BY <2>3, <4>1 DEF TypeOK
    <3>. QED BY <1>2, <2>3, <3>1 DEF ReadJob, TypeOK
  <2>. QED BY <1>2, <2>1, <2>2, <2>3 DEF ReadJob, RowsOf
<1>3. CASE ReadBook(w)
  <2>1. CASE TaskEnds(w) BY <1>3, <2>1, TaskEndsType, Named DEF ReadBook,
  TypeOK
  <2>2. CASE ~TaskEnds(w)
    <3>0. FirstStep(worker[w].resume) \in {"idle"} \cup Working
      BY WorkerFields DEF FirstStep, Checkpoints, Working
    <3>1. worker' \in [Workers -> Worker]
      BY <1>0, <1>3, <2>2, <3>0 DEF ReadBook, TypeOK, Worker, Checkpoints
    <3>. QED BY <1>3, <2>2, <3>1, Named DEF ReadBook, TypeOK
  <2>. QED BY <2>1, <2>2
<1>4. CASE ExtractProgress(w)
  <2>1. job' \in [Jobs -> Job]
    BY <1>0, <1>4, SetStatusType, SetPhaseType DEF ExtractProgress, TypeOK,
       Active, Checkpoints
  <2>. QED BY <1>0, <1>4, <2>1, GotoType DEF ExtractProgress, TypeOK
<1>5. CASE Extract(w)
  <2>1. [worker[w] EXCEPT !.pc = "savePages", !.pages = TRUE] \in Worker
    BY <1>0, WorkerFields DEF Worker, Working
  <2>2. worker' \in [Workers -> Worker] BY <1>5, <2>1 DEF Extract, TypeOK
  <2>. QED BY <1>5, <2>2 DEF Extract, TypeOK
<1>6. CASE SavePages(w)
  <2>1. worker[w].book \in Books BY <1>6, Named DEF SavePages
  <2>2. book' \in [Books -> Book]
    BY <1>6, <2>1, BookUpdates DEF SavePages, TypeOK
  <2>. QED BY <1>0, <1>6, <2>2, GotoType DEF SavePages, TypeOK, Working
<1>7. CASE ToChunking(w) \/ ToEmbedding(w) \/ Embed(w)
  <2>1. ASSUME NEW from, NEW status \in Active, status \in Checkpoints,
               NEW to \in Working, EndPhase(w, from, status, to)
        PROVE  TypeOK'
    <3>1. job' \in [Jobs -> Job]
      BY <1>0, <2>1, SetPhaseType DEF EndPhase, TypeOK
    <3>. QED BY <1>0, <2>1, <3>1, GotoType DEF EndPhase, TypeOK
  <2>. QED
    BY <1>7, <2>1 DEF ToChunking, ToEmbedding, Embed, Active, Checkpoints,
       Working
<1>8. CASE Chunk(w)
  <2>1. worker' \in [Workers -> Worker]
    BY <1>0, <1>8, GotoType, WorkerFields DEF Chunk, TypeOK, Worker, Working
  <2>. QED BY <1>8, <2>1 DEF Chunk, TypeOK
<1>9. CASE IndexQdrant(w)
  BY <1>0, <1>9, GotoType, Named DEF IndexQdrant, TypeOK, Working
<1>10. CASE IndexMeilisearch(w)
  BY <1>0, <1>10, GotoType, Named DEF IndexMeilisearch, TypeOK, Working
<1>11. CASE SetReady(w)
  <2>1. book' \in [Books -> Book]
    BY <1>11, WorkerFields, Named DEF SetReady, TypeOK, Book
  <2>. QED BY <1>0, <1>11, <2>1, GotoType DEF SetReady, TypeOK, Working
<1>12. CASE Complete(w)
  BY <1>0, <1>12, GotoType, SetPhaseType DEF Complete, TypeOK, Working,
     Terminal, Checkpoints
<1>13. CASE Announce(w)
  BY <1>13, TaskEndsType DEF Announce, TypeOK
<1>14. CASE MarkFailed(w)
  <2>1. \A r \in Book : [r EXCEPT !.status = "failed"] \in Book BY DEF Book
  <2>2. book' \in [Books -> Book]
    BY <1>14, <2>1, Named DEF MarkFailed, TypeOK
  <2>. QED BY <1>0, <1>14, <2>2, TaskEndsType, SetStatusType DEF MarkFailed,
  TypeOK, Terminal
<1>15. CASE Fetch(w) BY <1>0, <1>15, GotoType DEF Fetch, TypeOK, Working
<1>. QED BY <1>1, <1>2, <1>3, <1>4, <1>5, <1>6, <1>7, <1>8, <1>9, <1>10,
<1>11, <1>12, <1>13, <1>14, <1>15 DEF WorkerStep

\* What goes wrong in a worker keeps every type.
LEMMA TypeWorkerFault ==
  ASSUME TypeOK, NamesBooks, NEW w \in Workers, WorkerFault(w)
  PROVE  TypeOK'
<1>1. CASE StepFails(w) BY <1>1, GotoType, FaultType DEF StepFails, TypeOK
<1>2. CASE MarkFailedGivesUp(w)
  BY <1>2, TaskEndsType, FaultType DEF MarkFailedGivesUp, TypeOK
<1>3. CASE ChildLost(w) BY <1>3, TaskEndsType, FaultType DEF ChildLost, TypeOK
<1>4. CASE NodeCrash(w) BY <1>4, IdleType, FaultType DEF NodeCrash, TypeOK
<1>5. CASE IndexTaskFails(w)
  BY <1>5, GotoType, FaultType DEF IndexTaskFails, TypeOK, Running, Working
<1>6. CASE Terminate(w) BY <1>6, TaskEndsType DEF Terminate, TypeOK
<1>7. CASE IndexOutlasts(w)
  <2>1. worker[w].book \in Books BY <1>7, Named DEF IndexOutlasts
  <2>2. worker' \in [Workers -> Worker]
    BY <1>7, GotoType DEF IndexOutlasts, Running, Working
  <2>. QED BY <1>7, <2>1, <2>2, FaultType DEF IndexOutlasts, TypeOK
<1>. QED BY <1>1, <1>2, <1>3, <1>4, <1>5, <1>6, <1>7 DEF WorkerFault

\* A slot that takes a message keeps every type: the message has a book.
LEMMA TypeTake ==
  ASSUME TypeOK, NamesBooks, NEW w \in Workers, NEW t \in Tasks, Take(w, t)
  PROVE  TypeOK'
<1>1. message[t].book \in Books BY DEF Take, NamesBooks
<1>2. [Idle EXCEPT !.pc = "claim", !.task = t, !.book = message[t].book] \in Worker
  BY <1>1 DEF Idle, Worker, Running, Checkpoints
<1>3. worker' \in [Workers -> Worker] BY <1>2 DEF Take, TypeOK
<1>4. message' \in [Tasks -> Message] BY DEF Take, TypeOK, Message
<1>. QED BY <1>3, <1>4 DEF Take, TypeOK

\* Heartbeats, expiring keys and late imports keep every type.
LEMMA TypeBeat ==
  ASSUME TypeOK, NEW b \in Books,
         \/ BeatExpires(b) \/ BeatAgain(b) \/ LockExpires(b)
         \/ ImportDone(b) \/ ImportFails(b)
  PROVE  TypeOK'
<1>1. CASE BeatExpires(b) BY <1>1, FaultType DEF BeatExpires, TypeOK
<1>2. CASE BeatAgain(b) BY <1>2 DEF BeatAgain, TypeOK
<1>3. CASE LockExpires(b) BY <1>3 DEF LockExpires, TypeOK
<1>4. CASE ImportDone(b) BY <1>4 DEF ImportDone, TypeOK
<1>5. CASE ImportFails(b) BY <1>5 DEF ImportFails, TypeOK
<1>. QED BY <1>1, <1>2, <1>3, <1>4, <1>5

\* The types of a dispatcher's lists.
LEMMA DispatcherFields ==
  ASSUME TypeOK, NEW d \in Dispatchers
  PROVE  /\ dispatcher[d] \in Dispatcher
         /\ dispatcher[d].todo \in SUBSET Queued
         /\ dispatcher[d].cur \in SUBSET Queued
         /\ \A s \in dispatcher[d].todo \cup dispatcher[d].cur :
                s.book \in Books /\ s.job \in Jobs
  BY DEF TypeOK, Dispatcher, Queued

\* dispatch_pending keeps every type.
LEMMA TypeDispatcher ==
  ASSUME TypeOK, NEW d \in Dispatchers, DispatcherStep(d) \/ DispatchCrash(d)
  PROVE  TypeOK'
<1>1. CASE DispatchScan(d)
  <2>1. {[job |-> j, book |-> job[j].book, claimed |-> job[j].task # NoTask] :
           j \in RowsWith({"queued"})} \in SUBSET Queued
    <3>1. \A j \in RowsWith({"queued"}) : job[j].book \in Books
      BY DEF RowsWith, TypeOK, Job
    <3>2. \A j \in RowsWith({"queued"}), c \in BOOLEAN :
             [job |-> j, book |-> job[j].book, claimed |-> c] \in Queued
      BY <3>1 DEF RowsWith, Queued
    <3>. QED BY <3>2
  <2>2. \A found \in SUBSET Queued :
           [dispatcher EXCEPT ![d].pc = "next", ![d].todo = found]
             \in [Dispatchers -> Dispatcher]
    BY ZenonT(40) DEF TypeOK, Dispatcher
  <2>3. dispatcher' \in [Dispatchers -> Dispatcher]
    BY <1>1, <2>1, <2>2 DEF DispatchScan
  <2>. QED BY <1>1, <2>3 DEF DispatchScan, TypeOK
<1>2. CASE DispatchLock(d)
  <2>1. PICK s \in dispatcher[d].todo : DispatchLock(d)!2!(s)
    BY <1>2 DEF DispatchLock
  <2>2. dispatcher' \in [Dispatchers -> Dispatcher]
    BY SMTT(30), <2>1, DispatcherFields DEF TypeOK, Dispatcher
  <2>. QED BY <1>2, <2>1, <2>2, DispatcherFields DEF DispatchLock, TypeOK
<1>3. CASE DispatchArm(d)
  BY <1>3, DispatcherFields DEF DispatchArm, TypeOK, Dispatcher
<1>4. CASE DispatchCheck(d)
  BY SMTT(30), <1>4, DispatcherFields DEF DispatchCheck, DispatchDone, TypeOK, Dispatcher
<1>5. CASE DispatchMark(d)
  <2>1. job' \in [Jobs -> Job]
    <3>1. \A j \in Jobs : [job[j] EXCEPT !.status = "extracting"] \in Job
      BY DEF TypeOK, Job, JobStatus, Active
    <3>. QED BY <1>5, <3>1, DispatcherFields DEF DispatchMark, TypeOK
  <2>. QED BY <1>5, <2>1 DEF DispatchMark, TypeOK, Dispatcher
<1>6. CASE DispatchSend(d)
  BY <1>6, DispatcherFields, SendType DEF DispatchSend, DispatchDone, TypeOK,
     Dispatcher
<1>7. CASE DispatchEnd(d)
  BY <1>7 DEF DispatchEnd, NoDispatch, TypeOK, Dispatcher
<1>8. CASE DispatchCrash(d)
  BY <1>8, FaultType DEF DispatchCrash, NoDispatch, TypeOK, Dispatcher
<1>. QED BY <1>1, <1>2, <1>3, <1>4, <1>5, <1>6, <1>7, <1>8 DEF DispatcherStep

\* The types of a reaper's lists.
LEMMA ReaperFields ==
  ASSUME TypeOK, NEW r \in Reapers
  PROVE  /\ reaper[r] \in Reaper
         /\ reaper[r].todo \in SUBSET Stale
         /\ reaper[r].stale \in SUBSET Stale
         /\ reaper[r].cur \in SUBSET Stale
         /\ \A s \in reaper[r].todo \cup reaper[r].stale \cup reaper[r].cur :
                s \in Stale /\ s.book \in Books /\ s.job \in Jobs
  BY DEF TypeOK, Reaper, Stale

\* reap_stale_jobs keeps every type.
LEMMA TypeReaper ==
  ASSUME TypeOK, NEW r \in Reapers, ReaperStep(r) \/ ReapCrash(r)
  PROVE  TypeOK'
<1>1. CASE ReapScan(r)
  <2>1. {[job |-> j, book |-> job[j].book, task |-> job[j].task] :
           j \in RowsWith(Active)} \in SUBSET Stale
    BY DEF RowsWith, Stale, TypeOK, Job
  <2>2. reaper' \in [Reapers -> Reaper]
    <3>1. [reaper[r] EXCEPT
             !.pc = "check",
             !.todo = {[job |-> j, book |-> job[j].book, task |-> job[j].task] :
                          j \in RowsWith(Active)}] \in Reaper
      BY <2>1, ReaperFields DEF Reaper
    <3>. QED BY <1>1, <3>1 DEF ReapScan, TypeOK
  <2>. QED BY <1>1, <2>2 DEF ReapScan, TypeOK
<1>2. CASE ReapCheck(r)
  <2>1. PICK s \in reaper[r].todo : ReapCheck(r)!2!(s)
    BY <1>2 DEF ReapCheck
  <2>2. reaper' \in [Reapers -> Reaper]
    <3>1. \A stale \in SUBSET Stale :
             [reaper[r] EXCEPT !.todo = @ \ {s}, !.stale = stale] \in Reaper
      BY ReaperFields DEF Reaper
    <3>2. reaper[r].stale \cup {s} \in SUBSET Stale BY ReaperFields
    <3>. QED BY <2>1, <3>1, <3>2, ReaperFields DEF TypeOK
  <2>3. faults' \in 0..MaxFaults BY <2>1, FaultType DEF TypeOK
  <2>. QED BY <1>2, <2>2, <2>3 DEF ReapCheck, TypeOK
<1>3. CASE ReapNext(r)
  <2>1. CASE reaper' = [reaper EXCEPT ![r] = NoReap]
    BY <1>3, <2>1 DEF ReapNext, NoReap, TypeOK, Reaper
  <2>2. ASSUME NEW s \in reaper[r].stale,
               reaper' = [reaper EXCEPT ![r].pc = "requeue", ![r].cur = {s},
                                        ![r].stale = @ \ {s}]
        PROVE  reaper' \in [Reapers -> Reaper]
    BY <2>2, ReaperFields DEF TypeOK, Reaper
  <2>. QED BY <1>3, <2>1, <2>2 DEF ReapNext, TypeOK
<1>4. CASE ReapRequeue(r)
  <2>1. PICK s \in reaper[r].cur : ReapRequeue(r)!2!(s)
    BY <1>4 DEF ReapRequeue
  <2>2. revoked' \in SUBSET Tasks BY <2>1 DEF Revoke, TypeOK
  <2>3. [s EXCEPT !.task = NoTask] \in Stale BY ReaperFields DEF Stale
  <2>4. reaper' \in [Reapers -> Reaper]
    BY SMTT(30), <2>1, <2>3, ReaperFields DEF TypeOK, Reaper
  <2>5. [job[s.job] EXCEPT !.status = "queued", !.checkpoint = "none"] \in Job
    BY ReaperFields, JobUpdates DEF TypeOK, JobStatus, Checkpoints
  <2>6. job' \in [Jobs -> Job]
    BY <2>1, <2>5, ReaperFields DEF TypeOK
  <2>. QED BY <1>4, <2>2, <2>4, <2>6 DEF ReapRequeue, TypeOK
<1>5. CASE ReapSend(r)
  BY <1>5, ReaperFields, SendType DEF ReapSend, TypeOK, Reaper
<1>6. CASE ReapCrash(r)
  BY <1>6, FaultType DEF ReapCrash, NoReap, TypeOK, Reaper
<1>. QED BY <1>1, <1>2, <1>3, <1>4, <1>5, <1>6 DEF ReaperStep

\* Every step of the system keeps every type.
THEOREM TypeStep == TypeOK /\ NamesBooks /\ [Next]_vars => TypeOK'
<1>. SUFFICES ASSUME TypeOK, NamesBooks, [Next]_vars PROVE TypeOK'
  OBVIOUS
<1>1. CASE UNCHANGED vars BY <1>1 DEF vars, TypeOK
<1>2. CASE Next
  BY <1>2, TypeUpload, TypeBroker, TypeWorker, TypeWorkerFault, TypeTake,
     TypeBeat,
     TypeDispatcher, TypeReaper DEF Next
<1>. QED BY <1>1, <1>2

\* What the shared operators do to the rows and to the runs.
LEMMA SetStatusEffect ==
  ASSUME TypeOK, NEW b, NEW status, SetStatus(b, status)
  PROVE  \A j \in Jobs : /\ job'[j].book = job[j].book
                         /\ job'[j].task = job[j].task
                         /\ job'[j].checkpoint = job[j].checkpoint
                         /\ job[j].book = b => job'[j].status = status
                         /\ job[j].book # b => job'[j] = job[j]
  BY DEF TypeOK, SetStatus, Job

\* An UPDATE of status and checkpoint changes these in the book's rows.
LEMMA SetPhaseEffect ==
  ASSUME TypeOK, NEW b, NEW status, NEW checkpoint, SetPhase(b, status,
  checkpoint)
  PROVE  \A j \in Jobs : /\ job'[j].book = job[j].book
                         /\ job'[j].task = job[j].task
                         /\ job[j].book = b => /\ job'[j].status = status
                                               /\ job'[j].checkpoint = checkpoint
                         /\ job[j].book # b => job'[j] = job[j]
<1>1. \A j \in Jobs : job[j] \in Job BY DEF TypeOK
<1>2. \A r \in Job : LET n == [r EXCEPT !.status = status, !.checkpoint = checkpoint]
                     IN /\ n.book = r.book /\ n.task = r.task
                        /\ n.status = status /\ n.checkpoint = checkpoint
  BY DEF Job
<1>. QED BY <1>1, <1>2 DEF SetPhase

\* The claim makes rows "extracting" and keeps their checkpoint.
LEMMA ClaimEffect ==
  ASSUME TypeOK, NEW w \in Workers, Claim(w)
  PROVE  \A j \in Jobs : /\ job'[j].book = job[j].book
                         /\ job'[j].checkpoint = job[j].checkpoint
                         /\ job'[j].status \in {"extracting", job[j].status}
                         /\ job[j].book = worker[w].book =>
                               /\ job'[j].status = "extracting"
                               /\ job'[j].task = worker[w].task
                         /\ job[j].book # worker[w].book => job'[j] = job[j]
<1>1. \A j \in Jobs : job[j] \in Job BY DEF TypeOK
<1>2. \A r \in Job : LET n == [r EXCEPT !.status = "extracting", !.task = worker[w].task]
                     IN /\ n.book = r.book /\ n.task = worker[w].task
                        /\ n.status = "extracting" /\ n.checkpoint = r.checkpoint
  BY DEF Job
<1>. QED BY <1>1, <1>2 DEF Claim

\* A run goes on with its task and its book, or it is over.
RunGoesOn(w) ==
    \A v \in Workers :
        \/ worker'[v] = worker[v]
        \/ worker'[v] = Idle
        \/ /\ worker[v].pc # "idle"
           /\ worker'[v].book = worker[v].book
           /\ worker'[v].task = worker[v].task

\* A run that goes to another statement goes on.
LEMMA GotoGoesOn ==
  ASSUME TypeOK, NEW w \in Workers, NEW pc, worker[w].pc # "idle", Goto(w, pc)
  PROVE  RunGoesOn(w)
  BY DEF TypeOK, Goto, RunGoesOn, Worker

\* The end of a task frees its slot and at most removes its message.
LEMMA TaskEndsGoesOn ==
  ASSUME TypeOK, NEW w \in Workers, TaskEnds(w)
  PROVE  /\ RunGoesOn(w)
         /\ \A t \in Tasks : message'[t] \in {message[t], NoMessage}
  BY DEF TypeOK, TaskEnds, RunGoesOn

\* No step of a worker creates or deletes a book, moves a row to another book,
\* or changes what a message or a run refers to.
LEMMA WorkerKeeps ==
  ASSUME TypeOK, NamesBooks, NEW w \in Workers,
         WorkerStep(w) \/ ExtractProgress(w) \/ WorkerFault(w)
  PROVE  /\ UNCHANGED <<upload, dispatcher, reaper>>
         /\ \A b \in Books : Exists(b) => Exists(b)'
         /\ \A b \in Books : Exists(b)' => Exists(b)
         /\ \A j \in Jobs : job'[j].book = job[j].book
         /\ \A t \in Tasks : message'[t] \in {message[t], NoMessage}
         /\ RunGoesOn(w)
<1>1. CASE Claim(w)
  BY <1>1, ClaimEffect, GotoGoesOn DEF Claim, Exists
<1>2. CASE ReadJob(w)
  <2>1. ASSUME NEW c, worker' = [worker EXCEPT ![w].pc = "readBook", ![w].resume = c]
        PROVE  RunGoesOn(w)
    <3>1. worker[w] \in Worker /\ worker[w].pc # "idle"
      BY <1>2 DEF ReadJob, TypeOK
    <3>2. LET n == [worker[w] EXCEPT !.pc = "readBook", !.resume = c]
          IN  n.task = worker[w].task /\ n.book = worker[w].book
      BY <3>1 DEF Worker
    <3>. QED BY <2>1, <3>1, <3>2 DEF TypeOK, RunGoesOn
  <2>. QED BY <1>2, <2>1, GotoGoesOn, TaskEndsGoesOn DEF ReadJob, Exists
<1>3. CASE ReadBook(w)
  <2>1. ASSUME NEW next, worker' = [worker EXCEPT ![w].pc = next, ![w].resume = "none"]
        PROVE  RunGoesOn(w)
    BY <1>3, <2>1 DEF ReadBook, TypeOK, Worker, RunGoesOn
  <2>. QED BY <1>3, <2>1, TaskEndsGoesOn DEF ReadBook, Exists
<1>4. CASE ExtractProgress(w)
  BY <1>4, GotoGoesOn, SetStatusEffect, SetPhaseEffect DEF ExtractProgress,
     Exists, RunGoesOn
<1>5. CASE Extract(w)
  <2>1. ASSUME worker' = [worker EXCEPT ![w].pc = "savePages", ![w].pages = TRUE]
        PROVE  RunGoesOn(w)
    BY <1>5, <2>1 DEF Extract, TypeOK, Worker, RunGoesOn
  <2>. QED BY <1>5, <2>1 DEF Extract, Exists
<1>6. CASE SavePages(w)
  <2>1. \A b \in Books : book'[b].status = book[b].status
    BY <1>6, Named DEF SavePages, TypeOK, Book
  <2>. QED BY <1>6, <2>1, GotoGoesOn DEF SavePages, Exists
<1>7. CASE ToChunking(w) \/ ToEmbedding(w) \/ Embed(w)
  BY <1>7, GotoGoesOn, SetPhaseEffect DEF ToChunking, ToEmbedding, Embed,
     EndPhase, Exists
<1>8. CASE Chunk(w)
  <2>1. ASSUME worker' = [worker EXCEPT ![w].pc = "toEmbedding", ![w].chunks = worker[w].pages]
        PROVE  RunGoesOn(w)
    BY <1>8, <2>1 DEF Chunk, TypeOK, Worker, RunGoesOn
  <2>. QED BY <1>8, <2>1, GotoGoesOn DEF Chunk, Exists
<1>9. CASE IndexQdrant(w) BY <1>9, GotoGoesOn DEF IndexQdrant, Exists
<1>10. CASE IndexMeilisearch(w)
  BY <1>10, GotoGoesOn DEF IndexMeilisearch, Exists
<1>11. CASE SetReady(w)
  <2>1. CASE Exists(worker[w].book)
    <3>1. \A b \in Books :
             book'[b] = book[b] \/ (b = worker[w].book /\ book'[b].status = "ready")
      BY <1>11, <2>1, Named DEF SetReady, TypeOK, Book
    <3>. QED BY <1>11, <2>1, <3>1, GotoGoesOn DEF SetReady, Exists
  <2>2. CASE ~Exists(worker[w].book)
    BY <1>11, <2>2, GotoGoesOn DEF SetReady, Exists
  <2>. QED BY <2>1, <2>2
<1>12. CASE Complete(w) BY <1>12, GotoGoesOn, SetPhaseEffect DEF Complete,
Exists
<1>13. CASE Announce(w) BY <1>13, TaskEndsGoesOn DEF Announce, Exists
<1>14. CASE MarkFailed(w)
  <2>1. CASE Exists(worker[w].book)
    <3>1. \A b \in Books :
             book'[b] = book[b] \/ (b = worker[w].book /\ book'[b].status = "failed")
      BY <1>14, <2>1, Named DEF MarkFailed, TypeOK, Book
    <3>. QED BY <1>14, <2>1, <3>1, TaskEndsGoesOn, SetStatusEffect
         DEF MarkFailed, Exists
  <2>2. CASE ~Exists(worker[w].book)
    BY <1>14, <2>2, TaskEndsGoesOn, SetStatusEffect DEF MarkFailed, Exists
  <2>. QED BY <2>1, <2>2
<1>15. CASE WorkerFault(w)
  BY <1>15, GotoGoesOn, TaskEndsGoesOn
     DEF WorkerFault, StepFails, MarkFailedGivesUp, ChildLost, NodeCrash,
     IndexTaskFails, IndexOutlasts, Terminate, Exists, Running, Working,
     RunGoesOn, TypeOK
<1>16. CASE Fetch(w) BY <1>16, GotoGoesOn DEF Fetch, Exists
<1>. QED BY <1>1, <1>2, <1>3, <1>4, <1>5, <1>6, <1>7, <1>8, <1>9, <1>10,
<1>11, <1>12, <1>13, <1>14, <1>15, <1>16 DEF WorkerStep

\* Hence what a worker does leaves every reference to a book that exists.
LEMMA WorkerRefers ==
  ASSUME TypeOK, RefersToBooks, NEW w \in Workers,
         WorkerStep(w) \/ ExtractProgress(w) \/ WorkerFault(w)
  PROVE  RefersToBooks'
<1>1. RunsRefer'
  BY RefersNames, WorkerKeeps DEF RefersToBooks, RunsRefer, RunGoesOn, Idle
<1>2. MessagesRefer'
  BY RefersNames, WorkerKeeps DEF RefersToBooks, MessagesRefer, NoMessage
<1>3. RowsRefer'
  BY RefersNames, WorkerKeeps DEF RefersToBooks, RowsRefer, Rows, TypeOK, Job
<1>4. DispatchersRefer' /\ ReapersRefer'
  BY RefersNames, WorkerKeeps, DispatcherFields, ReaperFields
     DEF RefersToBooks, DispatchersRefer, ReapersRefer
<1>5. UploadsRefer'
  BY RefersNames, WorkerKeeps DEF RefersToBooks, UploadsRefer
<1>. QED BY <1>1, <1>2, <1>3, <1>4, <1>5 DEF RefersToBooks

\* A message that is sent for a book that exists refers to it.
LEMMA SendRefers ==
  ASSUME TypeOK, MessagesRefer, NEW b \in Books, Exists(b), Send(b),
  UNCHANGED book
  PROVE  MessagesRefer'
  BY DEF TypeOK, MessagesRefer, Send, Exists, Message

\* A slot takes over the reference of the message it takes.
LEMMA TakeRefers ==
  ASSUME TypeOK, RefersToBooks, NEW w \in Workers, NEW t \in Tasks, Take(w, t)
  PROVE  RefersToBooks'
<1>1. RunsRefer'
  BY DEF Take, TypeOK, RefersToBooks, RunsRefer, MessagesRefer, Exists, Idle
<1>2. MessagesRefer'
  BY DEF Take, TypeOK, RefersToBooks, MessagesRefer, Exists, Message
<1>. QED
  BY <1>1, <1>2 DEF Take, RefersToBooks, UploadsRefer, RowsRefer, Rows,
                    DispatchersRefer, ReapersRefer, Exists

\* upload_book makes a book exist before anything refers to it.
LEMMA UploadRefers ==
  ASSUME TypeOK, RefersToBooks, NEW b \in Books, UploadNext(b) \/ UploadCrash(b)
  PROVE  RefersToBooks'
<1>1. CASE UploadCommit(b)
  <2>1. /\ Exists(b)' /\ ~Exists(b)
        /\ \A c \in Books : c # b => Exists(c)' = Exists(c)
    BY <1>1 DEF UploadCommit, TypeOK, RefersToBooks, UploadsRefer, Exists,
       NoBookRow
  <2>2. \A j \in Jobs : job'[j] = job[j] \/ job'[j].book = b
    BY <1>1 DEF UploadCommit, TypeOK, NoJobRow
  <2>3. RowsRefer' BY <2>1, <2>2 DEF RefersToBooks, RowsRefer, Rows, TypeOK, Job
  <2>4. UploadsRefer' BY <1>1, <2>1 DEF UploadCommit, TypeOK, RefersToBooks,
  UploadsRefer
  <2>5. MessagesRefer' /\ RunsRefer'
    BY <1>1, <2>1 DEF UploadCommit, RefersToBooks, MessagesRefer, RunsRefer
  <2>6. DispatchersRefer' /\ ReapersRefer'
    BY <1>1, <2>1, DispatcherFields, ReaperFields
       DEF UploadCommit, RefersToBooks, DispatchersRefer, ReapersRefer
  <2>. QED BY <2>3, <2>4, <2>5, <2>6 DEF RefersToBooks
<1>2. CASE UploadSend(b)
  <2>1. MessagesRefer'
    BY <1>2, SendRefers DEF UploadSend, RefersToBooks, UploadsRefer
  <2>2. UploadsRefer' BY <1>2 DEF UploadSend, TypeOK, RefersToBooks,
  UploadsRefer, Exists
  <2>. QED BY <1>2, <2>1, <2>2 DEF UploadSend, RefersToBooks, RowsRefer, Rows,
  RunsRefer,
                                   DispatchersRefer, ReapersRefer, Exists
<1>3. CASE UploadStore(b) \/ UploadCrash(b)
  <2>1. UploadsRefer'
    BY <1>3 DEF UploadStore, UploadCrash, TypeOK, RefersToBooks, UploadsRefer,
       Exists
  <2>. QED BY <1>3, <2>1 DEF UploadStore, UploadCrash, RefersToBooks,
  RowsRefer, Rows,
                  RunsRefer, MessagesRefer, DispatchersRefer, ReapersRefer,
                  Exists
<1>. QED BY <1>1, <1>2, <1>3 DEF UploadNext

\* Heartbeats, expiring keys and late imports refer to nothing new.
LEMMA BeatRefers ==
  ASSUME TypeOK, RefersToBooks, NEW b \in Books,
         \/ BeatExpires(b) \/ BeatAgain(b) \/ LockExpires(b)
         \/ ImportDone(b) \/ ImportFails(b)
  PROVE  RefersToBooks'
  BY DEF BeatExpires, BeatAgain, LockExpires, ImportDone, ImportFails,
         RefersToBooks, UploadsRefer, RowsRefer, Rows, RunsRefer,
         MessagesRefer, DispatchersRefer, ReapersRefer, Exists

\* The broker's redeliveries and discards refer to nothing new.
LEMMA BrokerRefers ==
  ASSUME TypeOK, RefersToBooks, NEW t \in Tasks, Redeliver(t) \/ Discard(t)
  PROVE  RefersToBooks'
<1>1. MessagesRefer'
  BY DEF Redeliver, Discard, TypeOK, Message, NoMessage, RefersToBooks,
     MessagesRefer, Exists
<1>. QED
  BY <1>1 DEF Redeliver, Discard, RefersToBooks, UploadsRefer, RowsRefer,
     Rows, RunsRefer,
              DispatchersRefer, ReapersRefer, Exists

\* A run of beat's tasks leaves the books alone and only remembers rows that
\* are there.
LEMMA DispatcherRefers ==
  ASSUME TypeOK, RefersToBooks, NEW d \in Dispatchers,
  DispatcherStep(d) \/ DispatchCrash(d)
  PROVE  RefersToBooks'
<1>1. UNCHANGED <<book, upload, worker, reaper>>
  BY DEF DispatcherStep, DispatchScan, DispatchLock, DispatchArm,
     DispatchCheck, DispatchMark,
         DispatchSend, DispatchEnd, DispatchCrash
<1>2. MessagesRefer'
  <2>1. CASE UNCHANGED message BY <1>1, <2>1 DEF RefersToBooks, MessagesRefer,
  Exists
  <2>2. CASE DispatchSend(d)
    BY <1>1, <2>2, DispatcherFields, SendRefers DEF DispatchSend,
       RefersToBooks, DispatchersRefer
  <2>. QED BY <2>1, <2>2 DEF DispatcherStep, DispatchScan, DispatchLock,
  DispatchArm,
                  DispatchCheck, DispatchMark, DispatchEnd, DispatchCrash
<1>3. \A j \in Jobs : job'[j].book = job[j].book
  <2>1. CASE UNCHANGED job BY <2>1
  <2>2. CASE DispatchMark(d) BY <2>2 DEF DispatchMark, TypeOK, Job
  <2>. QED BY <2>1, <2>2 DEF DispatcherStep, DispatchScan, DispatchLock,
  DispatchArm,
                  DispatchCheck, DispatchSend, DispatchEnd, DispatchCrash
<1>4. \A e \in Dispatchers : \A s \in dispatcher'[e].todo \cup dispatcher'[e].cur : Exists(s.book)
  <2>0. \A e \in Dispatchers : \A s \in dispatcher[e].todo \cup dispatcher[e].cur : Exists(s.book)
    BY DEF RefersToBooks, DispatchersRefer
  <2>1. CASE DispatchScan(d)
    <3>1. \A s \in dispatcher'[d].todo : Exists(s.book)
      BY <2>1 DEF DispatchScan, RefersToBooks, RowsRefer, Rows, RowsWith, TypeOK
    <3>. QED BY <2>0, <2>1, <3>1 DEF DispatchScan, TypeOK, Dispatcher
  <2>2. CASE DispatchLock(d)
    <3>1. PICK s \in dispatcher[d].todo : DispatchLock(d)!2!(s)
      BY <2>2 DEF DispatchLock
    <3>2. \A e \in Dispatchers : dispatcher'[e].todo \cup dispatcher'[e].cur
                                   \subseteq dispatcher[e].todo \cup dispatcher[e].cur
      BY <3>1, DispatcherFields DEF TypeOK, Dispatcher
    <3>. QED BY <2>0, <3>2
  <2>3. CASE DispatchArm(d) \/ DispatchCheck(d) \/ DispatchMark(d) \/ DispatchSend(d)
    <3>1. \A e \in Dispatchers : /\ dispatcher'[e].todo = dispatcher[e].todo
                                  /\ dispatcher'[e].cur \in {{}, dispatcher[e].cur}
      BY <2>3 DEF DispatchArm, DispatchCheck, DispatchMark, DispatchSend,
         DispatchDone,
                  TypeOK, Dispatcher
    <3>. QED BY <2>0, <3>1
  <2>4. CASE DispatchEnd(d) \/ DispatchCrash(d)
    BY <2>0, <2>4 DEF DispatchEnd, DispatchCrash, NoDispatch, TypeOK
  <2>. QED BY <2>1, <2>2, <2>3, <2>4 DEF DispatcherStep
<1>. QED
  BY <1>1, <1>2, <1>3, <1>4 DEF RefersToBooks, UploadsRefer, RowsRefer, Rows,
     RunsRefer,
     DispatchersRefer, ReapersRefer, Exists

\* The same of reap_stale_jobs.
LEMMA ReaperRefers ==
  ASSUME TypeOK, RefersToBooks, NEW r \in Reapers, ReaperStep(r) \/ ReapCrash(r)
  PROVE  RefersToBooks'
<1>1. UNCHANGED <<book, upload, worker, dispatcher>>
  BY DEF ReaperStep, ReapScan, ReapCheck, ReapNext, ReapRequeue, ReapSend,
     ReapCrash
<1>2. MessagesRefer'
  <2>1. CASE UNCHANGED message BY <1>1, <2>1 DEF RefersToBooks, MessagesRefer,
  Exists
  <2>2. CASE ReapSend(r)
    BY <1>1, <2>2, ReaperFields, SendRefers DEF ReapSend, RefersToBooks,
       ReapersRefer
  <2>. QED BY <2>1, <2>2 DEF ReaperStep, ReapScan, ReapCheck, ReapNext,
  ReapRequeue, ReapCrash
<1>3. \A j \in Jobs : job'[j].book = job[j].book
  <2>1. CASE UNCHANGED job BY <2>1
  <2>2. CASE ReapRequeue(r)
    <3>1. PICK s \in reaper[r].cur : ReapRequeue(r)!2!(s)
      BY <2>2 DEF ReapRequeue
    <3>2. [job[s.job] EXCEPT !.status = "queued", !.checkpoint = "none"].book = job[s.job].book
      BY ReaperFields DEF TypeOK, Job
    <3>. QED BY <3>1, <3>2, ReaperFields DEF TypeOK
  <2>. QED BY <2>1, <2>2 DEF ReaperStep, ReapScan, ReapCheck, ReapNext,
  ReapSend, ReapCrash
<1>4. \A q \in Reapers : \A s \in reaper'[q].todo \cup reaper'[q].stale \cup reaper'[q].cur :
          Exists(s.book)
  <2>0. \A q \in Reapers : \A s \in reaper[q].todo \cup reaper[q].stale \cup reaper[q].cur :
            Exists(s.book)
    BY DEF RefersToBooks, ReapersRefer
  <2>1. CASE ReapScan(r)
    <3>1. \A s \in reaper'[r].todo : Exists(s.book)
      BY <2>1 DEF ReapScan, RefersToBooks, RowsRefer, Rows, RowsWith, TypeOK
    <3>. QED BY <2>0, <2>1, <3>1 DEF ReapScan, TypeOK, Reaper
  <2>2. CASE ReapCheck(r)
    <3>1. PICK s \in reaper[r].todo : ReapCheck(r)!2!(s) BY <2>2 DEF ReapCheck
    <3>2. \A q \in Reapers : reaper'[q].todo \cup reaper'[q].stale \cup reaper'[q].cur
               \subseteq reaper[q].todo \cup reaper[q].stale \cup reaper[q].cur
      BY <3>1, ReaperFields DEF TypeOK, Reaper
    <3>. QED BY <2>0, <3>2
  <2>3. CASE ReapNext(r)
    <3>1. CASE reaper' = [reaper EXCEPT ![r] = NoReap]
      BY <2>0, <3>1 DEF NoReap, TypeOK
    <3>2. ASSUME NEW s \in reaper[r].stale,
                 reaper' = [reaper EXCEPT ![r].pc = "requeue", ![r].cur = {s},
                                          ![r].stale = @ \ {s}]
          PROVE  \A q \in Reapers : reaper'[q].todo \cup reaper'[q].stale \cup reaper'[q].cur
                     \subseteq reaper[q].todo \cup reaper[q].stale \cup reaper[q].cur
      BY <3>2, ReaperFields DEF TypeOK, Reaper
    <3>. QED BY <2>0, <2>3, <3>1, <3>2 DEF ReapNext
  <2>4. CASE ReapRequeue(r)
    <3>1. PICK s \in reaper[r].cur : ReapRequeue(r)!2!(s)
      BY <2>4 DEF ReapRequeue
    <3>2. [s EXCEPT !.task = NoTask].book = s.book BY ReaperFields DEF Stale
    <3>3. \A q \in Reapers : /\ reaper'[q].todo = reaper[q].todo
                             /\ reaper'[q].stale = reaper[q].stale
                             /\ q # r => reaper'[q].cur = reaper[q].cur
      BY <3>1, ReaperFields DEF TypeOK, Reaper
    <3>4. reaper'[r].cur \in {{}, {[s EXCEPT !.task = NoTask]}}
      BY <3>1, ReaperFields DEF TypeOK, Reaper
    <3>5. Exists(s.book) BY <2>0
    <3>6. \A u \in reaper'[r].cur : Exists(u.book) BY <3>2, <3>4, <3>5
    <3>. QED BY <2>0, <3>3, <3>6
  <2>5. CASE ReapSend(r)
    BY <2>0, <2>5, ReaperFields DEF ReapSend, TypeOK, Reaper
  <2>6. CASE ReapCrash(r) BY <2>0, <2>6 DEF ReapCrash, NoReap, TypeOK
  <2>. QED BY <2>1, <2>2, <2>3, <2>4, <2>5, <2>6 DEF ReaperStep
<1>. QED
  BY <1>1, <1>2, <1>3, <1>4 DEF RefersToBooks, UploadsRefer, RowsRefer, Rows,
     RunsRefer,
     DispatchersRefer, ReapersRefer, Exists

\* Every step of the system keeps the references to books that exist.
THEOREM RefersStep == TypeOK /\ RefersToBooks /\ [Next]_vars => RefersToBooks'
<1>. SUFFICES ASSUME TypeOK, RefersToBooks, [Next]_vars PROVE RefersToBooks'
  OBVIOUS
<1>1. CASE UNCHANGED vars
  BY <1>1 DEF vars, RefersToBooks, UploadsRefer, RowsRefer, Rows, RunsRefer,
     MessagesRefer,
              DispatchersRefer, ReapersRefer, Exists
<1>2. CASE Next
  BY SMTT(30), <1>2, UploadRefers, BrokerRefers, WorkerRefers, TakeRefers, BeatRefers,
     DispatcherRefers, ReaperRefers DEF Next
<1>. QED BY <1>1, <1>2

\* Neither index loses a book, nor does Meilisearch's queue, unless a task fails.
IndexesGrow ==
    /\ vectors \subseteq vectors'
    /\ "taskFails" \notin Faults => texts \cup imports \subseteq texts' \cup imports'

\* Books only gain pages, chunks in the indexes and a settled status.
LEMMA WorkerGrows ==
  ASSUME TypeOK, RefersToBooks, NEW w \in Workers,
         WorkerStep(w) \/ ExtractProgress(w) \/ WorkerFault(w)
  PROVE  /\ IndexesGrow
         /\ \A b \in Books : /\ book[b].pages => book'[b].pages
                             /\ book'[b].status \in {book[b].status, "ready", "failed"}
<1>1. CASE SavePages(w)
  <2>1. \A b \in Books : book'[b].status = book[b].status /\ (book[b].pages => book'[b].pages)
    BY <1>1, AtWork DEF SavePages, TypeOK, Book
  <2>. QED BY <1>1, <2>1 DEF SavePages, IndexesGrow
<1>2. CASE SetReady(w)
  <2>1. \A b \in Books : book'[b].status \in {book[b].status, "ready"} /\ book'[b].pages = book[b].pages
    BY <1>2, AtWork DEF SetReady, TypeOK, Book
  <2>. QED BY <1>2, <2>1 DEF SetReady, IndexesGrow
<1>3. CASE MarkFailed(w)
  <2>1. \A b \in Books : book'[b].status \in {book[b].status, "failed"} /\ book'[b].pages = book[b].pages
    BY <1>3, AtWork DEF MarkFailed, TypeOK, Book
  <2>. QED BY <1>3, <2>1 DEF MarkFailed, IndexesGrow
<1>4. CASE IndexQdrant(w) \/ IndexMeilisearch(w) \/ IndexOutlasts(w)
  BY <1>4 DEF IndexQdrant, IndexMeilisearch, IndexOutlasts, IndexesGrow
<1>5. CASE UNCHANGED <<book, vectors, texts, imports>> BY <1>5 DEF IndexesGrow
<1>. QED BY <1>1, <1>2, <1>3, <1>4, <1>5
     DEF WorkerStep, Claim, ReadJob, ReadBook, Fetch, Extract, ToChunking, Chunk,
     ToEmbedding, Embed,
         EndPhase, Complete, Announce, ExtractProgress, WorkerFault, StepFails,
         MarkFailedGivesUp, ChildLost, NodeCrash, IndexTaskFails, Terminate

\* A run that goes to another statement keeps its book and its data.
LEMMA GotoEffect ==
  ASSUME TypeOK, NEW w \in Workers, NEW pc, Goto(w, pc)
  PROVE  /\ worker'[w].pc = pc
         /\ worker'[w].book = worker[w].book /\ worker'[w].resume = worker[w].resume
         /\ worker'[w].chunks = worker[w].chunks
         /\ \A v \in Workers : v # w => worker'[v] = worker[v]
<1>1. worker[w] \in Worker BY DEF TypeOK
<1>2. [worker[w] EXCEPT !.pc = pc].pc = pc
  BY <1>1 DEF Worker
<1>. QED BY <1>1, <1>2 DEF TypeOK, Goto, Worker

\* Nothing is asked of an idle slot.
LEMMA IdleHonest ==
  ASSUME NEW w \in Workers, worker'[w] = Idle
  PROVE  HonestRun(w)'
  BY DEF HonestRun, Idle, PastExtraction

\* Nothing is asked of a run that starts or fails.
LEMMA EarlyHonest ==
  ASSUME TypeOK, NEW w \in Workers, NEW pc \in {"failing", "readJob"}, Goto(w,
  pc)
  PROVE  HonestRun(w)'
  BY GotoEffect DEF HonestRun, PastExtraction

\* The end of a task concerns its own slot only.
LEMMA TaskEndsEffect ==
  ASSUME TypeOK, NEW w \in Workers, TaskEnds(w)
  PROVE  worker'[w] = Idle /\ \A v \in Workers : v # w => worker'[v] = worker[v]
  BY DEF TypeOK, TaskEnds

\* A run that stands at a statement has done what comes before it: for each
\* statement, what the one before it has written.
LEMMA WorkerRunsHonest ==
  ASSUME TypeOK, RefersToBooks, RunsHonest, CheckpointHonest, NEW w \in Workers,
         WorkerStep(w) \/ ExtractProgress(w) \/ WorkerFault(w)
  PROVE  RunsHonest'
<1>0. HonestRun(w) BY DEF RunsHonest
<1>1. ASSUME NEW v \in Workers, v # w PROVE HonestRun(v)'
  <2>1. worker'[v] = worker[v]
    BY ZenonT(40), <1>1, GotoEffect, TaskEndsEffect
       DEF WorkerStep, Claim, ReadJob, ReadBook, Fetch, Extract, SavePages,
       ToChunking, Chunk,
           ToEmbedding, Embed, EndPhase, IndexQdrant, IndexMeilisearch,
           SetReady, Complete,
           Announce, MarkFailed, ExtractProgress, WorkerFault, StepFails,
           MarkFailedGivesUp,
           ChildLost, NodeCrash, IndexTaskFails, IndexOutlasts, Terminate,
           TypeOK
  <2>2. CASE worker[v].pc = "idle" BY <2>1, <2>2 DEF HonestRun, PastExtraction
  <2>3. CASE worker[v].pc # "idle"
    <3>1. HonestRun(v) /\ worker[v].book \in Books
      BY <2>3, AtWork DEF RunsHonest
    <3>. QED BY <2>1, <3>1, WorkerGrows DEF HonestRun, IndexesGrow
  <2>. QED BY SMTT(30), <2>2, <2>3
<1>2. HonestRun(w)'
  <2>0. CASE worker[w].pc = "idle" BY <2>0 DEF
           WorkerStep, Claim, ReadJob, ReadBook, Fetch, Extract, SavePages,
           ToChunking, Chunk,
           ToEmbedding, Embed, EndPhase, IndexQdrant, IndexMeilisearch,
           SetReady, Complete,
           Announce, MarkFailed, ExtractProgress, WorkerFault, StepFails,
           MarkFailedGivesUp,
           ChildLost, NodeCrash, IndexTaskFails, IndexOutlasts, Terminate,
           Running, Working
  <2>. SUFFICES ASSUME worker[w].pc # "idle" PROVE HonestRun(w)' BY <2>0
  <2>. DEFINE b == worker[w].book
  <2>b. b \in Books /\ Exists(b) BY AtWork
  <2>g. IndexesGrow /\ (book[b].pages => book'[b].pages)
        /\ book'[b].status \in {book[b].status, "ready", "failed"}
    BY <2>b, WorkerGrows
  <2>1. CASE TaskEnds(w) \/ worker'[w] = Idle
    BY <2>1, TaskEndsEffect, IdleHonest
  <2>2. CASE \E pc \in {"failing", "readJob"} : Goto(w, pc) BY <2>2, EarlyHonest
  <2>3. CASE UNCHANGED worker BY <1>0, <2>3, <2>g DEF HonestRun, IndexesGrow
  <2>4. ASSUME ReadJob(w), ~TaskEnds(w), ~Goto(w, "failing") PROVE HonestRun(w)'
    <3>1. PICK j \in RowsOf(b) : worker' = [worker EXCEPT ![w].pc = "readBook",
                                                        ![w].resume = job[j].checkpoint]
      BY <2>4 DEF ReadJob
    <3>2. /\ worker'[w].pc = "readBook" /\ worker'[w].resume = job[j].checkpoint
          /\ worker'[w].book = b
      BY <3>1 DEF TypeOK, Worker
    <3>3. job[j].book = b /\ j \in Rows
      BY <2>b, <3>1, IngestionAssumption DEF RowsOf, Rows
    <3>. QED BY <2>4, <3>2, <3>3, <2>g DEF CheckpointHonest, HonestRun,
    PastExtraction
  <2>5. ASSUME ReadBook(w), ~TaskEnds(w) PROVE HonestRun(w)'
    <3>1. /\ worker'[w].pc = FirstStep(worker[w].resume) /\ worker'[w].book = b
          /\ worker'[w].chunks = worker[w].chunks /\ worker'[w].pc # "idle"
      BY <2>5 DEF ReadBook, TypeOK, Worker
    <3>2. worker[w].resume \in Checkpoints BY WorkerFields
    <3>3. worker'[w].pc \in {"fetch", "chunk", "embed", "qdrant"}
      BY <3>1, <3>2 DEF FirstStep, Checkpoints
    <3>4. worker'[w].pc # "fetch" =>
             worker[w].resume \in {"chunking", "embedding", "indexing", "completed"}
      BY <3>1, <3>2 DEF FirstStep, Checkpoints
    <3>. QED BY <1>0, <2>5, <2>g, <3>1, <3>3, <3>4 DEF ReadBook, HonestRun,
    PastExtraction
  <2>6. CASE Extract(w) \/ (Fetch(w) /\ ~Goto(w, "failing"))
    <3>1. worker'[w].pc \in {"extract", "savePages"}
      BY <2>6, GotoEffect DEF Fetch, Extract, TypeOK, Worker
    <3>. QED BY <3>1 DEF HonestRun, PastExtraction
  <2>7. CASE SavePages(w)
    <3>1. worker'[w].pc = "toChunking" /\ worker'[w].book = b
      BY <2>7, GotoEffect DEF SavePages
    <3>2. book'[b].pages BY <2>7, <2>b DEF SavePages, TypeOK, Book
    <3>. QED BY <3>1, <3>2 DEF HonestRun
  <2>8. CASE (ToChunking(w) \/ ToEmbedding(w) \/ Embed(w)) /\ ~Goto(w, "failing")
    <3>1. /\ worker[w].pc \in PastExtraction /\ worker'[w].book = b
          /\ worker'[w].pc \in {"chunk", "embed", "qdrant"}
      BY <2>8, GotoEffect DEF ToChunking, ToEmbedding, Embed, EndPhase,
         PastExtraction
    <3>. QED BY <1>0, <2>g, <3>1 DEF HonestRun
  <2>9. ASSUME Chunk(w), ~Goto(w, "failing") PROVE HonestRun(w)'
    <3>1. worker'[w].pc = "toEmbedding" /\ worker'[w].book = b
      BY <2>9 DEF Chunk, TypeOK, Worker
    <3>. QED BY <1>0, <2>9, <2>g, <3>1 DEF Chunk, HonestRun, PastExtraction
  <2>10. CASE IndexQdrant(w) /\ ~Goto(w, "failing")
    <3>1. /\ worker'[w].pc = "meili" /\ worker'[w].book = b
          /\ worker'[w].chunks = worker[w].chunks
      BY <2>10, GotoEffect DEF IndexQdrant
    <3>. QED BY <1>0, <2>10, <2>g, <3>1 DEF IndexQdrant, HonestRun,
    PastExtraction
  <2>11. CASE IndexMeilisearch(w)
    <3>1. /\ worker'[w].pc = "setReady" /\ worker'[w].book = b
          /\ worker'[w].chunks = worker[w].chunks
      BY <2>11, GotoEffect DEF IndexMeilisearch
    <3>. QED BY <1>0, <2>11, <2>g, <3>1 DEF IndexMeilisearch, HonestRun,
    PastExtraction, IndexesGrow
  <2>12. CASE SetReady(w)
    <3>1. worker'[w].pc = "complete" /\ worker'[w].book = b
      BY <2>12, GotoEffect DEF SetReady
    <3>2. book'[b].status = "ready" BY <2>12, <2>b DEF SetReady, TypeOK, Book
    <3>. QED BY <1>0, <2>12, <2>g, <3>1, <3>2 DEF SetReady, HonestRun,
    PastExtraction
  <2>13. CASE Complete(w)
    <3>1. worker'[w].pc = "announce" /\ worker'[w].book = b
      BY <2>13, GotoEffect DEF Complete
    <3>. QED BY <1>0, <2>13, <2>g, <3>1 DEF Complete, HonestRun, PastExtraction
  <2>14. CASE IndexTaskFails(w) \/ IndexOutlasts(w)
    <3>1. /\ worker[w].pc = "meili" /\ worker'[w].pc = "setReady"
          /\ worker'[w].book = b /\ worker'[w].chunks = worker[w].chunks
      BY <2>14, GotoEffect DEF IndexTaskFails, IndexOutlasts
    <3>2. "taskFails" \in Faults \/ b \in imports'
      BY <2>14 DEF IndexTaskFails, IndexOutlasts, Fault
    <3>. QED BY <1>0, <2>g, <3>1, <3>2 DEF HonestRun, PastExtraction, IndexesGrow
  <2>15. CASE WorkerFault(w)
    BY SMTT(30), <2>1, <2>2, <2>14, <2>15 DEF WorkerFault, StepFails, MarkFailedGivesUp,
       ChildLost, NodeCrash,
                             Terminate, TypeOK
  <2>. QED
    BY <2>1, <2>2, <2>3, <2>4, <2>5, <2>6, <2>7, <2>8, <2>9, <2>10, <2>11,
       <2>12, <2>13, <2>15
       DEF WorkerStep, Claim, ExtractProgress, Announce, MarkFailed, Fetch, Extract,
       Chunk, ReadJob,
           ReadBook, IndexQdrant, ToChunking, ToEmbedding, Embed, EndPhase
<1>. QED BY <1>1, <1>2 DEF RunsHonest

\* What the steps outside the workers do to rows, books and runs.
RowsKept ==
    \A j \in Jobs :
        /\ job'[j].checkpoint \in {job[j].checkpoint, "none"}
        /\ job'[j].status \in {job[j].status, "queued", "extracting"}
        /\ \/ job'[j].book = job[j].book
           \/ job'[j].checkpoint = "none" /\ job'[j].status = "queued"
BooksKept ==
    \A b \in Books : \/ book'[b] = book[b]
                     \/ ~Exists(b) /\ book'[b].status = "pending"
RunsKept ==
    \A w \in Workers : worker'[w] = worker[w] \/ worker'[w].pc = "claim"

\* The steps outside the workers - uploads, the broker, keys, dispatchers and
\* reapers - only take rows back to the start, and change no existing book.
LEMMA OthersKeep ==
  ASSUME TypeOK, RefersToBooks, Next,
         \A w \in Workers : ~(WorkerStep(w) \/ ExtractProgress(w) \/ WorkerFault(w))
  PROVE  RowsKept /\ BooksKept /\ RunsKept /\ IndexesGrow
<1>0. /\ UNCHANGED job => RowsKept
      /\ UNCHANGED book => BooksKept
      /\ UNCHANGED worker => RunsKept
      /\ UNCHANGED <<vectors, texts, imports>> => IndexesGrow
  BY DEF RowsKept, BooksKept, RunsKept, IndexesGrow
<1>1. ASSUME NEW b \in Books, UploadCommit(b)
      PROVE  RowsKept /\ BooksKept /\ RunsKept /\ IndexesGrow
  <2>1. RowsKept BY <1>1 DEF UploadCommit, RowsKept, TypeOK, NoJobRow
  <2>2. ~Exists(b) BY <1>1 DEF UploadCommit, RefersToBooks, UploadsRefer
  <2>3. BooksKept BY <1>1, <2>2 DEF UploadCommit, BooksKept, TypeOK, NoBookRow
  <2>. QED BY <1>0, <1>1, <2>1, <2>3 DEF UploadCommit
<1>2. ASSUME NEW d \in Dispatchers, DispatchMark(d)
      PROVE  RowsKept /\ BooksKept /\ RunsKept /\ IndexesGrow
  <2>1. RowsKept BY <1>2 DEF DispatchMark, RowsKept, TypeOK, Job
  <2>. QED BY <1>0, <1>2, <2>1 DEF DispatchMark
<1>3. ASSUME NEW r \in Reapers, ReapRequeue(r)
      PROVE  RowsKept /\ BooksKept /\ RunsKept /\ IndexesGrow
  <2>1. PICK s \in reaper[r].cur : ReapRequeue(r)!2!(s) BY <1>3 DEF ReapRequeue
  <2>2. LET n == [job[s.job] EXCEPT !.status = "queued", !.checkpoint = "none"]
        IN  n.book = job[s.job].book /\ n.status = "queued" /\ n.checkpoint = "none"
    BY ReaperFields DEF TypeOK, Job
  <2>3. RowsKept BY <2>1, <2>2, ReaperFields DEF RowsKept, TypeOK
  <2>. QED BY <1>0, <1>3, <2>3 DEF ReapRequeue
<1>4. ASSUME NEW w \in Workers, NEW t \in Tasks, Take(w, t)
      PROVE  RowsKept /\ BooksKept /\ RunsKept /\ IndexesGrow
  <2>1. RunsKept BY <1>4 DEF Take, RunsKept, TypeOK, Idle
  <2>. QED BY <1>0, <1>4, <2>1 DEF Take
<1>5. CASE UNCHANGED <<book, job, vectors, texts, imports, worker>>
  BY <1>0, <1>5
<1>6. ASSUME NEW b \in Books, ImportDone(b) \/ ImportFails(b)
      PROVE  RowsKept /\ BooksKept /\ RunsKept /\ IndexesGrow
  <2>1. IndexesGrow BY <1>6 DEF ImportDone, ImportFails, IndexesGrow
  <2>. QED BY <1>0, <1>6, <2>1 DEF ImportDone, ImportFails
<1>. QED
  BY <1>1, <1>2, <1>3, <1>4, <1>5, <1>6
     DEF Next, UploadNext, UploadStore, UploadSend, UploadCrash, BeatExpires,
     BeatAgain,
         LockExpires, Redeliver, Discard, DispatcherStep, DispatchScan,
         DispatchLock,
         DispatchArm, DispatchCheck, DispatchSend, DispatchEnd, DispatchCrash,
         ReaperStep,
         ReapScan, ReapCheck, ReapNext, ReapSend, ReapCrash

\* A worker writes a terminal status only for a book that is settled: Complete
\* after SetReady, MarkFailed together with the book.
LEMMA WorkerTerminal ==
  ASSUME TypeOK, RefersToBooks, RunsHonest, TerminalMeansSettled,
  NEW w \in Workers,
         WorkerStep(w) \/ ExtractProgress(w) \/ WorkerFault(w)
  PROVE  TerminalMeansSettled'
<1>. DEFINE b == worker[w].book
<1>1. \A c \in Books : book[c].status \in {"ready", "failed"} => book'[c].status \in {"ready", "failed"}
  BY WorkerGrows
<1>2. \A j \in Rows : job[j].book \in Books BY DEF Rows, TypeOK, Job
<1>3. ASSUME \A j \in Jobs : /\ job'[j].book = job[j].book
                             /\ job'[j].status \in Terminal => job'[j].status = job[j].status
      PROVE  TerminalMeansSettled'
  BY <1>1, <1>2, <1>3 DEF TerminalMeansSettled, Rows
<1>4. CASE Claim(w) BY <1>3, <1>4, ClaimEffect DEF Terminal
<1>5. CASE ExtractProgress(w)
  BY <1>3, <1>5, SetStatusEffect, SetPhaseEffect DEF ExtractProgress, Terminal
<1>6. CASE ToChunking(w) \/ ToEmbedding(w) \/ Embed(w)
  BY <1>3, <1>6, SetPhaseEffect DEF ToChunking, ToEmbedding, Embed, EndPhase,
     Terminal
<1>7. CASE Complete(w) \/ MarkFailed(w)
  <2>1. b \in Books /\ Exists(b) BY <1>7, AtWork DEF Complete, MarkFailed
  <2>2. book'[b].status \in {"ready", "failed"}
    BY <1>7, <2>1 DEF Complete, MarkFailed, RunsHonest, HonestRun, TypeOK, Book
  <2>3. \A j \in Jobs : /\ job'[j].book = job[j].book
                        /\ job[j].book # b => job'[j] = job[j]
    BY <1>7, SetStatusEffect, SetPhaseEffect DEF Complete, MarkFailed
  <2>. QED BY <1>1, <1>2, <2>2, <2>3 DEF TerminalMeansSettled, Rows
<1>8. CASE UNCHANGED job BY <1>3, <1>8
<1>. QED
  BY <1>4, <1>5, <1>6, <1>7, <1>8
     DEF WorkerStep, ReadJob, ReadBook, Fetch, Extract, SavePages, Chunk, IndexQdrant,
         IndexMeilisearch, SetReady, Announce, WorkerFault, StepFails,
         MarkFailedGivesUp,
         ChildLost, NodeCrash, IndexTaskFails, IndexOutlasts, Terminate

\* A worker writes a checkpoint only past what it stands for.
LEMMA WorkerCheckpoint ==
  ASSUME TypeOK, RefersToBooks, RunsHonest, CheckpointHonest, NEW w \in Workers,
         WorkerStep(w) \/ ExtractProgress(w) \/ WorkerFault(w)
  PROVE  CheckpointHonest'
<1>. DEFINE b == worker[w].book
<1>1. \A c \in Books : /\ book[c].pages => book'[c].pages
                       /\ book[c].status \in {"ready", "failed"} => book'[c].status \in {"ready", "failed"}
  BY WorkerGrows
<1>2. \A j \in Rows : job[j].book \in Books BY DEF Rows, TypeOK, Job
<1>3. ASSUME \A j \in Jobs : /\ job'[j].book = job[j].book
                             /\ job'[j].checkpoint \in {job[j].checkpoint, "extracting"}
      PROVE  CheckpointHonest'
  BY <1>1, <1>2, <1>3 DEF CheckpointHonest, Rows
<1>4. CASE Claim(w) BY <1>3, <1>4, ClaimEffect
<1>5. CASE ExtractProgress(w)
  BY <1>3, <1>5, SetStatusEffect, SetPhaseEffect DEF ExtractProgress
<1>6. CASE ToChunking(w) \/ ToEmbedding(w) \/ Embed(w) \/ Complete(w)
  <2>1. b \in Books
    BY <1>6, AtWork DEF ToChunking, ToEmbedding, Embed, EndPhase, Complete
  <2>2. book'[b].pages
    BY <1>1, <1>6, <2>1 DEF ToChunking, ToEmbedding, Embed, EndPhase,
       Complete, RunsHonest,
                            HonestRun, PastExtraction
  <2>3. CASE Complete(w)
    <3>1. book'[b].status \in {"ready", "failed"}
      BY <1>1, <2>1, <2>3 DEF Complete, RunsHonest, HonestRun
    <3>2. \A j \in Jobs : /\ job'[j].book = job[j].book
                          /\ job[j].book # b => job'[j] = job[j]
      BY <2>3, SetPhaseEffect DEF Complete
    <3>. QED BY <1>1, <1>2, <2>2, <3>1, <3>2 DEF CheckpointHonest, Rows
  <2>4. CASE ~Complete(w)
    <3>1. \A j \in Jobs : /\ job'[j].book = job[j].book
                          /\ job[j].book # b => job'[j] = job[j]
                          /\ job'[j].checkpoint \in {job[j].checkpoint, "chunking", "embedding", "indexing"}
      BY <1>6, <2>4, SetPhaseEffect DEF ToChunking, ToEmbedding, Embed, EndPhase
    <3>. QED BY <1>1, <1>2, <2>2, <3>1 DEF CheckpointHonest, Rows
  <2>. QED BY <2>3, <2>4
<1>7. CASE MarkFailed(w) BY <1>3, <1>7, SetStatusEffect DEF MarkFailed
<1>8. CASE UNCHANGED job BY SMTT(30), <1>3, <1>8
<1>. QED
  BY <1>4, <1>5, <1>6, <1>7, <1>8
     DEF WorkerStep, ReadJob, ReadBook, Fetch, Extract, SavePages, Chunk, IndexQdrant,
         IndexMeilisearch, SetReady, Announce, WorkerFault, StepFails,
         MarkFailedGivesUp,
         ChildLost, NodeCrash, IndexTaskFails, IndexOutlasts, Terminate

\* Every book that is ready with chunks after the step was so before, or is in
\* both indexes by now.
ReadyComesIndexed ==
    \A c \in Books : book'[c].status = "ready" /\ book'[c].chunks =>
        \/ book[c].status = "ready" /\ book[c].chunks
        \/ Indexed(c)'

\* A worker makes a book ready only after it has indexed its chunks, and the
\* indexes never shrink.
LEMMA WorkerSearchable ==
  ASSUME TypeOK, RefersToBooks, RunsHonest, "taskFails" \notin Faults,
         NEW w \in Workers,
         WorkerStep(w) \/ ExtractProgress(w) \/ WorkerFault(w)
  PROVE  ReadyComesIndexed
<1>1. vectors \subseteq vectors' /\ texts \cup imports \subseteq texts' \cup imports'
  BY WorkerGrows DEF IndexesGrow
<1>2. ASSUME \A c \in Books : book'[c].status = "ready" /\ book'[c].chunks
                                 => book[c].status = "ready" /\ book[c].chunks
      PROVE  ReadyComesIndexed
  BY <1>2 DEF ReadyComesIndexed
<1>3. CASE SavePages(w)
  <2>1. book \in [Books -> Book] BY DEF TypeOK
  <2>2. \A c \in Books : book'[c].status = book[c].status /\ book'[c].chunks = book[c].chunks
    BY <1>3, <2>1 DEF SavePages, Book
  <2>. QED BY <1>2, <2>2
<1>4. CASE SetReady(w)
  <2>1. worker[w].book \in Books BY <1>4, AtWork DEF SetReady
  <2>2. \A c \in Books : /\ c # worker[w].book => book'[c] = book[c]
                         /\ c = worker[w].book => book'[c].chunks = worker[w].chunks
    BY <1>4, <2>1, AtWork DEF SetReady, TypeOK, Book
  <2>3. worker[w].chunks => Indexed(worker[w].book)
    BY <1>4 DEF SetReady, RunsHonest, HonestRun, Indexed
  <2>. QED BY <1>1, <2>2, <2>3 DEF ReadyComesIndexed, Indexed
<1>5. CASE MarkFailed(w)
  <2>1. \A c \in Books : book'[c] = book[c] \/ book'[c].status = "failed"
    BY <1>5, AtWork DEF MarkFailed, TypeOK, Book
  <2>. QED BY <1>2, <2>1
<1>6. CASE UNCHANGED book BY <1>2, <1>6
<1>. QED
  BY <1>3, <1>4, <1>5, <1>6
     DEF WorkerStep, Claim, ReadJob, ReadBook, Fetch, Extract, ToChunking, Chunk,
     ToEmbedding, Embed,
         EndPhase, IndexQdrant, IndexMeilisearch, Complete, Announce,
         ExtractProgress,
         WorkerFault, StepFails, MarkFailedGivesUp, ChildLost, NodeCrash,
         IndexTaskFails, IndexOutlasts, Terminate

\* What runs and checkpoints stand on: the work that is behind them is committed.
Founded == RunsHonest /\ CheckpointHonest

\* The steps outside the workers take nothing from under them, and make no row
\* terminal.
LEMMA OthersFounded ==
  ASSUME TypeOK, RefersToBooks, Next,
         \A w \in Workers : ~(WorkerStep(w) \/ ExtractProgress(w) \/ WorkerFault(w))
  PROVE  /\ Founded => Founded'
         /\ TerminalMeansSettled => TerminalMeansSettled'
<1>1. RunsHonest => RunsHonest'
  <2>. SUFFICES ASSUME RunsHonest PROVE RunsHonest' OBVIOUS
  <2>1. ASSUME NEW w \in Workers, worker'[w] = worker[w], worker[w].pc # "idle" PROVE HonestRun(w)'
    <3>1. worker[w].book \in Books /\ Exists(worker[w].book) BY <2>1, AtWork
    <3>. QED BY <2>1, <3>1, OthersKeep DEF RowsKept, BooksKept, RunsKept,
    RunsHonest, HonestRun, IndexesGrow
  <2>2. ASSUME NEW w \in Workers, worker'[w].pc \in {"idle", "claim"} PROVE HonestRun(w)'
    BY <2>2 DEF HonestRun, PastExtraction
  <2>. QED BY <2>1, <2>2, OthersKeep DEF RowsKept, BooksKept, RunsKept,
  RunsHonest
<1>2. \A j \in Rows : job[j].book \in Books /\ Exists(job[j].book)
  BY DEF RefersToBooks, RowsRefer, Rows, TypeOK, Job
<1>3. TerminalMeansSettled => TerminalMeansSettled'
  BY <1>2, OthersKeep DEF RowsKept, BooksKept, RunsKept,
     TerminalMeansSettled, Rows, Terminal
<1>4. CheckpointHonest => CheckpointHonest'
  BY <1>2, OthersKeep DEF RowsKept, BooksKept, RunsKept,
     CheckpointHonest, Rows
<1>. QED BY <1>1, <1>3, <1>4 DEF Founded

\* Every step of the pipeline leaves runs and checkpoints founded.
LEMMA FoundedStep ==
  ASSUME TypeOK, RefersToBooks, Founded, [Next]_vars
  PROVE  Founded'
<1>1. CASE UNCHANGED vars
  BY <1>1 DEF vars, Founded, RunsHonest, HonestRun, CheckpointHonest, Rows
<1>2. ASSUME NEW w \in Workers,
             WorkerStep(w) \/ ExtractProgress(w) \/ WorkerFault(w)
      PROVE  Founded'
  BY <1>2, WorkerRunsHonest, WorkerCheckpoint DEF Founded
<1>3. CASE Next /\ \A w \in Workers :
                      ~(WorkerStep(w) \/ ExtractProgress(w) \/ WorkerFault(w))
  BY <1>3, OthersFounded
<1>. QED BY <1>1, <1>2, <1>3

\* Every step of the pipeline keeps books in step with their terminal rows.
LEMMA SettledStep ==
  ASSUME TypeOK, RefersToBooks, Founded, TerminalMeansSettled, [Next]_vars
  PROVE  TerminalMeansSettled'
<1>1. CASE UNCHANGED vars BY <1>1 DEF vars, TerminalMeansSettled, Rows
<1>2. ASSUME NEW w \in Workers,
             WorkerStep(w) \/ ExtractProgress(w) \/ WorkerFault(w)
      PROVE  TerminalMeansSettled'
  BY <1>2, WorkerTerminal DEF Founded
<1>3. CASE Next /\ \A w \in Workers :
                      ~(WorkerStep(w) \/ ExtractProgress(w) \/ WorkerFault(w))
  BY <1>3, OthersFounded
<1>. QED BY <1>1, <1>2, <1>3

\* No step of the pipeline empties an index, and none makes a book ready that is
\* not in both.
LEMMA SearchableStep ==
  ASSUME TypeOK, RefersToBooks, Founded, "taskFails" \notin Faults, [Next]_vars
  PROVE  IndexesGrow /\ ReadyComesIndexed
<1>1. CASE UNCHANGED vars BY <1>1 DEF vars, ReadyComesIndexed, IndexesGrow
<1>2. ASSUME NEW w \in Workers,
             WorkerStep(w) \/ ExtractProgress(w) \/ WorkerFault(w)
      PROVE  IndexesGrow /\ ReadyComesIndexed
  BY <1>2, WorkerGrows, WorkerSearchable DEF Founded
<1>3. CASE Next /\ \A w \in Workers :
                      ~(WorkerStep(w) \/ ExtractProgress(w) \/ WorkerFault(w))
  BY <1>3, OthersKeep DEF BooksKept, ReadyComesIndexed
<1>. QED BY <1>1, <1>2, <1>3

\* The inductive invariant holds at first.
LEMMA InitInv == Init => IngestionInv
<1>. SUFFICES ASSUME Init PROVE IngestionInv OBVIOUS
<1>1. TypeOK BY InitTypeOK
<1>2. Rows = {} BY DEF Init, Rows, NoJobRow
<1>3. RefersToBooks
  BY <1>2 DEF Init, RefersToBooks, UploadsRefer, RowsRefer, MessagesRefer,
     RunsRefer,
     DispatchersRefer, ReapersRefer, Exists, NoBookRow, NoMessage, Idle,
     NoDispatch, NoReap
<1>4. RunsHonest BY DEF Init, RunsHonest, HonestRun, Idle, PastExtraction
<1>5. TerminalMeansSettled /\ CheckpointHonest
  BY <1>2 DEF TerminalMeansSettled, CheckpointHonest
<1>6. SearchableUnlessTaskFails
  BY DEF Init, ReadyIsSearchable, SearchableUnlessTaskFails, NoBookRow
<1>. QED BY <1>1, <1>3, <1>4, <1>5, <1>6 DEF IngestionInv

\* Every step keeps the inductive invariant.
LEMMA InvStep == IngestionInv /\ [Next]_vars => IngestionInv'
<1>. SUFFICES ASSUME IngestionInv, [Next]_vars PROVE IngestionInv' OBVIOUS
<1>1. TypeOK' /\ RefersToBooks' BY RefersNames, TypeStep, RefersStep DEF IngestionInv
<1>2. Founded' /\ TerminalMeansSettled'
  BY FoundedStep, SettledStep DEF IngestionInv, Founded
<1>3. SearchableUnlessTaskFails'
  <2>1. CASE "taskFails" \notin Faults
    BY <2>1, SearchableStep
       DEF IngestionInv, Founded, SearchableUnlessTaskFails, ReadyIsSearchable,
           ReadyComesIndexed, IndexesGrow, Indexed
  <2>. QED BY <2>1 DEF SearchableUnlessTaskFails
<1>. QED BY <1>1, <1>2, <1>3 DEF IngestionInv, Founded

\* The inductive invariant holds in every reachable state, with any number of
\* books, workers, dispatchers, reapers and faults.
THEOREM IngestionInvariant == Spec => []IngestionInv
  BY InitInv, InvStep, PTL DEF Spec

\* Every variable keeps its type.
THEOREM TypeCorrect == Spec => []TypeOK
<1>1. IngestionInv => TypeOK BY DEF IngestionInv
<1>. QED BY <1>1, IngestionInvariant, PTL

\* No book stays "pending" behind a finished job: _mark_failed writes row and
\* book together, and "completed" comes after update_book_status.
THEOREM TerminalSettled == Spec => []TerminalMeansSettled
<1>1. IngestionInv => TerminalMeansSettled BY DEF IngestionInv
<1>. QED BY <1>1, IngestionInvariant, PTL

\* The checkpoint in Postgres, from which a task resumes, never claims more than
\* what was committed before it.
THEOREM CheckpointsHonest == Spec => []CheckpointHonest
<1>1. IngestionInv => CheckpointHonest BY DEF IngestionInv
<1>. QED BY <1>1, IngestionInvariant, PTL

\* A ready book with chunks is in both indexes, with any number of duplicate
\* runs, crashes, revocations and retries of its task, unless Meilisearch fails
\* a task it had accepted.
THEOREM ReadySearchable ==
  ASSUME "taskFails" \notin Faults
  PROVE  Spec => []ReadyIsSearchable
<1>1. IngestionInv => ReadyIsSearchable
  BY DEF IngestionInv, SearchableUnlessTaskFails
<1>. QED BY <1>1, IngestionInvariant, PTL

-----------------------------------------------------------------------------
(* Overlapping runs of dispatch_pending keep off each other's book, for every
   number of them and whatever the rest of the pipeline does. *)

\* The lock is taken as long as some run deals with its book: only that run
\* deletes it, and it outlives the handling of one row.
LockedWhileHeld ==
    \A d \in Dispatchers, b \in Books : Holds(d, b) => lock[b] # "free"

\* OneDispatchPerBook alone is not inductive: a run could take a lock that was
\* deleted under the run that deals with its book.
LocksInv == LockedWhileHeld /\ OneDispatchPerBook

\* No run deals with any row at first.
LEMMA InitLocks == Init => LocksInv
  BY DEF Init, LocksInv, LockedWhileHeld, OneDispatchPerBook, Holds, NoDispatch

\* Only the dispatchers and the clock touch the locks.
LEMMA OthersLeaveLocks ==
  ASSUME [Next]_vars,
         \A d \in Dispatchers : ~(DispatcherStep(d) \/ DispatchCrash(d)),
         \A b \in Books : ~LockExpires(b)
  PROVE  UNCHANGED <<dispatcher, lock>>
<1>1. CASE UNCHANGED vars BY <1>1 DEF vars
<1>2. ASSUME NEW b \in Books,
             \/ UploadNext(b) \/ UploadCrash(b) \/ BeatExpires(b) \/ BeatAgain(b)
             \/ ImportDone(b) \/ ImportFails(b)
      PROVE  UNCHANGED <<dispatcher, lock>>
  BY <1>2 DEF UploadNext, UploadStore, UploadCommit, UploadSend, UploadCrash,
     BeatExpires, BeatAgain, ImportDone, ImportFails
<1>3. ASSUME NEW t \in Tasks, Redeliver(t) \/ Discard(t)
      PROVE  UNCHANGED <<dispatcher, lock>>
  BY <1>3 DEF Redeliver, Discard
<1>4. ASSUME NEW w \in Workers, NEW t \in Tasks, Take(w, t)
      PROVE  UNCHANGED <<dispatcher, lock>>
  BY SMTT(30), <1>4 DEF Take
<1>5. ASSUME NEW w \in Workers, WorkerStep(w) \/ ExtractProgress(w)
      PROVE  UNCHANGED <<dispatcher, lock>>
  BY <1>5 DEF WorkerStep, Claim, ReadJob, ReadBook, Fetch, Extract,
     ExtractProgress, SavePages, ToChunking, ToEmbedding, Embed, EndPhase, Chunk, IndexQdrant,
     IndexMeilisearch, SetReady, Complete, Announce, MarkFailed
<1>6. ASSUME NEW w \in Workers, WorkerFault(w)
      PROVE  UNCHANGED <<dispatcher, lock>>
  BY SMTT(30), <1>6 DEF WorkerFault, StepFails, MarkFailedGivesUp, ChildLost, NodeCrash,
     IndexTaskFails, IndexOutlasts, Terminate
<1>7. ASSUME NEW r \in Reapers, ReaperStep(r) \/ ReapCrash(r)
      PROVE  UNCHANGED <<dispatcher, lock>>
  BY <1>7 DEF ReaperStep, ReapScan, ReapCheck, ReapNext, ReapRequeue, ReapSend,
     ReapCrash
<1>. QED BY <1>1, <1>2, <1>3, <1>4, <1>5, <1>6, <1>7 DEF Next

\* A run that puts nothing new in hand leaves the others' locks alone.
LEMMA LetGo ==
  ASSUME TypeOK, LocksInv, NEW d \in Dispatchers,
         NEW x \in Dispatcher, dispatcher' = [dispatcher EXCEPT ![d] = x],
         x.cur \subseteq dispatcher[d].cur,
         \A b \in Books : lock'[b] = "free" =>
             \/ lock[b] = "free"
             \/ Holds(d, b) /\ x.cur = {}
  PROVE  LocksInv'
<1>1. \A e \in Dispatchers, b \in Books : Holds(e, b)' => Holds(e, b)
  BY DEF Holds, TypeOK
<1>2. OneDispatchPerBook' BY <1>1 DEF LocksInv, OneDispatchPerBook
<1>3. ASSUME NEW e \in Dispatchers, NEW b \in Books, Holds(e, b)'
      PROVE  lock'[b] # "free"
  <2>1. Holds(e, b) /\ lock[b] # "free"
    BY <1>1, <1>3 DEF LocksInv, LockedWhileHeld
  <2>2. x.cur = {} => e # d BY <1>3 DEF Holds, TypeOK
  <2>. QED BY <2>1, <2>2 DEF LocksInv, OneDispatchPerBook
<1>. QED BY <1>2, <1>3 DEF LocksInv, LockedWhileHeld

\* A row is taken in hand only with its lock, and DEL comes when it is put down.
LEMMA DispatcherLocks ==
  ASSUME TypeOK, TypeOK', LocksInv, NEW d \in Dispatchers,
         DispatcherStep(d) \/ DispatchCrash(d)
  PROVE  LocksInv'
<1>. DEFINE x == dispatcher'[d]
<1>1. x \in Dispatcher BY DispatcherFields DEF TypeOK
<1>2. ASSUME NEW s \in dispatcher[d].cur, DispatchDone(d, s) PROVE LocksInv'
  <2>1. s.book \in Books /\ Holds(d, s.book) BY DispatcherFields DEF Holds
  <2>2. /\ dispatcher' = [dispatcher EXCEPT ![d] = x]
        /\ x.cur = {}
    BY <1>2 DEF DispatchDone, TypeOK, Dispatcher
  <2>3. \A b \in Books : lock'[b] = "free" => lock[b] = "free" \/ Holds(d, b)
    BY <1>2, <2>1 DEF DispatchDone, TypeOK
  <2>. QED BY <1>1, <2>2, <2>3, LetGo
<1>3. CASE DispatchScan(d) \/ DispatchEnd(d) \/ DispatchCrash(d) \/ DispatchMark(d)
  <2>1. /\ dispatcher' = [dispatcher EXCEPT ![d] = x]
        /\ x.cur \subseteq dispatcher[d].cur
        /\ lock' = lock
    BY <1>3 DEF DispatchScan, DispatchEnd, DispatchCrash, DispatchMark,
       NoDispatch, TypeOK, Dispatcher
  <2>. QED BY <1>1, <2>1, LetGo
<1>4. CASE DispatchArm(d)
  <2>1. /\ dispatcher' = [dispatcher EXCEPT ![d] = x]
        /\ x.cur = dispatcher[d].cur
    BY <1>4 DEF DispatchArm, TypeOK, Dispatcher
  <2>2. \A b \in Books : lock'[b] = "free" => lock[b] = "free"
    BY <1>4, DispatcherFields DEF DispatchArm, TypeOK
  <2>. QED BY <1>1, <2>1, <2>2, LetGo
<1>5. CASE DispatchCheck(d)
  <2>1. CASE \E s \in dispatcher[d].cur : DispatchDone(d, s)
    BY <1>2, <2>1
  <2>2. CASE dispatcher' = [dispatcher EXCEPT ![d].pc = "mark"] /\ lock' = lock
    <3>1. /\ dispatcher' = [dispatcher EXCEPT ![d] = x]
          /\ x.cur = dispatcher[d].cur
      BY <2>2 DEF TypeOK, Dispatcher
    <3>. QED BY <1>1, <2>2, <3>1, LetGo
  <2>. QED BY <1>5, <2>1, <2>2 DEF DispatchCheck
<1>6. CASE DispatchSend(d)
  BY <1>2, <1>6 DEF DispatchSend
<1>7. CASE DispatchLock(d)
  <2>1. PICK s \in dispatcher[d].todo : DispatchLock(d)!2!(s)
    BY <1>7 DEF DispatchLock
  <2>2. s.book \in Books BY DispatcherFields
  <2>3. CASE lock[s.book] # "free"
    <3>1. /\ dispatcher' = [dispatcher EXCEPT ![d] = x]
          /\ x.cur = dispatcher[d].cur
          /\ lock' = lock
      BY <2>1, <2>3 DEF TypeOK, Dispatcher
    <3>. QED BY <1>1, <3>1, LetGo
  <2>4. CASE lock[s.book] = "free"
    <3>1. \A e \in Dispatchers : ~Holds(e, s.book)
      BY <2>2, <2>4 DEF LocksInv, LockedWhileHeld
    <3>2. /\ x.cur = {s}
          /\ \A e \in Dispatchers : e # d => dispatcher'[e] = dispatcher[e]
      BY <2>1, <2>4 DEF TypeOK, Dispatcher
    <3>3. \A e \in Dispatchers, b \in Books :
             Holds(e, b)' => \/ e = d /\ b = s.book
                             \/ e # d /\ b # s.book /\ Holds(e, b)
      BY <3>1, <3>2 DEF Holds
    <3>4. \A b \in Books : lock'[b] = IF b = s.book THEN "bare" ELSE lock[b]
      BY <2>1, <2>2, <2>4 DEF TypeOK
    <3>. QED BY <3>3, <3>4 DEF LocksInv, LockedWhileHeld, OneDispatchPerBook
  <2>. QED BY <2>3, <2>4
<1>. QED BY <1>3, <1>4, <1>5, <1>6, <1>7 DEF DispatcherStep

\* Every step of the pipeline keeps the locks.
LEMMA LocksStep ==
  TypeOK /\ TypeOK' /\ LocksInv /\ [Next]_vars => LocksInv'
<1>. SUFFICES ASSUME TypeOK, TypeOK', LocksInv, [Next]_vars PROVE LocksInv'
  OBVIOUS
<1>1. CASE \E d \in Dispatchers : DispatcherStep(d) \/ DispatchCrash(d)
  BY <1>1, DispatcherLocks
<1>2. CASE \E b \in Books : LockExpires(b)
  <2>1. PICK b \in Books : LockExpires(b) BY <1>2
  <2>2. \A e \in Dispatchers, c \in Books :
           (Holds(e, c)' <=> Holds(e, c)) /\ (Holds(e, c) => c # b)
    BY <2>1 DEF LockExpires, Holds
  <2>3. \A c \in Books : c # b => lock'[c] = lock[c]
    BY <2>1 DEF LockExpires, TypeOK
  <2>. QED BY <2>2, <2>3 DEF LocksInv, LockedWhileHeld, OneDispatchPerBook
<1>3. CASE UNCHANGED <<dispatcher, lock>>
  BY <1>3 DEF LocksInv, LockedWhileHeld, OneDispatchPerBook, Holds
<1>. QED BY <1>1, <1>2, <1>3, OthersLeaveLocks

\* At most one run of the dispatcher deals with a book, however many overlap and
\* wherever one of them dies, as long as the lock outlives one row's handling.
THEOREM OneDispatch == Spec => []OneDispatchPerBook
<1>1. LocksInv => OneDispatchPerBook BY DEF LocksInv
<1>. QED BY <1>1, TypeCorrect, InitLocks, LocksStep, PTL DEF Spec
=============================================================================

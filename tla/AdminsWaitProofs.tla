--------------------------- MODULE AdminsWaitProofs ---------------------------
(* Theorems about BookAdmin for admins who wait until the work on a book is
   over: what may go wrong beside a running task does not go wrong then, with
   any number of books, workers, dispatchers, reapers and requests.  The
   argument: a request begins only on a book at rest, and a book at rest stays
   so, untouched, whatever the pipeline does with other books. *)
EXTENDS BookAdminProofs

USE DEF stores, queue

-----------------------------------------------------------------------------
(* A book at rest. *)

\* A worker's step concerns the book of its task and no other.
LEMMA WorkerOwn ==
  ASSUME TypeOK, NamesBooks, NEW w \in Workers,
         WorkerStep(w) \/ ExtractProgress(w) \/ WorkerFault(w)
  PROVE  /\ \A c \in Books : c # worker[w].book =>
                /\ book'[c] = book[c]
                /\ c \in vectors' <=> c \in vectors
                /\ c \in texts' <=> c \in texts
                /\ c \in imports' <=> c \in imports
         /\ UNCHANGED file
         /\ \A j \in Jobs : job[j].book # worker[w].book => job'[j] = job[j]
<1>1. CASE UNCHANGED stores BY <1>1
<1>2. CASE Claim(w) BY <1>2 DEF Claim, TypeOK
<1>3. CASE ExtractProgress(w)
  BY <1>3, SetStatusEffect, SetPhaseEffect DEF ExtractProgress
<1>4. CASE ToChunking(w) \/ ToEmbedding(w) \/ Embed(w) \/ Complete(w)
  BY <1>4, SetPhaseEffect DEF ToChunking, ToEmbedding, Embed, EndPhase, Complete
<1>5. CASE SavePages(w) \/ SetReady(w)
  BY <1>5, Named DEF SavePages, SetReady, TypeOK
<1>6. CASE MarkFailed(w)
  BY <1>6, Named, SetStatusEffect DEF MarkFailed, TypeOK
<1>7. CASE IndexQdrant(w) \/ IndexMeilisearch(w) \/ IndexOutlasts(w)
  BY <1>7 DEF IndexQdrant, IndexMeilisearch, IndexOutlasts
<1>. QED
  BY <1>1, <1>2, <1>3, <1>4, <1>5, <1>6, <1>7
     DEF WorkerStep, ReadJob, ReadBook, Fetch, Extract, Chunk, Announce,
         WorkerFault, StepFails, MarkFailedGivesUp, ChildLost, NodeCrash, IndexTaskFails,
         Terminate

\* The rows that a run of beat's tasks has in its lists.
Listed(d) == dispatcher[d].todo \cup dispatcher[d].cur
Reaped(r) == reaper[r].todo \cup reaper[r].stale \cup reaper[r].cur

\* A dispatcher lists a book that it listed before or that has a queued row.
LEMMA DispatcherLists ==
  ASSUME TypeOK, NEW d \in Dispatchers, DispatcherStep(d) \/ DispatchCrash(d),
         NEW e \in Dispatchers, NEW s \in Listed(e)'
  PROVE  \/ \E u \in Listed(e) : s.book = u.book
         \/ \E j \in RowsWith({"queued"}) : s.book = job[j].book
<1>1. \A f \in Dispatchers : f # d => dispatcher'[f] = dispatcher[f]
  BY DEF DispatcherStep, DispatchScan, DispatchLock, DispatchArm, DispatchCheck,
     DispatchMark, DispatchSend, DispatchEnd, DispatchCrash, DispatchDone, TypeOK
<1>2. CASE DispatchScan(d)
  <2>1. /\ dispatcher'[d].cur = dispatcher[d].cur
        /\ \A u \in dispatcher'[d].todo :
              \E j \in RowsWith({"queued"}) : u.book = job[j].book
    BY <1>2 DEF DispatchScan, TypeOK, Dispatcher
  <2>. QED BY <1>1, <2>1 DEF Listed
<1>3. CASE DispatchLock(d)
  <2>1. PICK u \in dispatcher[d].todo : DispatchLock(d)!2!(u)
    BY <1>3 DEF DispatchLock
  <2>2. \A f \in Dispatchers : Listed(f)' \subseteq Listed(f)
    BY <1>1, <2>1, DispatcherFields DEF TypeOK, Dispatcher, Listed
  <2>. QED BY <2>2
<1>4. CASE DispatchArm(d) \/ DispatchCheck(d) \/ DispatchMark(d) \/ DispatchSend(d)
  <2>1. \A f \in Dispatchers : /\ dispatcher'[f].todo = dispatcher[f].todo
                               /\ dispatcher'[f].cur \in {{}, dispatcher[f].cur}
    BY SMTT(30), <1>4
       DEF DispatchArm, DispatchCheck, DispatchMark, DispatchSend, DispatchDone,
           TypeOK, Dispatcher
  <2>. QED BY <2>1 DEF Listed
<1>5. CASE DispatchEnd(d) \/ DispatchCrash(d)
  BY <1>1, <1>5 DEF DispatchEnd, DispatchCrash, NoDispatch, TypeOK, Listed
<1>. QED BY <1>2, <1>3, <1>4, <1>5 DEF DispatcherStep

\* A reaper lists a book that it listed before or that has an active row.
LEMMA ReaperLists ==
  ASSUME TypeOK, NEW r \in Reapers, ReaperStep(r) \/ ReapCrash(r),
         NEW q \in Reapers, NEW s \in Reaped(q)'
  PROVE  \/ \E u \in Reaped(q) : s.book = u.book
         \/ \E j \in RowsWith(Active) : s.book = job[j].book
<1>1. \A f \in Reapers : f # r => reaper'[f] = reaper[f]
  BY DEF ReaperStep, ReapScan, ReapCheck, ReapNext, ReapRequeue, ReapSend,
     ReapCrash, TypeOK
<1>2. CASE ReapScan(r)
  <2>1. /\ reaper'[r].cur = reaper[r].cur /\ reaper'[r].stale = reaper[r].stale
        /\ \A u \in reaper'[r].todo :
              \E j \in RowsWith(Active) : u.book = job[j].book
    BY <1>2 DEF ReapScan, TypeOK, Reaper
  <2>. QED BY <1>1, <2>1 DEF Reaped
<1>3. CASE ReapCheck(r)
  <2>1. PICK u \in reaper[r].todo : ReapCheck(r)!2!(u) BY <1>3 DEF ReapCheck
  <2>2. \A f \in Reapers : Reaped(f)' \subseteq Reaped(f)
    BY <2>1, ReaperFields DEF TypeOK, Reaper, Reaped
  <2>. QED BY <2>2
<1>4. CASE ReapNext(r)
  <2>1. CASE reaper' = [reaper EXCEPT ![r] = NoReap]
    BY <1>1, <2>1 DEF NoReap, TypeOK, Reaped
  <2>2. ASSUME NEW u \in reaper[r].stale,
               reaper' = [reaper EXCEPT ![r].pc = "requeue", ![r].cur = {u},
                                        ![r].stale = @ \ {u}]
        PROVE  \A f \in Reapers : Reaped(f)' \subseteq Reaped(f)
    BY <2>2, ReaperFields DEF TypeOK, Reaper, Reaped
  <2>. QED BY <1>4, <2>1, <2>2 DEF ReapNext
<1>5. CASE ReapRequeue(r)
  <2>1. PICK u \in reaper[r].cur : ReapRequeue(r)!2!(u)
    BY <1>5 DEF ReapRequeue
  <2>2. [u EXCEPT !.task = NoTask].book = u.book BY ReaperFields DEF Stale
  <2>3. /\ reaper'[r].todo = reaper[r].todo /\ reaper'[r].stale = reaper[r].stale
        /\ reaper'[r].cur \in {{}, {[u EXCEPT !.task = NoTask]}}
    BY <2>1, ReaperFields DEF TypeOK, Reaper
  <2>. QED BY <1>1, <2>2, <2>3 DEF Reaped
<1>6. CASE ReapSend(r) \/ ReapCrash(r)
  BY <1>1, <1>6, ReaperFields DEF ReapSend, ReapCrash, NoReap, TypeOK, Reaper, Reaped
<1>. QED BY <1>2, <1>3, <1>4, <1>5, <1>6 DEF ReaperStep

\* Nothing of the book changes, but that Meilisearch may come to its documents.
Untouched(b) ==
    /\ book'[b] = book[b]
    /\ \A j \in Jobs : job[j].book = b \/ job'[j].book = b => job'[j] = job[j]
    /\ b \in vectors' <=> b \in vectors
    /\ b \in texts' \cup imports' => b \in texts \cup imports
    /\ b \in file' <=> b \in file

\* What keeps a book at rest: no step of the pipeline makes a message, a run or
\* a list refer to it, because none does so out of nothing.
LEMMA RestFrom ==
  ASSUME TypeOK, NEW b \in Books, AtRest(b), Untouched(b),
         upload'[b] = upload[b],
         \A t \in Tasks : message'[t].book # b,
         \A w \in Workers : worker'[w].book # b,
         \A d \in Dispatchers : \A s \in Listed(d)' : s.book # b,
         \A r \in Reapers : \A s \in Reaped(r)' : s.book # b
  PROVE  AtRest(b)'
<1>1. \A j \in RowsOf(b)' : job'[j].status \in Terminal
  BY DEF AtRest, Untouched, RowsOf
<1>. QED BY <1>1 DEF AtRest, Listed, Reaped

\* A worker has no part in a book at rest.
LEMMA RestBesideWorker ==
  ASSUME TypeOK, NamesBooks, NEW b \in Books, AtRest(b), NEW w \in Workers,
         WorkerStep(w) \/ ExtractProgress(w) \/ WorkerFault(w)
  PROVE  AtRest(b)' /\ Untouched(b)
<1>0. NoBook # b BY IngestionAssumption
<1>1. worker[w].book # b BY DEF AtRest
<1>2. Untouched(b) BY <1>1, WorkerOwn, WorkerKeeps DEF Untouched
<1>3. \A t \in Tasks : message'[t].book # b
  BY <1>0, WorkerKeeps DEF AtRest, NoMessage
<1>4. \A v \in Workers : worker'[v].book # b
  BY <1>0, WorkerKeeps DEF AtRest, RunGoesOn, Idle
<1>5. UNCHANGED <<upload, dispatcher, reaper>> BY WorkerKeeps
<1>. QED BY <1>2, <1>3, <1>4, <1>5, RestFrom DEF AtRest, Listed, Reaped

\* A message that is sent for another book is not about this one.
LEMMA SendElsewhere ==
  ASSUME TypeOK, NEW b \in Books, AtRest(b), NEW c \in Books, c # b, Send(c)
  PROVE  \A t \in Tasks : message'[t].book # b
  BY DEF Send, TypeOK, AtRest, Message

\* Nor have uploads, the broker, free slots, keys and late imports.
LEMMA RestBesideOthers ==
  ASSUME TypeOK, NamesBooks, NEW b \in Books, AtRest(b),
         \/ \E c \in Books : \/ UploadNext(c) \/ UploadCrash(c)
                              \/ BeatExpires(c) \/ BeatAgain(c) \/ LockExpires(c)
                              \/ ImportDone(c) \/ ImportFails(c)
         \/ \E t \in Tasks : \/ Redeliver(t) \/ Discard(t)
                              \/ \E w \in Workers : Take(w, t)
  PROVE  AtRest(b)' /\ Untouched(b)
<1>0. NoBook # b BY IngestionAssumption
<1>1. ASSUME NEW c \in Books,
             \/ BeatExpires(c) \/ BeatAgain(c) \/ LockExpires(c)
             \/ ImportDone(c) \/ ImportFails(c)
      PROVE  AtRest(b)' /\ Untouched(b)
  <2>1. UNCHANGED <<book, job, file, vectors, upload, message, worker, dispatcher, reaper>>
    BY <1>1 DEF BeatExpires, BeatAgain, LockExpires, ImportDone, ImportFails
  <2>2. texts' \cup imports' \subseteq texts \cup imports
    BY <1>1 DEF BeatExpires, BeatAgain, LockExpires, ImportDone, ImportFails
  <2>3. Untouched(b) BY <2>1, <2>2 DEF Untouched
  <2>. QED BY <2>1, <2>3, RestFrom DEF AtRest, Listed, Reaped
<1>2. ASSUME NEW c \in Books, UploadNext(c) \/ UploadCrash(c)
      PROVE  AtRest(b)' /\ Untouched(b)
  <2>0. c # b
    BY <1>2 DEF UploadNext, UploadStore, UploadCommit, UploadSend, UploadCrash, AtRest
  <2>1. /\ upload'[b] = upload[b] /\ UNCHANGED <<worker, dispatcher, reaper>>
        /\ UNCHANGED <<vectors, texts, imports>>
        /\ b \in file' <=> b \in file
    BY <1>2, <2>0
       DEF UploadNext, UploadStore, UploadCommit, UploadSend, UploadCrash, TypeOK
  <2>2. \A t \in Tasks : message'[t].book # b
    BY <1>2, <2>0, SendElsewhere
       DEF UploadNext, UploadStore, UploadCommit, UploadSend, UploadCrash, AtRest
  <2>3. Untouched(b)
    <3>1. CASE UNCHANGED <<book, job>> BY <2>1, <3>1 DEF Untouched
    <3>2. CASE UploadCommit(c)
      BY <1>0, <2>0, <2>1, <3>2 DEF UploadCommit, Untouched, TypeOK, NoJobRow
    <3>. QED
      BY <1>2, <3>1, <3>2 DEF UploadNext, UploadStore, UploadSend, UploadCrash
  <2>. QED BY <2>1, <2>2, <2>3, RestFrom DEF AtRest, Listed, Reaped
<1>3. ASSUME NEW t \in Tasks,
             Redeliver(t) \/ Discard(t) \/ \E w \in Workers : Take(w, t)
      PROVE  AtRest(b)' /\ Untouched(b)
  <2>1. UNCHANGED <<stores, upload, dispatcher, reaper>>
    BY <1>3 DEF Redeliver, Discard, Take
  <2>2. Untouched(b) BY <2>1 DEF Untouched
  <2>3. message[t].book # b BY DEF AtRest
  <2>4. \A u \in Tasks : message'[u].book \in {message[u].book, NoBook}
    <3>1. CASE Discard(t) BY <3>1 DEF Discard, TypeOK, NoMessage
    <3>2. ASSUME NEW state, message' = [message EXCEPT ![t].state = state]
          PROVE  \A u \in Tasks : message'[u].book = message[u].book
      BY <3>2 DEF TypeOK, Message
    <3>. QED BY <1>3, <3>1, <3>2 DEF Redeliver, Take
  <2>5. \A u \in Tasks : message'[u].book # b BY <1>0, <2>4 DEF AtRest
  <2>6. \A w \in Workers : worker'[w].book \in {worker[w].book, message[t].book}
    <3>1. CASE UNCHANGED worker BY <3>1
    <3>2. ASSUME NEW w \in Workers, Take(w, t)
          PROVE  \A v \in Workers : worker'[v].book \in {worker[v].book, message[t].book}
      BY <3>2 DEF Take, TypeOK, Idle
    <3>. QED BY <1>3, <3>1, <3>2 DEF Redeliver, Discard
  <2>7. \A w \in Workers : worker'[w].book # b BY <2>3, <2>6 DEF AtRest
  <2>. QED BY <2>1, <2>2, <2>5, <2>7, RestFrom DEF AtRest, Listed, Reaped
<1>. QED BY <1>1, <1>2, <1>3

\* Its rows are over: no run of beat's tasks lists them.
LEMMA RestBesideBeat ==
  ASSUME TypeOK, NamesBooks, NEW b \in Books, AtRest(b),
         \/ \E d \in Dispatchers : DispatcherStep(d) \/ DispatchCrash(d)
         \/ \E r \in Reapers : ReaperStep(r) \/ ReapCrash(r)
  PROVE  AtRest(b)' /\ Untouched(b)
<1>0. \A j \in RowsWith({"queued"}) \cup RowsWith(Active) : job[j].book # b
  BY DEF RowsWith, AtRest, RowsOf, Terminal, Active
<1>1. ASSUME NEW d \in Dispatchers, DispatcherStep(d) \/ DispatchCrash(d)
      PROVE  AtRest(b)' /\ Untouched(b)
  <2>1. UNCHANGED <<book, file, vectors, texts, imports, upload, worker, reaper>>
    BY <1>1 DEF DispatcherStep, DispatchScan, DispatchLock, DispatchArm,
       DispatchCheck, DispatchMark, DispatchSend, DispatchEnd, DispatchCrash
  <2>2. \A s \in Listed(d) : s.book \in Books /\ s.job \in Jobs /\ s.book # b
    BY DispatcherFields DEF AtRest, Listed
  <2>3. \A t \in Tasks : message'[t].book # b
    BY <1>1, <2>2, SendElsewhere
       DEF DispatcherStep, DispatchScan, DispatchLock, DispatchArm,
           DispatchCheck, DispatchMark, DispatchSend, DispatchEnd, DispatchCrash,
           Listed, AtRest
  <2>4. Untouched(b)
    <3>1. CASE UNCHANGED job BY <2>1, <3>1 DEF Untouched
    <3>2. CASE DispatchMark(d)
      BY <2>1, <2>2, <3>2 DEF DispatchMark, RowStill, Listed, Untouched, TypeOK, Job
    <3>. QED
      BY <1>1, <3>1, <3>2 DEF DispatcherStep, DispatchScan, DispatchLock,
         DispatchArm, DispatchCheck, DispatchSend, DispatchEnd, DispatchCrash
  <2>5. \A e \in Dispatchers : \A s \in Listed(e)' : s.book # b
    BY <1>0, <1>1, DispatcherLists DEF AtRest, Listed
  <2>. QED BY <2>1, <2>3, <2>4, <2>5, RestFrom DEF AtRest, Reaped
<1>2. ASSUME NEW r \in Reapers, ReaperStep(r) \/ ReapCrash(r)
      PROVE  AtRest(b)' /\ Untouched(b)
  <2>1. UNCHANGED <<book, file, vectors, texts, imports, upload, worker, dispatcher>>
    BY <1>2 DEF ReaperStep, ReapScan, ReapCheck, ReapNext, ReapRequeue,
       ReapSend, ReapCrash
  <2>2. \A s \in Reaped(r) : s.book \in Books /\ s.job \in Jobs /\ s.book # b
    BY ReaperFields DEF AtRest, Reaped
  <2>3. \A t \in Tasks : message'[t].book # b
    BY <1>2, <2>2, SendElsewhere
       DEF ReaperStep, ReapScan, ReapCheck, ReapNext, ReapRequeue, ReapSend,
           ReapCrash, Reaped, AtRest
  <2>4. Untouched(b)
    <3>1. CASE UNCHANGED job BY <2>1, <3>1 DEF Untouched
    <3>2. CASE ReapRequeue(r)
      <4>1. PICK s \in reaper[r].cur : ReapRequeue(r)!2!(s)
        BY <3>2 DEF ReapRequeue
      <4>2. s \in Reaped(r) BY <4>1 DEF Reaped
      <4>3. [job[s.job] EXCEPT !.status = "queued", !.checkpoint = "none"].book
               = job[s.job].book
        BY <2>2, <4>2 DEF TypeOK, Job
      <4>4. \A j \in Jobs : job'[j] = job[j] \/ (j = s.job /\ job[j].book = s.book
                                                   /\ job'[j].book = s.book)
        BY <2>2, <4>1, <4>2, <4>3 DEF RowStill, TypeOK
      <4>. QED BY <2>1, <2>2, <4>2, <4>4 DEF Untouched
    <3>. QED
      BY <1>2, <3>1, <3>2 DEF ReaperStep, ReapScan, ReapCheck, ReapNext,
         ReapSend, ReapCrash
  <2>5. \A q \in Reapers : \A s \in Reaped(q)' : s.book # b
    BY <1>0, <1>2, ReaperLists DEF AtRest, Reaped
  <2>. QED BY <2>1, <2>3, <2>4, <2>5, RestFrom DEF AtRest, Listed
<1>. QED BY <1>1, <1>2

\* The pipeline leaves a book at rest as it is.
LEMMA RestStays ==
  ASSUME TypeOK, NamesBooks, [Next]_vars, NEW b \in Books, AtRest(b)
  PROVE  AtRest(b)' /\ Untouched(b)
<1>1. CASE UNCHANGED vars
  BY <1>1, RestFrom DEF vars, AtRest, Untouched, Listed, Reaped
<1>. QED
  BY <1>1, RestBesideWorker, RestBesideOthers, RestBesideBeat DEF Next

-----------------------------------------------------------------------------
(* The invariant. *)

\* The claim is a run's first statement: past it, its book's rows carry a task.
\* A call that raises sends a run to "failing" from anywhere.
Unclaimed == {"idle", "claim"} \cup (IF "exception" \in Faults THEN {"failing"} ELSE {})
RunsClaimed ==
    \A w \in Workers : worker[w].pc \notin Unclaimed =>
        \A j \in RowsOf(worker[w].book) : job[j].task # NoTask

\* A row that no task has claimed has no checkpoint; and unless a call raises
\* before the claim, its work is not over.
RowsClaimed ==
    \A j \in Rows : job[j].task = NoTask =>
        /\ job[j].checkpoint = "none"
        /\ "exception" \notin Faults => job[j].status \notin Terminal

SettledUnlessRaises == "exception" \notin Faults => TerminalMeansSettled

\* What is known of the pipeline beside such admins.
Standing ==
    /\ RefersToBooks /\ Founded
    /\ RunsClaimed /\ RowsClaimed /\ SettledUnlessRaises

\* While a request clears the indexes and has not committed, its book rests, and
\* what the request has read is still so.
Clearing(r) == request[r].pc \in {"indexes", "file", "commit"}
BookWaits(r) ==
    /\ InFlight(r) => Exists(request[r].book)
    /\ Clearing(r) => /\ AtRest(request[r].book)
                      /\ request[r].seen = book[request[r].book]
                      /\ request[r].doomed = Doomed(request[r].book, request[r].op)
Undisturbed == \A r \in Requests : BookWaits(r)
OneServes ==
    \A r, s \in Requests :
        InFlight(r) /\ InFlight(s) /\ request[r].book = request[s].book => r = s

WaitInv == AdminInv /\ Standing /\ Undisturbed /\ OneServes

\* What is to be shown of a request's book.
LEMMA BookWaitsIf ==
  ASSUME NEW q \in Requests, NEW b \in Books, NEW op,
         request'[q].book = b, request'[q].op = op,
         InFlight(q)' => Exists(b)',
         Clearing(q)' => /\ AtRest(b)' /\ request'[q].seen = book'[b]
                         /\ request'[q].doomed = Doomed(b, op)'
  PROVE  BookWaits(q)'
  BY DEF BookWaits, InFlight, Clearing, Exists, AtRest, Doomed, TasksOf, RowsOf

-----------------------------------------------------------------------------
(* The pipeline's steps. *)

\* A row comes with upload_book and gets its task from a claim; what else a run
\* writes to a row it writes past its claim, or where it fails.
LEMMA RowSteps ==
  ASSUME TypeOK, NamesBooks, [Next]_vars
  PROVE  \/ \E b \in Books : UploadCommit(b)
         \/ \E w \in Workers : Claim(w)
         \/ \A j \in Jobs :
               /\ job'[j].book = job[j].book /\ job'[j].task = job[j].task
               /\ \/ job'[j].checkpoint \in {job[j].checkpoint, "none"}
                  \/ \E w \in Workers : /\ worker[w].pc \notin {"idle", "claim", "failing"}
                                        /\ worker[w].book = job[j].book
               /\ job'[j].status \in Terminal =>
                     \/ job[j].status \in Terminal
                     \/ \E w \in Workers : /\ worker[w].pc \notin {"idle", "claim"}
                                           /\ worker[w].book = job[j].book
<1>. DEFINE Kept ==
       \A j \in Jobs :
         /\ job'[j].book = job[j].book /\ job'[j].task = job[j].task
         /\ \/ job'[j].checkpoint \in {job[j].checkpoint, "none"}
            \/ \E w \in Workers : /\ worker[w].pc \notin {"idle", "claim", "failing"}
                                  /\ worker[w].book = job[j].book
         /\ job'[j].status \in Terminal =>
               \/ job[j].status \in Terminal
               \/ \E w \in Workers : /\ worker[w].pc \notin {"idle", "claim"}
                                     /\ worker[w].book = job[j].book
<1>1. CASE UNCHANGED job BY <1>1
<1>2. ASSUME NEW w \in Workers,
             WorkerStep(w) \/ ExtractProgress(w) \/ WorkerFault(w), ~Claim(w)
      PROVE  Kept
  <2>1. CASE \/ ExtractProgress(w) \/ ToChunking(w) \/ ToEmbedding(w) \/ Embed(w)
             \/ Complete(w)
    <3>1. worker[w].pc \notin {"idle", "claim", "failing"}
      BY <2>1 DEF ExtractProgress, ToChunking, ToEmbedding, Embed, EndPhase, Complete
    <3>2. \A j \in Jobs : /\ job'[j].book = job[j].book /\ job'[j].task = job[j].task
                          /\ job[j].book # worker[w].book => job'[j] = job[j]
      BY <2>1, SetStatusEffect, SetPhaseEffect
         DEF ExtractProgress, ToChunking, ToEmbedding, Embed, EndPhase, Complete
    <3>. QED BY <3>1, <3>2
  <2>2. CASE MarkFailed(w)
    BY <2>2, SetStatusEffect DEF MarkFailed
  <2>. QED
    BY <1>1, <1>2, <2>1, <2>2
       DEF WorkerStep, ReadJob, ReadBook, Fetch, Extract, SavePages, Chunk,
           IndexQdrant, IndexMeilisearch, SetReady, Announce, WorkerFault, StepFails,
           MarkFailedGivesUp, ChildLost, NodeCrash, IndexTaskFails, IndexOutlasts,
           Terminate
<1>3. ASSUME NEW d \in Dispatchers, DispatchMark(d) PROVE Kept
  BY <1>3 DEF DispatchMark, TypeOK, Job, Terminal
<1>4. ASSUME NEW r \in Reapers, ReapRequeue(r) PROVE Kept
  <2>1. PICK s \in reaper[r].cur : ReapRequeue(r)!2!(s)
    BY <1>4 DEF ReapRequeue
  <2>2. \A j \in Jobs :
          LET n == [job[j] EXCEPT !.status = "queued", !.checkpoint = "none"]
          IN  /\ n.book = job[j].book /\ n.task = job[j].task
              /\ n.status = "queued" /\ n.checkpoint = "none"
    BY DEF TypeOK, Job
  <2>3. s.job \in Jobs BY <2>1, ReaperFields
  <2>4. job' \in {job, [job EXCEPT ![s.job] =
                          [job[s.job] EXCEPT !.status = "queued", !.checkpoint = "none"]]}
    BY <2>1
  <2>5. \A j \in Jobs : /\ job'[j].book = job[j].book /\ job'[j].task = job[j].task
                         /\ job'[j].status \in {job[j].status, "queued"}
                         /\ job'[j].checkpoint \in {job[j].checkpoint, "none"}
    BY <2>2, <2>3, <2>4 DEF TypeOK
  <2>. QED BY <2>5 DEF Terminal
<1>. QED
  BY <1>1, <1>2, <1>3, <1>4
     DEF Next, vars, UploadNext, UploadStore, UploadSend, UploadCrash, BeatExpires,
         BeatAgain, LockExpires, ImportDone, ImportFails, Redeliver, Discard, Take,
         DispatcherStep, DispatchScan, DispatchLock, DispatchArm, DispatchCheck,
         DispatchSend, DispatchEnd, DispatchCrash, ReaperStep, ReapScan, ReapCheck,
         ReapNext, ReapSend, ReapCrash

\* A run gets past its claim only by claiming, or by failing.
LEMMA RunSteps ==
  ASSUME TypeOK, NamesBooks, [Next]_vars,
         NEW v \in Workers, worker'[v].pc \notin Unclaimed,
         \A w \in Workers : ~Claim(w)
  PROVE  worker[v].pc \notin Unclaimed /\ worker'[v].book = worker[v].book
<1>1. CASE UNCHANGED worker BY <1>1
<1>2. ASSUME NEW w \in Workers,
             WorkerStep(w) \/ ExtractProgress(w) \/ WorkerFault(w)
      PROVE  /\ worker[v].pc \notin Unclaimed
             /\ worker'[v].book = worker[v].book
  <2>1. RunGoesOn(w) BY <1>2, WorkerKeeps
  <2>2. "exception" \in Faults \/ (~StepFails(w) /\ ~MarkFailedGivesUp(w))
    BY DEF StepFails, MarkFailedGivesUp, Fault
  <2>3. CASE v # w
    <3>1. worker'[v] = worker[v]
      BY ZenonT(40), <1>2, <2>3, GotoEffect, TaskEndsEffect
         DEF WorkerStep, Claim, ReadJob, ReadBook, Fetch, Extract, SavePages,
             ToChunking, Chunk, ToEmbedding, Embed, EndPhase, IndexQdrant,
             IndexMeilisearch, SetReady, Complete, Announce, MarkFailed,
             ExtractProgress, WorkerFault, StepFails, MarkFailedGivesUp, ChildLost,
             NodeCrash, IndexTaskFails, IndexOutlasts, Terminate, TypeOK
    <3>. QED BY <3>1
  <2>4. CASE v = w /\ worker[w].pc = "claim"
    <3>1. ~WorkerStep(w) /\ ~ExtractProgress(w)
      BY <2>4
         DEF WorkerStep, Claim, ReadJob, ReadBook, Fetch, Extract, SavePages,
             ToChunking, Chunk, ToEmbedding, Embed, EndPhase, IndexQdrant,
             IndexMeilisearch, SetReady, Complete, Announce, MarkFailed,
             ExtractProgress
    <3>2. \/ ChildLost(w) \/ NodeCrash(w) \/ Terminate(w)
          \/ StepFails(w) /\ "exception" \in Faults
      BY <1>2, <2>2, <2>4, <3>1
         DEF WorkerFault, MarkFailedGivesUp, IndexTaskFails, IndexOutlasts
    <3>3. worker'[w] = Idle \/ (worker'[w].pc = "failing" /\ "exception" \in Faults)
      BY <3>2, TaskEndsEffect, GotoEffect
         DEF ChildLost, NodeCrash, Terminate, StepFails, TypeOK
    <3>. QED BY <2>4, <3>3 DEF Idle, Unclaimed
  <2>5. CASE v = w /\ worker[w].pc = "failing"
    <3>1. ~ExtractProgress(w) /\ (WorkerStep(w) => MarkFailed(w))
      BY <2>5
         DEF WorkerStep, Claim, ReadJob, ReadBook, Fetch, Extract, SavePages,
             ToChunking, Chunk, ToEmbedding, Embed, EndPhase, IndexQdrant,
             IndexMeilisearch, SetReady, Complete, Announce, ExtractProgress
    <3>2. \/ MarkFailed(w) \/ MarkFailedGivesUp(w)
          \/ ChildLost(w) \/ NodeCrash(w) \/ Terminate(w)
      BY <1>2, <2>5, <3>1
         DEF WorkerFault, StepFails, IndexTaskFails, IndexOutlasts, Running, Working
    <3>3. worker'[w] = Idle
      BY <3>2, TaskEndsEffect
         DEF MarkFailed, MarkFailedGivesUp, ChildLost, NodeCrash, Terminate, TypeOK
    <3>. QED BY <2>5, <3>3 DEF Idle, Unclaimed
  <2>. QED BY <2>1, <2>3, <2>4, <2>5 DEF RunGoesOn, Idle, Unclaimed
<1>3. ASSUME NEW w \in Workers, NEW t \in Tasks, Take(w, t)
      PROVE  worker'[v] = worker[v]
  BY <1>3 DEF Take, TypeOK, Idle, Unclaimed
<1>. QED
  BY <1>1, <1>2, <1>3
     DEF Next, vars, UploadNext, UploadStore, UploadCommit, UploadSend, UploadCrash,
         BeatExpires, BeatAgain, LockExpires, ImportDone, ImportFails, Redeliver,
         Discard, DispatcherStep, DispatchScan, DispatchLock, DispatchArm,
         DispatchCheck, DispatchMark, DispatchSend, DispatchEnd, DispatchCrash,
         ReaperStep, ReapScan, ReapCheck, ReapNext, ReapRequeue, ReapSend, ReapCrash

\* So the pipeline keeps what is known of claims.
LEMMA ClaimsStand ==
  ASSUME TypeOK, NamesBooks, RefersToBooks, RunsClaimed, RowsClaimed, [Next]_vars
  PROVE  RunsClaimed' /\ RowsClaimed'
<1>1. ASSUME NEW b \in Books, UploadCommit(b)
      PROVE  RunsClaimed' /\ RowsClaimed'
  <2>1. ~Exists(b) BY <1>1 DEF UploadCommit, RefersToBooks, UploadsRefer
  <2>2. \A w \in Workers : worker[w].pc \notin Unclaimed => worker[w].book # b
    BY <2>1 DEF RefersToBooks, RunsRefer, Unclaimed
  <2>3. PICK j \in Jobs : job' = [job EXCEPT ![j] = [NoJobRow EXCEPT !.book = b]]
    BY <1>1 DEF UploadCommit
  <2>4. /\ job'[j].book = b /\ job'[j].status = "queued"
        /\ job'[j].checkpoint = "none"
        /\ \A i \in Jobs : i # j => job'[i] = job[i]
        /\ UNCHANGED worker
    BY <1>1, <2>3 DEF UploadCommit, NoJobRow, TypeOK
  <2>5. RowsClaimed' BY <2>4 DEF RowsClaimed, Rows, Terminal
  <2>6. RunsClaimed' BY <2>2, <2>4 DEF RunsClaimed, RowsOf
  <2>. QED BY <2>5, <2>6
<1>2. ASSUME NEW w \in Workers, Claim(w)
      PROVE  RunsClaimed' /\ RowsClaimed'
  <2>1. /\ worker[w].task # NoTask
        /\ worker'[w].book = worker[w].book
        /\ \A v \in Workers : v # w => worker'[v] = worker[v]
    BY <1>2, Named, GotoEffect, IngestionAssumption DEF Claim
  <2>2. \A j \in Jobs : /\ job'[j].book = job[j].book
                        /\ job[j].book = worker[w].book => job'[j].task # NoTask
                        /\ job[j].book # worker[w].book => job'[j] = job[j]
    BY <1>2, <2>1, ClaimEffect
  <2>3. RowsClaimed' BY <2>2 DEF RowsClaimed, Rows
  <2>4. RunsClaimed' BY <2>1, <2>2 DEF RunsClaimed, RowsOf
  <2>. QED BY <2>3, <2>4
<1>3. CASE /\ \A b \in Books : ~UploadCommit(b)
           /\ \A w \in Workers : ~Claim(w)
  <2>1. \A j \in Jobs :
           /\ job'[j].book = job[j].book /\ job'[j].task = job[j].task
           /\ \/ job'[j].checkpoint \in {job[j].checkpoint, "none"}
              \/ \E w \in Workers : /\ worker[w].pc \notin {"idle", "claim", "failing"}
                                    /\ worker[w].book = job[j].book
           /\ job'[j].status \in Terminal =>
                 \/ job[j].status \in Terminal
                 \/ \E w \in Workers : /\ worker[w].pc \notin {"idle", "claim"}
                                       /\ worker[w].book = job[j].book
    BY <1>3, RowSteps
  <2>2. ASSUME NEW j \in Jobs, job'[j].book # NoBook, job'[j].task = NoTask
        PROVE  /\ job'[j].checkpoint = "none"
               /\ "exception" \notin Faults => job'[j].status \notin Terminal
    <3>1. /\ job[j].checkpoint = "none"
          /\ "exception" \notin Faults => job[j].status \notin Terminal
      BY <2>1, <2>2 DEF RowsClaimed, Rows
    <3>2. \A w \in Workers : worker[w].book = job[j].book => worker[w].pc \in Unclaimed
      BY <2>1, <2>2 DEF RunsClaimed, RowsOf
    <3>. QED BY <2>1, <3>1, <3>2 DEF Unclaimed
  <2>3. RowsClaimed' BY <2>2 DEF RowsClaimed, Rows
  <2>4. RunsClaimed' BY <1>3, <2>1, RunSteps DEF RunsClaimed, RowsOf
  <2>. QED BY <2>3, <2>4
<1>. QED BY <1>1, <1>2, <1>3

\* What reprocess_book would delete of a book that nothing touches.
LEMMA UntouchedDoomed ==
  ASSUME NEW b \in Books, NEW op, Untouched(b)
  PROVE  Doomed(b, op)' = Doomed(b, op)
<1>1. RowsOf(b)' = RowsOf(b) BY DEF Untouched, RowsOf
<1>2. \A j \in RowsOf(b) : job'[j] = job[j] BY DEF Untouched, RowsOf
<1>3. TasksOf(b)' = TasksOf(b) BY <1>1, <1>2 DEF TasksOf
<1>. QED BY <1>1, <1>3 DEF Doomed

\* A step of the pipeline keeps the invariant: it leaves books at rest alone.
LEMMA PipelineWaits ==
  ASSUME WaitInv, [Next]_vars, UNCHANGED request
  PROVE  WaitInv'
<1>1. /\ TypeOK /\ NamesBooks /\ Standing /\ Undisturbed /\ OneServes
      /\ \A r \in Requests : request[r].pc # "new" => request[r].book \in Books
  BY DEF WaitInv, AdminInv, AdminTypeOK, RequestsHonest
<1>2. AdminInv' BY PipelineInv DEF WaitInv
<1>3. RefersToBooks' /\ Founded' BY <1>1, RefersStep, FoundedStep DEF Standing
<1>4. RunsClaimed' /\ RowsClaimed' BY <1>1, ClaimsStand DEF Standing
<1>5. SettledUnlessRaises'
  BY <1>1, SettledStep DEF Standing, SettledUnlessRaises
<1>6. Undisturbed'
  <2>1. ASSUME NEW r \in Requests, InFlight(r) PROVE Exists(request[r].book)'
    BY <1>1, <2>1, PipelineKeeps DEF InFlight, Undisturbed, BookWaits, BooksStand
  <2>2. ASSUME NEW r \in Requests, Clearing(r) PROVE BookWaits(r)'
    <3>1. PICK b \in Books : b = request[r].book BY <1>1, <2>2 DEF Clearing
    <3>2. PICK op : op = request[r].op OBVIOUS
    <3>3. /\ InFlight(r) /\ AtRest(b) /\ request[r].seen = book[b]
          /\ request[r].doomed = Doomed(b, op)
      BY <1>1, <2>2, <3>1, <3>2 DEF Undisturbed, BookWaits, Clearing, InFlight
    <3>4. AtRest(b)' /\ Untouched(b) BY <1>1, <3>3, RestStays
    <3>5. Doomed(b, op)' = Doomed(b, op) BY <3>4, UntouchedDoomed
    <3>6. Exists(b)' BY <2>1, <3>1, <3>3 DEF Exists
    <3>7. /\ request'[r].book = b /\ request'[r].op = op
          /\ request'[r].seen = book'[b]
          /\ request'[r].doomed = Doomed(b, op)'
      BY <3>1, <3>2, <3>3, <3>4, <3>5 DEF Untouched
    <3>. QED BY <3>1, <3>4, <3>6, <3>7, BookWaitsIf
  <2>3. ASSUME NEW r \in Requests, ~Clearing(r) PROVE BookWaits(r)'
    BY <2>1, <2>3 DEF BookWaits, InFlight, Clearing, Exists
  <2>. QED BY <2>2, <2>3 DEF Undisturbed
<1>7. OneServes' BY <1>1 DEF OneServes, InFlight
<1>. QED BY <1>2, <1>3, <1>4, <1>5, <1>6, <1>7 DEF WaitInv, Standing

-----------------------------------------------------------------------------
(* The requests' steps. *)

\* What the lemmas below use of the invariant.
LEMMA Waiting ==
  ASSUME WaitInv
  PROVE  /\ TypeOK /\ NamesBooks /\ Standing /\ Undisturbed /\ OneServes
         /\ RefersToBooks /\ RunsHonest /\ CheckpointHonest
         /\ RunsClaimed /\ RowsClaimed /\ SettledUnlessRaises
         /\ request \in [Requests -> Request]
         /\ \A r \in Requests : request[r].pc # "new" => request[r].book \in Books
  BY DEF WaitInv, Standing, Founded, AdminInv, AdminTypeOK, RequestsHonest

\* A request that goes on with its book, and in which nothing changes but how
\* far it has got; the book may be served as before.
Proceeds(r, x) ==
    /\ request' = [request EXCEPT ![r] = x]
    /\ request[r].pc # "new"
    /\ x.book = request[r].book
    /\ x.pc \notin {"done", "error", "died"} => InFlight(r)

\* No second request begins to serve a book by this.
LEMMA StillOneServes ==
  ASSUME WaitInv, NEW r \in Requests, NEW x, Proceeds(r, x)
  PROVE  OneServes'
  BY Waiting DEF Proceeds, OneServes, InFlight

\* Where rows, books, messages, runs and lists stay, what is said of them does.
LEMMA StandsStill ==
  ASSUME WaitInv, RunsHonest',
         UNCHANGED <<book, job, upload, message, worker, dispatcher, reaper>>
  PROVE  /\ Standing'
         /\ \A c \in Books : /\ Exists(c)' = Exists(c)
                             /\ AtRest(c)' = AtRest(c)
         /\ \A c \in Books : \A op : Doomed(c, op)' = Doomed(c, op)
<1>1. RefersToBooks'
  BY Waiting DEF RefersToBooks, UploadsRefer, RowsRefer, Rows, MessagesRefer,
     RunsRefer, DispatchersRefer, ReapersRefer, Exists
<1>2. Founded' BY Waiting DEF Founded, CheckpointHonest, Rows
<1>3. SettledUnlessRaises'
  BY Waiting DEF SettledUnlessRaises, TerminalMeansSettled, Rows
<1>4. RowsClaimed' /\ RunsClaimed'
  BY Waiting DEF RowsClaimed, RunsClaimed, Rows, RowsOf
<1>5. \A c \in Books : /\ Exists(c)' = Exists(c)
                       /\ AtRest(c)' = AtRest(c)
  BY DEF Exists, AtRest, RowsOf
<1>6. \A c \in Books : \A op : Doomed(c, op)' = Doomed(c, op)
  BY DEF Doomed, TasksOf, RowsOf
<1>. QED BY <1>1, <1>2, <1>3, <1>4, <1>5, <1>6 DEF Standing

\* A request begins on a book at rest that no other serves.
LEMMA BeginWaits ==
  ASSUME AdminsWait, WaitInv, NEW r \in Requests, NEW b \in Books,
         NEW op \in {"delete", "reprocess"}, Begin(r, b, op)
  PROVE  WaitInv'
<1>1. AdminInv' BY BeginInv DEF WaitInv
<1>2. RunsHonest' BY Waiting DEF Begin, RunsHonest, HonestRun
<1>3. /\ Standing'
      /\ \A c \in Books : Exists(c)' = Exists(c) /\ AtRest(c)' = AtRest(c)
      /\ \A c \in Books : \A o : Doomed(c, o)' = Doomed(c, o)
  BY <1>2, StandsStill DEF Begin
<1>4. Exists(b) /\ AtRest(b) /\ ~Served(b)
  BY DEF Begin, Quiet
<1>5. /\ request'[r].op = op /\ request'[r].book = b
      /\ \/ request'[r].pc = "error"
         \/ /\ request'[r].seen = book[b]
            /\ request'[r].doomed = Doomed(b, op)
      /\ \A q \in Requests : q # r => request'[q] = request[q]
  <2>1. CASE OneRowAtMost(b)
    <3>1. request' = [request EXCEPT ![r] =
             [op |-> op, pc |-> "indexes", book |-> b, seen |-> book[b],
              doomed |-> Doomed(b, op), left |-> {"vectors", "texts"},
              missed |-> {}]]
      BY <2>1 DEF Begin
    <3>. QED BY <3>1, Waiting
  <2>2. CASE ~OneRowAtMost(b)
    <3>1. request' = [request EXCEPT ![r].op = op, ![r].pc = "error", ![r].book = b]
      BY <2>2 DEF Begin
    <3>. QED BY ZenonT(40), <3>1, Waiting DEF Request
  <2>. QED BY <2>1, <2>2
<1>6. Undisturbed'
  <2>1. ASSUME NEW q \in Requests, q # r, InFlight(q)
        PROVE  BookWaits(q)'
    <3>1. /\ request'[q] = request[q] /\ request[q].book \in Books
          /\ Clearing(q)' => Clearing(q)
          /\ UNCHANGED book
      BY <1>5, <2>1, Waiting DEF InFlight, Clearing, Begin
    <3>2. BookWaits(q) BY Waiting DEF Undisturbed
    <3>. QED BY <1>3, <2>1, <3>1, <3>2, BookWaitsIf DEF BookWaits
  <2>2. BookWaits(r)'
    <3>1. UNCHANGED book BY DEF Begin
    <3>. QED BY <1>3, <1>4, <1>5, <3>1, BookWaitsIf DEF Clearing
  <2>3. ASSUME NEW q \in Requests, q # r, ~InFlight(q) PROVE BookWaits(q)'
    BY <1>5, <2>3 DEF BookWaits, InFlight, Clearing
  <2>. QED BY <2>1, <2>2, <2>3 DEF Undisturbed
<1>7. OneServes'
  BY <1>4, <1>5, Waiting DEF OneServes, InFlight, Served
<1>. QED BY <1>1, <1>3, <1>6, <1>7 DEF WaitInv

\* A call to an index that has returned changes how far the request has got:
\* delete_book goes on to the PDF, reprocess_book to its transaction.
LEMMA ClearedGoesOn ==
  ASSUME WaitInv, NEW r \in Requests, NEW index, NEW stillThere,
         Cleared(r, index, stillThere), request[r].pc = "indexes"
  PROVE  /\ request' = [request EXCEPT ![r] = request'[r]]
         /\ request'[r].op = request[r].op /\ request'[r].book = request[r].book
         /\ request'[r].seen = request[r].seen
         /\ request'[r].doomed = request[r].doomed
         /\ request'[r].left = request[r].left \ {index}
         /\ request'[r].missed = Missed(r, index, stillThere)
         /\ request'[r].pc \in {"indexes", "file", "commit"}
         /\ request'[r].pc = "commit" => request[r].op = "reprocess"
<1>. DEFINE left == request[r].left \ {index}
            missed == Missed(r, index, stillThere)
            pc == CASE left # {} -> "indexes"
                    [] left = {} /\ request[r].op = "delete" -> "file"
                    [] left = {} /\ request[r].op = "reprocess" -> "commit"
<1>1. request' = [request EXCEPT ![r].left = left, ![r].missed = missed, ![r].pc = pc]
  BY DEF Cleared
<1>2. request[r].op \in {"delete", "reprocess"}
  BY RequestFields DEF WaitInv, AdminInv, RequestsHonest
<1>3. /\ pc \in {"indexes", "file", "commit"}
      /\ pc = "commit" => request[r].op = "reprocess"
  BY <1>2
<1>4. left = request[r].left \ {index} /\ missed = Missed(r, index, stillThere)
  OBVIOUS
<1>. HIDE DEF pc, left, missed
<1>5. /\ request'[r] = [request[r] EXCEPT !.left = left, !.missed = missed, !.pc = pc]
      /\ request' = [request EXCEPT ![r] = request'[r]]
  BY <1>1, Waiting
<1>6. request[r] = [op |-> request[r].op, pc |-> request[r].pc,
                    book |-> request[r].book, seen |-> request[r].seen,
                    doomed |-> request[r].doomed, left |-> request[r].left,
                    missed |-> request[r].missed]
  BY RequestFields DEF WaitInv, AdminInv, Request
<1>7. request'[r] = [op |-> request[r].op, pc |-> pc,
                     book |-> request[r].book, seen |-> request[r].seen,
                     doomed |-> request[r].doomed, left |-> left, missed |-> missed]
  BY <1>5, <1>6
<1>8. /\ request'[r].op = request[r].op /\ request'[r].book = request[r].book
      /\ request'[r].seen = request[r].seen
      /\ request'[r].doomed = request[r].doomed
      /\ request'[r].left = left /\ request'[r].missed = missed
      /\ request'[r].pc = pc
  BY <1>7
<1>. QED BY <1>3, <1>4, <1>5, <1>8

\* Which index it is, and whether something of the book is still there.
LEMMA DropClears ==
  ASSUME NEW r \in Requests, DropVectors(r) \/ DropTexts(r)
  PROVE  \E index \in {"vectors", "texts"} : \E stillThere \in BOOLEAN :
            /\ Cleared(r, index, stillThere)
            /\ stillThere = (request[r].book \in IF index = "vectors" THEN vectors'
                                                 ELSE texts' \cup imports')
<1>1. /\ (request[r].book \in vectors') \in BOOLEAN
      /\ (request[r].book \in texts' \cup imports') \in BOOLEAN
  OBVIOUS
<1>2. CASE DropVectors(r) BY <1>1, <1>2 DEF DropVectors
<1>3. CASE DropTexts(r) BY <1>1, <1>3 DEF DropTexts
<1>. QED BY <1>2, <1>3

\* Clearing the indexes and the PDF concerns no run: none works on the book.
LEMMA DropWaits ==
  ASSUME WaitInv, NEW r \in Requests, DropVectors(r) \/ DropTexts(r) \/ DropFile(r)
  PROVE  WaitInv'
<1>. DEFINE b == request[r].book
            x == request'[r]
<1>1. /\ Clearing(r) /\ b \in Books /\ request[r].pc # "new"
      /\ DropFile(r) \/ request[r].pc = "indexes"
      /\ UNCHANGED <<book, job, upload, message, worker, dispatcher, reaper>>
  BY Waiting DEF DropVectors, DropTexts, DropFile, Clearing
<1>2. AdminInv' BY DropIndexInv, DropFileInv DEF WaitInv
<1>3. /\ request' = [request EXCEPT ![r] = x]
      /\ x.op = request[r].op /\ x.book = b /\ x.seen = request[r].seen
      /\ x.doomed = request[r].doomed
  <2>1. CASE DropFile(r)
    <3>. DEFINE missed == Missed(r, "file", b \in file')
    <3>1. request' = [request EXCEPT ![r].pc = "commit", ![r].missed = missed]
      BY <2>1 DEF DropFile
    <3>. HIDE DEF missed
    <3>. QED BY <3>1, Waiting DEF Request
  <2>2. CASE DropVectors(r) \/ DropTexts(r)
    <3>1. PICK index \in {"vectors", "texts"} :
             \E stillThere \in BOOLEAN : Cleared(r, index, stillThere)
      BY <2>2, DropClears
    <3>2. request[r].pc = "indexes" BY <2>2 DEF DropVectors, DropTexts
    <3>. QED BY <3>1, <3>2, ClearedGoesOn
  <2>. QED BY <2>1, <2>2
<1>4. AtRest(b) BY <1>1, Waiting DEF Undisturbed, BookWaits
<1>5. RunsHonest'
  <2>1. \A c \in Books : c # b => /\ c \in vectors' <=> c \in vectors
                                  /\ c \in texts' \cup imports' <=> c \in texts \cup imports
    BY DEF DropVectors, DropTexts, DropFile
  <2>2. ASSUME NEW w \in Workers PROVE HonestRun(w)'
    <3>1. CASE worker[w].pc = "idle"
      BY <1>1, <3>1 DEF HonestRun, PastExtraction
    <3>2. CASE worker[w].pc # "idle"
      <4>1. worker[w].book \in Books /\ worker[w].book # b
        BY <1>4, <3>2, Waiting, Named DEF AtRest
      <4>. QED
        BY <1>1, <2>1, <4>1, Waiting DEF RunsHonest, HonestRun
    <3>. QED BY <3>1, <3>2
  <2>. QED BY <2>2 DEF RunsHonest
<1>6. /\ Standing'
      /\ \A c \in Books : Exists(c)' = Exists(c) /\ AtRest(c)' = AtRest(c)
      /\ \A c \in Books : \A op : Doomed(c, op)' = Doomed(c, op)
  BY <1>1, <1>5, StandsStill
<1>7. \A q \in Requests :
         /\ request'[q].op = request[q].op /\ request'[q].book = request[q].book
         /\ request'[q].seen = request[q].seen
         /\ request'[q].doomed = request[q].doomed
         /\ InFlight(q)' => InFlight(q) /\ request[q].book \in Books
         /\ Clearing(q)' => Clearing(q)
  BY <1>1, <1>3, Waiting DEF InFlight, Clearing
<1>8. Undisturbed'
  <2>1. ASSUME NEW q \in Requests, InFlight(q)' PROVE BookWaits(q)'
    <3>1. BookWaits(q) BY Waiting DEF Undisturbed
    <3>. QED BY <1>1, <1>6, <1>7, <2>1, <3>1, BookWaitsIf DEF BookWaits
  <2>2. ASSUME NEW q \in Requests, ~InFlight(q)' PROVE BookWaits(q)'
    BY <2>2 DEF BookWaits, InFlight, Clearing
  <2>. QED BY <2>1, <2>2 DEF Undisturbed
<1>9. OneServes' BY <1>7, Waiting DEF OneServes
<1>. QED BY <1>2, <1>6, <1>8, <1>9 DEF WaitInv

\* A transaction that rewrites the rows of a book at rest: nothing refers to the
\* book but its rows, and these are new or gone, or stay as no task claimed them.
LEMMA RewriteWaits ==
  ASSUME WaitInv, AdminInv', NEW r \in Requests, Clearing(r),
         NEW b \in Books, b = request[r].book,
         NEW x, request' = [request EXCEPT ![r] = x],
         x.pc \in {"send", "done"}, x.book = b, x.pc = "send" => Exists(b)',
         UNCHANGED <<file, vectors, texts, imports, upload, message, worker, dispatcher,
                     reaper>>,
         \A c \in Books : c # b => book'[c] = book[c],
         \A j \in Jobs : \/ /\ job'[j] = job[j]
                            /\ job[j].book = b => Exists(b)' /\ job[j].task = NoTask
                         \/ job[j].book \in {b, NoBook} /\ job'[j].book = NoBook
                         \/ /\ job[j].book \in {b, NoBook} /\ job'[j].book = b
                            /\ Exists(b)'
                            /\ job'[j].status = "queued" /\ job'[j].checkpoint = "none"
  PROVE  WaitInv'
<1>1. AtRest(b) BY Waiting DEF Undisturbed, BookWaits
<1>2. /\ \A t \in Tasks : message[t].book # b
      /\ \A w \in Workers : worker[w].book # b
      /\ upload[b] = "done"
      /\ NoBook # b
  BY <1>1, IngestionAssumption DEF AtRest
<1>3. \A c \in Books : c # b => Untouched(c) /\ Exists(c)' = Exists(c)
  BY IngestionAssumption DEF Untouched, Exists
<1>4. RefersToBooks'
  <2>1. UploadsRefer' BY <1>2, <1>3, Waiting DEF RefersToBooks, UploadsRefer
  <2>2. RowsRefer' BY DEF WaitInv, AdminInv
  <2>3. MessagesRefer'
    BY <1>2, Waiting DEF RefersToBooks, MessagesRefer, Exists
  <2>4. RunsRefer' BY <1>2, Waiting DEF RefersToBooks, RunsRefer, Exists
  <2>5. DispatchersRefer'
    BY <1>1, Waiting, DispatcherFields
       DEF RefersToBooks, DispatchersRefer, AtRest, Exists
  <2>6. ReapersRefer'
    BY <1>1, Waiting, ReaperFields DEF RefersToBooks, ReapersRefer, AtRest, Exists
  <2>. QED BY <2>1, <2>2, <2>3, <2>4, <2>5, <2>6 DEF RefersToBooks
<1>5. \A j \in Jobs : job[j].book \in Books \cup {NoBook}
  BY Waiting DEF TypeOK, Job
<1>6. Founded'
  <2>1. RunsHonest'
    <3>1. ASSUME NEW w \in Workers PROVE HonestRun(w)'
      <4>1. CASE worker[w].pc = "idle" BY <4>1 DEF HonestRun, PastExtraction
      <4>2. CASE worker[w].pc # "idle"
        <5>1. worker[w].book \in Books /\ worker[w].book # b
          BY <1>2, <4>2, Waiting, Named
        <5>. QED BY <5>1, Waiting DEF RunsHonest, HonestRun
      <4>. QED BY <4>1, <4>2
    <3>. QED BY <3>1 DEF RunsHonest
  <2>2. CheckpointHonest'
    BY <1>2, <1>5, Waiting DEF CheckpointHonest, RowsClaimed, Rows
  <2>. QED BY <2>1, <2>2 DEF Founded
<1>7. SettledUnlessRaises'
  <2>1. ASSUME "exception" \notin Faults, NEW j \in Jobs, job'[j].book # NoBook,
               job'[j].status \in Terminal
        PROVE  /\ job'[j] = job[j] /\ job[j].book \in Books /\ job[j].book # b
    <3>1. job'[j] = job[j] BY <2>1 DEF Terminal
    <3>2. job[j].book = b => job[j].task = NoTask BY <1>2, <2>1, <3>1 DEF Terminal
    <3>3. job[j].task # NoTask BY <2>1, <3>1, Waiting DEF RowsClaimed, Rows
    <3>. QED BY <1>5, <2>1, <3>1, <3>2, <3>3
  <2>. QED BY <2>1, Waiting DEF SettledUnlessRaises, TerminalMeansSettled, Rows
<1>8. RowsClaimed' /\ RunsClaimed'
  <2>1. RowsClaimed' BY <1>2, Waiting DEF RowsClaimed, Rows, Terminal
  <2>2. ASSUME NEW w \in Workers, worker[w].pc \notin Unclaimed
        PROVE  \A j \in RowsOf(worker[w].book)' : job'[j].task # NoTask
    <3>1. worker[w].book \in Books /\ worker[w].book # b
      BY <1>2, <2>2, Waiting, Named DEF Unclaimed
    <3>. QED
      BY <2>2, <3>1, IngestionAssumption, Waiting DEF RunsClaimed, RowsOf
  <2>. QED BY <2>1, <2>2 DEF RunsClaimed, RowsOf
<1>9. Undisturbed'
  <2>1. request'[r] = x /\ \A q \in Requests : q # r => request'[q] = request[q]
    BY Waiting
  <2>2. ASSUME NEW q \in Requests, q # r, InFlight(q)
        PROVE  BookWaits(q)'
    <3>1. /\ request[q].book \in Books /\ request[q].book # b
          /\ Clearing(q)' => Clearing(q)
          /\ request'[q] = request[q]
          /\ BookWaits(q)
      BY <2>1, <2>2, Waiting
         DEF InFlight, Clearing, OneServes, Undisturbed
    <3>2. ASSUME NEW c \in Books, c # b, AtRest(c) PROVE AtRest(c)'
      BY <1>3, <3>2, Waiting, RestFrom DEF AtRest, Listed, Reaped
    <3>3. \A op : Doomed(request[q].book, op)' = Doomed(request[q].book, op)
      BY <1>3, <3>1, UntouchedDoomed
    <3>. QED BY <1>3, <2>2, <3>1, <3>2, <3>3, BookWaitsIf DEF BookWaits
  <2>3. ASSUME NEW q \in Requests, q # r, ~InFlight(q) PROVE BookWaits(q)'
    BY <2>1, <2>3 DEF BookWaits, InFlight, Clearing
  <2>4. BookWaits(r)' BY <2>1 DEF BookWaits, InFlight, Clearing, Exists
  <2>. QED BY <2>2, <2>3, <2>4 DEF Undisturbed
<1>10. OneServes'
  <2>1. Proceeds(r, x) BY DEF Proceeds, Clearing, InFlight
  <2>. QED BY <2>1, StillOneServes
<1>. QED BY <1>4, <1>6, <1>7, <1>8, <1>9, <1>10 DEF WaitInv, Standing

\* delete_book's transaction.
LEMMA DeleteRowsWaits ==
  ASSUME WaitInv, NEW r \in Requests, DeleteRows(r)
  PROVE  WaitInv'
<1>. DEFINE x == [request[r] EXCEPT !.pc = "done"]
<1>1. PICK b \in Books : b = request[r].book BY Waiting DEF DeleteRows
<1>2. AdminInv' BY DeleteRowsInv DEF WaitInv
<1>3. /\ request' = [request EXCEPT ![r] = x] /\ x.book = b
      /\ x.pc \in {"send", "done"} /\ (x.pc = "send" => Exists(b)')
  BY <1>1, RequestFields DEF DeleteRows, WaitInv, AdminInv, AdminTypeOK, Request
<1>4. /\ \A c \in Books : c # b => book'[c] = book[c]
      /\ Clearing(r)
  BY <1>1, Waiting DEF DeleteRows, TypeOK, Clearing
<1>5. \A j \in Jobs : \/ /\ job'[j] = job[j]
                         /\ job[j].book = b => Exists(b)' /\ job[j].task = NoTask
                      \/ job[j].book \in {b, NoBook} /\ job'[j].book = NoBook
                      \/ /\ job[j].book \in {b, NoBook} /\ job'[j].book = b
                         /\ Exists(b)'
                         /\ job'[j].status = "queued" /\ job'[j].checkpoint = "none"
  BY <1>1 DEF DeleteRows, NoJobRow
<1>6. UNCHANGED <<file, vectors, texts, imports, upload, message, worker, dispatcher,
                 reaper>>
  BY DEF DeleteRows
<1>. HIDE DEF x
<1>. QED BY <1>1, <1>2, <1>3, <1>4, <1>5, <1>6, RewriteWaits

\* reprocess_book's transaction: the row that it deletes, if that had a task, is
\* the row there is.
LEMMA RecreateWaits ==
  ASSUME WaitInv, NEW r \in Requests, Recreate(r)
  PROVE  WaitInv'
<1>. DEFINE q == request[r]
            x == [q EXCEPT !.pc = "send", !.doomed = {}]
<1>1. PICK b \in Books : b = q.book BY Waiting DEF Recreate
<1>2. AdminInv' BY RecreateInv DEF WaitInv
<1>3. Clearing(r) /\ InFlight(r) /\ q.op = "reprocess"
  BY DEF Recreate, Clearing, InFlight
<1>4. Exists(b) /\ q.doomed = Doomed(b, "reprocess") /\ StillThere(q)
  BY <1>1, <1>3, Waiting DEF Undisturbed, BookWaits, StillThere
<1>5. PICK j \in Jobs :
        /\ FreshRow(j)
        /\ job' = [i \in Jobs |->
                     CASE i = j -> [NoJobRow EXCEPT !.book = q.book]
                       [] i # j /\ i \in q.doomed -> NoJobRow
                       [] OTHER -> job[i]]
  BY <1>4 DEF Recreate
<1>6. \/ q.doomed = RowsOf(b)
      \/ q.doomed = {} /\ \A i \in RowsOf(b) : job[i].task = NoTask
  BY <1>4 DEF Doomed, TasksOf
<1>a. /\ job'[j].book = b /\ job'[j].status = "queued"
      /\ job'[j].checkpoint = "none" /\ job[j].book = NoBook
      /\ \A i \in Jobs : i # j => IF i \in q.doomed THEN job'[i].book = NoBook
                                                    ELSE job'[i] = job[i]
  BY <1>1, <1>5 DEF NoJobRow, FreshRow
<1>7. /\ \A c \in Books : c # b => book'[c] = book[c]
      /\ Exists(b)'
  <2>1. book' = [book EXCEPT ![b] =
                 [status |-> ResetColumn(q.seen.status, "pending", book[b].status),
                  pages |-> ResetColumn(q.seen.pages, FALSE, book[b].pages),
                  chunks |-> ResetColumn(q.seen.chunks, FALSE, book[b].chunks)]]
    BY <1>1, <1>4 DEF Recreate
  <2>. QED BY <1>4, <2>1, Waiting DEF TypeOK, Exists, ResetColumn
<1>8. request' = [request EXCEPT ![r] = x] /\ x.book = b /\ x.pc = "send"
  <2>1. request' = [request EXCEPT ![r] = x] BY <1>4 DEF Recreate
  <2>. QED
    BY ZenonT(40), <1>1, <2>1, RequestFields
       DEF WaitInv, AdminInv, AdminTypeOK, Request
<1>9. UNCHANGED <<file, vectors, texts, imports, upload, message, worker, dispatcher,
                 reaper>>
  BY DEF Recreate
<1>10. \A i \in Jobs : \/ /\ job'[i] = job[i]
                          /\ job[i].book = b => Exists(b)' /\ job[i].task = NoTask
                       \/ job[i].book \in {b, NoBook} /\ job'[i].book = NoBook
                       \/ /\ job[i].book \in {b, NoBook} /\ job'[i].book = b
                          /\ Exists(b)'
                          /\ job'[i].status = "queued" /\ job'[i].checkpoint = "none"
  BY <1>6, <1>7, <1>a DEF RowsOf
<1>. HIDE DEF x
<1>. QED
  BY <1>1, <1>2, <1>3, <1>7, <1>8, <1>9, <1>10, RewriteWaits

\* The new task is sent, or the process that serves the request dies.
LEMMA LastStepsWait ==
  ASSUME WaitInv, NEW r \in Requests, SendAgain(r) \/ RequestDies(r)
  PROVE  WaitInv'
<1>. DEFINE b == request[r].book
<1>1. /\ InFlight(r) /\ b \in Books /\ Exists(b)
      /\ UNCHANGED <<stores, upload, worker, dispatcher, reaper>>
  BY Waiting DEF SendAgain, RequestDies, InFlight, Undisturbed, BookWaits
<1>2. AdminInv' BY LastStepsInv DEF WaitInv
<1>3. RunsHonest' BY <1>1, Waiting DEF RunsHonest, HonestRun
<1>4. /\ request'[r].pc \in {"done", "died"}
      /\ \A q \in Requests : q # r => request'[q] = request[q]
  BY Waiting, RequestFields
     DEF SendAgain, RequestDies, WaitInv, AdminInv, AdminTypeOK, Request
<1>5. RefersToBooks'
  <2>1. MessagesRefer'
    BY <1>1, Waiting, SendRefers
       DEF SendAgain, RequestDies, RefersToBooks, MessagesRefer, Exists
  <2>. QED
    BY <1>1, <2>1, Waiting DEF RefersToBooks, UploadsRefer, RowsRefer, Rows,
       RunsRefer, DispatchersRefer, ReapersRefer, Exists
<1>6. Founded' /\ RowsClaimed' /\ RunsClaimed' /\ SettledUnlessRaises'
  BY <1>1, <1>3, Waiting
     DEF Founded, CheckpointHonest, Rows, RowsClaimed, RunsClaimed, RowsOf,
         SettledUnlessRaises, TerminalMeansSettled
<1>7. ASSUME NEW c \in Books, c # b, AtRest(c) PROVE AtRest(c)'
  <2>1. \A t \in Tasks : message'[t].book # c
    BY <1>1, <1>7, Waiting, SendElsewhere DEF SendAgain, RequestDies, AtRest
  <2>2. Untouched(c) /\ upload'[c] = upload[c] BY <1>1 DEF Untouched
  <2>. QED
    BY <1>1, <1>7, <2>1, <2>2, Waiting, RestFrom DEF AtRest, Listed, Reaped
<1>8. Undisturbed'
  <2>1. ASSUME NEW q \in Requests, q # r, InFlight(q)
        PROVE  BookWaits(q)'
    <3>1. /\ request[q].book \in Books /\ request[q].book # b
          /\ Clearing(q)' => Clearing(q)
          /\ request'[q] = request[q]
          /\ BookWaits(q)
      BY <1>1, <1>4, <2>1, Waiting DEF InFlight, Clearing, OneServes, Undisturbed
    <3>2. \A c \in Books : /\ Exists(c)' = Exists(c)
                           /\ \A op : Doomed(c, op)' = Doomed(c, op)
      BY <1>1 DEF Exists, Doomed, TasksOf, RowsOf
    <3>. QED BY <1>1, <1>7, <2>1, <3>1, <3>2, BookWaitsIf DEF BookWaits
  <2>2. ASSUME NEW q \in Requests, q # r, ~InFlight(q) PROVE BookWaits(q)'
    BY <1>4, <2>2 DEF BookWaits, InFlight, Clearing
  <2>3. BookWaits(r)' BY <1>4 DEF BookWaits, InFlight, Clearing
  <2>. QED BY <2>1, <2>2, <2>3 DEF Undisturbed
<1>9. OneServes' BY <1>4, Waiting DEF OneServes, InFlight
<1>. QED BY <1>2, <1>5, <1>6, <1>8, <1>9 DEF WaitInv, Standing

\* At first nothing is asked and nothing is there.
LEMMA InitWaits == AdminInit => WaitInv
<1>. SUFFICES ASSUME AdminInit PROVE WaitInv OBVIOUS
<1>1. AdminInv BY InitAdmin
<1>2. RefersToBooks /\ Founded /\ SettledUnlessRaises
  BY InitInv DEF AdminInit, IngestionInv, Founded, SettledUnlessRaises
<1>3. RowsClaimed /\ RunsClaimed
  BY IngestionAssumption
     DEF AdminInit, Init, RowsClaimed, RunsClaimed, Rows, RowsOf, NoJobRow, Idle,
         Unclaimed
<1>4. Undisturbed /\ OneServes
  BY DEF AdminInit, Undisturbed, BookWaits, OneServes, InFlight, Clearing, NoRequest
<1>. QED BY <1>1, <1>2, <1>3, <1>4 DEF WaitInv, Standing

\* Every step keeps the invariant, where admins wait.
LEMMA WaitInvStep ==
  ASSUME AdminsWait
  PROVE  WaitInv /\ [AdminNext]_adminVars => WaitInv'
<1>. SUFFICES ASSUME WaitInv, [AdminNext]_adminVars PROVE WaitInv'
  OBVIOUS
<1>1. CASE [Next]_vars /\ UNCHANGED request BY <1>1, PipelineWaits
<1>2. ASSUME NEW r \in Requests, AdminStep(r) PROVE WaitInv'
  BY <1>2, BeginWaits, DropWaits, DeleteRowsWaits, RecreateWaits, LastStepsWait
     DEF AdminStep
<1>. QED BY <1>1, <1>2 DEF AdminNext, adminVars

\* The inductive invariant holds in every reachable state, with any number of
\* admins who wait for a book's pipeline to come to rest.
THEOREM WaitInvariant ==
  ASSUME AdminsWait
  PROVE  AdminSpec => []WaitInv
  BY InitWaits, WaitInvStep, PTL DEF AdminSpec

-----------------------------------------------------------------------------
(* Rows and checkpoints. *)

\* The pipeline gives a second row to no book: only upload_book makes one, and its
\* book is new.
LEMMA PipelineAddsNoSecond ==
  ASSUME WaitInv, [Next]_vars, NEW b \in Books, OneRowAtMost(b)
  PROVE  OneRowAtMost(b)'
<1>1. ASSUME NEW c \in Books, UploadCommit(c) PROVE OneRowAtMost(b)'
  <2>1. ~Exists(c) BY <1>1, Waiting DEF UploadCommit, RefersToBooks, UploadsRefer
  <2>2. RowsOf(c) = {}
    BY <2>1, IngestionAssumption, Waiting DEF RefersToBooks, RowsRefer, Rows, RowsOf
  <2>3. PICK j \in Jobs : job' = [job EXCEPT ![j] = [NoJobRow EXCEPT !.book = c]]
    BY <1>1 DEF UploadCommit
  <2>4. /\ job'[j].book = c
        /\ \A i \in Jobs : i # j => job'[i] = job[i]
    BY <2>3, Waiting DEF NoJobRow, TypeOK
  <2>. QED BY <2>2, <2>4 DEF OneRowAtMost, RowsOf
<1>2. ASSUME NEW w \in Workers, Claim(w) PROVE OneRowAtMost(b)'
  <2>1. worker[w].task # NoTask BY <1>2, Waiting, Named, IngestionAssumption DEF Claim
  <2>2. \A j \in Jobs : job'[j].book = job[j].book
    BY <1>2, <2>1, Waiting, ClaimEffect
  <2>. QED BY <2>2 DEF OneRowAtMost, RowsOf
<1>3. CASE \A j \in Jobs : job'[j].book = job[j].book
  BY <1>3 DEF OneRowAtMost, RowsOf
<1>. QED BY <1>1, <1>2, <1>3, Waiting, RowSteps

\* A second job row comes only where a call raised before a run's claim: beside a
\* row that has no task, and is not deleted for that.
THEOREM SecondRowWhenWaiting ==
  ASSUME AdminsWait
  PROVE  AdminSpec => SecondRowOnlyUnclaimed
<1>1. ASSUME WaitInv, [AdminNext]_adminVars, NEW b \in Books,
             OneRowAtMost(b), ~OneRowAtMost(b)'
      PROVE  RowsOf(b) # {} /\ TasksOf(b) = {}
  <2>1. CASE [Next]_vars BY <1>1, <2>1, PipelineAddsNoSecond
  <2>2. ASSUME NEW r \in Requests, Recreate(r)
        PROVE  RowsOf(b) # {} /\ TasksOf(b) = {}
    <3>. DEFINE q == request[r]
    <3>1. q.op = "reprocess" /\ q.book \in Books /\ Clearing(r) /\ InFlight(r)
      BY <1>1, <2>2, Waiting DEF Recreate, Clearing, InFlight
    <3>2. StillThere(q) /\ q.doomed = Doomed(q.book, "reprocess")
      BY <1>1, <3>1, Waiting DEF Undisturbed, BookWaits, StillThere
    <3>3. PICK j \in Jobs :
             job' = [i \in Jobs |->
                       CASE i = j -> [NoJobRow EXCEPT !.book = q.book]
                         [] i # j /\ i \in q.doomed -> NoJobRow
                         [] OTHER -> job[i]]
      BY <2>2, <3>2 DEF Recreate
    <3>4. /\ job'[j].book = q.book
          /\ \A i \in Jobs : i # j => \/ job'[i] = job[i] /\ i \notin q.doomed
                                      \/ job'[i].book = NoBook
      BY <3>3 DEF NoJobRow
    <3>5. b = q.book
      BY <1>1, <3>4, IngestionAssumption DEF OneRowAtMost, RowsOf
    <3>6. ~(RowsOf(b) \subseteq q.doomed)
      BY <1>1, <3>4, <3>5, IngestionAssumption DEF OneRowAtMost, RowsOf
    <3>. QED BY <3>2, <3>5, <3>6 DEF Doomed
  <2>3. ASSUME NEW r \in Requests, DeleteRows(r) PROVE OneRowAtMost(b)'
    <3>1. \A j \in Jobs : job'[j] = job[j] \/ job'[j].book = NoBook
      BY <2>3 DEF DeleteRows, NoJobRow
    <3>. QED BY <1>1, <3>1, IngestionAssumption DEF OneRowAtMost, RowsOf
  <2>4. CASE UNCHANGED job BY <1>1, <2>4 DEF OneRowAtMost, RowsOf
  <2>. QED
    BY <1>1, <2>1, <2>2, <2>3, <2>4 DEF AdminNext, adminVars, AdminStep, Begin,
       DropVectors, DropTexts, DropFile, SendAgain, RequestDies
<1>2. WaitInv /\ [AdminNext]_adminVars
        => [\A b \in Books : OneRowAtMost(b) /\ ~OneRowAtMost(b)' =>
              RowsOf(b) # {} /\ TasksOf(b) = {}]_adminVars
  BY <1>1
<1>. QED BY <1>2, WaitInvariant, PTL DEF AdminSpec, SecondRowOnlyUnclaimed

\* Nor does a checkpoint run ahead of what is committed, by any of these deletions
\* and reprocessings: a row that stays has none.
THEOREM CheckpointsWhenWaiting ==
  ASSUME AdminsWait
  PROVE  AdminSpec => []CheckpointHonest
<1>1. WaitInv => CheckpointHonest BY Waiting
<1>. QED BY <1>1, WaitInvariant, PTL

\* A row whose work is over has a book whose work is, unless a call raised: one
\* that raises before the claim leaves a failed row that reprocess_book keeps
\* while it makes the book pending.
THEOREM TerminalWhenWaiting ==
  ASSUME AdminsWait, "exception" \notin Faults
  PROVE  AdminSpec => []TerminalMeansSettled
<1>1. WaitInv => TerminalMeansSettled BY Waiting DEF SettledUnlessRaises
<1>. QED BY <1>1, WaitInvariant, PTL

-----------------------------------------------------------------------------
(* What a deletion leaves. *)

\* What a call of delete_book has cleared stays clear: while the request goes on
\* its book is at rest, and once it has answered the book is gone for good.
EmptiedBy(r) ==
    LET q == request[r] IN
    /\ q.pc = "send" => q.op = "reprocess"
    /\ q.op = "delete" /\ (Clearing(r) \/ q.pc = "done") =>
        /\ q.book \in vectors => "vectors" \in q.left \cup q.missed
        /\ q.book \in texts \cup imports => "texts" \in q.left \cup q.missed
        /\ q.pc \in {"commit", "done"} /\ q.book \in file => "file" \in q.missed
        /\ q.pc = "done" => AtRest(q.book) /\ ~Exists(q.book) /\ q.left = {}
Emptied == \A r \in Requests : EmptiedBy(r)

\* What is to be shown of the book of a request that deletes it.
LEMMA EmptiedByIf ==
  ASSUME NEW r \in Requests, NEW b \in Books, request'[r].book = b,
         request'[r].pc = "send" => request'[r].op = "reprocess",
         request'[r].op = "delete" /\ (Clearing(r)' \/ request'[r].pc = "done") =>
            /\ b \in vectors' => "vectors" \in request'[r].left \cup request'[r].missed
            /\ b \in texts' \cup imports' =>
                  "texts" \in request'[r].left \cup request'[r].missed
            /\ request'[r].pc \in {"commit", "done"} /\ b \in file' =>
                  "file" \in request'[r].missed
            /\ request'[r].pc = "done" =>
                  AtRest(b)' /\ ~Exists(b)' /\ request'[r].left = {}
  PROVE  EmptiedBy(r)'
  BY DEF EmptiedBy, Clearing, AtRest, Exists, RowsOf

\* A book that is deleted and at rest is left alone by every request.
LEMMA DeletedStays ==
  ASSUME WaitInv, WaitInv', NEW s \in Requests, AdminStep(s),
         NEW b \in Books, AtRest(b), ~Exists(b)
  PROVE  AtRest(b)' /\ ~Exists(b)'
<1>1. ~Exists(b)' BY AdminMakesNone DEF WaitInv
<1>2. UNCHANGED <<upload, worker, dispatcher, reaper>> BY AdminLeaves
<1>3. \A j \in Jobs : job'[j].book # b
  BY <1>1, IngestionAssumption DEF WaitInv, AdminInv, RowsRefer, Rows
<1>4. \A t \in Tasks : message'[t].book # b
  <2>1. CASE UNCHANGED message BY <2>1 DEF AtRest
  <2>2. CASE SendAgain(s)
    <3>1. request[s].book \in Books /\ Exists(request[s].book)
      BY <2>2, Waiting DEF SendAgain, Undisturbed, BookWaits, InFlight
    <3>. QED BY <2>2, <3>1, Waiting, SendElsewhere DEF SendAgain
  <2>. QED
    BY <2>1, <2>2 DEF AdminStep, Begin, DropVectors, DropTexts, DropFile,
       DeleteRows, Recreate, RequestDies
<1>. QED BY <1>1, <1>2, <1>3, <1>4 DEF AtRest, RowsOf

\* The request's own steps: each index and the PDF as they are cleared, the rows
\* when all is clear.
LEMMA OwnStepEmpties ==
  ASSUME WaitInv, WaitInv', Emptied, NEW r \in Requests, AdminStep(r)
  PROVE  EmptiedBy(r)'
<1>1. EmptiedBy(r) BY DEF Emptied
<1>2. ASSUME NEW b \in Books, NEW op \in {"delete", "reprocess"}, Begin(r, b, op)
      PROVE  EmptiedBy(r)'
  <2>1. CASE OneRowAtMost(b)
    <3>1. request' = [request EXCEPT ![r] =
             [op |-> op, pc |-> "indexes", book |-> b, seen |-> book[b],
              doomed |-> Doomed(b, op), left |-> {"vectors", "texts"},
              missed |-> {}]]
      BY <1>2, <2>1 DEF Begin
    <3>2. /\ request'[r].pc = "indexes" /\ request'[r].left = {"vectors", "texts"}
          /\ request'[r].book = b
      BY <3>1, Waiting
    <3>. QED BY <3>2, EmptiedByIf
  <2>2. CASE ~OneRowAtMost(b)
    <3>1. request'[r].pc = "error"
      BY <1>2, <2>2, RequestFields, Waiting DEF Begin, Request
    <3>. QED BY <3>1 DEF EmptiedBy, Clearing
  <2>. QED BY <2>1, <2>2
<1>3. CASE DropVectors(r) \/ DropTexts(r)
  <2>1. request[r].pc = "indexes" BY <1>3 DEF DropVectors, DropTexts
  <2>2. PICK b \in Books : b = request[r].book BY <2>1, Waiting
  <2>3. PICK index \in {"vectors", "texts"} : \E stillThere \in BOOLEAN :
           /\ Cleared(r, index, stillThere)
           /\ stillThere = (b \in IF index = "vectors" THEN vectors'
                                  ELSE texts' \cup imports')
    BY <1>3, <2>2, DropClears
  <2>4. PICK stillThere \in BOOLEAN :
           /\ Cleared(r, index, stillThere)
           /\ stillThere = (b \in IF index = "vectors" THEN vectors'
                                  ELSE texts' \cup imports')
    BY <2>3
  <2>5. /\ request'[r].op = request[r].op /\ request'[r].book = b
        /\ request'[r].left = request[r].left \ {index}
        /\ request'[r].missed = Missed(r, index, stillThere)
        /\ request'[r].pc \in {"indexes", "file", "commit"}
        /\ request'[r].pc = "commit" => request[r].op = "reprocess"
    BY <2>1, <2>2, <2>4, ClearedGoesOn
  <2>6. /\ request[r].missed \subseteq request'[r].missed
        /\ stillThere => index \in request'[r].missed
    BY <2>5 DEF Missed
  <2>7. vectors' \subseteq vectors /\ texts' \cup imports' \subseteq texts \cup imports
    BY <1>3 DEF DropVectors, DropTexts
  <2>. QED
    BY <1>1, <2>1, <2>2, <2>4, <2>5, <2>6, <2>7, EmptiedByIf DEF EmptiedBy, Clearing
<1>5. CASE DropFile(r)
  <2>1. PICK b \in Books : b = request[r].book BY <1>5, Waiting DEF DropFile
  <2>. DEFINE missed == Missed(r, "file", b \in file')
  <2>2. request' = [request EXCEPT ![r].pc = "commit", ![r].missed = missed]
    BY <1>5, <2>1 DEF DropFile
  <2>3. request[r].missed \subseteq missed /\ (b \in file' => "file" \in missed)
    BY DEF Missed
  <2>4. /\ request[r].op = "delete" /\ request[r].left = {} /\ Clearing(r)
        /\ UNCHANGED <<vectors, texts, imports>>
    BY <1>5 DEF DropFile, WaitInv, AdminInv, RequestsHonest, Clearing
  <2>. HIDE DEF missed
  <2>5. /\ request'[r].op = "delete" /\ request'[r].book = b
        /\ request'[r].left = {} /\ request'[r].pc = "commit"
        /\ request'[r].missed = missed
    BY <2>1, <2>2, <2>4, Waiting DEF Request
  <2>. QED BY <1>1, <2>1, <2>3, <2>4, <2>5, EmptiedByIf DEF EmptiedBy
<1>6. CASE DeleteRows(r)
  <2>1. PICK b \in Books : b = request[r].book BY <1>6, Waiting DEF DeleteRows
  <2>2. /\ request'[r].op = "delete" /\ request'[r].book = b
        /\ request'[r].left = {} /\ request'[r].pc = "done"
        /\ request'[r].missed = request[r].missed
        /\ request[r].op = "delete" /\ request[r].left = {}
        /\ request[r].pc = "commit"
    BY <1>6, <2>1, RequestFields, Waiting
       DEF DeleteRows, WaitInv, AdminInv, AdminTypeOK, RequestsHonest, Request
  <2>3. UNCHANGED <<file, vectors, texts, imports, message>> /\ Clearing(r)
    BY <1>6 DEF DeleteRows, Clearing
  <2>4. AtRest(b) BY <2>1, <2>3, Waiting DEF Undisturbed, BookWaits
  <2>5. ~Exists(b)' /\ RowsOf(b)' = {}
    BY <1>6, <2>1, IngestionAssumption, Waiting
       DEF DeleteRows, TypeOK, Exists, NoBookRow, NoJobRow, RowsOf
  <2>6. AtRest(b)' BY <2>3, <2>4, <2>5, AdminLeaves DEF AtRest
  <2>. QED
    BY <1>1, <2>1, <2>2, <2>3, <2>5, <2>6, EmptiedByIf DEF EmptiedBy
<1>7. CASE Recreate(r) \/ SendAgain(r) \/ RequestDies(r)
  <2>1. /\ request'[r].op = request[r].op
        /\ request'[r].pc \in {"send", "error", "done", "died"}
        /\ request'[r].pc \in {"send", "done"} => request[r].op = "reprocess"
    BY <1>1, <1>7, RequestFields, Waiting
       DEF Recreate, SendAgain, RequestDies, EmptiedBy, WaitInv, AdminInv,
           AdminTypeOK, Request
  <2>. QED BY <2>1 DEF EmptiedBy, Clearing
<1>. QED BY <1>2, <1>3, <1>5, <1>6, <1>7 DEF AdminStep

\* Every step keeps what the deletions have cleared.
LEMMA EmptiedStep ==
  ASSUME WaitInv, WaitInv', Emptied, [AdminNext]_adminVars
  PROVE  Emptied'
<1>1. CASE [Next]_vars /\ UNCHANGED request
  <2>1. ASSUME NEW r \in Requests, Clearing(r) \/ request[r].pc = "done",
               request[r].op = "delete"
        PROVE  EmptiedBy(r)'
    <3>1. PICK b \in Books : b = request[r].book
      BY <2>1, Waiting DEF Clearing
    <3>2. EmptiedBy(r) BY DEF Emptied
    <3>3. AtRest(b)
      BY <2>1, <3>1, <3>2, Waiting DEF EmptiedBy, Undisturbed, BookWaits
    <3>4. AtRest(b)' /\ Untouched(b) BY <1>1, <3>3, Waiting, RestStays
    <3>5. ~Exists(b) => ~Exists(b)' BY <3>4 DEF Untouched, Exists
    <3>. QED
      BY <1>1, <2>1, <3>1, <3>2, <3>4, <3>5, EmptiedByIf
         DEF EmptiedBy, Untouched, Clearing
  <2>2. ASSUME NEW r \in Requests,
               ~(Clearing(r) \/ request[r].pc = "done") \/ request[r].op # "delete"
        PROVE  EmptiedBy(r)'
    BY <1>1, <2>2 DEF Emptied, EmptiedBy, Clearing
  <2>. QED BY <2>1, <2>2 DEF Emptied
<1>2. ASSUME NEW s \in Requests, AdminStep(s) PROVE Emptied'
  <2>1. ASSUME NEW r \in Requests, r # s PROVE EmptiedBy(r)'
    <3>1. request'[r] = request[r]
      BY <1>2, <2>1, Waiting DEF AdminStep, Begin, DropVectors, DropTexts, DropFile,
         DeleteRows, Recreate, SendAgain, RequestDies, Cleared
    <3>2. /\ vectors' \subseteq vectors /\ file' \subseteq file
          /\ texts' \cup imports' \subseteq texts \cup imports
      BY <1>2 DEF AdminStep, Begin, DropVectors, DropTexts, DropFile, DeleteRows,
         Recreate, SendAgain, RequestDies
    <3>3. EmptiedBy(r) BY DEF Emptied
    <3>4. CASE Clearing(r) \/ request[r].pc = "done"
      <4>1. PICK b \in Books : b = request[r].book
        BY <3>4, Waiting DEF Clearing
      <4>2. AtRest(b) /\ ~Exists(b) => AtRest(b)' /\ ~Exists(b)'
        BY <1>2, DeletedStays
      <4>. QED
        BY <3>1, <3>2, <3>3, <4>1, <4>2, EmptiedByIf DEF EmptiedBy, Clearing
    <3>5. CASE ~(Clearing(r) \/ request[r].pc = "done")
      BY <3>1, <3>3, <3>5 DEF EmptiedBy, Clearing
    <3>. QED BY <3>4, <3>5
  <2>2. EmptiedBy(s)' BY <1>2, OwnStepEmpties
  <2>. QED BY <2>1, <2>2 DEF Emptied
<1>. QED BY <1>1, <1>2 DEF AdminNext, adminVars

\* Once delete_book has answered, Postgres holds nothing of its book, and Qdrant,
\* Meilisearch and MinIO hold what the calls that clear them left behind and no
\* more: nothing comes back, if admins wait.
THEOREM DeletedWhenWaiting ==
  ASSUME AdminsWait
  PROVE  AdminSpec => []DeleteIsFinal
<1>1. AdminInit => Emptied
  BY DEF AdminInit, Emptied, EmptiedBy, Clearing, NoRequest
<1>2. WaitInv /\ WaitInv' /\ Emptied /\ [AdminNext]_adminVars => Emptied'
  BY EmptiedStep
<1>3. ASSUME WaitInv, Emptied PROVE DeleteIsFinal
  <2>1. ASSUME NEW r \in Requests, request[r].pc = "done", request[r].op = "delete"
        PROVE  LET b == request[r].book IN
               /\ ~Exists(b) /\ RowsOf(b) = {}
               /\ b \in vectors => "vectors" \in request[r].missed
               /\ b \in texts \cup imports => "texts" \in request[r].missed
               /\ b \in file => "file" \in request[r].missed
    <3>1. /\ ~Exists(request[r].book) /\ request[r].book \in Books
          /\ request[r].left = {} /\ EmptiedBy(r)
      BY <1>3, <2>1, Waiting DEF Emptied, EmptiedBy
    <3>2. RowsOf(request[r].book) = {}
      BY <1>3, <3>1, IngestionAssumption, Waiting
         DEF RefersToBooks, RowsRefer, Rows, RowsOf
    <3>. QED BY <2>1, <3>1, <3>2 DEF EmptiedBy
  <2>. QED BY <2>1 DEF DeleteIsFinal
<1>4. WaitInv /\ Emptied => DeleteIsFinal BY <1>3
<1>. QED BY <1>1, <1>2, <1>4, WaitInvariant, PTL DEF AdminSpec

-----------------------------------------------------------------------------
(* What a reader finds. *)

\* A ready book is in both indexes but while a request clears them.
SearchableUnlessCleared ==
    \A b \in Books : book[b].status = "ready" /\ book[b].chunks =>
        \/ Indexed(b)
        \/ \E r \in Requests : Clearing(r) /\ request[r].book = b

\* reprocess_book resets the book before it is done with the indexes, because
\* what it has read is still so; the rest is the pipeline's affair.
LEMMA SearchableAdminStep ==
  ASSUME AdminsWait, "apiCrash" \notin Faults, WaitInv, SearchableUnlessCleared,
         NEW r \in Requests, AdminStep(r)
  PROVE  SearchableUnlessCleared'
<1>. SUFFICES ASSUME NEW b \in Books, book'[b].status = "ready", book'[b].chunks,
                     ~Indexed(b)'
              PROVE  \E q \in Requests : (Clearing(q) /\ request[q].book = b)'
  BY DEF SearchableUnlessCleared, Clearing, Indexed
<1>1. \A q \in Requests : q # r => request'[q] = request[q]
  BY Waiting DEF AdminStep, Begin, DropVectors, DropTexts, DropFile,
     DeleteRows, Recreate, SendAgain, RequestDies, Cleared
<1>2. ~RequestDies(r) BY DEF RequestDies, Fault
<1>3. CASE \E c \in Books, op \in {"delete", "reprocess"} : Begin(r, c, op)
  <2>1. UNCHANGED <<book, vectors, texts, imports>> /\ ~Clearing(r)
    BY <1>3 DEF Begin, Clearing
  <2>2. PICK q \in Requests : Clearing(q) /\ request[q].book = b
    BY <2>1 DEF SearchableUnlessCleared, Indexed
  <2>. QED BY <1>1, <2>1, <2>2 DEF Clearing
<1>4. CASE DropVectors(r) \/ DropTexts(r) \/ DropFile(r)
  <2>1. /\ UNCHANGED book /\ Clearing(r)
        /\ vectors \ {request[r].book} \subseteq vectors'
        /\ (texts \cup imports) \ {request[r].book} \subseteq texts' \cup imports'
    BY <1>4 DEF DropVectors, DropTexts, DropFile, Clearing
  <2>2. PICK q \in Requests : Clearing(q) /\ request[q].book = b
    BY <2>1 DEF SearchableUnlessCleared, Indexed
  <2>3. request'[r].book = request[r].book /\ Clearing(r)'
    <3>1. CASE DropFile(r)
      <4>. DEFINE missed == Missed(r, "file", request[r].book \in file')
      <4>1. request' = [request EXCEPT ![r].pc = "commit", ![r].missed = missed]
        BY <3>1 DEF DropFile
      <4>. HIDE DEF missed
      <4>. QED BY <4>1, Waiting DEF Request, Clearing
    <3>2. CASE DropVectors(r) \/ DropTexts(r)
      <4>1. PICK index \in {"vectors", "texts"} :
               \E stillThere \in BOOLEAN : Cleared(r, index, stillThere)
        BY <3>2, DropClears
      <4>2. request[r].pc = "indexes" BY <3>2 DEF DropVectors, DropTexts
      <4>. QED BY <4>1, <4>2, ClearedGoesOn DEF Clearing
    <3>. QED BY <1>4, <3>1, <3>2
  <2>. QED BY <1>1, <2>2, <2>3 DEF Clearing
<1>5. ASSUME NEW c \in Books, c = request[r].book, Clearing(r),
             book'[c].status # "ready",
             \A a \in Books : a # c => book'[a] = book[a],
             UNCHANGED <<vectors, texts, imports>>
      PROVE  \E q \in Requests : (Clearing(q) /\ request[q].book = b)'
  <2>1. b # c /\ book'[b] = book[b] BY <1>5
  <2>2. PICK q \in Requests : Clearing(q) /\ request[q].book = b
    BY <1>5, <2>1 DEF SearchableUnlessCleared, Indexed
  <2>. QED BY <1>1, <1>5, <2>1, <2>2 DEF Clearing
<1>6. CASE DeleteRows(r)
  BY <1>5, <1>6, Waiting DEF DeleteRows, Clearing, TypeOK, NoBookRow
<1>7. CASE Recreate(r)
  <2>1. PICK c \in Books : c = request[r].book BY <1>7, Waiting DEF Recreate
  <2>2. Clearing(r) /\ InFlight(r) BY <1>7 DEF Recreate, Clearing, InFlight
  <2>3. Exists(c) /\ request[r].seen = book[c] /\ StillThere(request[r])
    BY <2>1, <2>2, Waiting DEF Undisturbed, BookWaits, StillThere
  <2>4. book' = [book EXCEPT ![c] =
           [status |-> ResetColumn(book[c].status, "pending", book[c].status),
            pages |-> ResetColumn(book[c].pages, FALSE, book[c].pages),
            chunks |-> ResetColumn(book[c].chunks, FALSE, book[c].chunks)]]
    BY <1>7, <2>1, <2>3 DEF Recreate
  <2>5. book'[c].status = "pending" /\ \A a \in Books : a # c => book'[a] = book[a]
    BY <2>4, Waiting DEF TypeOK, ResetColumn
  <2>. QED BY <1>5, <1>7, <2>1, <2>2, <2>5 DEF Recreate
<1>8. CASE SendAgain(r)
  <2>1. UNCHANGED <<book, vectors, texts, imports>> /\ ~Clearing(r)
    BY <1>8 DEF SendAgain, Clearing
  <2>2. PICK q \in Requests : Clearing(q) /\ request[q].book = b
    BY <2>1 DEF SearchableUnlessCleared, Indexed
  <2>. QED BY <1>1, <2>1, <2>2 DEF Clearing
<1>. QED BY <1>2, <1>3, <1>4, <1>6, <1>7, <1>8 DEF AdminStep

\* A ready book with chunks can be found in both indexes except while a request
\* deals with it: if admins wait, Meilisearch fails no import, and no API process
\* dies between a request's calls.
THEOREM SearchableWhenWaiting ==
  ASSUME AdminsWait, {"apiCrash", "taskFails"} \cap Faults = {}
  PROVE  AdminSpec => []SearchableUnlessServed
<1>1. AdminInit => SearchableUnlessCleared
  BY DEF AdminInit, Init, SearchableUnlessCleared, NoBookRow
<1>2. ASSUME WaitInv, SearchableUnlessCleared, [AdminNext]_adminVars
      PROVE  SearchableUnlessCleared'
  <2>1. CASE [Next]_vars /\ UNCHANGED request
    BY <1>2, <2>1, Waiting, SearchableStep
       DEF SearchableUnlessCleared, ReadyComesIndexed, IndexesGrow, Indexed, Clearing,
           Standing
  <2>2. ASSUME NEW r \in Requests, AdminStep(r) PROVE SearchableUnlessCleared'
    BY <1>2, <2>2, SearchableAdminStep
  <2>. QED BY <1>2, <2>1, <2>2 DEF AdminNext, adminVars
<1>3. WaitInv /\ SearchableUnlessCleared /\ [AdminNext]_adminVars
         => SearchableUnlessCleared'
  BY <1>2
<1>4. SearchableUnlessCleared => SearchableUnlessServed
  BY DEF SearchableUnlessCleared, SearchableUnlessServed, Served, Clearing, InFlight
<1>5. AdminSpec => []WaitInv BY WaitInvariant
<1>. QED BY <1>1, <1>3, <1>4, <1>5, PTL DEF AdminSpec
=============================================================================

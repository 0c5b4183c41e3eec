------------------------------ MODULE Embedding ------------------------------
(***************************************************************************)
(* The embedding of a book's chunks (app/core/embedder.py) in one process  *)
(* of the worker pool.  A process runs one Celery task after another, each *)
(* in an event loop of its own; the semaphore that limits the requests is  *)
(* a global of the module, made once when the process starts.              *)
(*                                                                         *)
(* embed_texts cuts the texts into batches and gathers one asyncio task    *)
(* per batch.  A text is its position, and so is its vector.               *)
(***************************************************************************)
EXTENDS AsyncSemaphore, FiniteSets

CONSTANTS
    EMBED_BATCH_SIZE, CONCURRENT_BATCHES, MAX_RETRIES,
    Lengths,   \* how many chunks a book may have
    MaxJobs,   \* bound: tasks that the process runs
    Replies    \* what a request may come to

ReplyKinds ==
    {"vectors",      \* 200
     "limited",      \* 429
     "failed",       \* 5xx, a timeout, no connection, an unreadable answer
     "rejected"}     \* any other 4xx

ASSUME EmbeddingAssumption ==
    /\ EMBED_BATCH_SIZE \in Nat \ {0}
    /\ CONCURRENT_BATCHES \in Nat \ {0}
    /\ MAX_RETRIES \in Nat \ {0}
    /\ Lengths \subseteq Nat
    /\ MaxJobs \in Nat
    /\ NoLoop \notin 1..MaxJobs
    /\ Replies \subseteq ReplyKinds

VARIABLES
    loop,      \* how many tasks the process has begun: the last one's loop
    phase,     \* how far the last task is
    length,    \* how many chunks it embeds
    batch,     \* its batches: where each is, and how many requests failed
    slots,     \* _embed_semaphore
    embedded   \* the vectors of embed_texts so far

embedVars == <<loop, phase, length, batch, slots, embedded>>

\* The loop's range forgets the last, shorter batch.
MutantBatchCount(n) == n \div EMBED_BATCH_SIZE
BatchCount(n) == (n + EMBED_BATCH_SIZE - 1) \div EMBED_BATCH_SIZE

\* texts[i : i + EMBED_BATCH_SIZE]
Texts(b, n) ==
    LET first == (b - 1) * EMBED_BATCH_SIZE IN
    [k \in 1..(IF first + EMBED_BATCH_SIZE <= n THEN EMBED_BATCH_SIZE ELSE n - first) |->
        first + k]

Batches == DOMAIN batch
Posting == {b \in Batches : batch[b].at = "posting"}
Over == {"done", "kept", "refused", "unbound", "cancelled"}

EmbedInit ==
    /\ loop = 0
    /\ phase = "idle"
    /\ length = 0
    /\ batch = <<>>
    /\ slots = NewSemaphore(CONCURRENT_BATCHES)
    /\ embedded = <<>>

-----------------------------------------------------------------------------
\* The slots that were taken are not taken off.
MutantEmbedTexts(n) ==
    LET count == BatchCount(n)
        first == IF count <= slots.value THEN count ELSE slots.value IN
    /\ phase # "gathering" /\ phase # "failing"
    /\ loop < MaxJobs
    /\ loop' = loop + 1
    /\ phase' = "gathering"
    /\ length' = n
    /\ embedded' = <<>>
    /\ batch' = [b \in 1..count |-> [at |-> "posting", tries |-> 0]]
    /\ UNCHANGED slots

\* gather starts its tasks in one iteration of the event loop, in their order:
\* the first ones take the free slots, the others wait; in a loop the semaphore
\* is not bound to they raise.  (At the start nobody holds or awaits a slot.)
EmbedTexts(n) ==
    LET count == BatchCount(n)
        first == IF count <= slots.value THEN count ELSE slots.value
        later == [k \in 1..(count - first) |-> first + k]
        waits == later # <<>> /\ Bindable(slots, loop + 1)
    IN
    /\ phase # "gathering" /\ phase # "failing"
    /\ loop < MaxJobs
    /\ loop' = loop + 1
    /\ phase' = "gathering"
    /\ length' = n
    /\ embedded' = <<>>
    /\ batch' = [b \in 1..count |->
                    [at |-> IF b <= first THEN "posting"
                            ELSE IF waits THEN "waiting" ELSE "unbound",
                     tries |-> 0]]
    /\ slots' = LET taken == [slots EXCEPT !.value = @ - first] IN
                IF waits THEN Wait(taken, later, loop + 1) ELSE taken

\* A batch leaves "async with": its slot goes on.
MutantLeave(b, at) ==
    /\ batch' = [batch EXCEPT ![b].at = at]
    /\ slots' = [slots EXCEPT !.value = @ + 1]
Leave(b, at) ==
    /\ batch' = [batch EXCEPT ![b].at = at]
    /\ slots' = Release(slots)

\* A request fails: the batch sleeps, its slot in hand, and posts again, until
\* MAX_RETRIES requests have failed.
Again(b) ==
    IF batch[b].tries + 1 < MAX_RETRIES
    THEN batch' = [batch EXCEPT ![b].tries = @ + 1] /\ UNCHANGED slots
    ELSE Leave(b, "refused")

\* _embed_batch
Answered(b, reply) ==
    /\ b \in Posting
    /\ phase = "gathering"
    /\ CASE reply = "vectors" -> Leave(b, "done")
         [] reply \in {"limited", "failed"} -> Again(b)
         [] reply = "rejected" -> Leave(b, "refused")
    /\ UNCHANGED <<loop, phase, length, embedded>>

\* gather has raised and the client is closed; batches that go on post in vain.
PostsClosed(b) ==
    /\ b \in Posting
    /\ phase = "failing"
    /\ Again(b)
    /\ UNCHANGED <<loop, phase, length, embedded>>

\* A waiting batch whose future was set has its turn.
Turn(b) ==
    /\ b \in slots.woken
    /\ phase \in {"gathering", "failing"}
    /\ slots' = Resume(slots, b)
    /\ batch' = [batch EXCEPT ![b].at = "posting"]
    /\ UNCHANGED <<loop, phase, length, embedded>>

\* All batches are done: the vectors of one batch after another are appended ...
Extends(b) ==
    /\ phase = "gathering"
    /\ \A c \in Batches : batch[c].at = IF c < b THEN "kept" ELSE "done"
    /\ embedded' = embedded \o Texts(b, length)
    /\ batch' = [batch EXCEPT ![b].at = "kept"]
    /\ UNCHANGED <<loop, phase, length, slots>>

\* ... and returned.
Returns ==
    /\ phase = "gathering"
    /\ \A b \in Batches : batch[b].at = "kept"
    /\ phase' = "embedded"
    /\ UNCHANGED <<loop, length, batch, slots, embedded>>

\* The first exception of a batch is gather's; the other batches run on.
GatherRaises ==
    /\ phase = "gathering"
    /\ \E b \in Batches : batch[b].at \in {"refused", "unbound"}
    /\ phase' = "failing"
    /\ UNCHANGED <<loop, length, batch, slots, embedded>>

\* When the failure is on record asyncio.run cancels what still runs.
TaskFails ==
    /\ phase = "failing"
    /\ phase' = "failed"
    /\ batch' = [b \in Batches |->
                    IF batch[b].at \in Over THEN batch[b]
                    ELSE [batch[b] EXCEPT !.at = "cancelled"]]
    /\ slots' = CancelAll(slots, Cardinality(Posting) + Cardinality(slots.woken))
    /\ UNCHANGED <<loop, length, embedded>>

\* The pool process is lost; the one that replaces it imports the module anew.
ProcessLost ==
    /\ phase \in {"gathering", "failing"}
    /\ phase' = "lost"
    /\ batch' = <<>>
    /\ slots' = NewSemaphore(CONCURRENT_BATCHES)
    /\ UNCHANGED <<loop, length, embedded>>

EmbedStep ==
    \/ Returns \/ GatherRaises \/ TaskFails
    \/ \E b \in Batches : Turn(b) \/ PostsClosed(b) \/ Extends(b)
    \/ \E b \in Batches, reply \in Replies : Answered(b, reply)

EmbedNext == (\E n \in Lengths : EmbedTexts(n)) \/ EmbedStep \/ ProcessLost

\* Requests are answered or time out (180 s); the loop gives every task its turn.
EmbedFairness == WF_embedVars(EmbedStep)

EmbedSpec == EmbedInit /\ [][EmbedNext]_embedVars /\ EmbedFairness

-----------------------------------------------------------------------------
(* Properties. *)
\* No slot is lost and none is made, whatever fails, is cancelled or is lost
\* (async with _embed_semaphore): at most CONCURRENT_BATCHES requests are under
\* way, a batch waits only while they all are, and a task that ends leaves the
\* next one all the slots.
SlotsKept ==
    /\ slots.value + Cardinality(slots.woken) + Cardinality(Posting) = CONCURRENT_BATCHES
    /\ slots.waiting # <<>> => slots.value = 0
    /\ phase \notin {"gathering", "failing"} => slots.value = CONCURRENT_BATCHES

\* "Returns a list of vectors in the same order as the input chunks" (TASK-10):
\* vector by vector, which index_to_qdrant relies on when it zips the two.
VectorsInOrder ==
    phase = "embedded" => embedded = [k \in 1..length |-> k]

\* An embedding that begins ends: with its vectors, with an exception or with its
\* process, however its batches wait for one another.
EmbeddingEnds == phase = "gathering" ~> phase \in {"embedded", "failed", "lost"}

\* A book fails at its embedding only because the service refused a request: a
\* task is not harmed by what ran in the process before.
FailsOnlyRefused ==
    phase = "failing" => \E b \in Batches : batch[b].at = "refused"
=============================================================================

# TLA+ models of the Al-Mawsuat backend

The backend takes PDF books, turns them into searchable chunks and answers
questions about them with citations. These modules model the parts where order,
failure and concurrency decide what comes out, and the algorithms a citation
depends on; TLC checks them on small instances, TLAPS proves the main
invariants for every value of the constants. `PROJECT.json` maps each
definition to the lines it stands for (`map`) and lists runs, mutants, findings,
hazards and theorems.

## The system

| part | state | operations | interacts with |
|---|---|---|---|
| upload (`app/api/books.py`) | `books`, `processing_jobs`, MinIO | store the PDF, insert two rows, send a task | broker |
| worker (`workers/processor.py`) | rows, heartbeat key, Qdrant, Meilisearch | claim, extract, chunk, embed, index, complete, mark failed | everything below |
| dispatcher and reaper (`workers/celery_app.py`) | `dispatch:lock:*`, rows | every 60 s / 300 s: send tasks for queued rows, send again for rows without heartbeat | broker, worker |
| indexer (`app/pipeline/indexer.py`) | Qdrant, Meilisearch | upsert, import, wait for the import | worker |
| admin requests (`app/api/books_admin.py`) | all stores | delete, reprocess, edit a book | run beside worker and reaper |
| chunker (`app/pipeline/chunker.py`) | none | lines to units to chunks, ceiling, merge, page offsets | worker, citations |
| page numbers (`app/pipeline/extractor.py`, `page_number_validator.py`) | none | read footers, impute, validate | worker, citations |
| ask endpoints (`app/api/ask.py`, `app/rag/cache.py`) | Redis cache | look up, run the agent under a timer, cache | agent |
| agent (`app/rag/agent.py`) | graph state per request | retrieve, gate, retry, generate, refuse | searches, providers |
| provider chain (`app/rag/agent.py`) | two loop counters | retry on 429, next provider, raise | LLM APIs |
| citations (`app/rag/agent.py`) | none | locate a claim, choose its page | chunk payloads |
| reranker (`app/rag/reranker.py`) | none | fuse, score, floor, sort, suppress overlaps, cut | agent, citations |
| embedding client (`app/core/embedder.py`) | a semaphore of the process | batches, retries, gather | worker |
| page OCR (`app/pipeline/extractor.py`, `app/core/ocr.py`) | a semaphore of the process, one per book | pages, retries, fallback | worker |
| login (`app/api/auth.py`, `app/core/rate_limit.py`) | limiter keys in Redis, refresh tokens | log in, refresh, log out | `users.py` deactivates users |
| settings, highlight, translation, events, catalog, clients, migrations | | | not modelled, see below |

Hard here: nothing but the SETNX lock of the dispatcher coordinates upload,
dispatcher, reaper, redelivery and admin requests, all of which start or stop
runs of `process_book` for one book; rows are updated by `book_id`, not by task;
book and job are committed apart; four stores are written one after the other;
tasks die with their process, with their node or by revocation. On the other
side concurrent requests share a cache, each graph has edges that must not be
missed; clients share semaphores that outlive the event loops they are used in;
and the page in a citation is the end of a chain of index arithmetic
(offsets, markers, longest common subsequences) over text that repeats itself.

## Modules

| module | what | state and actions |
|---|---|---|
| `Ingestion` | upload, broker, worker, heartbeat, dispatcher, reaper | one variable per table, store, key and actor; one action per transaction, call or message |
| `BookAdmin` (extends `Ingestion`) | `delete_book`, `reprocess_book` | `request`: one program counter per request |
| `ProviderChain` | `_chat_with_retry` | `call`: provider, attempt, and what providers have said |
| `Agent` (extends `ProviderChain`) | the LangGraph nodes and edges | `agent`: node and the state that edges look at |
| `Ask` (extends `Agent`) | both endpoints, the cache, the 280 s timer | `request`, `cache` |
| `AnswerService` | what a client is promised, abstractly | `wanted`, `answer` |
| `AsyncSemaphore` | `asyncio.Semaphore` | operators on a record: value, waiting, woken, loop |
| `Embedding` | `embed_texts` in a process of the pool | `batch`: one asyncio task per batch; `slots`: the semaphore |
| `PageOcr` | `_extract_gemini`, `_extract_tesseract`, `ocr_batch` | `page`: one asyncio task per page; two semaphores |
| `Sessions` | login, logout, limiter, deactivation | `login`: one program counter per request; `failures`, `timed`: the Redis keys |
| `Library` | the two indexes of all books and their writers: indexing, `update_book`, `delete_book` | one entry per chunk id and index; Meilisearch's task queue |
| `Chunker` | `chunk()` after the words are read | the loop variables of three passes: splitting, enforcing the ceiling (`pieces`), merging |
| `Citation` | `_claim_page` and below | the passages, the tag, the page |
| `PageNumbers` | footers, imputation, validator | one number per page, the verdict |
| `Reranker` | `rerank` | the two lists of hits, what came of them |
| `IngestionProofs`, `BookAdminProofs`, `AdminsWaitProofs`, `LibraryProofs`, `AskProofs`, `ServiceProofs`, `TextProofs`, `EvidenceProofs` | theorems; `ServiceProofs` is about `AsyncSemaphore`, `Embedding`, `PageOcr` and `Sessions`, `TextProofs` about `Chunker` and `PageNumbers`, `EvidenceProofs` about `Citation` and `Reranker` | |
| `MCIngestion`, `MCBookAdmin`, `MCAsk` | instances for TLC | |
| `MCText`, `MCServices` | instances of modules that share no variable: a behaviour belongs to one of them, the others stay where they are | |

Definitions named `Mutant...` stand before the definition they distort: each is
a plausible mistake that breaks one property.

### How the models correspond to the code

*Ingestion.* The interleaving is as fine as the code's awaits on a store. A list
of pages or chunks is "there" or empty, `total_pages` is set or not,
`total_chunks` is zero or not. Broker, redelivery after a crash or the
visibility timeout, revocation and the acknowledgement of lost processes are
Celery's and Redis's, modelled from how the code configures them (`acks_late`,
concurrency 2, no `reject_on_worker_lost`). `publish_job_update` runs after its
commit, so an exception there is the failure of the next step (`StepFails`).
`DispatchCrash` stands for an exception in a dispatcher run too. The reaper's
revocation and UPDATE are one action. `texts` are the books whose documents a
search in Meilisearch finds, `imports` those with documents still in its task
queue: usually the worker waits for its import (`IndexMeilisearch`), but a
Meilisearch that is busy for longer than the wait (fault `slowImport`,
`IndexOutlasts`) is left with it, and comes to it at any later time or never
(`ImportDone`); that it fails an import it had accepted is the fault `taskFails`
(`IndexTaskFails`, `ImportFails`). The PDF is read when an extraction begins
(`Fetch`). Task ids come from a pool and are reused only when nobody refers to
them.

*BookAdmin.* Reading the rows and revoking are one action (`Begin`);
`reprocess_book`'s DELETE takes effect when its session commits; SQLAlchemy
writes only the columns that changed (`ResetColumn`). Both handlers clear in
Meilisearch what a search finds, at most 1000 documents (`DropTexts`): of a
larger book some remain, and documents still in the queue come after all, unless
they carry ids of documents that were found. `missed` is history: what was there
all the same when the call that clears it had returned. A request may die
between any two calls.

*Library.* The metadata of a book is a version number that each PUT increases;
an entry of an index carries the book and the version it was written with.
Meilisearch queues what it is told, and its searches see what it has done. Calls
that fail, and books of more than 1000 chunks, are `BookAdmin`'s subject, and
left out here; so are `reprocess_book` and a second run of the indexing.

*Embedding and PageOcr.* An action is what one asyncio task does between two
awaits. The semaphore is modelled with its queue and its futures, since a slot
may be on its way to a task that is cancelled, and with the loop it is bound to:
an asyncio semaphore binds itself when somebody first waits. A worker process
runs one Celery task after another, each under an `asyncio.run` of its own,
which cancels what still runs at its end. How long a batch sleeps is left out.

*Sessions.* One action per call to Redis or Postgres. Whether credentials are
right is free. `untimed` is history: addresses whose key lost its EXPIRE because
the login died.

*Ask.* A passage is represented by its book, a score by the bars it passes.
Both searches are one action (`gather` returns both), what they, the reranker
and the language model say is free. `quota` and `lost` in `call` are history:
what each provider has answered. `Reply.scope` is not part of the cached body;
it records what the body was made for. The graph's only possible exception, a
second verdict "retry", is the state "lost". Redis calls end because its
client has socket time-outs; the statistics are left out.

*Text.* The three passes of `chunk()` are phases of `Chunker`, one piece of work
per step; `NextPass` leads from one to the next. A word is its place in the
text; all words have one length; a line carries one mark for whatever begins a
unit there. How a heading, a hadith number or an ayah's end is recognised,
bounding boxes and chapter names are left out. In `Citation` a token is a value
and "one is a prefix of the other" a relation; `Annotated` is the text that is
searched, in which a passage of several pages has two tokens more for each, the
word and the number of its ⟨Page N⟩ marker. They take part in the match, its
scores and the frequencies, as in the code; a number that the text itself
contains is the same token. In `PageNumbers` a page is the numbers that the
regular expressions find in its last and first lines. In `Reranker` a text is a
sequence of tokens, and what the terms and names of the question make of it is
free.

## Runs

| run | question | bounds |
|---|---|---|
| `ingest_reap` | types; a finished job leaves no pending book; honest checkpoints; ready books searchable | 1 book, 2 tasks, 2 slots, a reaper, tesseract, 1 fault of any kind but `taskFails`, `slowImport` included |
| `ingest_settles` | liveness: pending books and open rows settle, but for one state | 1 book, 1 slot, dispatcher, reaper, gemini; 2 crashes of upload and beat, or alone a lost pool process or an import that fails or is late |
| `ingest_starves` | finding: with tesseract the heartbeat stops and the reaper starves a book | 1 slot, a reaper, no fault |
| `ingest_resume` | finding: a resumed run completes a book without chunks | 1 node crash |
| `admin_free` | the PDF outlives the row; nothing brings back a deleted book | 2 requests at any time, a book of over 1000 chunks, 1 fault |
| `admin_waits` | a second row only beside an unclaimed one; dispatchers apart; what was cleared by a deletion stays clear; ready books searchable | 2 requests, each when work on the book is over; 2 dispatchers, 2 faults, failing statements and slow imports among them |
| `admin_race` | finding: `reprocess_book` during a run | 1 request, 2 slots |
| `ask` | types, scope, one retry, refinement of `AnswerService` | 2 requests of one question, 2 books, both endpoints |
| `services` | every service by itself: order of providers, fallback, requests end; slots, order and end of embeddings; pages never wait; limiter; indexes in step | 1 request of `ask_json` with 3 providers; 2 tasks of 0, 2 or 4 batches, and 2 books of 1 or 4 pages, for 2 slots; 3 logins of one address, blocked by 2 failures; 2 books with one passage in common, 1 PUT |
| `embed_rebind` | finding: the semaphore stays bound to the loop of an earlier task | 2 tasks of 4 batches, 2 slots, no failure |
| `ask_scope` | finding: `ask_json` caches a scoped answer unscoped | as `ask` |
| `text` | chunks, citations, page numbers, reranking | see `text.cfg` |

Why the bounds are enough to be interesting: two of each actor that can race
(slots, dispatchers, requests) for one book, because all shared state is keyed
by book; a second task so that a run that was revoked or delivered again meets
its successor; one fault where each hazard begins with a single one, and two
where faults of different parts must meet: the upload's and the dispatcher's
strand a row only together (`ingest_settles`; a lost pool process brings back
most of the pipeline's states, and is one of the faults that come `Alone`
there), and a statement that raises or a slow import may meet a crash of worker
or beat (`admin_waits`). Twice as many batches or pages as slots make some wait
while others hold, hand on and give back; two attempts are one retry and its
end; two tasks of a process are an earlier and a later user of its semaphores.
Three logins are one more than the limit. The chunker's limits keep their order
and have room for overlap, cutting by ceiling and merging in twelve words; in a
passage of four or five words on pages 11 and 12, beside one of three, a claim
of two or three stands on one page while its tail comes again on the next, and a
claim or the text may have the number 11 or 12, which is also a marker's; six
pages are the fewest with one of five footers misread and a number to impute;
two hits of each search and `top_k` 2 leave one to be cut, one to be suppressed
and one to be a copy. The invariants that are proved do not depend on these
bounds.

### What holds

- A finished job never leaves its book pending, a checkpoint never claims more
  than is committed, a ready book with chunks is in both indexes or in
  Meilisearch's queue (unless Meilisearch fails a task it had accepted:
  `_wait_for_task` would not notice), whatever is duplicated, revoked or killed.
  The lock keeps overlapping dispatchers apart, also beside requests that delete
  and recreate the rows. With the gemini engine an upload settles although its
  pool process dies, or two of upload, dispatcher and reaper, but for one state,
  which the properties name (`Stranded`): a queued row whose dispatcher died
  before it gave the lock its TTL.
- Nothing resurrects a deleted book. When the admin has waited for its run, the
  answered request has left of it only what was still there when the call that
  clears it returned (`DeleteIsFinal`): no step is skipped and nothing comes
  back. It is not said that nothing is left: a call that fails is only logged, and
  Meilisearch keeps documents past the first 1000 and those still in its queue.
- When admins wait, only a row that no task has claimed (the claim raised) gets a
  second one beside it by reprocessing (`SecondRowOnlyUnclaimed`).
- Replies stay in scope through agent and cache, although the cache is misused
  (`ask_scope`): an unscoped question may be answered from one book, never a
  scoped one from another.
- The chunker loses no word, always gets on, cuts sentences only where the hard
  ceiling does, and its page offsets put every word on its page. A claim that
  stands on one page of the cited passage, and in no other passage, is given a
  page with all of it, if the passage has two pages, no token of the claim is one
  of the markers', and it has three tokens (two in a book without printed
  numbers); the code fails without either (below). A book whose footers are at
  least half read and four fifths right gets the right numbers and is accepted. A
  relevant hit is left out only for one at least as good that has its text, repeats
  it, or fills `top_k`.
- Embedding keeps its slots and the order of its vectors, and ends, whatever is
  refused, cancelled or killed. OCR pages never wait for the process's semaphore,
  because each book's own has the same size: what spares OCR the failure of
  `embed_rebind` is that equality.
- Concurrent logins pass the check together, but failures beyond the limit are
  fewer than the logins under way; a key that counts has a time to live unless
  its login died between INCR and EXPIRE, which blocks the address for good.
- Of passages that no other book has, both indexes hold what the book's row says
  once requests are answered and queues are empty, if no two operations on the
  book overlapped; an import that outlives the worker's wait counts as one.

### Findings

The five `violation` runs (see `findings`): a resumed task skips the phases
whose results it needs; a book whose OCR by tesseract takes longer than the
reaper's period is revoked and started again for ever, since the extraction holds the
event loop of the heartbeat; `reprocess_book` does not wait for the run it
revokes and may lose the new run; `ask_json` leaves `book_id` out of the key it
writes; the second book with more than `EMBED_CONCURRENT_BATCHES` batches in a
worker process fails at its embedding, whose semaphore belongs to the first
one's event loop.

Seen while modelling, without a run of their own:

- `celery_app.py:142-145` sets the lock and its TTL in two calls. A dispatcher that
  dies in between leaves a lock for ever; if the upload died before it sent its
  task (`books.py:112`), every later dispatcher skips the row, the reaper does not
  look at queued ones, and the book stays pending. Without the exception `Stranded`
  TLC finds this behaviour with two faults.
- `books_admin.py:59-62` deletes the documents that a search finds, 1000 at most. An
  import still queued after `_wait_for_task`'s timeout (`indexer.py:83-90`) is carried
  out afterwards: the deleted book is found again, against "removes all data".
- `books_admin.py:211` deletes the old row only if it has a task id. A claim that
  raised leaves a failed row without one; reprocessing then makes a second row, on
  which every handler raises.
- `agent.py:600` compares the page found, a printed number, with the physical
  pages of the cited passage: where they differ, a claim of two words is below the
  bar of three although its passage holds it, and falls back to the model's page or
  the passage's first; a claim of two words can also move a citation to another
  chunk, which the comment at 602-608 rules out.
- `agent.py:475`, `554` and `717` take the tokens of the whole annotated text, the
  word and the number of each page marker included: the claim "12 a b", which page 11
  holds, is placed on page 12 if that has "a b", since its marker gives the 12.
- `agent.py:572`: a passage on one page has no markers and takes no part in the
  search, so an exact claim in it can lose to three quarters of it elsewhere.
- `agent.py:715`: only pages that the match touches are scored on their own. Of three
  pages "a b b", "a b" and "b" the match of "a b b" may take the last two, and the
  second is cited though the first holds all: the proof of `WholeClaimFound` fails
  there, which is why it speaks of two pages.
- `extractor.py:59`: header lines are appended after footer lines, so a single
  number in the header wins; the comment at 86 says the footer does.
- `extractor.py:133-137` says that with unreliable footers every page keeps
  `printed_page_num = None`; those that were read keep their number.
  `page_number_validator.py:3-9` says that a bad book fails; `processor.py:191`
  logs and goes on, and clears nothing.
- `chunker.py:419` merges a chunk with the one that overlaps it: words come
  twice, and the second range of a page may lose its printed number.
- `ask.py:349` caches the fallback text on the streaming endpoint, and `ask_json`
  then serves it for a day, against the comment at 278-280: of either endpoint
  alone no property would say this, since `ask_json` (`Cacheable`) does keep it out.
  `agent.py:1141` has an outage message cached for a day.
- `celery_app.py:49` takes a completed row back to "extracting" when a duplicate
  starts, which then finds checkpoint "completed" and leaves the row there until
  the reaper has it.
- `reranker.py:237-252` says that it measures the shorter of two chunks; it
  measures the one ranked below. Of a chunk of 900 words the overlap of 63 is 7
  per cent, under the bar of 12: the shared passage is then shown twice. Copies
  are found by text alone (`reranker.py:170`), so that a second book's
  identical passage is dropped, also when the first one's is suppressed later.
- Ids of chunks leave out the book (`indexer.py:53`): of two books with the same
  passage the one indexed last has it, and deleting that one removes it.
- Answers stay cached after their book is deleted or reprocessed.
- TASK-14 speaks of two retries, the graph has one, and its retry returns to the
  gate with the passages of the first search (`agent.py:1159`).

## Fairness

`ingest_settles` and `ingest_starves` (`Fairness`) assume weak fairness of: a request that does
not crash; a slot's next statement and its taking of a message (Celery's loop);
redelivery of messages that nobody runs (visibility timeout) and discarding of
revoked ones; expiry of heartbeat and lock keys (Redis TTLs) and the heartbeat
task of a living run; dispatcher and reaper (beat schedules of 60 s and 300 s).
Nothing is assumed of faults, of revocations reaching a run, of the
extraction's progress loop, or of Meilisearch's queue.

`services`: `AskFairness` assumes that a cache call returns (socket time-outs),
that the 280 s timer rings and that a finished request stores or gives up;
searches and providers may never answer. `EmbedFairness` and `OcrFairness` assume
that requests are answered or time out (180 s) and that an event loop gives
every task its turn; `SessionsFairness` that a login which does not die goes
on, and that keys expire. All of it is weak fairness, of steps that stay enabled
until taken.

## Proofs

`IngestionProofs`: `TypeOK` is not inductive: a worker writes the row of its
book, which might have gone. `RefersToBooks` says that rows, messages, runs and
the lists of dispatcher and reaper refer to committed books only; with it types
are kept. `RunsHonest` says what a run has committed by the time it stands at a
statement (pages stored, points in Qdrant, documents in Meilisearch, book ready),
which carries `TerminalMeansSettled`, `CheckpointHonest` and `ReadyIsSearchable`
over any interleaving, because no action of the pipeline takes these facts back
(an import leaves the queue only for the index, or by `taskFails`).
The step proof goes by actor, lemma by lemma. `ReadySearchable` assumes that
`taskFails` is not among the faults. Books, rows, slots, dispatchers, reapers,
the number of faults and which of them may meet are arbitrary. `OneDispatchPerBook` needs
`LockedWhileHeld`: the lock of a book with which a dispatcher deals is not free,
because only its holder deletes it and, as `LockExpires` assumes, its 120 s
outlast the handling of one row.

`AskProofs`: `AskInv` ties together, for each caller, its call (`ChainOK`: every
provider before the current one has given up, those after it were not asked),
its graph (`AgentOK`: sources within the scope, retries bounded by the node)
and its request (`RequestOK`), and says of the cache that each entry suits its
key (`CacheOK`): an entry under the unscoped key may come from any book, one
under a book's key only from it, which is why `ask_json`'s wrong key cannot break
`RepliesInScope`. From it follow types, scope, one retry, the order of providers,
the fallback's justification, and that `AskSpec` implements `AnswerService`: a
step that brings a request to "done" or "failed" is the service's Reply or Fail,
all others are stutters. Requests, questions, books and providers are arbitrary.
Assumptions are only those the modules name.

`BookAdminProofs`: `AdminInv` for any number of requests at any time. What the
pipeline does to books, rows and files is stated once (`PipelineKeeps`): it
deletes none of them, and only `upload_book` makes a book. To it come where an
upload stands (`UploadsHonest`), what a request has cleared when it comes to the
PDF (`RequestsHonest`) and that every row has a book. Hence `FileOutlivesRow`,
`OneDispatchPerBook` beside requests, and the action property `NoResurrection`.

`AdminsWaitProofs`: what fails beside a running task holds when admins begin
only on books at rest (`AtRest`: no open row, message, run or list refers to the
book). `RestStays` shows that the pipeline leaves such a book alone, step by
step. `WaitInv` adds to `AdminInv` that at most one request serves a book
(`OneServes`), that the book rests and is as the request has read it until it
commits (`Undisturbed`), and what is known of the pipeline beside such admins
(`Standing`): with the references and the checkpoints, that a run past its claim
has written its task into its book's rows (`RunsClaimed`), and that a row
without a task has no checkpoint and, unless a call may raise, its work before
it (`RowsClaimed`). From these: a second row comes only beside an unclaimed one
(`SecondRowWhenWaiting`), and checkpoints stay honest, with any faults. Only
`TerminalWhenWaiting` excludes "exception", since such a second row lets a
completed job stand beside a pending book. `DeletedWhenWaiting` has no
assumption but that admins wait: what a request has cleared, and did not record
as missed, stays clear until it is answered (`Emptied`), because nothing else
serves the book, and afterwards, because nothing refers to it.
`SearchableWhenWaiting` excludes a request that stops in the middle, which
leaves a ready book without its index, and `taskFails`; calls that fail, slow
imports and books of any size are in.

`LibraryProofs`: `LibraryInv` says, for each book whose operations have not
crossed, that they follow one another (`OneAtATime`), what Qdrant has
(`PointKnown`), and what Meilisearch has or will have when it comes to the task
(`Comes`: the last task that mentions the passage decides). Steps on other books
leave it alone because tasks, entries and edits fit their own book's passages
(`EntriesFit`), which holds for crossed books as well. Books, passages, editors
and the number of edits are arbitrary.

`ServiceProofs` begins with what the operations of a semaphore keep: nobody waits
twice or while a slot is free, and the slots that are free or on their way change
by one. With it the embedding's slots are counted: free ones, those on their way
and batches that post are always `CONCURRENT_BATCHES`. `OrderInv` says that the
vectors gathered so far are those of the first batches, in the texts' order;
`BatchesCover` that the batches cut the texts without remainder. The pages count
both semaphores: a page that asks has one slot of each, so that whoever has the
first finds the second (`SlotsInPairs`); it takes that nobody is woken before
all pages have started (`StartFirst`). The limiter's bound follows
from the sum of the count and the logins admitted, which no call increases past
the limit.

`TextProofs`: `ChunkerInv` follows a book through the passes. While units become
chunks, every word before the loop's place is in some chunk, chunks begin one
after another, begin and end cleanly, and one that may exceed the ceiling is not
overlapped by the next (only chunks up to the target are overlapped): so its
pieces still come before that one. While the ceiling is enforced, what has been
dealt with is in some piece, and a piece that does not end its chunk has exactly
the ceiling's length. A merged chunk fits into the target, hence under the
ceiling, and has the ends of its parts. This gives `NothingLost`,
`SentencesWhole`, `CeilingKept` and the action property `Progress`, for all books
and limits with `TARGET_MAX <= HARD_CEILING` (420 and 900, `chunker.py:12-13`),
which `CeilingKept` depends on. `PagesKnown` rests on `RankIs`: the turns of a chunk,
taken by rank, are in order, so that a range holds the words from one turn to the
next, which are on one page (`RunIsOnOnePage`). For `PrintedKept` the pages of the
text never turn back (`TextAscends`): a search that starts before a turn stops at it
(`TurnIsFound`), and by the least counterexample the one pass over the words
finds all.

The numbers of pages: in a well read book most of the offsets counted are the true
one, hence the modal offset is (`OffsetIsTrue`), and what is imputed is right. With
it only misread pages have wrong numbers; going from page to page, each drop is
charged to a misread page that no other drop has (`DropsArePaid`), so that there are
no more violations than misreadings.

`EvidenceProofs`: the table and the way back are recursive functions, of which
the provers know only that they are CHOOSEn. `Recursion` says that functions
exist which solve such a definition, if the value at a place depends on places
of lower rank only (were there a least rank to which none solves it, the one
before could be extended); `TableIs` and `BackDef` apply it. Then by least
counterexamples: no part of the claim that the text has in order is larger than
its entry (`TableBounds`), some part is as large (`TableAttained`), and the way
back yields as many tokens as the entry says, in order (`BackIs`). So
`LongestMatch` holds for every claim and text. `PageIsShown` needs that there is
a page whose score none beats (`Unbeaten`). For `WholeClaimFound`: the whole
claim is found in the cited passage and less of it in every other, hence this
match wins and is accepted (`WholeIsFound`); it takes no token of a marker
(`NoMarkerIsMatched`), so either it touches the page whose words hold the claim,
or, as there are two pages, it lies on the other one, which then holds the claim
too (`WholeMatch`); `_dense_page` takes a page that holds as much
(`WholeIsOnPage`). The segments of the annotated text are given by `SegmentIs`,
`AnnotatedIs` and `TextIs`. Passages, claims, tags, tokens and the shift of
printed pages are arbitrary.

For `Reranker` the same lemma gives the scores, which are sums over a list, and the
passes of the suppression, where a passage depends on those ranked above it
(`AcceptedIs`). Scores with the places of the hits order what is kept strictly
(`ByScoreOrders`), so that each place is taken by one (`PlacesTaken`). The first copy of
a hit's text is accepted or repeats something better that is; either that is among
the first `top_k`, or all of those are better (`RerankingIs`).

Only model-checked:

- all liveness (`PendingSettles`, `JobSettles`, `AllAnswered`, `EmbeddingEnds`, `BlockedIsFreed`): temporal
  properties under fairness, which the prover does not treat.

## Not modelled

The searches of Qdrant and Meilisearch (free choices in `Agent`), how words and
boxes are made of a page, highlighting (geometry that nothing depends on),
settings (one row, written as a whole), translation (calls and formatting),
catalog, jobs, dashboard and event streams (they read what others write),
clients of storage, Redis and health, configuration, schema, migrations and
scripts. `PROJECT.json` has the reason for each.

## Plan

1. Citations over passages of three pages: which claims `_dense_page` places rightly there.
2. `Library` with failing calls and `reprocess_book`, so that its condition on
   overlapping operations can be taken apart.

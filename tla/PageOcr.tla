------------------------------- MODULE PageOcr -------------------------------
(***************************************************************************)
(* The extraction of a book's pages (app/pipeline/extractor.py) with the   *)
(* OCR client (app/core/ocr.py), in one process of the worker pool, which  *)
(* extracts one book after another, each in an event loop of its own.      *)
(*                                                                         *)
(* _extract_gemini limits its pages by a semaphore of its own, made for    *)
(* each book; ocr_batch limits them again by one of the module, made once  *)
(* in the process and of the same size.  Pages are abstracted to who read  *)
(* their words; as_completed hands every text back with its page's index.  *)
(***************************************************************************)
EXTENDS AsyncSemaphore, FiniteSets

CONSTANTS
    OCR_CONCURRENT_BATCHES, OCR_MAX_RETRIES,
    PageCounts,   \* how many pages a book may have
    MaxBooks,     \* bound: books that the process extracts
    OcrReplies    \* what a request may come to

OcrReplyKinds ==
    {"text", "empty",   \* 200, with and without text
     "limited",         \* 429
     "failed",          \* 5xx, a timeout, no candidates
     "rejected"}        \* any other 4xx

ASSUME PageOcrAssumption ==
    /\ OCR_CONCURRENT_BATCHES \in Nat \ {0}
    /\ OCR_MAX_RETRIES \in Nat \ {0}
    /\ PageCounts \subseteq Nat
    /\ MaxBooks \in Nat
    /\ NoLoop \notin 1..MaxBooks
    /\ OcrReplies \subseteq OcrReplyKinds

VARIABLES
    opened,    \* how many books the process has opened: the last one's loop
    reading,   \* how far the last one is
    page,      \* its pages: where each is, and how many requests failed
    sem,       \* the semaphore of _extract_gemini
    ocrSem,    \* _ocr_semaphore
    extracted  \* who read each of the pages returned

ocrVars == <<opened, reading, page, sem, ocrSem, extracted>>

Pages == DOMAIN page
Asking == {p \in Pages : page[p].at = "asking"}

OcrInit ==
    /\ opened = 0
    /\ reading = "idle"
    /\ page = <<>>
    /\ sem = NewSemaphore(OCR_CONCURRENT_BATCHES)
    /\ ocrSem = NewSemaphore(OCR_CONCURRENT_BATCHES)
    /\ extracted = <<>>

-----------------------------------------------------------------------------
\* A limit on the pages in memory rather than on the requests.
MutantExtractGemini(n) ==
    /\ reading # "gemini" /\ opened < MaxBooks
    /\ opened' = opened + 1
    /\ reading' = "gemini"
    /\ page' = [p \in 1..n |-> [at |-> "new", tries |-> 0]]
    /\ sem' = NewSemaphore(2 * OCR_CONCURRENT_BATCHES)
    /\ extracted' = <<>>
    /\ UNCHANGED ocrSem

\* Every page is a task.
ExtractGemini(n) ==
    /\ reading # "gemini" /\ opened < MaxBooks
    /\ opened' = opened + 1
    /\ reading' = "gemini"
    /\ page' = [p \in 1..n |-> [at |-> "new", tries |-> 0]]
    /\ sem' = NewSemaphore(OCR_CONCURRENT_BATCHES)
    /\ extracted' = <<>>
    /\ UNCHANGED ocrSem

\* _ocr_one has the book's slot and asks ocr_batch for one of the process's.  To
\* wait for a semaphore of another loop raises, and the page stays empty.
AskSlot(p, own) ==
    LET Goes(at) == page' = [page EXCEPT ![p].at = at] IN
    IF ~Locked(ocrSem)
    THEN Goes("asking") /\ ocrSem' = Acquire(ocrSem) /\ sem' = own
    ELSE IF Bindable(ocrSem, opened)
    THEN Goes("outer") /\ ocrSem' = Wait(ocrSem, <<p>>, opened) /\ sem' = own
    ELSE Goes("empty") /\ sem' = Release(own) /\ UNCHANGED ocrSem

\* as_completed starts the tasks in any order, before any answer comes in.
PageStarts(p) ==
    /\ reading = "gemini"
    /\ page[p].at = "new"
    /\ \/ /\ Locked(sem)
          /\ sem' = Wait(sem, <<p>>, opened)
          /\ page' = [page EXCEPT ![p].at = "inner"]
          /\ UNCHANGED ocrSem
       \/ /\ ~Locked(sem)
          /\ AskSlot(p, Acquire(sem))
    /\ UNCHANGED <<opened, reading, extracted>>

\* A page that was woken has its turn.
PageTurn(p) ==
    /\ reading = "gemini"
    /\ p \in sem.woken \cup ocrSem.woken
    /\ IF p \in sem.woken
       THEN AskSlot(p, Resume(sem, p))
       ELSE /\ ocrSem' = Resume(ocrSem, p)
            /\ page' = [page EXCEPT ![p].at = "asking"]
            /\ UNCHANGED sem
    /\ UNCHANGED <<opened, reading, extracted>>

\* The page leaves both "async with" blocks.
PageOver(p, at) ==
    /\ page' = [page EXCEPT ![p].at = at]
    /\ ocrSem' = Release(ocrSem)
    /\ sem' = Release(sem)

\* _ocr_batch: an empty text is asked for again like a failed request; what it
\* raises in the end leaves the page empty.
PageAnswered(p, reply) ==
    /\ p \in Asking
    /\ \A q \in Pages : page[q].at # "new"
    /\ \/ reply = "text" /\ PageOver(p, "read")
       \/ reply = "rejected" /\ PageOver(p, "empty")
       \/ /\ reply \in {"empty", "limited", "failed"}
          /\ page[p].tries + 1 < OCR_MAX_RETRIES
          /\ page' = [page EXCEPT ![p].tries = @ + 1]
          /\ UNCHANGED <<sem, ocrSem>>
       \/ /\ reply \in {"empty", "limited", "failed"}
          /\ page[p].tries + 1 >= OCR_MAX_RETRIES
          /\ PageOver(p, "empty")
    /\ UNCHANGED <<opened, reading, extracted>>

\* Tesseract reads what is still empty, if there is anything to read.
GeminiDone ==
    /\ reading = "gemini"
    /\ \A p \in Pages : page[p].at \in {"read", "empty"}
    /\ \E blank \in SUBSET {p \in Pages : page[p].at = "empty"} :
        extracted' = [p \in Pages |-> CASE page[p].at = "read" -> "gemini"
                                       [] p \in blank -> "nobody"
                                       [] OTHER -> "tesseract"]
    /\ reading' = "extracted"
    /\ UNCHANGED <<opened, page, sem, ocrSem>>

\* The other engine: threads read the text layer of the pages, or run tesseract
\* where it has few words.  Nothing is awaited: one step of the event loop.
ExtractTesseract(n) ==
    /\ reading # "gemini" /\ opened < MaxBooks
    /\ opened' = opened + 1
    /\ page' = <<>>
    /\ \/ \E layer \in SUBSET (1..n) :
            /\ extracted' = [p \in 1..n |-> IF p \in layer THEN "fitz" ELSE "tesseract"]
            /\ reading' = "extracted"
       \/ extracted' = <<>> /\ reading' = "failed"
    /\ UNCHANGED <<sem, ocrSem>>

\* Something else in the task raises - the job's progress update, the fallback -
\* and asyncio.run cancels the pages under way.
Cancelled ==
    /\ reading = "gemini"
    /\ reading' = "failed"
    /\ page' = <<>>
    /\ ocrSem' = CancelAll(ocrSem, Cardinality(Asking) + Cardinality(ocrSem.woken))
    /\ UNCHANGED <<opened, sem, extracted>>

OcrStep ==
    \/ \E p \in Pages : PageStarts(p) \/ PageTurn(p)
    \/ \E p \in Pages, reply \in OcrReplies : PageAnswered(p, reply)
    \/ GeminiDone

OcrNext ==
    \/ \E n \in PageCounts : ExtractGemini(n) \/ ExtractTesseract(n)
    \/ OcrStep
    \/ Cancelled

\* Requests are answered or time out; the loop gives every task its turn.
OcrFairness == WF_ocrVars(OcrStep)

OcrSpec == OcrInit /\ [][OcrNext]_ocrVars /\ OcrFairness

-----------------------------------------------------------------------------
(* Properties. *)
\* No page ever waits for the process's semaphore, which would bind it to the
\* event loop of one book and leave pages of later books empty: whoever has a
\* slot of the book finds one of the process, because those who were cancelled
\* with an earlier book gave theirs back.
OcrNeverWaits == ocrSem.waiting = <<>> /\ ocrSem.loop = NoLoop
=============================================================================

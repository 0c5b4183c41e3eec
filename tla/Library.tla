------------------------------- MODULE Library -------------------------------
(***************************************************************************)
(* The two indexes that all books share, Qdrant and Meilisearch, and their *)
(* three writers: the worker's indexing phase (app/pipeline/indexer.py),   *)
(* update_book and delete_book (app/api/books_admin.py).                   *)
(*                                                                         *)
(* A chunk's id is made of its text and pages and not of its book: books   *)
(* with the same passage on the same pages write the same point and the    *)
(* same document.  Meilisearch only queues what it is told, and answers a  *)
(* search from what it has done so far.  An entry is abstracted to the     *)
(* book it names and the version of the metadata it carries.               *)
(***************************************************************************)
EXTENDS Naturals, Sequences, FiniteSets

CONSTANTS
    Volumes,   \* books
    Ids,       \* chunk ids
    IdsOf,     \* the passages of each book
    Editors,   \* PUT requests, a pool
    MaxEdits,  \* bound: PUT requests in all
    Nowhere

ASSUME LibraryAssumption ==
    /\ IdsOf \in [Volumes -> SUBSET Ids]
    /\ MaxEdits \in Nat
    /\ Nowhere \notin Volumes \cup [book: Volumes, version: 0..MaxEdits]

VARIABLES
    row,       \* table books: each book's status and metadata
    points,    \* Qdrant: the entry of each id
    docs,      \* Meilisearch: the entry of each id
    imports,   \* Meilisearch's task queue
    indexing,  \* the task that indexes each book
    edit,      \* the PUT requests
    deletion,  \* the DELETE request of each book
    edits,     \* how many PUT requests so far
    crossed    \* the books on which two operations overlapped

libraryVars == <<row, points, docs, imports, indexing, edit, deletion, edits, crossed>>

NoEdit == [pc |-> "idle", book |-> Nowhere, version |-> 0, found |-> {}]

LibraryInit ==
    /\ row = [b \in Volumes |-> [status |-> "pending", version |-> 0]]
    /\ points = [p \in Ids |-> Nowhere]
    /\ docs = [p \in Ids |-> Nowhere]
    /\ imports = <<>>
    /\ indexing = [b \in Volumes |-> [pc |-> "chunk", version |-> 0]]
    /\ edit = [e \in Editors |-> NoEdit]
    /\ deletion = [b \in Volumes |-> [pc |-> "none", found |-> {}]]
    /\ edits = 0
    /\ crossed = {}

-----------------------------------------------------------------------------
Entry(b, version) == [book |-> b, version |-> version]
Of(index, b) == {p \in Ids : index[p] # Nowhere /\ index[p].book = b}
Stored(index, ids, entry) == [p \in Ids |-> IF p \in ids THEN entry ELSE index[p]]

\* A task writes an entry for its ids, or deletes them.
Task(by, ids, entry) == [by |-> by, ids |-> ids, entry |-> entry]

\* An import that outlives the worker's wait is still part of the indexing.
Indexing(b) ==
    \/ indexing[b].pc \notin {"chunk", "over"}
    \/ \E i \in DOMAIN imports : imports[i].by = b
Editing(b) == \E e \in Editors : edit[e].book = b
Deleting(b) == deletion[b].pc \notin {"none", "done"}
Busy(b) == Indexing(b) \/ Editing(b) \/ Deleting(b)

Crosses(b) == crossed' = IF Busy(b) THEN crossed \cup {b} ELSE crossed

\* The chunks carry the metadata that the worker read from the book's row.
ReadMetadata(b) ==
    /\ indexing[b].pc = "chunk"
    /\ row[b].status = "pending"
    /\ indexing' = [indexing EXCEPT ![b] = [pc |-> "points", version |-> row[b].version]]
    /\ Crosses(b)
    /\ UNCHANGED <<row, points, docs, imports, edit, deletion, edits>>

\* index_to_qdrant
UpsertPoints(b) ==
    /\ indexing[b].pc = "points"
    /\ points' = Stored(points, IdsOf[b], Entry(b, indexing[b].version))
    /\ indexing' = [indexing EXCEPT ![b].pc = "docs"]
    /\ UNCHANGED <<row, docs, imports, edit, deletion, edits, crossed>>

\* index_to_meilisearch
AddDocuments(b) ==
    /\ indexing[b].pc = "docs"
    /\ imports' = Append(imports, Task(b, IdsOf[b], Entry(b, indexing[b].version)))
    /\ indexing' = [indexing EXCEPT ![b].pc = "wait"]
    /\ UNCHANGED <<row, points, docs, edit, deletion, edits, crossed>>

\* _wait_for_task returns when the import is done, and also when it takes too
\* long; update_book_status finds the row or does not.
BookReady(b) ==
    /\ indexing[b].pc = "wait"
    /\ row' = IF row[b].status = "pending" THEN [row EXCEPT ![b].status = "ready"] ELSE row
    /\ indexing' = [indexing EXCEPT ![b].pc = "over"]
    /\ UNCHANGED <<points, docs, imports, edit, deletion, edits, crossed>>

\* Meilisearch does its tasks one after another.
DoTask ==
    /\ imports # <<>>
    /\ docs' = Stored(docs, Head(imports).ids, Head(imports).entry)
    /\ imports' = Tail(imports)
    /\ UNCHANGED <<row, points, indexing, edit, deletion, edits, crossed>>

\* update_book: the row is committed first; the indexes are written only for a
\* book that is ready.
EditRow(e, b) ==
    /\ edit[e].pc = "idle"
    /\ edits < MaxEdits
    /\ row[b].status # "absent"
    /\ edits' = edits + 1
    /\ row' = [row EXCEPT ![b].version = edits + 1]
    /\ edit' = IF row[b].status = "ready"
               THEN [edit EXCEPT ![e] = [pc |-> "points", book |-> b,
                                         version |-> edits + 1, found |-> {}]]
               ELSE edit
    /\ Crosses(b)
    /\ UNCHANGED <<points, docs, imports, indexing, deletion>>

\* _update_qdrant_payload
EditPoints(e) ==
    /\ edit[e].pc = "points"
    /\ points' = Stored(points, Of(points, edit[e].book), Entry(edit[e].book, edit[e].version))
    /\ edit' = [edit EXCEPT ![e].pc = "search"]
    /\ UNCHANGED <<row, docs, imports, indexing, deletion, edits, crossed>>

\* _update_meilisearch_docs searches the book's documents ...
EditSearch(e) ==
    /\ edit[e].pc = "search"
    /\ edit' = [edit EXCEPT ![e].pc = "add", ![e].found = Of(docs, edit[e].book)]
    /\ UNCHANGED <<row, points, docs, imports, indexing, deletion, edits, crossed>>

\* The metadata as it was when the request was made, not as it is now.
MutantEditDocs(e) ==
    /\ edit[e].pc = "add"
    /\ imports' = IF edit[e].found = {} THEN imports
                  ELSE Append(imports, Task(Nowhere, edit[e].found,
                                            Entry(edit[e].book, edit[e].version - 1)))
    /\ edit' = [edit EXCEPT ![e] = NoEdit]
    /\ UNCHANGED <<row, points, docs, indexing, deletion, edits, crossed>>

\* ... and adds them again with the new metadata.
EditDocs(e) ==
    /\ edit[e].pc = "add"
    /\ imports' = IF edit[e].found = {} THEN imports
                  ELSE Append(imports, Task(Nowhere, edit[e].found,
                                            Entry(edit[e].book, edit[e].version)))
    /\ edit' = [edit EXCEPT ![e] = NoEdit]
    /\ UNCHANGED <<row, points, docs, indexing, deletion, edits, crossed>>

\* delete_book.  Its two deletions are gathered; the one from Meilisearch makes
\* synchronous calls and is over before Qdrant's has its first answer.
DeleteSearch(b) ==
    /\ deletion[b].pc = "none"
    /\ row[b].status # "absent"
    /\ deletion' = [deletion EXCEPT ![b] = [pc |-> "docs", found |-> Of(docs, b)]]
    /\ Crosses(b)
    /\ UNCHANGED <<row, points, docs, imports, indexing, edit, edits>>

DeleteDocs(b) ==
    /\ deletion[b].pc = "docs"
    /\ imports' = IF deletion[b].found = {} THEN imports
                  ELSE Append(imports, Task(Nowhere, deletion[b].found, Nowhere))
    /\ deletion' = [deletion EXCEPT ![b] = [pc |-> "points", found |-> {}]]
    /\ UNCHANGED <<row, points, docs, indexing, edit, edits, crossed>>

DeletePoints(b) ==
    /\ deletion[b].pc = "points"
    /\ points' = Stored(points, Of(points, b), Nowhere)
    /\ deletion' = [deletion EXCEPT ![b].pc = "rows"]
    /\ UNCHANGED <<row, docs, imports, indexing, edit, edits, crossed>>

DeleteRow(b) ==
    /\ deletion[b].pc = "rows"
    /\ row' = [row EXCEPT ![b] = [status |-> "absent", version |-> 0]]
    /\ deletion' = [deletion EXCEPT ![b].pc = "done"]
    /\ UNCHANGED <<points, docs, imports, indexing, edit, edits, crossed>>

LibraryNext ==
    \/ \E b \in Volumes : \/ ReadMetadata(b) \/ UpsertPoints(b) \/ AddDocuments(b)
                          \/ BookReady(b)
                          \/ DeleteSearch(b) \/ DeleteDocs(b) \/ DeletePoints(b)
                          \/ DeleteRow(b)
    \/ \E e \in Editors : \/ \E b \in Volumes : EditRow(e, b)
                          \/ EditPoints(e) \/ EditSearch(e) \/ EditDocs(e)
    \/ DoTask

LibrarySpec == LibraryInit /\ [][LibraryNext]_libraryVars

-----------------------------------------------------------------------------
(* Properties. *)
Own(b) == {p \in IdsOf[b] : \A c \in Volumes \ {b} : p \notin IdsOf[c]}
Settled(b) == ~Busy(b) /\ imports = <<>>

\* The entry that a book's row promises for its passages.
Promised(b) ==
    IF row[b].status = "ready" THEN Entry(b, row[b].version) ELSE Nowhere

\* When all requests are answered and Meilisearch has done its tasks, both
\* indexes hold what the row of a book says - the passages of a ready book, with
\* the metadata of the last PUT, and nothing of a deleted one - although they are
\* only told what to change.  It takes two things: that no other book has the
\* passage, and that no two operations on the book overlapped, the import of its
\* documents included.
IndexesInStep ==
    \A b \in Volumes \ crossed : Settled(b) =>
        \A p \in Own(b) : points[p] = Promised(b) /\ docs[p] = Promised(b)
=============================================================================

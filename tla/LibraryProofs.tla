----------------------------- MODULE LibraryProofs -----------------------------
(* Theorems about Library, for every number of books, passages and editors,     *)
(* however the passages are shared and whatever Meilisearch has left to do.     *)
EXTENDS Library, SequenceTheorems, TLAPS

Entries == [book : Volumes, version : 0..MaxEdits]
Slot == Entries \cup {Nowhere}
TaskType == [by : Volumes \cup {Nowhere}, ids : SUBSET Ids, entry : Slot]

EditType == [pc : {"idle", "points", "search", "add"}, book : Volumes \cup {Nowhere},
             version : 0..MaxEdits, found : SUBSET Ids]

LibraryTypeOK ==
    /\ row \in [Volumes -> [status : {"pending", "ready", "absent"}, version : 0..MaxEdits]]
    /\ points \in [Ids -> Slot]
    /\ docs \in [Ids -> Slot]
    /\ imports \in Seq(TaskType)
    /\ indexing \in [Volumes -> [pc : {"chunk", "points", "docs", "wait", "over"},
                                 version : 0..MaxEdits]]
    /\ edit \in [Editors -> EditType]
    /\ deletion \in [Volumes -> [pc : {"none", "docs", "points", "rows", "done"},
                                 found : SUBSET Ids]]
    /\ edits \in 0..MaxEdits
    /\ crossed \in SUBSET Volumes

\* Its documents are deleted, or will be when Meilisearch comes to it.
Cleared(b) == deletion[b].pc \in {"points", "rows", "done"}
Told(b) == indexing[b].pc \in {"wait", "over"}

\* Whatever is written for a book is written on its passages, crossed or not.
Fits(ids, entry) == entry # Nowhere => ids \subseteq IdsOf[entry.book]

TaskFits(task) ==
    /\ Fits(task.ids, task.entry)
    /\ task.by \in Volumes =>
        task.ids = IdsOf[task.by] /\ task.entry # Nowhere /\ Told(task.by)
    /\ task.entry = Nowhere =>
        \E c \in Volumes : Cleared(c) /\ task.ids \subseteq IdsOf[c]

EntriesFit ==
    /\ \A p \in Ids : Fits({p}, points[p]) /\ Fits({p}, docs[p])
    /\ \A i \in 1..Len(imports) : TaskFits(imports[i])
    /\ \A e \in Editors : /\ edit[e].pc = "idle" <=> edit[e].book = Nowhere
                          /\ edit[e].book # Nowhere => edit[e].found \subseteq IdsOf[edit[e].book]
    /\ \A b \in Volumes : deletion[b].found \subseteq IdsOf[b]

\* What Meilisearch will say of a passage when it has done its tasks.
Importing(b) == \E i \in 1..Len(imports) : imports[i].by = b
Untold(p) == \A i \in 1..Len(imports) : p \notin imports[i].ids
Comes(p, x) ==
    \/ docs[p] = x /\ Untold(p)
    \/ \E i \in 1..Len(imports) :
        /\ p \in imports[i].ids /\ imports[i].entry = x
        /\ \A j \in 1..Len(imports) : j > i => p \notin imports[j].ids

Writing(b) == indexing[b].pc \in {"points", "docs", "wait"}

\* The operations on a book that has not been crossed follow one another.
OneAtATime(b) ==
    /\ Writing(b) \/ Importing(b) => ~Editing(b) /\ deletion[b].pc = "none"
    /\ Editing(b) => deletion[b].pc = "none"
    /\ \A e, f \in Editors : edit[e].book = b /\ edit[f].book = b => e = f
    /\ \A e \in Editors : edit[e].book = b =>
        row[b].status = "ready" /\ edit[e].version = row[b].version
    /\ Writing(b) => indexing[b].version = row[b].version
    /\ row[b].status = IF deletion[b].pc = "done" THEN "absent"
                       ELSE IF indexing[b].pc = "over" THEN "ready" ELSE "pending"

Current(b) == Entry(b, row[b].version)

\* Qdrant has the passage since it was written and until it is deleted; an edit
\* that has written it leaves it current.
PointKnown(b, p) ==
    IF deletion[b].pc \in {"rows", "done"} \/ indexing[b].pc \in {"chunk", "points"}
    THEN points[p] = Nowhere
    ELSE /\ points[p] # Nowhere
         /\ (\A e \in Editors : edit[e].book = b => edit[e].pc # "points") =>
                points[p] = Current(b)

\* Meilisearch has it since its import is done: then searches find it.
DocKnown(b, p) ==
    IF ~Told(b)
    THEN docs[p] = Nowhere /\ Untold(p) /\ p \notin deletion[b].found
    ELSE IF Cleared(b) THEN Comes(p, Nowhere)
    ELSE /\ Importing(b) \/ docs[p] # Nowhere
         /\ ~Editing(b) => Comes(p, Current(b))
         /\ deletion[b].pc = "docs" => p \in deletion[b].found
         /\ \A e \in Editors :
                edit[e].book = b /\ edit[e].pc = "add" => p \in edit[e].found

BookInv(b) ==
    /\ OneAtATime(b)
    /\ \A p \in Own(b) : PointKnown(b, p) /\ DocKnown(b, p)

LibraryInv ==
    /\ LibraryTypeOK
    /\ EntriesFit
    /\ \A b \in Volumes \ crossed : BookInv(b)

-----------------------------------------------------------------------------
\* A book's entry says the book.
LEMMA EntryFacts ==
  ASSUME NEW b \in Volumes, NEW v \in 0..MaxEdits
  PROVE  /\ Entry(b, v) \in Slot /\ Entry(b, v) # Nowhere
         /\ Entry(b, v).book = b /\ b # Nowhere
  BY LibraryAssumption DEF LibraryAssumption, Entry, Slot, Entries

\* A passage that only one book has is no other book's.
LEMMA OwnIsOwn ==
  ASSUME NEW b \in Volumes, NEW p \in Own(b)
  PROVE  /\ p \in Ids /\ p \in IdsOf[b]
         /\ \A c \in Volumes : p \in IdsOf[c] => c = b
  BY LibraryAssumption DEF LibraryAssumption, Own

\* What is told last is what comes.
LEMMA AppendComes ==
  ASSUME NEW task \in TaskType, LibraryTypeOK, imports' = Append(imports, task), docs' = docs,
         NEW p, NEW x,
         \/ p \in task.ids /\ task.entry = x
         \/ p \notin task.ids /\ Comes(p, x)
  PROVE  Comes(p, x)'
<1>1. /\ Len(imports') = Len(imports) + 1 /\ Len(imports) \in Nat
      /\ imports'[Len(imports) + 1] = task
      /\ \A i \in 1..Len(imports) : imports'[i] = imports[i]
  BY DEF LibraryTypeOK, EditType
<1>2. CASE p \in task.ids /\ task.entry = x
  <2>1. /\ Len(imports) + 1 \in 1..Len(imports')
        /\ p \in imports'[Len(imports) + 1].ids /\ imports'[Len(imports) + 1].entry = x
        /\ \A j \in 1..Len(imports') : ~(j > Len(imports) + 1)
    BY <1>1, <1>2
  <2>. QED BY <2>1 DEF Comes
<1>3. CASE p \notin task.ids /\ Comes(p, x)
  <2>1. \A j \in 1..Len(imports') : j \in 1..Len(imports) \/ imports'[j] = task
    BY <1>1
  <2>2. CASE docs[p] = x /\ Untold(p)
    BY <1>1, <1>3, <2>1, <2>2 DEF Comes, Untold
  <2>3. ASSUME NEW i \in 1..Len(imports), p \in imports[i].ids, imports[i].entry = x,
               \A j \in 1..Len(imports) : j > i => p \notin imports[j].ids
        PROVE  Comes(p, x)'
    <3>1. \A j \in 1..Len(imports') : j > i => p \notin imports'[j].ids
      BY <1>1, <1>3, <2>1, <2>3
    <3>2. i \in 1..Len(imports') /\ p \in imports'[i].ids /\ imports'[i].entry = x
      BY <1>1, <2>3
    <3>. QED BY <3>1, <3>2 DEF Comes
  <2>. QED BY <1>3, <2>2, <2>3 DEF Comes
<1>. QED BY <1>2, <1>3

\* The queue after its first task.
LEMMA TailFacts ==
  ASSUME LibraryTypeOK, DoTask
  PROVE  /\ Len(imports) \in Nat /\ Len(imports') = Len(imports) - 1 /\ Len(imports) > 0
         /\ \A i \in 1..Len(imports') : imports'[i] = imports[i + 1]
         /\ Head(imports) = imports[1] /\ imports[1] \in TaskType
         /\ imports' \in Seq(TaskType)
         /\ docs' \in [Ids -> Slot]
         /\ \A p \in Ids : docs'[p] = IF p \in imports[1].ids THEN imports[1].entry ELSE docs[p]
<1>1. imports \in Seq(TaskType) /\ imports # <<>> /\ imports' = Tail(imports)
  BY DEF LibraryTypeOK, EditType, DoTask
<1>2. /\ Len(imports) \in Nat /\ Len(imports') = Len(imports) - 1 /\ Len(imports) > 0
      /\ \A i \in 1..Len(imports') : imports'[i] = imports[i + 1]
      /\ Head(imports) = imports[1] /\ imports[1] \in TaskType
      /\ imports' \in Seq(TaskType)
  BY <1>1, HeadTailProperties
<1>3. docs \in [Ids -> Slot] /\ imports[1].ids \in SUBSET Ids /\ imports[1].entry \in Slot
  BY <1>2 DEF LibraryTypeOK, EditType, TaskType
<1>4. docs' = Stored(docs, imports[1].ids, imports[1].entry)
  BY <1>2 DEF DoTask
<1>5. /\ docs' \in [Ids -> Slot]
      /\ \A p \in Ids : docs'[p] = IF p \in imports[1].ids THEN imports[1].entry ELSE docs[p]
  BY <1>3, <1>4 DEF Stored
<1>. QED BY <1>2, <1>5

\* Doing a task changes nothing of what comes.
LEMMA TailComes ==
  ASSUME LibraryTypeOK, DoTask, NEW p \in Ids, NEW x, Comes(p, x)
  PROVE  Comes(p, x)'
<1>1. CASE docs[p] = x /\ Untold(p)
  <2>1. 1 \in 1..Len(imports) /\ \A j \in 1..Len(imports') : j + 1 \in 1..Len(imports)
    BY TailFacts
  <2>2. docs'[p] = x
    BY <1>1, <2>1, TailFacts DEF Untold
  <2>3. \A j \in 1..Len(imports') : p \notin imports'[j].ids
    BY <1>1, <2>1, TailFacts DEF Untold
  <2>. QED BY <2>2, <2>3 DEF Comes, Untold
<1>2. ASSUME NEW i \in 1..Len(imports), p \in imports[i].ids, imports[i].entry = x,
             \A j \in 1..Len(imports) : j > i => p \notin imports[j].ids
      PROVE  Comes(p, x)'
  <2>1. CASE i = 1
    <3>1. docs'[p] = x
      BY <1>2, <2>1, TailFacts
    <3>2. \A j \in 1..Len(imports') : p \notin imports'[j].ids
      BY <1>2, <2>1, TailFacts
    <3>. QED BY <3>1, <3>2 DEF Comes, Untold
  <2>2. CASE i # 1
    <3>1. i - 1 \in 1..Len(imports') /\ imports'[i - 1] = imports[i]
      BY <2>2, TailFacts
    <3>2. \A j \in 1..Len(imports') : j > i - 1 => p \notin imports'[j].ids
      BY <1>2, TailFacts
    <3>. QED BY <1>2, <3>1, <3>2 DEF Comes
  <2>. QED BY <2>1, <2>2
<1>. QED BY <1>1, <1>2 DEF Comes

-----------------------------------------------------------------------------
\* What has been told and deleted stays so.
Onward ==
    \A c \in Volumes : (Cleared(c) => Cleared(c)') /\ (Told(c) => Told(c)')

\* A task that fits what is known of its book still fits after a step onward.
LEMMA TasksStay ==
  ASSUME Onward, NEW task, TaskFits(task)
  PROVE  TaskFits(task)'
  BY DEF TaskFits, Onward, Fits

\* A step that leaves the queue alone, or adds a task that fits.
LEMMA QueueFits ==
  ASSUME LibraryTypeOK, Onward, \A i \in 1..Len(imports) : TaskFits(imports[i]),
         \/ imports' = imports
         \/ \E task \in TaskType : imports' = Append(imports, task) /\ TaskFits(task)'
  PROVE  /\ imports' \in Seq(TaskType)
         /\ (\A i \in 1..Len(imports) : TaskFits(imports[i]))'
<1>1. CASE imports' = imports
  <2>1. ASSUME NEW i \in 1..Len(imports') PROVE TaskFits(imports[i])'
    <3>1. PICK task : task = imports[i] /\ task = imports'[i]
      BY <1>1
    <3>2. TaskFits(task)'
      BY <1>1, <2>1, <3>1, TasksStay
    <3>. QED BY <3>1, <3>2 DEF TaskFits, Fits
  <2>. QED BY <1>1, <2>1 DEF LibraryTypeOK, EditType
<1>2. ASSUME NEW new \in TaskType, imports' = Append(imports, new), TaskFits(new)'
      PROVE  /\ imports' \in Seq(TaskType)
             /\ (\A i \in 1..Len(imports) : TaskFits(imports[i]))'
  <2>1. /\ imports' \in Seq(TaskType)
        /\ \A i \in 1..Len(imports') : \/ imports'[i] = new
                                       \/ i \in 1..Len(imports) /\ imports'[i] = imports[i]
    BY <1>2 DEF LibraryTypeOK, EditType
  <2>2. ASSUME NEW i \in 1..Len(imports') PROVE TaskFits(imports[i])'
    <3>1. PICK task : task = imports'[i]
      OBVIOUS
    <3>2. TaskFits(task)'
      BY <1>2, <2>1, <2>2, <3>1, TasksStay
    <3>. QED BY <3>1, <3>2 DEF TaskFits, Fits
  <2>. QED BY <2>1, <2>2
<1>. QED BY <1>1, <1>2

\* A step of which a book notices nothing.
Unnoticed(b) ==
    /\ row'[b] = row[b] /\ indexing'[b] = indexing[b] /\ deletion'[b] = deletion[b]
    /\ \A e \in Editors : edit'[e] = edit[e] \/ (edit'[e].book # b /\ edit[e].book # b)
    /\ \A p \in Own(b) : points'[p] = points[p]
    /\ docs' = docs
    /\ \/ imports' = imports
       \/ \E task \in TaskType : /\ imports' = Append(imports, task)
                                 /\ task.by # b /\ task.ids \cap Own(b) = {}

\* What a step does elsewhere leaves a book's part of the invariant true.
LEMMA UnnoticedStays ==
  ASSUME LibraryTypeOK, NEW b \in Volumes, BookInv(b), Unnoticed(b)
  PROVE  BookInv(b)'
<1>1. /\ Editing(b)' = Editing(b) /\ Told(b)' = Told(b) /\ Cleared(b)' = Cleared(b)
      /\ Writing(b)' = Writing(b) /\ Current(b)' = Current(b)
  BY DEF Unnoticed, Editing, Told, Cleared, Writing, Current
<1>2. /\ Importing(b)' = Importing(b)
      /\ \A p \in Own(b) : Untold(p) => Untold(p)'
      /\ \A p \in Own(b) : \A x : Comes(p, x) => Comes(p, x)'
  <2>1. CASE imports' = imports
    BY <2>1 DEF Importing, Untold, Comes, Unnoticed
  <2>2. ASSUME NEW task \in TaskType, imports' = Append(imports, task),
               task.by # b, task.ids \cap Own(b) = {}
        PROVE  /\ Importing(b)' = Importing(b)
               /\ \A p \in Own(b) : Untold(p) => Untold(p)'
               /\ \A p \in Own(b) : \A x : Comes(p, x) => Comes(p, x)'
    <3>1. /\ Len(imports') = Len(imports) + 1 /\ Len(imports) \in Nat
          /\ imports'[Len(imports) + 1] = task
          /\ \A i \in 1..Len(imports) : imports'[i] = imports[i]
      BY <2>2 DEF LibraryTypeOK, EditType
    <3>2. Importing(b)' = Importing(b)
      BY <2>2, <3>1 DEF Importing
    <3>3. \A p \in Own(b) : Untold(p) => Untold(p)'
      BY <2>2, <3>1 DEF Untold
    <3>4. \A p \in Own(b) : \A x : Comes(p, x) => Comes(p, x)'
      BY <2>2, AppendComes DEF Unnoticed
    <3>. QED BY <3>2, <3>3, <3>4
  <2>. QED BY <2>1, <2>2 DEF Unnoticed
<1>3. OneAtATime(b)'
  BY <1>1, <1>2 DEF BookInv, OneAtATime, Unnoticed
<1>4. ASSUME NEW p \in Own(b) PROVE PointKnown(b, p)'
  BY <1>1 DEF BookInv, PointKnown, Unnoticed
<1>5. ASSUME NEW p \in Own(b) PROVE DocKnown(b, p)'
  <2>1. docs'[p] = docs[p]
    BY DEF Unnoticed
  <2>2. Comes(p, Nowhere) => Comes(p, Nowhere)'
    BY <1>2
  <2>3. Comes(p, Current(b)) => Comes(p, Current(b))'
    <3>1. PICK x : x = Current(b)
      OBVIOUS
    <3>2. Comes(p, x) => Comes(p, x)'
      BY <1>2
    <3>. QED BY <1>1, <3>1, <3>2 DEF Comes
  <2>. QED BY <1>1, <1>2, <2>1, <2>2, <2>3 DEF BookInv, DocKnown, Unnoticed
<1>. QED BY <1>3, <1>4, <1>5 DEF BookInv, Own

-----------------------------------------------------------------------------
(* The worker. *)
LEMMA InitLibrary == LibraryInit => LibraryInv
<1>. SUFFICES ASSUME LibraryInit PROVE LibraryInv
  OBVIOUS
<1>1. 0 \in 0..MaxEdits
  BY LibraryAssumption DEF LibraryAssumption
<1>2. LibraryTypeOK
  BY <1>1, EmptySeq DEF LibraryInit, LibraryTypeOK, EditType, NoEdit, Slot
<1>3. EntriesFit
  BY EmptySeq DEF LibraryInit, EntriesFit, NoEdit, Fits
<1>4. \A b \in Volumes : BookInv(b)
  BY EmptySeq, OwnIsOwn, LibraryAssumption
     DEF LibraryInit, BookInv, OneAtATime, PointKnown, DocKnown, Told, Writing, Importing,
         Editing, Untold, NoEdit, LibraryAssumption
<1>. QED BY <1>2, <1>3, <1>4 DEF LibraryInv

\* Neither the queue nor the documents change.
LEMMA SameDocs ==
  ASSUME NEW b \in Volumes, UNCHANGED <<docs, imports>>
  PROVE  /\ Importing(b)' = Importing(b)
         /\ \A p : Untold(p)' = Untold(p)
         /\ \A p, x : Comes(p, x)' = Comes(p, x)
  BY DEF Importing, Untold, Comes

\* The worker reads the book's row.
LEMMA ReadMetadataKeeps ==
  ASSUME LibraryInv, NEW b \in Volumes, ReadMetadata(b)
  PROVE  LibraryInv'
<1>1. LibraryTypeOK'
  BY DEF LibraryInv, LibraryTypeOK, EditType, ReadMetadata, Crosses
<1>2. Onward
  BY DEF Onward, ReadMetadata, LibraryInv, LibraryTypeOK, EditType, Cleared, Told
<1>3. EntriesFit'
  BY <1>2, QueueFits DEF ReadMetadata, LibraryInv, EntriesFit, Fits
<1>4. ASSUME NEW c \in Volumes \ crossed', c # b PROVE BookInv(c)'
  <2>1. Unnoticed(c) /\ c \notin crossed
    BY <1>4 DEF ReadMetadata, Unnoticed, Crosses, LibraryInv, LibraryTypeOK, EditType
  <2>. QED BY <1>4, <2>1, UnnoticedStays DEF LibraryInv
<1>5. ASSUME b \notin crossed' PROVE BookInv(b)'
  <2>1. ~Busy(b) /\ BookInv(b)
    BY <1>5 DEF ReadMetadata, Crosses, LibraryInv, LibraryTypeOK, EditType
  <2>2. /\ indexing'[b] = [pc |-> "points", version |-> row[b].version]
        /\ indexing[b].pc = "chunk" /\ row[b].status = "pending"
        /\ UNCHANGED <<row, points, docs, imports, edit, deletion>>
    BY DEF ReadMetadata, LibraryInv, LibraryTypeOK, EditType
  <2>3. Editing(b)' = Editing(b) /\ ~Editing(b) /\ ~Importing(b)'
    BY <2>1, <2>2, SameDocs
       DEF Busy, Editing, Indexing, Importing, LibraryInv, LibraryTypeOK, EditType
  <2>4. deletion[b].pc = "none"
    BY <2>1, <2>2 DEF Busy, Deleting, BookInv, OneAtATime
  <2>5. OneAtATime(b)'
    BY <2>1, <2>2, <2>3, <2>4 DEF BookInv, OneAtATime, Writing, Editing
  <2>6. ASSUME NEW p \in Own(b) PROVE PointKnown(b, p)' /\ DocKnown(b, p)'
    BY <2>1, <2>2, <2>4, SameDocs DEF BookInv, PointKnown, DocKnown, Told
  <2>. QED BY <2>5, <2>6 DEF BookInv, Own
<1>. QED BY <1>1, <1>3, <1>4, <1>5 DEF LibraryInv

\* The worker writes the points.
LEMMA UpsertPointsKeeps ==
  ASSUME LibraryInv, NEW b \in Volumes, UpsertPoints(b)
  PROVE  LibraryInv'
<1>1. /\ points' \in [Ids -> Slot]
      /\ \A p \in Ids : points'[p] = IF p \in IdsOf[b] THEN Entry(b, indexing[b].version)
                                     ELSE points[p]
      /\ Entry(b, indexing[b].version) # Nowhere
      /\ Entry(b, indexing[b].version).book = b
  <2>1. IdsOf[b] \in SUBSET Ids /\ indexing[b].version \in 0..MaxEdits /\ points \in [Ids -> Slot]
    BY LibraryAssumption DEF LibraryAssumption, LibraryInv, LibraryTypeOK, EditType
  <2>2. PICK entry : entry = Entry(b, indexing[b].version)
    OBVIOUS
  <2>3. entry \in Slot /\ entry # Nowhere /\ entry.book = b
    BY <2>1, <2>2, EntryFacts
  <2>4. points' = Stored(points, IdsOf[b], entry)
    BY <2>2 DEF UpsertPoints
  <2>5. /\ points' \in [Ids -> Slot]
        /\ \A p \in Ids : points'[p] = IF p \in IdsOf[b] THEN entry ELSE points[p]
    BY <2>1, <2>3, <2>4 DEF Stored
  <2>. QED BY <2>2, <2>3, <2>5
<1>2. LibraryTypeOK'
  BY <1>1, SMTT(30) DEF LibraryInv, LibraryTypeOK, EditType, UpsertPoints
<1>3. Onward
  BY DEF Onward, UpsertPoints, LibraryInv, LibraryTypeOK, EditType, Cleared, Told
<1>4. EntriesFit'
  BY <1>1, <1>3, QueueFits DEF UpsertPoints, LibraryInv, EntriesFit, Fits
<1>5. ASSUME NEW c \in Volumes \ crossed', c # b PROVE BookInv(c)'
  <2>1. \A p \in Own(c) : points'[p] = points[p]
    BY <1>1, <1>5, OwnIsOwn
  <2>2. Unnoticed(c) /\ c \notin crossed
    BY <1>5, <2>1 DEF UpsertPoints, Unnoticed, LibraryInv, LibraryTypeOK, EditType
  <2>. QED BY <1>5, <2>2, UnnoticedStays DEF LibraryInv
<1>6. ASSUME b \notin crossed' PROVE BookInv(b)'
  <2>1. /\ BookInv(b) /\ indexing[b].pc = "points"
        /\ indexing'[b] = [pc |-> "docs", version |-> indexing[b].version]
        /\ UNCHANGED <<row, docs, imports, edit, deletion>>
    BY <1>6 DEF UpsertPoints, LibraryInv, LibraryTypeOK, EditType
  <2>2. Editing(b)' = Editing(b) /\ Importing(b)' = Importing(b)
    BY <2>1, SameDocs DEF Editing
  <2>3. deletion[b].pc = "none" /\ indexing[b].version = row[b].version
    BY <2>1 DEF BookInv, OneAtATime, Writing
  <2>4. OneAtATime(b)'
    BY <2>1, <2>2 DEF BookInv, OneAtATime, Writing
  <2>5. ASSUME NEW p \in Own(b) PROVE PointKnown(b, p)' /\ DocKnown(b, p)'
    <3>1. points'[p] = Current(b) /\ points'[p] # Nowhere /\ Current(b)' = Current(b)
      BY <1>1, <2>1, <2>3, OwnIsOwn DEF Current
    <3>. QED BY <2>1, <2>3, <3>1, SameDocs DEF BookInv, PointKnown, DocKnown, Told
  <2>. QED BY <2>4, <2>5 DEF BookInv, Own
<1>. QED BY <1>2, <1>4, <1>5, <1>6 DEF LibraryInv

\* The worker hands the documents to the search index.
LEMMA AddDocumentsKeeps ==
  ASSUME LibraryInv, NEW b \in Volumes, AddDocuments(b)
  PROVE  LibraryInv'
<1>. DEFINE entry == Entry(b, indexing[b].version)
            new == Task(b, IdsOf[b], entry)
<1>1. /\ IdsOf[b] \in SUBSET Ids /\ entry \in Slot /\ entry # Nowhere /\ entry.book = b
      /\ b # Nowhere
  BY EntryFacts, LibraryAssumption DEF LibraryAssumption, LibraryInv, LibraryTypeOK, EditType
<1>2. /\ new \in TaskType /\ new.by = b /\ new.ids = IdsOf[b] /\ new.entry = entry
      /\ imports' = Append(imports, new)
  BY <1>1 DEF Task, TaskType, AddDocuments
<1>3. PICK t : t = new
  OBVIOUS
<1>4. /\ indexing[b].pc = "docs"
      /\ indexing'[b] = [pc |-> "wait", version |-> indexing[b].version]
      /\ \A c \in Volumes : c # b => indexing'[c] = indexing[c]
      /\ UNCHANGED <<row, points, docs, edit, deletion, edits, crossed>>
  BY DEF AddDocuments, LibraryInv, LibraryTypeOK, EditType
<1>5. Onward
  BY <1>4 DEF Onward, Cleared, Told
<1>6. TaskFits(t)'
  BY <1>1, <1>2, <1>3, <1>4 DEF TaskFits, Fits, Told
<1>7. /\ imports' \in Seq(TaskType)
      /\ (\A i \in 1..Len(imports) : TaskFits(imports[i]))'
  BY <1>2, <1>3, <1>5, <1>6, QueueFits DEF LibraryInv, EntriesFit
<1>8. LibraryTypeOK'
  BY <1>7 DEF LibraryInv, LibraryTypeOK, EditType, AddDocuments
<1>9. EntriesFit'
  BY <1>4, <1>7 DEF LibraryInv, EntriesFit, Fits
<1>10. ASSUME NEW c \in Volumes \ crossed', c # b PROVE BookInv(c)'
  <2>1. t.ids \cap Own(c) = {}
    BY <1>2, <1>3, <1>10, OwnIsOwn
  <2>2. Unnoticed(c) /\ c \notin crossed
    BY <1>2, <1>3, <1>4, <1>10, <2>1 DEF Unnoticed
  <2>. QED BY <1>10, <2>2, UnnoticedStays DEF LibraryInv
<1>11. ASSUME b \notin crossed' PROVE BookInv(b)'
  <2>1. BookInv(b)
    BY <1>4, <1>11 DEF LibraryInv
  <2>2. /\ deletion[b].pc = "none" /\ indexing[b].version = row[b].version
        /\ ~Editing(b) /\ ~Editing(b)'
    BY <1>4, <2>1 DEF BookInv, OneAtATime, Writing, Editing
  <2>3. Importing(b)'
    <3>1. Len(imports') = Len(imports) + 1 /\ Len(imports) \in Nat
          /\ imports'[Len(imports) + 1] = t
      BY <1>2, <1>3 DEF LibraryInv, LibraryTypeOK, EditType
    <3>2. Len(imports) + 1 \in 1..Len(imports') /\ t.by = b
      BY <1>2, <1>3, <3>1
    <3>. QED BY <3>1, <3>2 DEF Importing
  <2>4. OneAtATime(b)'
    BY <1>4, <2>1, <2>2 DEF BookInv, OneAtATime, Writing
  <2>5. ASSUME NEW p \in Own(b) PROVE PointKnown(b, p)' /\ DocKnown(b, p)'
    <3>1. PICK x : x = entry
      OBVIOUS
    <3>2. Comes(p, x)'
      BY <1>2, <1>3, <1>4, <2>5, <3>1, AppendComes, OwnIsOwn DEF LibraryInv
    <3>3. Comes(p, Current(b))'
      <4>1. Current(b)' = x
        BY <1>4, <2>2, <3>1 DEF Current
      <4>. QED BY <3>2, <4>1 DEF Comes
    <3>4. DocKnown(b, p)'
      BY <1>4, <2>2, <2>3, <3>3 DEF DocKnown, Told, Cleared, Editing
    <3>5. PointKnown(b, p)'
      BY <1>4, <2>1 DEF BookInv, PointKnown, Current
    <3>. QED BY <3>4, <3>5
  <2>. QED BY <2>4, <2>5 DEF BookInv, Own
<1>. QED BY <1>8, <1>9, <1>10, <1>11 DEF LibraryInv

\* The worker is done waiting for the index and marks the book's row ready.
LEMMA BookReadyKeeps ==
  ASSUME LibraryInv, NEW b \in Volumes, BookReady(b)
  PROVE  LibraryInv'
<1>1. /\ indexing[b].pc = "wait"
      /\ indexing'[b] = [pc |-> "over", version |-> indexing[b].version]
      /\ row'[b] = IF row[b].status = "pending" THEN [row[b] EXCEPT !.status = "ready"] ELSE row[b]
      /\ \A c \in Volumes : c # b => indexing'[c] = indexing[c] /\ row'[c] = row[c]
      /\ UNCHANGED <<points, docs, imports, edit, deletion, edits, crossed>>
  BY DEF BookReady, LibraryInv, LibraryTypeOK, EditType
<1>2. LibraryTypeOK'
  <2>. DEFINE Row == [status : {"pending", "ready", "absent"}, version : 0..MaxEdits]
              Run == [pc : {"chunk", "points", "docs", "wait", "over"}, version : 0..MaxEdits]
  <2>1. row \in [Volumes -> Row] /\ indexing \in [Volumes -> Run]
    BY DEF LibraryInv, LibraryTypeOK, EditType
  <2>2. row'[b] \in Row /\ indexing'[b] \in Run
    BY <1>1, <2>1
  <2>3. /\ DOMAIN row' = Volumes /\ DOMAIN indexing' = Volumes
        /\ row' = [c \in Volumes |-> row'[c]] /\ indexing' = [c \in Volumes |-> indexing'[c]]
    BY <2>1 DEF BookReady
  <2>. HIDE DEF Row, Run
  <2>4. row' \in [Volumes -> Row] /\ indexing' \in [Volumes -> Run]
    BY <1>1, <2>1, <2>2, <2>3
  <2>. QED BY <1>1, <2>4 DEF LibraryInv, LibraryTypeOK, EditType, Row, Run
<1>3. Onward
  BY <1>1 DEF Onward, Cleared, Told
<1>4. EntriesFit'
  BY <1>1, <1>3, QueueFits DEF LibraryInv, EntriesFit, Fits
<1>5. ASSUME NEW c \in Volumes \ crossed', c # b PROVE BookInv(c)'
  <2>1. Unnoticed(c) /\ c \notin crossed
    BY <1>1, <1>5 DEF Unnoticed
  <2>. QED BY <1>5, <2>1, UnnoticedStays DEF LibraryInv
<1>6. ASSUME b \notin crossed' PROVE BookInv(b)'
  <2>1. BookInv(b)
    BY <1>1, <1>6 DEF LibraryInv
  <2>2. /\ deletion[b].pc = "none" /\ row[b].status = "pending"
        /\ ~Editing(b) /\ Editing(b)' = Editing(b) /\ Importing(b)' = Importing(b)
    BY <1>1, <2>1, SameDocs DEF BookInv, OneAtATime, Writing, Editing
  <2>3. row'[b].status = "ready" /\ row'[b].version = row[b].version
    BY <1>1, <2>2 DEF LibraryInv, LibraryTypeOK, EditType
  <2>4. OneAtATime(b)'
    BY <1>1, <2>1, <2>2, <2>3 DEF BookInv, OneAtATime, Writing
  <2>5. ASSUME NEW p \in Own(b) PROVE PointKnown(b, p)' /\ DocKnown(b, p)'
    <3>1. Current(b)' = Current(b)
      BY <2>3 DEF Current
    <3>2. Comes(p, Current(b)) => Comes(p, Current(b))'
      BY <1>1, <3>1 DEF Comes, Untold
    <3>. QED BY <1>1, <2>1, <2>2, <3>1, <3>2 DEF BookInv, PointKnown, DocKnown, Told, Cleared
  <2>. QED BY <2>4, <2>5 DEF BookInv, Own
<1>. QED BY <1>2, <1>4, <1>5, <1>6 DEF LibraryInv

-----------------------------------------------------------------------------
(* Meilisearch. *)
\* The document that a task leaves is one that its passage may have.
LEMMA DoTaskFits ==
  ASSUME LibraryInv, DoTask
  PROVE  LibraryTypeOK' /\ EntriesFit'
<1>1. LibraryTypeOK /\ UNCHANGED <<row, points, indexing, edit, deletion, edits, crossed>>
  BY DEF DoTask, LibraryInv
<1>2. LibraryTypeOK'
  BY <1>1, TailFacts DEF LibraryTypeOK, EditType
<1>3. Onward
  BY <1>1 DEF Onward, Cleared, Told
<1>4. ASSUME NEW i \in 1..Len(imports') PROVE TaskFits(imports[i])'
  <2>1. PICK task : task = imports[i + 1]
    OBVIOUS
  <2>2. i + 1 \in 1..Len(imports) /\ imports'[i] = task
    BY <1>1, <1>4, <2>1, TailFacts
  <2>3. TaskFits(task)
    BY <2>1, <2>2 DEF LibraryInv, EntriesFit
  <2>4. TaskFits(task)'
    BY <1>3, <2>3, TasksStay
  <2>. QED BY <2>2, <2>4 DEF TaskFits, Fits
<1>5. ASSUME NEW p \in Ids PROVE Fits({p}, docs[p])'
  <2>1. /\ 1 \in 1..Len(imports)
        /\ docs'[p] = IF p \in imports[1].ids THEN imports[1].entry ELSE docs[p]
    BY <1>1, TailFacts
  <2>2. Fits(imports[1].ids, imports[1].entry) /\ Fits({p}, docs[p])
    BY <2>1 DEF LibraryInv, EntriesFit, TaskFits
  <2>. QED BY <2>1, <2>2 DEF Fits
<1>6. EntriesFit'
  BY <1>1, <1>4, <1>5 DEF LibraryInv, EntriesFit, Fits
<1>. QED BY <1>2, <1>6

\* The search index does its next task.
LEMMA DoTaskKeeps ==
  ASSUME LibraryInv, DoTask
  PROVE  LibraryInv'
<1>1. LibraryTypeOK /\ UNCHANGED <<row, points, indexing, edit, deletion, edits, crossed>>
  BY DEF DoTask, LibraryInv
<1>2. ASSUME NEW b \in Volumes \ crossed' PROVE BookInv(b)'
  <2>1. BookInv(b)
    BY <1>1, <1>2 DEF LibraryInv
  <2>2. Importing(b)' => Importing(b)
    BY <1>1, TailFacts DEF Importing
  <2>3. /\ Editing(b)' = Editing(b) /\ Told(b)' = Told(b) /\ Cleared(b)' = Cleared(b)
        /\ Writing(b)' = Writing(b) /\ Current(b)' = Current(b)
    BY <1>1 DEF Editing, Told, Cleared, Writing, Current
  <2>4. OneAtATime(b)'
    BY <1>1, <2>1, <2>2, <2>3 DEF BookInv, OneAtATime
  <2>5. ASSUME NEW p \in Own(b) PROVE PointKnown(b, p)' /\ DocKnown(b, p)'
    <3>1. /\ p \in Ids /\ p \in IdsOf[b] /\ 1 \in 1..Len(imports)
          /\ \A c \in Volumes : p \in IdsOf[c] => c = b
          /\ docs'[p] = IF p \in imports[1].ids THEN imports[1].entry ELSE docs[p]
      BY <1>1, TailFacts, OwnIsOwn
    <3>2. PointKnown(b, p)'
      BY <1>1, <2>1, <2>3 DEF BookInv, PointKnown
    <3>3. CASE ~Told(b)
      <4>1. Untold(p) /\ docs[p] = Nowhere /\ p \notin deletion[b].found
        BY <2>1, <3>3 DEF BookInv, DocKnown
      <4>2. Untold(p)'
        BY <1>1, <4>1, TailFacts DEF Untold
      <4>3. docs'[p] = Nowhere
        BY <3>1, <4>1 DEF Untold
      <4>. QED BY <1>1, <2>3, <3>2, <3>3, <4>1, <4>2, <4>3 DEF DocKnown
    <3>4. CASE Told(b) /\ Cleared(b)
      BY <1>1, <2>1, <2>3, <3>1, <3>2, <3>4, TailComes DEF BookInv, DocKnown
    <3>5. CASE Told(b) /\ ~Cleared(b)
      <4>1. Importing(b)' \/ docs'[p] # Nowhere
        <5>1. TaskFits(imports[1])
          BY <3>1 DEF LibraryInv, EntriesFit
        <5>2. p \in imports[1].ids => imports[1].entry # Nowhere
          BY <3>1, <3>5, <5>1 DEF TaskFits
        <5>3. ASSUME NEW i \in 1..Len(imports), imports[i].by = b, i # 1
              PROVE  Importing(b)'
          <6>1. i - 1 \in 1..Len(imports') /\ imports'[i - 1] = imports[i]
            BY <1>1, <5>3, TailFacts
          <6>. QED BY <5>3, <6>1 DEF Importing
        <5>4. imports[1].by = b => imports[1].ids = IdsOf[b]
          BY <5>1 DEF TaskFits
        <5>5. Importing(b) \/ docs[p] # Nowhere
          BY <2>1, <3>5 DEF BookInv, DocKnown
        <5>. QED BY <3>1, <5>2, <5>3, <5>4, <5>5 DEF Importing
      <4>2. Comes(p, Current(b)) => Comes(p, Current(b))'
        <5>1. PICK x : x = Current(b)
          OBVIOUS
        <5>2. Comes(p, x) => Comes(p, x)'
          BY <1>1, <3>1, TailComes
        <5>. QED BY <2>3, <5>1, <5>2 DEF Comes
      <4>. QED BY <1>1, <2>1, <2>3, <3>2, <3>5, <4>1, <4>2 DEF BookInv, DocKnown
    <3>. QED BY <3>3, <3>4, <3>5
  <2>. QED BY <2>4, <2>5 DEF BookInv, Own
<1>. QED BY <1>1, <1>2, DoTaskFits DEF LibraryInv

-----------------------------------------------------------------------------
(* update_book. *)
LEMMA EditRowKeeps ==
  ASSUME LibraryInv, NEW e \in Editors, NEW b \in Volumes, EditRow(e, b)
  PROVE  LibraryInv'
<1>. DEFINE begun == [pc |-> "points", book |-> b, version |-> edits + 1, found |-> {}]
<1>1. /\ edit[e].pc = "idle" /\ edit[e].book = Nowhere /\ b # Nowhere
      /\ edits + 1 \in 0..MaxEdits
      /\ row[b].status # "absent"
  BY LibraryAssumption
     DEF EditRow, LibraryInv, LibraryTypeOK, EditType, EntriesFit, LibraryAssumption
<1>2. /\ row'[b] = [status |-> row[b].status, version |-> edits + 1]
      /\ \A c \in Volumes : c # b => row'[c] = row[c]
      /\ edit'[e] = IF row[b].status = "ready" THEN begun ELSE edit[e]
      /\ \A f \in Editors : f # e => edit'[f] = edit[f]
      /\ UNCHANGED <<points, docs, imports, indexing, deletion>>
      /\ crossed' = IF Busy(b) THEN crossed \cup {b} ELSE crossed
      /\ edits' = edits + 1
  BY DEF EditRow, LibraryInv, LibraryTypeOK, EditType, Crosses
<1>3. LibraryTypeOK'
  <2>1. row' \in [Volumes -> [status : {"pending", "ready", "absent"}, version : 0..MaxEdits]]
    BY <1>1 DEF EditRow, LibraryInv, LibraryTypeOK, EditType
  <2>2. begun \in [pc : {"idle", "points", "search", "add"}, book : Volumes \cup {Nowhere},
                   version : 0..MaxEdits, found : SUBSET Ids]
    BY <1>1
  <2>. HIDE DEF begun
  <2>3. edit' = edit \/ edit' = [edit EXCEPT ![e] = begun]
    BY DEF EditRow, begun
  <2>4. edit' \in [Editors -> [pc : {"idle", "points", "search", "add"},
                               book : Volumes \cup {Nowhere},
                               version : 0..MaxEdits, found : SUBSET Ids]]
    BY <2>2, <2>3 DEF LibraryInv, LibraryTypeOK, EditType
  <2>. QED BY <1>1, <1>2, <2>1, <2>4 DEF LibraryInv, LibraryTypeOK, EditType
<1>4. Onward
  BY <1>2 DEF Onward, Cleared, Told
<1>5. EntriesFit'
  <2>1. \A f \in Editors :
           /\ edit'[f].pc = "idle" <=> edit'[f].book = Nowhere
           /\ edit'[f].book # Nowhere => edit'[f].found \subseteq IdsOf[edit'[f].book]
    BY <1>1, <1>2 DEF LibraryInv, EntriesFit
  <2>. QED BY <1>2, <1>4, <2>1, QueueFits DEF LibraryInv, EntriesFit, Fits
<1>6. ASSUME NEW c \in Volumes \ crossed', c # b PROVE BookInv(c)'
  <2>1. c # Nowhere
    BY LibraryAssumption DEF LibraryAssumption
  <2>2. Unnoticed(c) /\ c \notin crossed
    BY <1>1, <1>2, <1>6, <2>1 DEF Unnoticed
  <2>. QED BY <1>6, <2>2, UnnoticedStays DEF LibraryInv
<1>7. ASSUME b \notin crossed' PROVE BookInv(b)'
  <2>1. BookInv(b) /\ ~Busy(b)
    BY <1>2, <1>7 DEF LibraryInv
  <2>2. /\ ~Editing(b) /\ deletion[b].pc = "none" /\ ~Importing(b)
        /\ indexing[b].pc \in {"chunk", "over"}
        /\ \A f \in Editors : edit[f].book # b
    BY <1>1, <2>1
       DEF Busy, Editing, Deleting, Indexing, Importing, BookInv, OneAtATime,
           LibraryInv, LibraryTypeOK, EditType
  <2>3. ~Importing(b)' /\ ~Writing(b)' /\ Told(b)' = Told(b) /\ ~Cleared(b)'
    BY <1>2, <2>2, SameDocs DEF Writing, Told, Cleared
  <2>4. row[b].status = IF indexing[b].pc = "over" THEN "ready" ELSE "pending"
    BY <2>1, <2>2 DEF BookInv, OneAtATime
  <2>5. \A f \in Editors : edit'[f].book = b =>
           f = e /\ row[b].status = "ready" /\ edit'[f] = begun
    BY <1>1, <1>2, <2>2
  <2>6. row[b].status = "ready" => Editing(b)' /\ edit'[e].book = b /\ edit'[e].pc = "points"
    BY <1>2 DEF Editing
  <2>7. OneAtATime(b)'
    BY <1>2, <2>2, <2>3, <2>4, <2>5 DEF OneAtATime
  <2>8. ASSUME NEW p \in Own(b) PROVE PointKnown(b, p)' /\ DocKnown(b, p)'
    <3>1. CASE indexing[b].pc = "chunk"
      BY <1>2, <2>1, <2>2, <2>3, <3>1, SameDocs DEF BookInv, PointKnown, DocKnown, Told
    <3>2. CASE indexing[b].pc = "over"
      <4>1. points[p] # Nowhere /\ docs[p] # Nowhere
        BY <2>1, <2>2, <3>2 DEF BookInv, PointKnown, DocKnown, Told, Cleared
      <4>. QED BY <1>2, <2>2, <2>3, <2>4, <2>5, <2>6, <3>2, <4>1
               DEF PointKnown, DocKnown, Told, Cleared
    <3>. QED BY <2>2, <3>1, <3>2
  <2>. QED BY <2>7, <2>8 DEF BookInv, Own
<1>. QED BY <1>3, <1>5, <1>6, <1>7 DEF LibraryInv

\* The entries of a book are on its passages, and on a passage of its own there
\* is no other.
LEMMA OfFacts ==
  ASSUME NEW index \in [Ids -> Slot], \A p \in Ids : Fits({p}, index[p]), NEW b \in Volumes
  PROVE  /\ Of(index, b) \in SUBSET Ids /\ Of(index, b) \subseteq IdsOf[b]
         /\ \A p \in Own(b) : index[p] # Nowhere => p \in Of(index, b)
<1>1. /\ Of(index, b) \in SUBSET Ids /\ Of(index, b) \subseteq IdsOf[b]
  BY DEF Of, Fits
<1>2. ASSUME NEW p \in Own(b), index[p] # Nowhere PROVE p \in Of(index, b)
  <2>1. p \in Ids /\ \A c \in Volumes : p \in IdsOf[c] => c = b
    BY OwnIsOwn
  <2>2. index[p] \in Entries /\ p \in IdsOf[index[p].book]
    BY <1>2, <2>1 DEF Fits, Slot
  <2>3. index[p].book \in Volumes
    BY <2>2 DEF Entries
  <2>. QED BY <1>2, <2>1, <2>2, <2>3 DEF Of
<1>. QED BY <1>1, <1>2

\* A request that writes is the only one on its book, which is ready.
LEMMA EditsAlone ==
  ASSUME LibraryInv, NEW e \in Editors, edit[e].pc # "idle"
  PROVE  /\ edit[e].book \in Volumes /\ edit[e].book # Nowhere
         /\ edit[e].version \in 0..MaxEdits
         /\ edit[e].book \notin crossed =>
                /\ BookInv(edit[e].book) /\ Editing(edit[e].book)
                /\ deletion[edit[e].book].pc = "none" /\ ~Importing(edit[e].book)
                /\ indexing[edit[e].book].pc = "over"
                /\ edit[e].version = row[edit[e].book].version
                /\ \A f \in Editors : edit[f].book = edit[e].book => f = e
<1>1. /\ edit[e].book \in Volumes /\ edit[e].book # Nowhere
      /\ edit[e].version \in 0..MaxEdits
  BY DEF LibraryInv, LibraryTypeOK, EditType, EntriesFit
<1>2. PICK b \in Volumes : b = edit[e].book
  BY <1>1
<1>3. ASSUME b \notin crossed
      PROVE  /\ BookInv(b) /\ Editing(b)
             /\ deletion[b].pc = "none" /\ ~Importing(b)
             /\ indexing[b].pc = "over"
             /\ edit[e].version = row[b].version
             /\ \A f \in Editors : edit[f].book = b => f = e
  <2>1. BookInv(b) /\ Editing(b)
    BY <1>2, <1>3 DEF LibraryInv, Editing
  <2>. QED BY <1>2, <2>1 DEF BookInv, OneAtATime, Writing, LibraryInv, LibraryTypeOK, EditType
<1>. QED BY <1>1, <1>2, <1>3

\* A step of one request.
LEMMA EditTyped ==
  ASSUME LibraryTypeOK, NEW e \in Editors, NEW new \in EditType, edit' = [edit EXCEPT ![e] = new]
  PROVE  edit' \in [Editors -> EditType]
<1>1. edit \in [Editors -> EditType]
  BY DEF LibraryTypeOK, EditType
<1>. QED BY <1>1

\* An edit changes the payload of the points.
LEMMA EditPointsKeeps ==
  ASSUME LibraryInv, NEW e \in Editors, EditPoints(e)
  PROVE  LibraryInv'
<1>1. PICK b \in Volumes : b = edit[e].book
  BY EditsAlone DEF EditPoints
<1>2. PICK entry : entry = Entry(b, edit[e].version)
  OBVIOUS
<1>3. entry \in Slot /\ entry # Nowhere /\ entry.book = b /\ b # Nowhere
  BY <1>1, <1>2, EditsAlone, EntryFacts DEF EditPoints
<1>4. PICK ids : ids = Of(points, b)
  OBVIOUS
<1>5. points \in [Ids -> Slot] /\ \A p \in Ids : Fits({p}, points[p])
  BY DEF LibraryInv, LibraryTypeOK, EditType, EntriesFit
<1>6. /\ ids \in SUBSET Ids /\ ids \subseteq IdsOf[b]
      /\ \A p \in Own(b) : points[p] # Nowhere => p \in ids
  BY <1>4, <1>5, OfFacts
<1>7. points' = Stored(points, ids, entry)
  BY <1>1, <1>2, <1>4 DEF EditPoints
<1>8. /\ points' \in [Ids -> Slot]
      /\ \A p \in Ids : points'[p] = IF p \in ids THEN entry ELSE points[p]
  BY <1>3, <1>5, <1>6, <1>7 DEF Stored
<1>9. /\ edit[e].pc = "points" /\ edit' = [edit EXCEPT ![e].pc = "search"]
      /\ UNCHANGED <<row, docs, imports, indexing, deletion, edits, crossed>>
  BY DEF EditPoints
<1>10. /\ edit'[e].pc = "search" /\ edit'[e].book = b /\ edit'[e].version = edit[e].version
       /\ edit'[e].found = edit[e].found
       /\ \A f \in Editors : f # e => edit'[f] = edit[f]
  BY <1>1, <1>9 DEF LibraryInv, LibraryTypeOK, EditType
<1>11. LibraryTypeOK'
  <2>1. PICK new : new = [edit[e] EXCEPT !.pc = "search"]
    OBVIOUS
  <2>2. new \in EditType /\ edit' = [edit EXCEPT ![e] = new]
    BY <1>9, <2>1 DEF LibraryInv, LibraryTypeOK, EditType
  <2>3. edit' \in [Editors -> EditType]
    BY <2>2, EditTyped DEF LibraryInv
  <2>. QED BY <1>8, <1>9, <2>3 DEF LibraryInv, LibraryTypeOK, EditType
<1>12. Onward
  BY <1>9 DEF Onward, Cleared, Told
<1>13. EntriesFit'
  <2>1. \A p \in Ids : Fits({p}, points'[p])
    BY <1>3, <1>5, <1>6, <1>8 DEF Fits
  <2>2. \A f \in Editors :
           /\ edit'[f].pc = "idle" <=> edit'[f].book = Nowhere
           /\ edit'[f].book # Nowhere => edit'[f].found \subseteq IdsOf[edit'[f].book]
    BY <1>1, <1>3, <1>10 DEF LibraryInv, EntriesFit
  <2>. QED BY <1>9, <1>12, <2>1, <2>2, QueueFits DEF LibraryInv, EntriesFit, Fits
<1>14. ASSUME NEW c \in Volumes \ crossed', c # b PROVE BookInv(c)'
  <2>1. \A p \in Own(c) : points'[p] = points[p]
    BY <1>6, <1>8, <1>14, OwnIsOwn
  <2>2. Unnoticed(c) /\ c \notin crossed
    BY <1>1, <1>9, <1>10, <1>14, <2>1 DEF Unnoticed
  <2>. QED BY <1>14, <2>2, UnnoticedStays DEF LibraryInv
<1>15. ASSUME b \notin crossed' PROVE BookInv(b)'
  <2>1. /\ BookInv(b) /\ Editing(b) /\ deletion[b].pc = "none" /\ ~Importing(b)
        /\ indexing[b].pc = "over" /\ edit[e].version = row[b].version
        /\ \A f \in Editors : edit[f].book = b => f = e
    BY <1>1, <1>9, <1>15, EditsAlone
  <2>2. /\ Editing(b)' /\ ~Importing(b)' /\ ~Writing(b)' /\ Told(b)' /\ ~Cleared(b)'
        /\ \A f \in Editors : edit'[f].book = b => f = e
    BY <1>9, <1>10, <2>1, SameDocs DEF Editing, Writing, Told, Cleared
  <2>3. OneAtATime(b)'
    BY <1>9, <1>10, <2>1, <2>2 DEF BookInv, OneAtATime
  <2>4. ASSUME NEW p \in Own(b) PROVE PointKnown(b, p)' /\ DocKnown(b, p)'
    <3>1. points[p] # Nowhere /\ docs[p] # Nowhere
      BY <2>1 DEF BookInv, PointKnown, DocKnown, Told, Cleared
    <3>2. points'[p] = entry /\ Current(b)' = entry
      BY <1>2, <1>6, <1>8, <1>9, <2>1, <3>1, OwnIsOwn DEF Current
    <3>. QED BY <1>3, <1>9, <1>10, <2>1, <2>2, <3>1, <3>2 DEF PointKnown, DocKnown
  <2>. QED BY <2>3, <2>4 DEF BookInv, Own
<1>. QED BY <1>11, <1>13, <1>14, <1>15 DEF LibraryInv

\* An edit looks for the documents it has to change.
LEMMA EditSearchKeeps ==
  ASSUME LibraryInv, NEW e \in Editors, EditSearch(e)
  PROVE  LibraryInv'
<1>1. PICK b \in Volumes : b = edit[e].book
  BY EditsAlone DEF EditSearch
<1>2. PICK ids : ids = Of(docs, b)
  OBVIOUS
<1>3. docs \in [Ids -> Slot] /\ \A p \in Ids : Fits({p}, docs[p])
  BY DEF LibraryInv, LibraryTypeOK, EditType, EntriesFit
<1>4. /\ ids \in SUBSET Ids /\ ids \subseteq IdsOf[b] /\ b # Nowhere
      /\ \A p \in Own(b) : docs[p] # Nowhere => p \in ids
  BY <1>2, <1>3, OfFacts, EntryFacts, LibraryAssumption DEF LibraryAssumption
<1>5. /\ edit[e].pc = "search" /\ edit' = [edit EXCEPT ![e].pc = "add", ![e].found = ids]
      /\ UNCHANGED <<row, points, docs, imports, indexing, deletion, edits, crossed>>
  BY <1>1, <1>2 DEF EditSearch
<1>6. /\ edit'[e].pc = "add" /\ edit'[e].book = b /\ edit'[e].version = edit[e].version
      /\ edit'[e].found = ids
      /\ \A f \in Editors : f # e => edit'[f] = edit[f]
  BY <1>1, <1>5 DEF LibraryInv, LibraryTypeOK, EditType
<1>7. LibraryTypeOK'
  <2>1. PICK new : new = [edit[e] EXCEPT !.pc = "add", !.found = ids]
    OBVIOUS
  <2>2. new \in EditType /\ edit' = [edit EXCEPT ![e] = new]
    BY <1>4, <1>5, <2>1 DEF LibraryInv, LibraryTypeOK, EditType
  <2>3. edit' \in [Editors -> EditType]
    BY <2>2, EditTyped DEF LibraryInv
  <2>. QED BY <1>5, <2>3 DEF LibraryInv, LibraryTypeOK, EditType
<1>8. Onward
  BY <1>5 DEF Onward, Cleared, Told
<1>9. EntriesFit'
  <2>1. \A f \in Editors :
           /\ edit'[f].pc = "idle" <=> edit'[f].book = Nowhere
           /\ edit'[f].book # Nowhere => edit'[f].found \subseteq IdsOf[edit'[f].book]
    BY <1>4, <1>6 DEF LibraryInv, EntriesFit
  <2>. QED BY <1>5, <1>8, <2>1, QueueFits DEF LibraryInv, EntriesFit, Fits
<1>10. ASSUME NEW c \in Volumes \ crossed', c # b PROVE BookInv(c)'
  <2>1. Unnoticed(c) /\ c \notin crossed
    BY <1>1, <1>5, <1>6, <1>10 DEF Unnoticed
  <2>. QED BY <1>10, <2>1, UnnoticedStays DEF LibraryInv
<1>11. ASSUME b \notin crossed' PROVE BookInv(b)'
  <2>1. /\ BookInv(b) /\ Editing(b) /\ deletion[b].pc = "none" /\ ~Importing(b)
        /\ indexing[b].pc = "over" /\ edit[e].version = row[b].version
        /\ \A f \in Editors : edit[f].book = b => f = e
    BY <1>1, <1>5, <1>11, EditsAlone
  <2>2. /\ Editing(b)' /\ ~Importing(b)' /\ ~Writing(b)' /\ Told(b)' /\ ~Cleared(b)'
        /\ Current(b)' = Current(b)
        /\ \A f \in Editors : edit'[f].book = b => f = e
    BY <1>5, <1>6, <2>1, SameDocs DEF Editing, Writing, Told, Cleared, Current
  <2>3. OneAtATime(b)'
    BY <1>5, <1>6, <2>1, <2>2, ZenonT(30) DEF BookInv, OneAtATime
  <2>4. ASSUME NEW p \in Own(b) PROVE PointKnown(b, p)' /\ DocKnown(b, p)'
    <3>1. /\ points[p] # Nowhere /\ docs[p] # Nowhere
          /\ points[p] = Current(b)
      BY <1>5, <2>1 DEF BookInv, PointKnown, DocKnown, Told, Cleared
    <3>. QED BY <1>4, <1>5, <1>6, <2>1, <2>2, <3>1 DEF PointKnown, DocKnown
  <2>. QED BY <2>3, <2>4 DEF BookInv, Own
<1>. QED BY <1>7, <1>9, <1>10, <1>11 DEF LibraryInv

\* An edit hands the changed documents to the index.
LEMMA EditDocsKeeps ==
  ASSUME LibraryInv, NEW e \in Editors, EditDocs(e)
  PROVE  LibraryInv'
<1>1. PICK b \in Volumes : b = edit[e].book
  BY EditsAlone DEF EditDocs
<1>2. PICK entry : entry = Entry(b, edit[e].version)
  OBVIOUS
<1>3. PICK ids \in SUBSET Ids : ids = edit[e].found
  BY DEF LibraryInv, LibraryTypeOK, EditType
<1>4. /\ entry \in Slot /\ entry # Nowhere /\ entry.book = b /\ b # Nowhere
      /\ edit[e].pc = "add"
  BY <1>1, <1>2, EditsAlone, EntryFacts DEF EditDocs
<1>5. ids \subseteq IdsOf[b]
  BY <1>1, <1>3, <1>4 DEF LibraryInv, EntriesFit
<1>6. PICK task : task = [by |-> Nowhere, ids |-> ids, entry |-> entry]
  OBVIOUS
<1>7. /\ task \in TaskType /\ task.by = Nowhere /\ task.ids = ids /\ task.entry = entry
  BY <1>4, <1>6 DEF TaskType
<1>8. /\ imports' = IF ids = {} THEN imports ELSE Append(imports, task)
      /\ edit' = [edit EXCEPT ![e] = NoEdit]
      /\ UNCHANGED <<row, points, docs, indexing, deletion, edits, crossed>>
  BY <1>1, <1>2, <1>3, <1>6 DEF EditDocs, Task
<1>9. /\ edit'[e] = NoEdit /\ NoEdit.book = Nowhere /\ NoEdit.pc = "idle"
      /\ \A f \in Editors : f # e => edit'[f] = edit[f]
  BY <1>8 DEF LibraryInv, LibraryTypeOK, EditType, NoEdit
<1>10. Onward
  BY <1>8 DEF Onward, Cleared, Told
<1>11. TaskFits(task)'
  BY <1>4, <1>5, <1>7, LibraryAssumption DEF TaskFits, Fits, LibraryAssumption
<1>12. /\ imports' \in Seq(TaskType)
       /\ (\A i \in 1..Len(imports) : TaskFits(imports[i]))'
  BY <1>7, <1>8, <1>10, <1>11, QueueFits DEF LibraryInv, EntriesFit
<1>13. LibraryTypeOK'
  <2>1. NoEdit \in EditType
    BY LibraryAssumption DEF LibraryAssumption, NoEdit, EditType
  <2>2. edit' \in [Editors -> EditType]
    BY <1>8, <2>1, EditTyped DEF LibraryInv
  <2>. QED BY <1>8, <1>12, <2>2 DEF LibraryInv, LibraryTypeOK, EditType
<1>14. EntriesFit'
  <2>1. \A f \in Editors :
           /\ edit'[f].pc = "idle" <=> edit'[f].book = Nowhere
           /\ edit'[f].book # Nowhere => edit'[f].found \subseteq IdsOf[edit'[f].book]
    BY <1>9 DEF LibraryInv, EntriesFit
  <2>. QED BY <1>8, <1>12, <2>1 DEF LibraryInv, EntriesFit, Fits
<1>15. ASSUME NEW c \in Volumes \ crossed', c # b PROVE BookInv(c)'
  <2>1. ids \cap Own(c) = {} /\ c # Nowhere
    BY <1>5, <1>15, OwnIsOwn, LibraryAssumption DEF LibraryAssumption
  <2>2. Unnoticed(c) /\ c \notin crossed
    BY <1>1, <1>7, <1>8, <1>9, <1>15, <2>1 DEF Unnoticed
  <2>. QED BY <1>15, <2>2, UnnoticedStays DEF LibraryInv
<1>16. ASSUME b \notin crossed' PROVE BookInv(b)'
  <2>1. /\ BookInv(b) /\ Editing(b) /\ deletion[b].pc = "none" /\ ~Importing(b)
        /\ indexing[b].pc = "over" /\ edit[e].version = row[b].version
        /\ \A f \in Editors : edit[f].book = b => f = e
    BY <1>1, <1>4, <1>8, <1>16, EditsAlone
  <2>2. /\ \A f \in Editors : edit'[f].book # b
        /\ ~Editing(b)' /\ ~Writing(b)' /\ Told(b)' /\ ~Cleared(b)'
    BY <1>4, <1>8, <1>9, <2>1 DEF Editing, Writing, Told, Cleared
  <2>3. OneAtATime(b)'
    BY <1>8, <2>1, <2>2 DEF BookInv, OneAtATime
  <2>4. ASSUME NEW p \in Own(b) PROVE PointKnown(b, p)' /\ DocKnown(b, p)'
    <3>1. /\ points[p] = Current(b) /\ points[p] # Nowhere /\ docs[p] # Nowhere /\ p \in ids
      BY <1>1, <1>3, <1>4, <2>1 DEF BookInv, PointKnown, DocKnown, Told, Cleared
    <3>2. Current(b)' = entry /\ Current(b) = entry
      BY <1>2, <1>8, <2>1 DEF Current
    <3>3. Comes(p, entry)'
      BY <1>7, <1>8, <3>1, AppendComes DEF LibraryInv
    <3>4. Comes(p, Current(b))'
      BY <3>2, <3>3 DEF Comes
    <3>. QED BY <1>8, <2>1, <2>2, <3>1, <3>2, <3>4 DEF PointKnown, DocKnown
  <2>. QED BY <2>3, <2>4 DEF BookInv, Own
<1>. QED BY <1>13, <1>14, <1>15, <1>16 DEF LibraryInv

-----------------------------------------------------------------------------
(* delete_book. *)
LEMMA DeleteSearchKeeps ==
  ASSUME LibraryInv, NEW b \in Volumes, DeleteSearch(b)
  PROVE  LibraryInv'
<1>1. PICK ids : ids = Of(docs, b)
  OBVIOUS
<1>2. docs \in [Ids -> Slot] /\ \A p \in Ids : Fits({p}, docs[p])
  BY DEF LibraryInv, LibraryTypeOK, EditType, EntriesFit
<1>3. /\ ids \in SUBSET Ids /\ ids \subseteq IdsOf[b]
      /\ \A p \in Own(b) : docs[p] # Nowhere => p \in ids
      /\ \A p \in Ids : docs[p] = Nowhere => p \notin ids
  BY <1>1, <1>2, OfFacts DEF Of
<1>4. /\ deletion[b].pc = "none" /\ row[b].status # "absent"
      /\ deletion' = [deletion EXCEPT ![b] = [pc |-> "docs", found |-> ids]]
      /\ UNCHANGED <<row, points, docs, imports, indexing, edit, edits>>
      /\ crossed' = IF Busy(b) THEN crossed \cup {b} ELSE crossed
  BY <1>1 DEF DeleteSearch, Crosses
<1>5. /\ deletion'[b] = [pc |-> "docs", found |-> ids]
      /\ \A c \in Volumes : c # b => deletion'[c] = deletion[c]
  BY <1>4 DEF LibraryInv, LibraryTypeOK, EditType
<1>6. LibraryTypeOK'
  BY <1>3, <1>4 DEF LibraryInv, LibraryTypeOK, EditType
<1>7. Onward
  BY <1>4, <1>5 DEF Onward, Cleared, Told
<1>8. EntriesFit'
  BY <1>3, <1>4, <1>5, <1>7, QueueFits DEF LibraryInv, EntriesFit, Fits
<1>9. ASSUME NEW c \in Volumes \ crossed', c # b PROVE BookInv(c)'
  <2>1. Unnoticed(c) /\ c \notin crossed
    BY <1>4, <1>5, <1>9 DEF Unnoticed
  <2>. QED BY <1>9, <2>1, UnnoticedStays DEF LibraryInv
<1>10. ASSUME b \notin crossed' PROVE BookInv(b)'
  <2>1. BookInv(b) /\ ~Busy(b)
    BY <1>4, <1>10 DEF LibraryInv
  <2>2. /\ ~Editing(b) /\ ~Importing(b) /\ indexing[b].pc \in {"chunk", "over"}
    BY <2>1 DEF Busy, Indexing, Importing, LibraryInv, LibraryTypeOK, EditType
  <2>3. /\ ~Editing(b)' /\ ~Importing(b)' /\ ~Writing(b)' /\ Told(b)' = Told(b)
        /\ ~Cleared(b)' /\ ~Cleared(b)
    BY <1>4, <1>5, <2>2, SameDocs DEF Editing, Writing, Told, Cleared
  <2>4. OneAtATime(b)'
    BY <1>4, <1>5, <2>1, <2>3 DEF BookInv, OneAtATime
  <2>5. ASSUME NEW p \in Own(b) PROVE PointKnown(b, p)' /\ DocKnown(b, p)'
    <3>1. p \in Ids /\ Current(b)' = Current(b)
      BY <1>4, OwnIsOwn DEF Current
    <3>2. PointKnown(b, p)'
      BY <1>4, <1>5, <2>1, <3>1 DEF BookInv, PointKnown
    <3>3. Comes(p, Current(b)) => Comes(p, Current(b))'
      BY <1>4, <3>1 DEF Comes, Untold
    <3>4. Untold(p)' = Untold(p)
      BY <1>4, SameDocs
    <3>5. DocKnown(b, p)'
      BY <1>3, <1>4, <1>5, <2>1, <2>2, <2>3, <3>1, <3>3, <3>4 DEF BookInv, DocKnown, Editing
    <3>. QED BY <3>2, <3>5
  <2>. QED BY <2>4, <2>5 DEF BookInv, Own
<1>. QED BY <1>6, <1>8, <1>9, <1>10 DEF LibraryInv

\* A deletion asks the index to drop the book's documents.
LEMMA DeleteDocsKeeps ==
  ASSUME LibraryInv, NEW b \in Volumes, DeleteDocs(b)
  PROVE  LibraryInv'
<1>1. PICK ids \in SUBSET Ids : ids = deletion[b].found
  BY DEF LibraryInv, LibraryTypeOK, EditType
<1>2. PICK task : task = [by |-> Nowhere, ids |-> ids, entry |-> Nowhere]
  OBVIOUS
<1>3. /\ task \in TaskType /\ task.by = Nowhere /\ task.ids = ids /\ task.entry = Nowhere
      /\ ids \subseteq IdsOf[b]
  BY <1>1, <1>2 DEF TaskType, Slot, LibraryInv, EntriesFit
<1>4. /\ deletion[b].pc = "docs"
      /\ imports' = IF ids = {} THEN imports ELSE Append(imports, task)
      /\ deletion' = [deletion EXCEPT ![b] = [pc |-> "points", found |-> {}]]
      /\ UNCHANGED <<row, points, docs, indexing, edit, edits, crossed>>
  BY <1>1, <1>2 DEF DeleteDocs, Task
<1>5. /\ deletion'[b] = [pc |-> "points", found |-> {}]
      /\ \A c \in Volumes : c # b => deletion'[c] = deletion[c]
  BY <1>4 DEF LibraryInv, LibraryTypeOK, EditType
<1>6. Onward
  BY <1>4, <1>5 DEF Onward, Cleared, Told
<1>7. TaskFits(task)'
  BY <1>3, <1>5, LibraryAssumption DEF TaskFits, Fits, Cleared, LibraryAssumption
<1>8. /\ imports' \in Seq(TaskType)
      /\ (\A i \in 1..Len(imports) : TaskFits(imports[i]))'
  BY <1>3, <1>4, <1>6, <1>7, QueueFits DEF LibraryInv, EntriesFit
<1>9. LibraryTypeOK'
  BY <1>4, <1>8 DEF LibraryInv, LibraryTypeOK, EditType
<1>10. EntriesFit'
  BY <1>4, <1>5, <1>8 DEF LibraryInv, EntriesFit, Fits
<1>11. ASSUME NEW c \in Volumes \ crossed', c # b PROVE BookInv(c)'
  <2>1. ids \cap Own(c) = {} /\ c # Nowhere
    BY <1>3, <1>11, OwnIsOwn, LibraryAssumption DEF LibraryAssumption
  <2>2. Unnoticed(c) /\ c \notin crossed
    BY <1>3, <1>4, <1>5, <1>11, <2>1 DEF Unnoticed
  <2>. QED BY <1>11, <2>2, UnnoticedStays DEF LibraryInv
<1>12. ASSUME b \notin crossed' PROVE BookInv(b)'
  <2>1. BookInv(b)
    BY <1>4, <1>12 DEF LibraryInv
  <2>2. /\ ~Editing(b) /\ ~Editing(b)' /\ ~Importing(b) /\ ~Writing(b)' /\ ~Writing(b)
        /\ Told(b)' = Told(b) /\ Cleared(b)' /\ ~Cleared(b)
    BY <1>4, <1>5, <2>1 DEF BookInv, OneAtATime, Editing, Writing, Told, Cleared
  <2>3. ~Importing(b)'
    <3>1. b # Nowhere
      BY LibraryAssumption DEF LibraryAssumption
    <3>2. \A i \in 1..Len(imports') :
             imports'[i] = task \/ (i \in 1..Len(imports) /\ imports'[i] = imports[i])
      BY <1>3, <1>4 DEF LibraryInv, LibraryTypeOK, EditType
    <3>. QED BY <1>3, <2>2, <3>1, <3>2 DEF Importing
  <2>4. OneAtATime(b)'
    BY <1>4, <1>5, <2>1, <2>2, <2>3 DEF BookInv, OneAtATime
  <2>5. ASSUME NEW p \in Own(b) PROVE PointKnown(b, p)' /\ DocKnown(b, p)'
    <3>1. PointKnown(b, p)'
      BY <1>4, <1>5, <2>1 DEF BookInv, PointKnown, Current
    <3>2. CASE ~Told(b)
      <4>1. Untold(p) /\ docs[p] = Nowhere /\ p \notin ids
        BY <1>1, <2>1, <3>2 DEF BookInv, DocKnown
      <4>2. Untold(p)'
        <5>1. \A i \in 1..Len(imports') :
                 imports'[i] = task \/ (i \in 1..Len(imports) /\ imports'[i] = imports[i])
          BY <1>3, <1>4 DEF LibraryInv, LibraryTypeOK, EditType
        <5>. QED BY <1>3, <4>1, <5>1 DEF Untold
      <4>. QED BY <1>4, <1>5, <2>2, <3>1, <3>2, <4>1, <4>2 DEF DocKnown
    <3>3. CASE Told(b)
      <4>1. p \in ids
        BY <1>1, <1>4, <2>1, <2>2, <3>3 DEF BookInv, DocKnown
      <4>2. Comes(p, Nowhere)'
        BY <1>3, <1>4, <4>1, AppendComes DEF LibraryInv
      <4>. QED BY <2>2, <3>1, <3>3, <4>2 DEF DocKnown
    <3>. QED BY <3>2, <3>3
  <2>. QED BY <2>4, <2>5 DEF BookInv, Own
<1>. QED BY <1>9, <1>10, <1>11, <1>12 DEF LibraryInv

\* A deletion drops the book's points.
LEMMA DeletePointsKeeps ==
  ASSUME LibraryInv, NEW b \in Volumes, DeletePoints(b)
  PROVE  LibraryInv'
<1>1. PICK ids : ids = Of(points, b)
  OBVIOUS
<1>2. points \in [Ids -> Slot] /\ \A p \in Ids : Fits({p}, points[p])
  BY DEF LibraryInv, LibraryTypeOK, EditType, EntriesFit
<1>3. /\ ids \in SUBSET Ids /\ ids \subseteq IdsOf[b]
      /\ \A p \in Own(b) : points[p] # Nowhere => p \in ids
  BY <1>1, <1>2, OfFacts
<1>4. /\ deletion[b].pc = "points"
      /\ deletion' = [deletion EXCEPT ![b].pc = "rows"]
      /\ UNCHANGED <<row, docs, imports, indexing, edit, edits, crossed>>
      /\ points' = Stored(points, ids, Nowhere)
  BY <1>1 DEF DeletePoints
<1>5. /\ deletion'[b].pc = "rows" /\ deletion'[b].found = deletion[b].found
      /\ \A c \in Volumes : c # b => deletion'[c] = deletion[c]
  BY <1>4 DEF LibraryInv, LibraryTypeOK, EditType
<1>6. /\ points' \in [Ids -> Slot]
      /\ \A p \in Ids : points'[p] = IF p \in ids THEN Nowhere ELSE points[p]
  BY <1>2, <1>3, <1>4 DEF Stored, Slot
<1>7. LibraryTypeOK'
  BY <1>4, <1>6, ZenonT(30) DEF LibraryInv, LibraryTypeOK, EditType
<1>8. Onward
  BY <1>4, <1>5 DEF Onward, Cleared, Told
<1>9. EntriesFit'
  <2>1. \A p \in Ids : Fits({p}, points'[p])
    BY <1>2, <1>6 DEF Fits
  <2>. QED BY <1>4, <1>5, <1>8, <2>1, QueueFits DEF LibraryInv, EntriesFit, Fits
<1>10. ASSUME NEW c \in Volumes \ crossed', c # b PROVE BookInv(c)'
  <2>1. \A p \in Own(c) : points'[p] = points[p]
    BY <1>3, <1>6, <1>10, OwnIsOwn
  <2>2. Unnoticed(c) /\ c \notin crossed
    BY <1>4, <1>5, <1>10, <2>1 DEF Unnoticed
  <2>. QED BY <1>10, <2>2, UnnoticedStays DEF LibraryInv
<1>11. ASSUME b \notin crossed' PROVE BookInv(b)'
  <2>1. BookInv(b)
    BY <1>4, <1>11 DEF LibraryInv
  <2>2. /\ Editing(b)' = Editing(b) /\ Importing(b)' = Importing(b) /\ Writing(b)' = Writing(b)
        /\ Told(b)' = Told(b) /\ Cleared(b)' /\ Cleared(b)
    BY <1>4, <1>5, SameDocs DEF Editing, Writing, Told, Cleared
  <2>3. OneAtATime(b)'
    BY <1>4, <1>5, <2>1, <2>2 DEF BookInv, OneAtATime
  <2>4. ASSUME NEW p \in Own(b) PROVE PointKnown(b, p)' /\ DocKnown(b, p)'
    <3>1. points'[p] = Nowhere
      BY <1>3, <1>6, OwnIsOwn
    <3>2. Comes(p, Nowhere)' = Comes(p, Nowhere) /\ Untold(p)' = Untold(p)
      BY <1>4, SameDocs
    <3>. QED BY <1>4, <1>5, <2>1, <2>2, <3>1, <3>2 DEF BookInv, PointKnown, DocKnown
  <2>. QED BY <2>3, <2>4 DEF BookInv, Own
<1>. QED BY <1>7, <1>9, <1>10, <1>11 DEF LibraryInv

\* A deletion drops the book's row.
LEMMA DeleteRowKeeps ==
  ASSUME LibraryInv, NEW b \in Volumes, DeleteRow(b)
  PROVE  LibraryInv'
<1>1. /\ deletion[b].pc = "rows"
      /\ deletion' = [deletion EXCEPT ![b].pc = "done"]
      /\ row' = [row EXCEPT ![b] = [status |-> "absent", version |-> 0]]
      /\ UNCHANGED <<points, docs, imports, indexing, edit, edits, crossed>>
  BY DEF DeleteRow
<1>2. /\ deletion'[b].pc = "done" /\ deletion'[b].found = deletion[b].found
      /\ row'[b].status = "absent"
      /\ \A c \in Volumes : c # b => deletion'[c] = deletion[c] /\ row'[c] = row[c]
  BY <1>1 DEF LibraryInv, LibraryTypeOK, EditType
<1>3. LibraryTypeOK'
  <2>1. 0 \in 0..MaxEdits
    BY LibraryAssumption DEF LibraryAssumption
  <2>2. row' \in [Volumes -> [status : {"pending", "ready", "absent"}, version : 0..MaxEdits]]
    BY <1>1, <2>1 DEF LibraryInv, LibraryTypeOK, EditType
  <2>3. deletion' \in [Volumes -> [pc : {"none", "docs", "points", "rows", "done"},
                                   found : SUBSET Ids]]
    BY <1>1, ZenonT(30) DEF LibraryInv, LibraryTypeOK, EditType
  <2>. QED BY <1>1, <2>2, <2>3 DEF LibraryInv, LibraryTypeOK, EditType
<1>4. Onward
  BY <1>1, <1>2 DEF Onward, Cleared, Told
<1>5. EntriesFit'
  BY <1>1, <1>2, <1>4, QueueFits DEF LibraryInv, EntriesFit, Fits
<1>6. ASSUME NEW c \in Volumes \ crossed', c # b PROVE BookInv(c)'
  <2>1. Unnoticed(c) /\ c \notin crossed
    BY <1>1, <1>2, <1>6 DEF Unnoticed
  <2>. QED BY <1>6, <2>1, UnnoticedStays DEF LibraryInv
<1>7. ASSUME b \notin crossed' PROVE BookInv(b)'
  <2>1. BookInv(b)
    BY <1>1, <1>7 DEF LibraryInv
  <2>2. /\ ~Editing(b) /\ ~Editing(b)' /\ ~Importing(b) /\ ~Importing(b)'
        /\ ~Writing(b) /\ ~Writing(b)'
        /\ Told(b)' = Told(b) /\ Cleared(b)' /\ Cleared(b)
    BY <1>1, <1>2, <2>1, SameDocs DEF BookInv, OneAtATime, Editing, Writing, Told, Cleared
  <2>3. \A e \in Editors : edit'[e].book # b
    BY <1>1, <2>2 DEF Editing
  <2>4. OneAtATime(b)'
    BY <1>2, <2>2, <2>3 DEF OneAtATime
  <2>5. ASSUME NEW p \in Own(b) PROVE PointKnown(b, p)' /\ DocKnown(b, p)'
    <3>1. Comes(p, Nowhere)' = Comes(p, Nowhere) /\ Untold(p)' = Untold(p)
      BY <1>1, SameDocs
    <3>. QED BY <1>1, <1>2, <2>1, <2>2, <3>1 DEF BookInv, PointKnown, DocKnown
  <2>. QED BY <2>4, <2>5 DEF BookInv, Own
<1>. QED BY <1>3, <1>5, <1>6, <1>7 DEF LibraryInv

-----------------------------------------------------------------------------
\* Every step keeps the invariant.
LEMMA LibraryStep == LibraryInv /\ [LibraryNext]_libraryVars => LibraryInv'
<1>. SUFFICES ASSUME LibraryInv, [LibraryNext]_libraryVars PROVE LibraryInv'
  OBVIOUS
<1>1. CASE UNCHANGED libraryVars
  BY <1>1 DEF libraryVars, LibraryInv, LibraryTypeOK, EditType, EntriesFit, TaskFits, Fits,
     Told, Cleared, BookInv, OneAtATime, PointKnown, DocKnown, Importing, Untold, Comes, Writing, Editing,
     Current
<1>. QED
  BY <1>1, ReadMetadataKeeps, UpsertPointsKeeps, AddDocumentsKeeps, BookReadyKeeps, DoTaskKeeps,
     EditRowKeeps, EditPointsKeeps, EditSearchKeeps, EditDocsKeeps, DeleteSearchKeeps,
     DeleteDocsKeeps, DeletePointsKeeps, DeleteRowKeeps
     DEF LibraryNext

\* The inductive invariant: what either index holds of a passage that is one
\* book's alone, and what Meilisearch's queue will make of it.
THEOREM LibraryInvariant == LibrarySpec => []LibraryInv
<1>. QED BY InitLibrary, LibraryStep, PTL DEF LibrarySpec

\* update_book, delete_book (books_admin.py) and the worker (indexer.py) only tell
\* the indexes what to change, and Meilisearch does it later: yet both end up with
\* what the row of the book says, for passages that no other book has and books
\* whose operations did not overlap, whatever happens to the other books.
THEOREM IndexesKeepStep == LibrarySpec => []IndexesInStep
<1>1. LibraryInv => IndexesInStep
  <2>. SUFFICES ASSUME LibraryInv, NEW b \in Volumes \ crossed, Settled(b), NEW p \in Own(b)
                PROVE  points[p] = Promised(b) /\ docs[p] = Promised(b)
    BY DEF IndexesInStep
  <2>1. OneAtATime(b) /\ PointKnown(b, p) /\ DocKnown(b, p)
    BY DEF LibraryInv, BookInv
  <2>2. Len(imports) = 0 /\ 1..Len(imports) = {}
    BY EmptySeq DEF Settled
  <2>3. \A x : Comes(p, x) => docs[p] = x
    BY <2>2 DEF Comes
  <2>4. /\ indexing[b].pc \in {"chunk", "over"} /\ deletion[b].pc \in {"none", "done"}
        /\ ~Editing(b) /\ ~Importing(b)
    BY <2>2 DEF Settled, Busy, Indexing, Deleting, Importing, LibraryInv, LibraryTypeOK, EditType
  <2>5. CASE indexing[b].pc = "chunk" \/ deletion[b].pc = "done"
    BY <2>1, <2>3, <2>4, <2>5 DEF OneAtATime, PointKnown, DocKnown, Told, Cleared, Promised
  <2>6. CASE indexing[b].pc = "over" /\ deletion[b].pc = "none"
    BY <2>1, <2>3, <2>4, <2>6
       DEF OneAtATime, PointKnown, DocKnown, Told, Cleared, Promised, Current, Editing
  <2>. QED BY <2>4, <2>5, <2>6
<1>. QED BY <1>1, LibraryInvariant, PTL
=============================================================================

----------------------------- MODULE ServiceProofs -----------------------------
(* Theorems about the modules that MCServices instantiates.  First the two      *)
(* clients that share a semaphore among the tasks of a process: the batches of  *)
(* Embedding and the pages of PageOcr, for every size and number of them, every *)
(* limit and every number of books.  Then Sessions, for every set of logins,    *)
(* addresses and users and every limit.                                         *)
EXTENDS Embedding, PageOcr, Sessions, FiniteSetTheorems, SequenceTheorems, TLAPS

-----------------------------------------------------------------------------
(* The semaphore: what its operations do to the slots and to the tasks that     *)
(* wait for them.                                                               *)
Queued(s) == {s.waiting[n] : n \in 1..Len(s.waiting)}
Waiters(s) == Queued(s) \cup s.woken

\* A semaphore among these tasks: nobody waits twice, and nobody waits while a
\* slot is free.
Sound(s, tasks) ==
    /\ s \in [value : Nat, waiting : Seq(tasks), woken : SUBSET tasks, loop : {s.loop}]
    /\ IsFiniteSet(s.woken)
    /\ \A m, n \in 1..Len(s.waiting) : s.waiting[m] = s.waiting[n] => m = n
    /\ Queued(s) \cap s.woken = {}
    /\ s.waiting # <<>> => s.value = 0

\* The slots that are free or on their way to a task.
Spare(s) == s.value + Cardinality(s.woken)

\* The slots free or handed over are a number.
LEMMA SpareType ==
  ASSUME NEW s, NEW tasks, Sound(s, tasks)
  PROVE  Cardinality(s.woken) \in Nat /\ Spare(s) \in Nat
  BY FS_CardinalityType DEF Sound, Spare

\* A new semaphore has all its slots.
LEMMA NewSound ==
  ASSUME NEW n \in Nat, NEW tasks
  PROVE  /\ Sound(NewSemaphore(n), tasks)
         /\ Spare(NewSemaphore(n)) = n
         /\ Waiters(NewSemaphore(n)) = {}
  BY FS_EmptySet, EmptySeq DEF Sound, Spare, Waiters, Queued, NewSemaphore

\* Acquire takes one of the free slots.
LEMMA AcquireSound ==
  ASSUME NEW s, NEW tasks, Sound(s, tasks), ~Locked(s)
  PROVE  /\ Sound(Acquire(s), tasks)
         /\ Spare(Acquire(s)) = Spare(s) - 1
         /\ Waiters(Acquire(s)) = Waiters(s)
         /\ Acquire(s).waiting = s.waiting
         /\ Acquire(s).woken = s.woken
         /\ Acquire(s).loop = s.loop
  BY SpareType DEF Sound, Spare, Waiters, Queued, Acquire, Locked

\* A task whose turn comes takes the slot that was its own.
LEMMA ResumeSound ==
  ASSUME NEW s, NEW tasks, Sound(s, tasks), NEW task \in s.woken
  PROVE  /\ Sound(Resume(s, task), tasks)
         /\ Spare(Resume(s, task)) = Spare(s) - 1
         /\ Waiters(Resume(s, task)) = Waiters(s) \ {task}
         /\ Resume(s, task).waiting = s.waiting
         /\ Resume(s, task).woken = s.woken \ {task}
         /\ Resume(s, task).loop = s.loop
<1>1. /\ IsFiniteSet(s.woken \ {task})
      /\ Cardinality(s.woken \ {task}) = Cardinality(s.woken) - 1
  BY FS_RemoveElement DEF Sound
<1>2. /\ Resume(s, task) \in [value : Nat, waiting : Seq(tasks),
                              woken : SUBSET tasks, loop : {s.loop}]
      /\ Resume(s, task).value = s.value
      /\ Resume(s, task).waiting = s.waiting
      /\ Resume(s, task).woken = s.woken \ {task}
      /\ Resume(s, task).loop = s.loop
  <2>. DEFINE r == [s EXCEPT !.woken = @ \ {task}]
  <2>1. /\ r \in [value : Nat, waiting : Seq(tasks), woken : SUBSET tasks, loop : {s.loop}]
        /\ r.value = s.value /\ r.waiting = s.waiting
        /\ r.woken = s.woken \ {task} /\ r.loop = s.loop
    BY DEF Sound
  <2>2. r.value = 0 \/ r.waiting = <<>>
    BY <2>1 DEF Sound
  <2>. QED BY <2>1, <2>2 DEF Resume
<1>3. task \notin Queued(s)
  BY DEF Sound
<1>. QED BY <1>1, <1>2, <1>3, SpareType DEF Sound, Spare, Waiters, Queued

\* Where no slot is free a task can wait for one.
LEMMA WaitSound ==
  ASSUME NEW s, NEW tasks, Sound(s, tasks), s.value = 0, NEW l,
         NEW task \in tasks, task \notin Waiters(s)
  PROVE  /\ Sound(Wait(s, <<task>>, l), tasks)
         /\ Spare(Wait(s, <<task>>, l)) = Spare(s)
         /\ Waiters(Wait(s, <<task>>, l)) = Waiters(s) \cup {task}
<1>. DEFINE queue == s.waiting \o <<task>>
<1>1. s.waiting \in Seq(tasks) /\ <<task>> \in Seq(tasks) /\ Len(s.waiting) \in Nat
  BY LenProperties DEF Sound
<1>2. /\ queue \in Seq(tasks)
      /\ Len(queue) = Len(s.waiting) + 1
      /\ \A n \in 1..Len(s.waiting) : queue[n] = s.waiting[n]
      /\ queue[Len(s.waiting) + 1] = task
  BY <1>1, ConcatProperties
<1>3. /\ Wait(s, <<task>>, l) \in [value : Nat, waiting : Seq(tasks),
                                      woken : SUBSET tasks, loop : {l}]
      /\ Wait(s, <<task>>, l).value = s.value
      /\ Wait(s, <<task>>, l).waiting = queue
      /\ Wait(s, <<task>>, l).woken = s.woken
      /\ Wait(s, <<task>>, l).loop = l
  BY <1>2 DEF Wait, Sound
<1>. HIDE DEF queue
<1>4. {queue[n] : n \in 1..Len(queue)} = Queued(s) \cup {task}
  BY SMTT(30), <1>1, <1>2 DEF Queued
<1>5. \A m, n \in 1..Len(queue) : queue[m] = queue[n] => m = n
  BY <1>1, <1>2 DEF Sound, Waiters, Queued
<1>6. Queued(Wait(s, <<task>>, l)) = Queued(s) \cup {task}
  BY <1>3, <1>4 DEF Queued
<1>7. Waiters(Wait(s, <<task>>, l)) = Waiters(s) \cup {task}
  BY <1>3, <1>6 DEF Waiters
<1>8. Sound(Wait(s, <<task>>, l), tasks)
  <2>1. (Queued(s) \cup {task}) \cap s.woken = {}
    BY DEF Sound, Waiters
  <2>2. IsFiniteSet(s.woken)
    BY DEF Sound
  <2>. QED BY <1>3, <1>5, <1>6, <2>1, <2>2 DEF Sound
<1>. QED BY <1>3, <1>7, <1>8 DEF Spare

\* A slot given back is free, or it is the first waiter's.
LEMMA ReleaseSound ==
  ASSUME NEW s, NEW tasks, Sound(s, tasks)
  PROVE  /\ Sound(Release(s), tasks)
         /\ Spare(Release(s)) = Spare(s) + 1
         /\ Waiters(Release(s)) = Waiters(s)
         /\ Release(s).loop = s.loop
         /\ s.waiting = <<>> => Release(s).waiting = <<>> /\ Release(s).woken = s.woken
<1>1. CASE s.waiting = <<>>
  <2>1. Release(s) = [value |-> s.value + 1, waiting |-> s.waiting,
                      woken |-> s.woken, loop |-> s.loop]
    BY <1>1 DEF Release, Sound
  <2>. QED BY <1>1, <2>1, SpareType DEF Sound, Spare, Waiters, Queued
<1>2. CASE s.waiting # <<>>
  <2>. DEFINE queue == Tail(s.waiting)
              first == Head(s.waiting)
  <2>1. Release(s) = [value |-> s.value, waiting |-> queue,
                      woken |-> s.woken \cup {first}, loop |-> s.loop]
    BY <1>2 DEF Release, Sound
  <2>2. /\ s.waiting \in Seq(tasks) /\ Len(s.waiting) \in Nat \ {0}
        /\ first = s.waiting[1] /\ first \in tasks
        /\ queue \in Seq(tasks)
        /\ Len(queue) = Len(s.waiting) - 1
        /\ \A n \in 1..Len(queue) : queue[n] = s.waiting[n + 1]
    BY <1>2, HeadTailProperties, EmptySeq DEF Sound
  <2>. HIDE DEF queue, first
  <2>3. first \in Queued(s) /\ first \notin s.woken
    BY <2>2 DEF Sound, Queued
  <2>3a. \A m, n \in 1..Len(s.waiting) : s.waiting[m] = s.waiting[n] => m = n
    BY DEF Sound
  <2>3b. \A n \in 1..Len(queue) : n + 1 \in 1..Len(s.waiting) /\ n + 1 # 1
    BY <2>2
  <2>4. \A n \in 1..Len(queue) : queue[n] # first
    BY <2>2, <2>3a, <2>3b
  <2>5. Queued(s) = {queue[n] : n \in 1..Len(queue)} \cup {first}
    <3>1. ASSUME NEW task \in Queued(s), task # first
          PROVE  task \in {queue[n] : n \in 1..Len(queue)}
      <4>1. PICK n \in 1..Len(s.waiting) : task = s.waiting[n]
        BY DEF Queued
      <4>2. n - 1 \in 1..Len(queue) /\ queue[n - 1] = task
        BY <2>2, <3>1, <4>1
      <4>. QED BY <4>2
    <3>2. \A n \in 1..Len(queue) : n + 1 \in 1..Len(s.waiting) /\ queue[n] = s.waiting[n + 1]
      BY <2>2
    <3>. QED BY ZenonT(40), <2>3, <3>1, <3>2 DEF Queued
  <2>6. \A m, n \in 1..Len(queue) : queue[m] = queue[n] => m = n
    <3>. SUFFICES ASSUME NEW m \in 1..Len(queue), NEW n \in 1..Len(queue),
                         queue[m] = queue[n]
                  PROVE  m = n
      OBVIOUS
    <3>1. m + 1 = n + 1
      BY <2>2, <2>3a, <2>3b
    <3>. QED BY <3>1
  <2>7. /\ IsFiniteSet(s.woken \cup {first})
        /\ Cardinality(s.woken \cup {first}) = Cardinality(s.woken) + 1
    BY <2>3, FS_AddElement DEF Sound
  <2>8. Sound(Release(s), tasks)
    BY SMTT(30), <1>2, <2>1, <2>2, <2>4, <2>5, <2>6, <2>7 DEF Sound, Queued
  <2>9. Spare(Release(s)) = Spare(s) + 1
    BY <2>1, <2>7, SpareType DEF Spare, Sound
  <2>10. Waiters(Release(s)) = Waiters(s)
    <3>1. Queued(Release(s)) = {queue[n] : n \in 1..Len(queue)}
      BY <2>1 DEF Queued
    <3>2. Release(s).woken = s.woken \cup {first}
      BY <2>1
    <3>. QED BY <3>1, <3>2, <2>5 DEF Waiters
  <2>. QED BY <1>2, <2>1, <2>8, <2>9, <2>10
<1>. QED BY <1>1, <1>2

-----------------------------------------------------------------------------
(* Embedding. *)
Under == {"gathering", "failing"}
Places == Over \cup {"posting", "waiting"}

\* The batches have their types, and those that wait are where they wait.
BatchesTyped ==
    /\ phase \in Under \cup {"idle", "embedded", "failed", "lost"}
    /\ IsFiniteSet(Batches)
    /\ \A b \in Batches : batch[b] \in [at : Places, tries : Nat]
    /\ Sound(slots, Batches)
    /\ \A b \in Waiters(slots) : batch[b].at = "waiting"

\* Every slot is free, on its way or with a batch that posts; between two tasks
\* all are free.
SlotsCounted ==
    /\ Spare(slots) + Cardinality(Posting) = CONCURRENT_BATCHES
    /\ phase \notin Under => Posting = {} /\ Waiters(slots) = {}

EmbedInv == BatchesTyped /\ SlotsCounted

\* Finitely many batches are being posted.
LEMMA PostingFinite ==
  ASSUME IsFiniteSet(Batches)
  PROVE  IsFiniteSet(Posting) /\ Cardinality(Posting) \in Nat
<1>1. Posting \in SUBSET Batches
  BY DEF Posting
<1>. QED BY <1>1, FS_Subset, FS_CardinalityType

\* A count of batches is a number.
LEMMA CountType ==
  ASSUME NEW n \in Nat
  PROVE  BatchCount(n) \in Nat
  BY EmbeddingAssumption DEF EmbeddingAssumption, BatchCount

\* Who waits is a batch.
LEMMA WaitersAreBatches ==
  ASSUME NEW s, NEW tasks, Sound(s, tasks)
  PROVE  Waiters(s) \subseteq tasks
  BY ElementOfSeq DEF Sound, Waiters, Queued

\* Before the first call there are no batches and all slots are free.
LEMMA InitEmbedInv == EmbedInit => EmbedInv
<1>. SUFFICES ASSUME EmbedInit PROVE EmbedInv
  OBVIOUS
<1>1. CONCURRENT_BATCHES \in Nat
  BY EmbeddingAssumption DEF EmbeddingAssumption
<1>2. Batches = {} /\ Posting = {}
  BY DEF EmbedInit, Batches, Posting
<1>3. IsFiniteSet({}) /\ Cardinality({}) = 0
  BY FS_EmptySet
<1>4. /\ Sound(slots, Batches)
      /\ Spare(slots) = CONCURRENT_BATCHES
      /\ Waiters(slots) = {}
  BY <1>1, NewSound DEF EmbedInit
<1>5. BatchesTyped
  BY <1>2, <1>3, <1>4 DEF BatchesTyped, EmbedInit
<1>6. SlotsCounted
  BY <1>1, <1>2, <1>3, <1>4 DEF SlotsCounted
<1>. QED BY <1>5, <1>6 DEF EmbedInv

\* gather starts the tasks: as many as there are slots post, the others wait or
\* are unbound.
LEMMA EmbedTextsInv ==
  ASSUME EmbedInv, NEW n \in Lengths, EmbedTexts(n)
  PROVE  EmbedInv'
<1>. DEFINE count == BatchCount(n)
            first == IF count <= slots.value THEN count ELSE slots.value
            later == [k \in 1..(count - first) |-> first + k]
            waits == later # <<>> /\ Bindable(slots, loop + 1)
<1>1. CONCURRENT_BATCHES \in Nat /\ count \in Nat
  BY CountType, EmbeddingAssumption DEF EmbeddingAssumption
<1>2. phase \notin Under /\ Posting = {} /\ Waiters(slots) = {}
  BY DEF EmbedTexts, EmbedInv, SlotsCounted, Under
<1>3. /\ slots \in [value : Nat, waiting : Seq(Batches), woken : SUBSET Batches, loop : {slots.loop}]
      /\ slots.woken = {}
      /\ slots.waiting = <<>>
  <2>1. /\ slots \in [value : Nat, waiting : Seq(Batches), woken : SUBSET Batches, loop : {slots.loop}]
        /\ slots.woken = {} /\ Queued(slots) = {}
    BY <1>2 DEF EmbedInv, BatchesTyped, Sound, Waiters
  <2>2. slots.waiting # <<>> => 1 \in 1..Len(slots.waiting)
    BY <2>1, EmptySeq
  <2>3. slots.waiting # <<>> => slots.waiting[1] \in Queued(slots)
    BY <2>2 DEF Queued
  <2>. QED BY <2>1, <2>3
<1>4. slots.value = CONCURRENT_BATCHES
  <2>1. Spare(slots) + Cardinality({}) = CONCURRENT_BATCHES
    BY <1>2 DEF EmbedInv, SlotsCounted
  <2>. QED BY <1>3, <2>1, FS_EmptySet DEF Spare
<1>5. first \in Nat /\ first <= count /\ first <= slots.value
      /\ (first < count => first = slots.value)
  BY <1>1, <1>3
<1>6. /\ phase' = "gathering"
      /\ batch' = [b \in 1..count |->
                      [at |-> IF b <= first THEN "posting"
                              ELSE IF waits THEN "waiting" ELSE "unbound",
                       tries |-> 0]]
      /\ slots' = LET taken == [slots EXCEPT !.value = @ - first] IN
                  IF waits THEN Wait(taken, later, loop + 1) ELSE taken
  BY DEF EmbedTexts
<1>. HIDE DEF count, first, waits
<1>7. Batches' = 1..count /\ Posting' = 1..first
  BY <1>1, <1>5, <1>6 DEF Batches, Posting
<1>8. IsFiniteSet(Batches') /\ IsFiniteSet(Posting') /\ Cardinality(Posting') = first
  BY <1>1, <1>5, <1>7, FS_Interval
<1>9. \A b \in Batches' : batch'[b] \in [at : Places, tries : Nat]
  BY <1>6, <1>7 DEF Places, Over
<1>10. later \in Seq(Batches') /\ Len(later) = count - first
       /\ \A k \in 1..Len(later) : later[k] = first + k
  BY <1>1, <1>5, <1>7
<1>11. /\ slots'.value = slots.value - first
       /\ slots'.woken = {}
       /\ slots'.waiting = IF waits THEN later ELSE <<>>
       /\ slots' \in [value : Nat, waiting : Seq(Batches'), woken : SUBSET (Batches'), loop : {slots'.loop}]
  <2>1. slots.value - first \in Nat
    BY <1>3, <1>5
  <2>2. CASE waits
    <3>1. <<>> \o later = later
      BY <1>10, ConcatEmptySeq
    <3>. QED BY <1>3, <1>6, <1>10, <2>1, <2>2, <3>1 DEF Wait
  <2>3. CASE ~waits
    BY <1>3, <1>6, <2>1, <2>3, EmptySeq
  <2>. QED BY <2>2, <2>3
<1>12. waits => first < count /\ slots'.value = 0
  <2>1. waits => later # <<>>
    BY DEF waits
  <2>2. first = count => later = <<>>
    BY <1>1, <1>10
  <2>. QED BY <1>1, <1>3, <1>5, <1>11, <2>1, <2>2
<1>. HIDE DEF later
<1>13. \A k \in 1..Len(slots'.waiting) :
           waits /\ slots'.waiting[k] = first + k /\ k \in 1..(count - first)
  BY <1>10, <1>11, EmptySeq
<1>14. Sound(slots', Batches')
  BY <1>3, <1>5, <1>11, <1>12, <1>13, FS_EmptySet DEF Sound, Queued
<1>15. \A b \in Waiters(slots)' : batch'[b].at = "waiting"
  <2>1. ASSUME waits, NEW k \in 1..(count - first)
        PROVE  batch'[first + k].at = "waiting"
    <3>1. first + k \in 1..count /\ ~(first + k <= first)
      BY <1>1, <1>5
    <3>. QED BY <1>6, <2>1, <3>1
  <2>. QED BY <1>11, <1>13, <2>1 DEF Waiters, Queued
<1>16. Spare(slots)' + Cardinality(Posting') = CONCURRENT_BATCHES
  BY <1>1, <1>4, <1>5, <1>8, <1>11, FS_EmptySet DEF Spare
<1>. QED BY <1>6, <1>8, <1>9, <1>14, <1>15, <1>16 DEF EmbedInv, BatchesTyped, SlotsCounted, Under

\* A batch that leaves gives its slot to the first who waits.
LEMMA LeaveInv ==
  ASSUME EmbedInv, NEW b \in Posting, NEW at \in Over, Leave(b, at),
         phase \in Under, UNCHANGED phase
  PROVE  EmbedInv'
<1>1. b \in Batches /\ batch[b].at = "posting"
  BY DEF Posting
<1>2. /\ Batches' = Batches
      /\ \A c \in Batches : batch'[c] = IF c = b THEN [batch[b] EXCEPT !.at = at] ELSE batch[c]
  BY <1>1 DEF Leave, Batches
<1>3. \A c \in Batches : batch'[c] \in [at : Places, tries : Nat]
  BY <1>2 DEF EmbedInv, BatchesTyped, Places
<1>4. batch'[b].at = at /\ \A c \in Batches \ {b} : batch'[c].at = batch[c].at
  BY <1>1, <1>2 DEF EmbedInv, BatchesTyped
<1>5. Posting' = Posting \ {b}
  BY <1>2, <1>4 DEF Posting, Over
<1>6. /\ Sound(slots', Batches')
      /\ Spare(slots') = Spare(slots) + 1
      /\ Waiters(slots') = Waiters(slots)
  BY <1>2, ReleaseSound DEF Leave, EmbedInv, BatchesTyped
<1>7. b \notin Waiters(slots) /\ Waiters(slots) \subseteq Batches
  BY <1>1, WaitersAreBatches DEF EmbedInv, BatchesTyped
<1>8. Cardinality(Posting') = Cardinality(Posting) - 1 /\ Cardinality(Posting) \in Nat
  BY <1>5, PostingFinite, FS_RemoveElement DEF EmbedInv, BatchesTyped
<1>9. BatchesTyped'
  BY <1>2, <1>3, <1>4, <1>6, <1>7 DEF EmbedInv, BatchesTyped
<1>10. SlotsCounted'
  BY <1>6, <1>8, SpareType DEF EmbedInv, BatchesTyped, SlotsCounted
<1>. QED BY <1>9, <1>10 DEF EmbedInv

\* A request that fails leaves the batch where it is, or makes it leave.
LEMMA AgainInv ==
  ASSUME EmbedInv, NEW b \in Posting, Again(b), phase \in Under, UNCHANGED phase
  PROVE  EmbedInv'
<1>1. CASE batch[b].tries + 1 < MAX_RETRIES
  <2>1. b \in Batches
    BY DEF Posting
  <2>2. /\ Batches' = Batches /\ UNCHANGED slots
        /\ \A c \in Batches : batch'[c] = IF c = b THEN [batch[b] EXCEPT !.tries = @ + 1] ELSE batch[c]
    BY <1>1, <2>1 DEF Again, Batches
  <2>3. \A c \in Batches : batch'[c] \in [at : Places, tries : Nat] /\ batch'[c].at = batch[c].at
    BY <2>2 DEF EmbedInv, BatchesTyped
  <2>4. Posting' = Posting
    BY <2>2, <2>3 DEF Posting
  <2>5. Waiters(slots) \subseteq Batches
    BY WaitersAreBatches DEF EmbedInv, BatchesTyped
  <2>. QED BY <2>2, <2>3, <2>4, <2>5 DEF EmbedInv, BatchesTyped, SlotsCounted
<1>2. CASE ~(batch[b].tries + 1 < MAX_RETRIES)
  BY <1>2, LeaveInv DEF Again, Over
<1>. QED BY <1>1, <1>2

\* A batch whose turn comes posts with the slot that was given to it.
LEMMA TurnInv ==
  ASSUME EmbedInv, NEW b \in Batches, Turn(b)
  PROVE  EmbedInv'
<1>1. b \in slots.woken /\ phase \in Under /\ UNCHANGED phase
  BY DEF Turn, Under
<1>2. batch[b].at = "waiting"
  BY <1>1 DEF EmbedInv, BatchesTyped, Waiters
<1>3. /\ Batches' = Batches
      /\ \A c \in Batches : batch'[c] = IF c = b THEN [batch[b] EXCEPT !.at = "posting"] ELSE batch[c]
  BY DEF Turn, Batches
<1>4. \A c \in Batches : batch'[c] \in [at : Places, tries : Nat]
  BY <1>3 DEF EmbedInv, BatchesTyped, Places
<1>5. batch'[b].at = "posting" /\ \A c \in Batches \ {b} : batch'[c].at = batch[c].at
  BY <1>3 DEF EmbedInv, BatchesTyped
<1>6. Posting' = Posting \cup {b} /\ b \notin Posting
  BY <1>2, <1>3, <1>5 DEF Posting
<1>7. /\ Sound(slots', Batches')
      /\ Spare(slots') = Spare(slots) - 1
      /\ Waiters(slots') = Waiters(slots) \ {b}
  BY <1>1, <1>3, ResumeSound DEF Turn, EmbedInv, BatchesTyped
<1>8. Cardinality(Posting') = Cardinality(Posting) + 1 /\ Cardinality(Posting) \in Nat
  BY <1>6, PostingFinite, FS_AddElement DEF EmbedInv, BatchesTyped
<1>9. Waiters(slots) \subseteq Batches
  BY WaitersAreBatches DEF EmbedInv, BatchesTyped
<1>10. BatchesTyped'
  BY <1>1, <1>3, <1>4, <1>5, <1>7, <1>9 DEF EmbedInv, BatchesTyped
<1>11. SlotsCounted'
  BY <1>1, <1>7, <1>8, SpareType DEF EmbedInv, BatchesTyped, SlotsCounted
<1>. QED BY <1>10, <1>11 DEF EmbedInv

\* A batch whose vectors are appended posts and waits no more than before.
LEMMA ExtendsInv ==
  ASSUME EmbedInv, NEW b \in Batches, Extends(b)
  PROVE  EmbedInv'
<1>1. /\ batch[b].at \in {"done", "kept"}
      /\ batch' = [batch EXCEPT ![b].at = "kept"]
      /\ UNCHANGED <<phase, slots>>
  BY DEF Extends
<1>2. /\ Batches' = Batches
      /\ \A c \in Batches : batch'[c] = IF c = b THEN [batch[b] EXCEPT !.at = "kept"] ELSE batch[c]
  BY <1>1 DEF Batches
<1>3. \A c \in Batches : batch'[c] \in [at : Places, tries : Nat]
  BY <1>1, <1>2 DEF EmbedInv, BatchesTyped, Places, Over
<1>4. \A c \in Batches : c # b => batch'[c] = batch[c]
  BY <1>2
<1>5. batch'[b].at = "kept"
  BY <1>2 DEF EmbedInv, BatchesTyped
<1>6. Posting' = Posting
  BY <1>1, <1>2, <1>4, <1>5 DEF Posting
<1>7. \A c \in Waiters(slots) : batch'[c].at = "waiting"
  BY <1>1, <1>4, WaitersAreBatches DEF EmbedInv, BatchesTyped
<1>. QED BY <1>1, <1>2, <1>3, <1>6, <1>7 DEF EmbedInv, BatchesTyped, SlotsCounted

\* When the vectors are returned nobody posts or waits.
LEMMA ReturnsInv ==
  ASSUME EmbedInv, Returns
  PROVE  EmbedInv'
<1>1. Posting = {} /\ Waiters(slots) = {}
  BY WaitersAreBatches DEF Returns, Posting, EmbedInv, BatchesTyped
<1>2. Batches' = Batches /\ Posting' = Posting /\ UNCHANGED <<batch, slots>> /\ phase' = "embedded"
  BY DEF Returns, Batches, Posting
<1>. QED BY <1>1, <1>2 DEF EmbedInv, BatchesTyped, SlotsCounted

\* Cancelled batches give back what they hold or were given.
LEMMA TaskFailsInv ==
  ASSUME EmbedInv, TaskFails
  PROVE  EmbedInv'
<1>1. /\ Batches' = Batches
      /\ \A b \in Batches : batch'[b] = IF batch[b].at \in Over THEN batch[b]
                                        ELSE [batch[b] EXCEPT !.at = "cancelled"]
  BY DEF TaskFails, Batches
<1>2. \A b \in Batches : batch'[b] \in [at : Over, tries : Nat]
  BY <1>1 DEF EmbedInv, BatchesTyped, Over
<1>3. Posting' = {}
  BY <1>1, <1>2 DEF Posting, Over
<1>4. Cardinality(Posting) \in Nat /\ Cardinality(slots.woken) \in Nat
  BY PostingFinite, SpareType DEF EmbedInv, BatchesTyped
<1>5. /\ slots' \in [value : Nat, waiting : Seq(Batches), woken : SUBSET Batches, loop : {slots'.loop}]
      /\ slots'.value = slots.value + (Cardinality(Posting) + Cardinality(slots.woken))
      /\ slots'.waiting = <<>> /\ slots'.woken = {}
  <2>1. slots \in [value : Nat, waiting : Seq(Batches), woken : SUBSET Batches, loop : {slots.loop}]
    BY DEF EmbedInv, BatchesTyped, Sound
  <2>2. slots' = [slots EXCEPT !.value = @ + (Cardinality(Posting) + Cardinality(slots.woken)),
                               !.waiting = <<>>, !.woken = {}]
    BY DEF TaskFails, CancelAll
  <2>3. slots.value + (Cardinality(Posting) + Cardinality(slots.woken)) \in Nat
    BY <1>4, <2>1
  <2>. QED BY <2>1, <2>2, <2>3, EmptySeq
<1>6. Sound(slots', Batches') /\ Waiters(slots') = {}
  BY <1>1, <1>5, EmptySeq, FS_EmptySet DEF Sound, Waiters, Queued
<1>7. Spare(slots') + Cardinality(Posting') = CONCURRENT_BATCHES
  BY <1>3, <1>4, <1>5, FS_EmptySet
     DEF EmbedInv, BatchesTyped, SlotsCounted, Spare, Sound
<1>. QED
  BY <1>1, <1>2, <1>3, <1>6, <1>7
     DEF TaskFails, EmbedInv, BatchesTyped, SlotsCounted, Under, Places

\* A new process has a new semaphore.
LEMMA ProcessLostInv ==
  ASSUME EmbedInv, ProcessLost
  PROVE  EmbedInv'
<1>1. CONCURRENT_BATCHES \in Nat
  BY EmbeddingAssumption DEF EmbeddingAssumption
<1>2. Batches' = {} /\ Posting' = {} /\ phase' = "lost"
  BY DEF ProcessLost, Batches, Posting
<1>3. /\ Sound(slots', Batches')
      /\ Spare(slots') = CONCURRENT_BATCHES
      /\ Waiters(slots') = {}
  BY <1>1, NewSound DEF ProcessLost
<1>. QED BY <1>1, <1>2, <1>3, FS_EmptySet DEF EmbedInv, BatchesTyped, SlotsCounted

\* Every step keeps the invariant.
LEMMA StepEmbedInv == EmbedInv /\ [EmbedNext]_embedVars => EmbedInv'
<1>. SUFFICES ASSUME EmbedInv, [EmbedNext]_embedVars PROVE EmbedInv'
  OBVIOUS
<1>1. ASSUME NEW b \in Batches, NEW reply \in Replies, Answered(b, reply) PROVE EmbedInv'
  <2>1. b \in Posting /\ phase \in Under /\ UNCHANGED phase
    BY <1>1 DEF Answered, Under
  <2>2. Leave(b, "done") \/ Leave(b, "refused") \/ Again(b)
    BY <1>1, EmbeddingAssumption DEF Answered, EmbeddingAssumption, ReplyKinds
  <2>. QED BY <2>1, <2>2, LeaveInv, AgainInv DEF Over
<1>2. ASSUME NEW b \in Batches, PostsClosed(b) PROVE EmbedInv'
  BY <1>2, AgainInv DEF PostsClosed, Under
<1>3. CASE GatherRaises
  BY <1>3 DEF GatherRaises, EmbedInv, BatchesTyped, SlotsCounted, Batches, Posting, Under
<1>4. CASE UNCHANGED embedVars
  BY <1>4 DEF embedVars, EmbedInv, BatchesTyped, SlotsCounted, Batches, Posting
<1>. QED
  BY <1>1, <1>2, <1>3, <1>4, EmbedTextsInv, TurnInv, ExtendsInv, ReturnsInv, TaskFailsInv, ProcessLostInv
     DEF EmbedNext, EmbedStep

\* The inductive invariant, for any number of tasks that one process runs.
THEOREM EmbeddingInvariant == EmbedSpec => []EmbedInv
<1>. QED BY InitEmbedInv, StepEmbedInv, PTL DEF EmbedSpec

\* No slot of the embedding semaphore (embedder.py:22) is lost or made, and all
\* are free between two tasks, whatever is refused, cancelled or lost.
THEOREM SlotsAreKept == EmbedSpec => []SlotsKept
<1>1. EmbedInv => SlotsKept
  <2>. SUFFICES ASSUME EmbedInv PROVE SlotsKept
    OBVIOUS
  <2>1. slots.value \in Nat /\ Cardinality(slots.woken) \in Nat /\ Cardinality(Posting) \in Nat
    BY SpareType, PostingFinite DEF EmbedInv, BatchesTyped, Sound
  <2>2. slots.value + Cardinality(slots.woken) + Cardinality(Posting) = CONCURRENT_BATCHES
    BY <2>1 DEF EmbedInv, SlotsCounted, Spare
  <2>3. slots.waiting # <<>> => slots.value = 0
    BY DEF EmbedInv, BatchesTyped, Sound
  <2>4. ASSUME phase \notin Under PROVE slots.value = CONCURRENT_BATCHES
    <3>1. Posting = {} /\ slots.woken = {}
      BY <2>4 DEF EmbedInv, SlotsCounted, Waiters
    <3>. QED BY <2>1, <2>2, <3>1, FS_EmptySet
  <2>. QED BY <2>2, <2>3, <2>4 DEF SlotsKept, Under
<1>. QED BY <1>1, EmbeddingInvariant, PTL

\* How many of n texts the first m batches hold.
Upto(m, n) == IF m * EMBED_BATCH_SIZE <= n THEN m * EMBED_BATCH_SIZE ELSE n

\* The vectors so far are those of the first batches.
KeptSoFar(m) ==
    /\ \A b \in Batches : batch[b].at = "kept" <=> b <= m
    /\ embedded = [k \in 1..Upto(m, length) |-> k]

OrderInv ==
    phase \in {"gathering", "embedded"} =>
        /\ length \in Nat
        /\ Batches = 1..BatchCount(length)
        /\ \E m \in 0..BatchCount(length) : KeptSoFar(m)
        /\ phase = "embedded" => \A b \in Batches : batch[b].at = "kept"

\* The batches hold all texts, and none of them is empty.
LEMMA BatchesCover ==
  ASSUME NEW n \in Nat
  PROVE  /\ BatchCount(n) * EMBED_BATCH_SIZE >= n
         /\ \A m \in Nat : m + 1 <= BatchCount(n) => m * EMBED_BATCH_SIZE < n
<1>. DEFINE S == EMBED_BATCH_SIZE
            q == BatchCount(n)
<1>1. S \in Nat /\ S > 0
  BY EmbeddingAssumption DEF EmbeddingAssumption
<1>2. q \in Nat /\ q * S <= n + S - 1 /\ n + S - 1 < q * S + S
  BY <1>1 DEF BatchCount
<1>. HIDE DEF q, S
<1>3. ASSUME NEW m \in Nat, m + 1 <= q
      PROVE  m * S < n
  <2>1. PICK d \in Nat : q = m + 1 + d
    BY <1>2, <1>3
  <2>2. q * S = m * S + S + d * S /\ d * S >= 0 /\ d * S \in Nat /\ m * S \in Nat
    BY <1>1, <2>1
  <2>. QED BY <1>1, <1>2, <2>2
<1>4. q * S \in Nat
  BY <1>1, <1>2
<1>. QED BY <1>1, <1>2, <1>3, <1>4 DEF q, S

\* The vectors of the first m batches and those of the next one are the vectors
\* of the first m + 1.
LEMMA NextBatch ==
  ASSUME NEW n \in Nat, NEW m \in Nat, m + 1 <= BatchCount(n)
  PROVE  [k \in 1..Upto(m, n) |-> k] \o Texts(m + 1, n) = [k \in 1..Upto(m + 1, n) |-> k]
<1>. DEFINE S == EMBED_BATCH_SIZE
            first == m * S
            more == IF first + S <= n THEN S ELSE n - first
<1>1. S \in Nat /\ S > 0 /\ first \in Nat /\ first < n
  BY BatchesCover, EmbeddingAssumption DEF EmbeddingAssumption
<1>2. (m + 1 - 1) * S = first /\ (m + 1) * S = first + S
  BY <1>1
<1>3. Upto(m, n) = first /\ Upto(m + 1, n) = first + more
  BY <1>1, <1>2 DEF Upto
<1>4. Texts(m + 1, n) = [k \in 1..more |-> first + k]
  BY <1>2 DEF Texts
<1>5. more \in Nat
  BY <1>1
<1>. HIDE DEF first, more, S
<1>6. /\ [k \in 1..first |-> k] \in Seq(Nat) /\ Len([k \in 1..first |-> k]) = first
      /\ [k \in 1..more |-> first + k] \in Seq(Nat) /\ Len([k \in 1..more |-> first + k]) = more
  BY <1>1, <1>5
<1>7. [k \in 1..first |-> k] \o [k \in 1..more |-> first + k] = [k \in 1..(first + more) |-> k]
  BY <1>1, <1>5, <1>6
<1>. QED BY <1>3, <1>4, <1>7

\* What leaves the vectors and the kept batches alone leaves their order alone.
LEMMA OrderStays ==
  ASSUME OrderInv, UNCHANGED <<phase, length, embedded>>, Batches' = Batches,
         phase = "gathering",
         \A b \in Batches : batch'[b].at = "kept" <=> batch[b].at = "kept"
  PROVE  OrderInv'
<1>1. PICK m \in 0..BatchCount(length) : KeptSoFar(m)
  BY DEF OrderInv
<1>2. KeptSoFar(m)'
  BY <1>1 DEF KeptSoFar, Upto
<1>3. BatchCount(length)' = BatchCount(length)
  BY DEF BatchCount
<1>. QED BY <1>1, <1>2, <1>3 DEF OrderInv

\* Every step keeps each batch's vectors at the place of its texts.
LEMMA OrderInvStep == EmbedInv /\ OrderInv /\ [EmbedNext]_embedVars => OrderInv'
<1>. SUFFICES ASSUME EmbedInv, OrderInv, [EmbedNext]_embedVars PROVE OrderInv'
  OBVIOUS
<1>1. ASSUME NEW n \in Lengths, EmbedTexts(n) PROVE OrderInv'
  <2>1. n \in Nat /\ length' = n /\ embedded' = <<>> /\ phase' = "gathering"
    BY <1>1, EmbeddingAssumption DEF EmbedTexts, EmbeddingAssumption
  <2>2. BatchCount(n) \in Nat
    BY <2>1, CountType
  <2>3. Batches' = 1..BatchCount(n) /\ \A b \in Batches' : batch'[b].at # "kept"
    BY <1>1 DEF EmbedTexts, Batches
  <2>4. Upto(0, n) = 0
    <3>1. 0 * EMBED_BATCH_SIZE = 0
      BY EmbeddingAssumption DEF EmbeddingAssumption
    <3>. QED BY <2>1, <3>1 DEF Upto
  <2>5. KeptSoFar(0)'
    <3>1. Upto(0, length)' = Upto(0, n)
      BY <2>1 DEF Upto
    <3>2. embedded' = [k \in 1..Upto(0, length)' |-> k]
      BY <2>1, <2>4, <3>1
    <3>. QED BY <2>2, <2>3, <3>2 DEF KeptSoFar
  <2>6. 0 \in 0..BatchCount(n) /\ BatchCount(length)' = BatchCount(n)
    BY <2>1, <2>2 DEF BatchCount
  <2>. QED BY <2>1, <2>3, <2>5, <2>6 DEF OrderInv
<1>2. ASSUME NEW b \in Batches, NEW reply \in Replies, Answered(b, reply) PROVE OrderInv'
  <2>1. /\ batch[b].at = "posting" /\ Batches' = Batches
        /\ \A c \in Batches : c # b => batch'[c] = batch[c]
        /\ batch'[b].at # "kept"
    <3>1. Leave(b, "done") \/ Leave(b, "refused") \/ Again(b)
      BY <1>2, EmbeddingAssumption DEF Answered, EmbeddingAssumption, ReplyKinds
    <3>2. /\ batch[b].at = "posting"
          /\ \/ batch' = [batch EXCEPT ![b].at = "done"]
             \/ batch' = [batch EXCEPT ![b].at = "refused"]
             \/ batch' = [batch EXCEPT ![b].tries = @ + 1]
      BY <1>2, <3>1 DEF Answered, Again, Leave, Posting
    <3>. QED BY <3>2 DEF Batches, EmbedInv, BatchesTyped
  <2>2. UNCHANGED <<phase, length, embedded>> /\ phase = "gathering"
    BY <1>2 DEF Answered
  <2>3. \A c \in Batches : batch'[c].at = "kept" <=> batch[c].at = "kept"
    BY <2>1
  <2>. QED BY <2>1, <2>2, <2>3, OrderStays
<1>3. ASSUME NEW b \in Batches, Turn(b) PROVE OrderInv'
  <2>1. batch[b].at = "waiting"
    BY <1>3 DEF Turn, EmbedInv, BatchesTyped, Waiters
  <2>2. /\ Batches' = Batches
        /\ \A c \in Batches : c # b => batch'[c] = batch[c]
        /\ batch'[b].at = "posting"
    BY <1>3 DEF Turn, Batches, EmbedInv, BatchesTyped
  <2>3. CASE phase = "gathering"
    BY <1>3, <2>1, <2>2, <2>3, OrderStays DEF Turn
  <2>4. CASE phase = "failing"
    BY <1>3, <2>4 DEF Turn, OrderInv
  <2>. QED BY <1>3, <2>3, <2>4 DEF Turn
<1>4. ASSUME NEW b \in Batches, Extends(b) PROVE OrderInv'
  <2>1. /\ phase = "gathering" /\ phase' = phase /\ length' = length
        /\ embedded' = embedded \o Texts(b, length)
        /\ \A c \in Batches : batch[c].at = IF c < b THEN "kept" ELSE "done"
        /\ batch' = [batch EXCEPT ![b].at = "kept"]
    BY <1>4 DEF Extends
  <2>2. PICK m \in 0..BatchCount(length) : KeptSoFar(m)
    BY <2>1 DEF OrderInv
  <2>3. length \in Nat /\ Batches = 1..BatchCount(length) /\ BatchCount(length) \in Nat
    BY <2>1, CountType DEF OrderInv
  <2>4. b \in Nat /\ ~(b <= m) /\ (b - 1 \in Batches => b - 1 <= m)
    BY <2>1, <2>2, <2>3 DEF KeptSoFar
  <2>5. b = m + 1
    BY <2>2, <2>3, <2>4
  <2>6. embedded' = [k \in 1..Upto(m + 1, length) |-> k]
    <3>1. m \in Nat /\ m + 1 <= BatchCount(length)
      BY <2>2, <2>3, <2>5
    <3>2. [k \in 1..Upto(m, length) |-> k] \o Texts(m + 1, length)
            = [k \in 1..Upto(m + 1, length) |-> k]
      BY <2>3, <3>1, NextBatch
    <3>3. embedded = [k \in 1..Upto(m, length) |-> k]
      BY <2>2 DEF KeptSoFar
    <3>. QED BY <2>1, <2>5, <3>2, <3>3
  <2>7. /\ Batches' = Batches
        /\ \A c \in Batches : batch'[c].at = "kept" <=> c <= m + 1
    BY <2>1, <2>2, <2>3, <2>5 DEF Batches, KeptSoFar, EmbedInv, BatchesTyped
  <2>8. KeptSoFar(m + 1)'
    BY <2>1, <2>6, <2>7 DEF KeptSoFar, Upto
  <2>9. m + 1 \in 0..BatchCount(length) /\ BatchCount(length)' = BatchCount(length)
    BY <2>1, <2>2, <2>3, <2>5 DEF BatchCount
  <2>. QED BY <2>1, <2>3, <2>7, <2>8, <2>9 DEF OrderInv
<1>5. CASE Returns
  <2>1. /\ phase = "gathering" /\ phase' = "embedded"
        /\ UNCHANGED <<length, batch, embedded>> /\ Batches' = Batches
        /\ \A b \in Batches : batch[b].at = "kept"
    BY <1>5 DEF Returns, Batches
  <2>2. PICK m \in 0..BatchCount(length) : KeptSoFar(m)
    BY <2>1 DEF OrderInv
  <2>3. KeptSoFar(m)' /\ BatchCount(length)' = BatchCount(length)
    BY <2>1, <2>2 DEF KeptSoFar, Upto, BatchCount
  <2>. QED BY <2>1, <2>2, <2>3 DEF OrderInv
<1>6. ASSUME NEW b \in Batches, PostsClosed(b) PROVE OrderInv'
  BY <1>6 DEF PostsClosed, OrderInv
<1>7. CASE GatherRaises \/ TaskFails \/ ProcessLost
  BY <1>7 DEF GatherRaises, TaskFails, ProcessLost, OrderInv
<1>8. CASE UNCHANGED embedVars
  BY <1>8 DEF embedVars, OrderInv, KeptSoFar, Upto, Batches, BatchCount
<1>. QED BY <1>1, <1>2, <1>3, <1>4, <1>5, <1>6, <1>7, <1>8 DEF EmbedNext, EmbedStep

\* The vectors that embed_texts returns (embedder.py:92-100) are those of the
\* texts in their order, for every length, size of a batch and number of slots,
\* in whatever order the batches were answered.
THEOREM VectorsAreInOrder == EmbedSpec => []VectorsInOrder
<1>1. EmbedInit => OrderInv
  BY DEF EmbedInit, OrderInv
<1>2. OrderInv => VectorsInOrder
  <2>. SUFFICES ASSUME OrderInv, phase = "embedded"
                PROVE  embedded = [k \in 1..length |-> k]
    BY DEF VectorsInOrder
  <2>1. PICK m \in 0..BatchCount(length) : KeptSoFar(m)
    BY DEF OrderInv
  <2>2. /\ length \in Nat /\ BatchCount(length) \in Nat
        /\ \A b \in 1..BatchCount(length) : b <= m
    BY <2>1, CountType DEF OrderInv, KeptSoFar
  <2>3. m = BatchCount(length)
    BY <2>1, <2>2
  <2>4. Upto(m, length) = length
    <3>1. m * EMBED_BATCH_SIZE >= length /\ m * EMBED_BATCH_SIZE \in Nat
      BY <2>2, <2>3, BatchesCover, EmbeddingAssumption DEF EmbeddingAssumption
    <3>. QED BY <2>2, <3>1 DEF Upto
  <2>. QED BY <2>1, <2>4 DEF KeptSoFar
<1>. QED BY <1>1, <1>2, InitEmbedInv, StepEmbedInv, OrderInvStep, PTL DEF EmbedSpec

-----------------------------------------------------------------------------
(* PageOcr. *)
Spots == {"new", "inner", "outer", "asking", "read", "empty"}

\* The pages have their types, and those that wait for a slot of their book are
\* where they wait.
PagesTyped ==
    /\ IsFiniteSet(Pages)
    /\ \A p \in Pages : page[p] \in [at : Spots, tries : Nat]
    /\ reading = "gemini" => /\ Sound(sem, Pages)
                             /\ \A p \in Waiters(sem) : page[p].at = "inner"

\* Nobody is woken before all pages have started.
StartFirst ==
    reading = "gemini" /\ (\E p \in Pages : page[p].at = "new") => sem.woken = {}

\* A page that asks has a slot of its book and one of the process.  Both
\* semaphores have as many: nobody has to wait for the second.
SlotsInPairs ==
    /\ reading = "gemini" => Spare(sem) + Cardinality(Asking) = OCR_CONCURRENT_BATCHES
    /\ reading # "gemini" => Asking = {}
    /\ ocrSem \in [value : Nat, waiting : {<<>>}, woken : {{}}, loop : {NoLoop}]
    /\ ocrSem.value + Cardinality(Asking) = OCR_CONCURRENT_BATCHES

OcrInv == PagesTyped /\ StartFirst /\ SlotsInPairs

\* Finitely many pages are being asked about.
LEMMA AskingFinite ==
  ASSUME IsFiniteSet(Pages)
  PROVE  IsFiniteSet(Asking) /\ Cardinality(Asking) \in Nat
<1>1. Asking \in SUBSET Pages
  BY DEF Asking
<1>. QED BY <1>1, FS_Subset, FS_CardinalityType

\* Who waits is a page.
LEMMA WaitersArePages ==
  ASSUME NEW s, NEW tasks, Sound(s, tasks)
  PROVE  Waiters(s) \subseteq tasks
  BY ElementOfSeq DEF Sound, Waiters, Queued

\* Without a page nobody asks.
LEMMA NoPages ==
  ASSUME page = <<>>
  PROVE  Pages = {} /\ Asking = {} /\ IsFiniteSet(Pages) /\ Cardinality(Asking) = 0
  BY FS_EmptySet DEF Pages, Asking

\* Before the first book there are no pages and all slots are free.
LEMMA InitOcrInv == OcrInit => OcrInv
<1>. SUFFICES ASSUME OcrInit PROVE OcrInv
  OBVIOUS
<1>1. OCR_CONCURRENT_BATCHES \in Nat
  BY PageOcrAssumption DEF PageOcrAssumption
<1>2. Pages = {} /\ Asking = {} /\ IsFiniteSet(Pages) /\ Cardinality(Asking) = 0
  BY NoPages DEF OcrInit
<1>. QED BY <1>1, <1>2 DEF OcrInv, PagesTyped, StartFirst, SlotsInPairs, OcrInit, NewSemaphore

\* A book begins when all slots are free.
LEMMA ExtractGeminiInv ==
  ASSUME OcrInv, NEW n \in PageCounts, ExtractGemini(n)
  PROVE  OcrInv'
<1>1. OCR_CONCURRENT_BATCHES \in Nat /\ n \in Nat
  BY PageOcrAssumption DEF PageOcrAssumption
<1>2. Pages' = 1..n /\ \A p \in Pages' : page'[p] = [at |-> "new", tries |-> 0]
  BY DEF ExtractGemini, Pages
<1>3. IsFiniteSet(Pages') /\ Asking' = {}
  <2>1. IsFiniteSet(1..n)
    BY <1>1, FS_Interval
  <2>2. \A p \in Pages' : page'[p].at = "new"
    BY <1>2
  <2>. QED BY <1>2, <2>1, <2>2 DEF Asking
<1>4. /\ Sound(sem', Pages')
      /\ Spare(sem') = OCR_CONCURRENT_BATCHES
      /\ Waiters(sem') = {} /\ sem'.woken = {}
  BY <1>1, NewSound DEF ExtractGemini, Waiters
<1>5. Asking = {} /\ UNCHANGED ocrSem /\ reading' = "gemini"
  BY DEF ExtractGemini, OcrInv, SlotsInPairs
<1>6. PagesTyped'
  BY <1>2, <1>3, <1>4 DEF PagesTyped, Spots
<1>7. SlotsInPairs'
  BY <1>1, <1>3, <1>4, <1>5, FS_EmptySet DEF OcrInv, SlotsInPairs
<1>8. StartFirst'
  BY <1>4 DEF StartFirst
<1>. QED BY <1>6, <1>7, <1>8 DEF OcrInv

\* Whoever has just got a slot of the book finds one of the process.
LEMMA AskSlotInv ==
  ASSUME OcrInv, reading = "gemini", UNCHANGED reading,
         NEW p \in Pages, page[p].at \in {"new", "inner"},
         NEW own, Sound(own, Pages), Spare(own) = Spare(sem) - 1,
         Waiters(own) \subseteq Waiters(sem) \ {p}, own.woken \subseteq sem.woken,
         AskSlot(p, own)
  PROVE  OcrInv'
<1>1. Cardinality(Asking) \in Nat /\ Spare(own) \in Nat /\ Spare(sem) \in Nat
  BY AskingFinite, SpareType DEF OcrInv, PagesTyped
<1>2. ocrSem.value > 0 /\ ocrSem.value \in Nat
  BY <1>1 DEF OcrInv, SlotsInPairs
<1>3. ~Locked(ocrSem)
  BY <1>2 DEF Locked, OcrInv, SlotsInPairs
<1>4. page' = [page EXCEPT ![p].at = "asking"] /\ ocrSem' = Acquire(ocrSem) /\ sem' = own
  BY <1>3 DEF AskSlot
<1>5. /\ Pages' = Pages
      /\ \A q \in Pages : page'[q] = IF q = p THEN [page[p] EXCEPT !.at = "asking"] ELSE page[q]
  BY <1>4 DEF Pages
<1>6. \A q \in Pages : page'[q] \in [at : Spots, tries : Nat]
  BY <1>5 DEF OcrInv, PagesTyped, Spots
<1>7. page'[p].at = "asking" /\ \A q \in Pages \ {p} : page'[q].at = page[q].at
  BY <1>5 DEF OcrInv, PagesTyped
<1>8. Asking' = Asking \cup {p} /\ p \notin Asking
  BY <1>5, <1>7 DEF Asking
<1>9. Cardinality(Asking') = Cardinality(Asking) + 1
  BY <1>8, AskingFinite, FS_AddElement DEF OcrInv, PagesTyped
<1>10. /\ ocrSem' \in [value : Nat, waiting : {<<>>}, woken : {{}}, loop : {NoLoop}]
       /\ ocrSem'.value = ocrSem.value - 1
  BY <1>2, <1>4 DEF Acquire, OcrInv, SlotsInPairs
<1>11. Waiters(own) \subseteq Pages
  BY WaitersArePages
<1>12. PagesTyped'
  BY <1>4, <1>5, <1>6, <1>7, <1>11 DEF OcrInv, PagesTyped
<1>13. SlotsInPairs'
  BY <1>1, <1>2, <1>4, <1>9, <1>10 DEF OcrInv, SlotsInPairs
<1>14. StartFirst'
  BY <1>4, <1>5, <1>7 DEF OcrInv, StartFirst
<1>. QED BY <1>12, <1>13, <1>14 DEF OcrInv

\* A page starts: it waits for a slot of its book or has one.
LEMMA PageStartsInv ==
  ASSUME OcrInv, NEW p \in Pages, PageStarts(p)
  PROVE  OcrInv'
<1>1. reading = "gemini" /\ UNCHANGED reading /\ page[p].at = "new"
  BY DEF PageStarts
<1>2. Sound(sem, Pages) /\ p \notin Waiters(sem)
  BY <1>1 DEF OcrInv, PagesTyped
<1>11. sem.woken = {}
  BY <1>1 DEF OcrInv, StartFirst
<1>31. Locked(sem) => sem.value = 0
  BY <1>11, <1>2 DEF Locked, Sound
<1>3. CASE Locked(sem)
  <2>. USE <1>3
  <2>1. /\ sem' = Wait(sem, <<p>>, opened)
        /\ page' = [page EXCEPT ![p].at = "inner"]
        /\ UNCHANGED ocrSem
    BY DEF PageStarts
  <2>2. /\ Pages' = Pages
        /\ \A q \in Pages : page'[q] = IF q = p THEN [page[p] EXCEPT !.at = "inner"] ELSE page[q]
    BY <2>1 DEF Pages
  <2>3. \A q \in Pages : page'[q] \in [at : Spots, tries : Nat]
    BY <2>2 DEF OcrInv, PagesTyped, Spots
  <2>4. page'[p].at = "inner" /\ \A q \in Pages \ {p} : page'[q].at = page[q].at
    BY <2>2 DEF OcrInv, PagesTyped
  <2>5. Asking' = Asking
    BY <1>1, <2>2, <2>4 DEF Asking
  <2>6. Waiters(sem) \subseteq Pages
    BY <1>2, WaitersArePages
  <2>7. /\ Sound(sem', Pages')
        /\ Spare(sem') = Spare(sem)
        /\ Waiters(sem') = Waiters(sem) \cup {p}
    BY <1>2, <1>31, <2>1, <2>2, WaitSound
  <2>8. PagesTyped'
    BY <1>1, <2>2, <2>3, <2>4, <2>6, <2>7 DEF OcrInv, PagesTyped
  <2>9. SlotsInPairs'
    BY <1>1, <2>1, <2>5, <2>7 DEF OcrInv, SlotsInPairs
  <2>10. StartFirst'
    BY <1>11, <2>1 DEF Wait, StartFirst, Sound, PagesTyped, OcrInv
  <2>. QED BY <2>8, <2>9, <2>10 DEF OcrInv
<1>4. CASE ~Locked(sem)
  <2>1. AskSlot(p, Acquire(sem))
    BY <1>4 DEF PageStarts
  <2>2. /\ Sound(Acquire(sem), Pages)
        /\ Spare(Acquire(sem)) = Spare(sem) - 1
        /\ Waiters(Acquire(sem)) = Waiters(sem)
        /\ Acquire(sem).woken = sem.woken
    BY <1>2, <1>4, AcquireSound
  <2>. QED BY <1>1, <1>2, <2>1, <2>2, AskSlotInv
<1>. QED BY <1>3, <1>4

\* A page whose turn comes goes on to ask.
LEMMA PageTurnInv ==
  ASSUME OcrInv, NEW p \in Pages, PageTurn(p)
  PROVE  OcrInv'
<1>1. reading = "gemini" /\ UNCHANGED reading
  BY DEF PageTurn
<1>2. p \in sem.woken /\ p \in Waiters(sem)
  BY DEF PageTurn, OcrInv, SlotsInPairs, Waiters
<1>3. page[p].at = "inner" /\ Sound(sem, Pages)
  BY <1>1, <1>2 DEF OcrInv, PagesTyped
<1>4. /\ Sound(Resume(sem, p), Pages)
      /\ Spare(Resume(sem, p)) = Spare(sem) - 1
      /\ Waiters(Resume(sem, p)) = Waiters(sem) \ {p}
      /\ Resume(sem, p).woken \subseteq sem.woken
  BY <1>2, <1>3, ResumeSound
<1>5. AskSlot(p, Resume(sem, p))
  BY <1>2 DEF PageTurn
<1>. QED BY <1>1, <1>3, <1>4, <1>5, AskSlotInv

\* A page that is done gives both slots back.
LEMMA PageOverInv ==
  ASSUME OcrInv, NEW p \in Asking, NEW at \in {"read", "empty"}, PageOver(p, at),
         UNCHANGED reading, \A q \in Pages : page[q].at # "new"
  PROVE  OcrInv'
<1>1. p \in Pages /\ page[p].at = "asking" /\ reading = "gemini"
  BY DEF Asking, OcrInv, SlotsInPairs
<1>2. /\ Pages' = Pages
      /\ \A q \in Pages : page'[q] = IF q = p THEN [page[p] EXCEPT !.at = at] ELSE page[q]
  BY <1>1 DEF PageOver, Pages
<1>3. \A q \in Pages : page'[q] \in [at : Spots, tries : Nat]
  BY <1>2 DEF OcrInv, PagesTyped, Spots
<1>4. page'[p].at = at /\ \A q \in Pages \ {p} : page'[q].at = page[q].at
  BY <1>1, <1>2 DEF OcrInv, PagesTyped
<1>5. Asking' = Asking \ {p}
  BY <1>2, <1>4 DEF Asking
<1>6. Cardinality(Asking') = Cardinality(Asking) - 1 /\ Cardinality(Asking) \in Nat
  BY <1>5, AskingFinite, FS_RemoveElement DEF OcrInv, PagesTyped
<1>7. /\ Sound(sem', Pages')
      /\ Spare(sem') = Spare(sem) + 1
      /\ Waiters(sem') = Waiters(sem)
  BY <1>1, <1>2, ReleaseSound DEF PageOver, OcrInv, PagesTyped
<1>8. Waiters(sem) \subseteq Pages /\ p \notin Waiters(sem)
  BY <1>1, WaitersArePages DEF OcrInv, PagesTyped
<1>9. /\ ocrSem' \in [value : Nat, waiting : {<<>>}, woken : {{}}, loop : {NoLoop}]
      /\ ocrSem'.value = ocrSem.value + 1
  BY DEF PageOver, Release, OcrInv, SlotsInPairs
<1>10. PagesTyped'
  BY <1>2, <1>3, <1>4, <1>7, <1>8 DEF OcrInv, PagesTyped
<1>11. StartFirst'
  BY <1>2, <1>4 DEF StartFirst
<1>12. SlotsInPairs'
  <2>1. ocrSem.value \in Nat /\ Spare(sem) \in Nat
    BY <1>1, SpareType DEF OcrInv, PagesTyped, SlotsInPairs
  <2>. QED BY <1>1, <1>6, <1>7, <1>9, <2>1 DEF OcrInv, SlotsInPairs
<1>. QED BY <1>10, <1>11, <1>12 DEF OcrInv

\* An answer ends a page or makes it ask again.
LEMMA PageAnsweredInv ==
  ASSUME OcrInv, NEW p \in Pages, NEW reply \in OcrReplies, PageAnswered(p, reply)
  PROVE  OcrInv'
<1>1. p \in Asking /\ UNCHANGED reading /\ \A q \in Pages : page[q].at # "new"
  BY DEF PageAnswered
<1>2. CASE page' = [page EXCEPT ![p].tries = @ + 1] /\ UNCHANGED <<sem, ocrSem>>
  <2>1. /\ Pages' = Pages
        /\ \A q \in Pages : page'[q] = IF q = p THEN [page[p] EXCEPT !.tries = @ + 1] ELSE page[q]
    BY <1>2 DEF Pages
  <2>2. \A q \in Pages : page'[q] \in [at : Spots, tries : Nat] /\ page'[q].at = page[q].at
    BY <2>1 DEF OcrInv, PagesTyped
  <2>3. Asking' = Asking
    BY <2>1, <2>2 DEF Asking
  <2>4. reading = "gemini" => Waiters(sem) \subseteq Pages
    BY WaitersArePages DEF OcrInv, PagesTyped
  <2>. QED
    BY <1>1, <1>2, <2>1, <2>2, <2>3, <2>4 DEF OcrInv, PagesTyped, StartFirst, SlotsInPairs
<1>3. CASE PageOver(p, "read") \/ PageOver(p, "empty")
  BY <1>1, <1>3, PageOverInv
<1>. QED BY <1>2, <1>3 DEF PageAnswered

\* When the pages of a book are done, or cancelled, nobody asks.
LEMMA BookEndsInv ==
  ASSUME OcrInv, GeminiDone \/ Cancelled \/ \E n \in PageCounts : ExtractTesseract(n)
  PROVE  OcrInv'
<1>1. CASE GeminiDone
  <2>1. Asking = {} /\ Asking' = {} /\ Pages' = Pages /\ reading' = "extracted"
    BY <1>1 DEF GeminiDone, Asking, Pages
  <2>. QED
    BY <1>1, <2>1 DEF GeminiDone, OcrInv, PagesTyped, StartFirst, SlotsInPairs
<1>2. CASE Cancelled
  <2>1. Pages' = {} /\ Asking' = {} /\ IsFiniteSet(Pages') /\ Cardinality(Asking') = 0
    BY <1>2, FS_EmptySet DEF Cancelled, Pages, Asking
  <2>2. Cardinality(Asking) \in Nat /\ Cardinality(ocrSem.woken) = 0
    BY AskingFinite, FS_EmptySet DEF OcrInv, PagesTyped, SlotsInPairs
  <2>3. /\ ocrSem' \in [value : Nat, waiting : {<<>>}, woken : {{}}, loop : {NoLoop}]
        /\ ocrSem'.value = ocrSem.value + Cardinality(Asking)
    <3>1. ocrSem' = [ocrSem EXCEPT !.value = @ + (Cardinality(Asking) + Cardinality(ocrSem.woken)),
                                   !.waiting = <<>>, !.woken = {}]
      BY <1>2 DEF Cancelled, CancelAll
    <3>2. ocrSem \in [value : Nat, waiting : {<<>>}, woken : {{}}, loop : {NoLoop}]
      BY DEF OcrInv, SlotsInPairs
    <3>3. ocrSem.value \in Nat
      BY <3>2
    <3>4. ocrSem.value + (Cardinality(Asking) + Cardinality(ocrSem.woken))
            = ocrSem.value + Cardinality(Asking)
      BY <2>2, <3>3
    <3>5. ocrSem.value + Cardinality(Asking) \in Nat
      BY <2>2, <3>3
    <3>. QED BY <3>1, <3>2, <3>4, <3>5
  <2>4. ocrSem.value + Cardinality(Asking) = OCR_CONCURRENT_BATCHES
        /\ ocrSem.value \in Nat
    BY DEF OcrInv, SlotsInPairs
  <2>. QED
    BY <1>2, <2>1, <2>2, <2>3, <2>4 DEF Cancelled, OcrInv, PagesTyped, StartFirst, SlotsInPairs
<1>3. ASSUME NEW n \in PageCounts, ExtractTesseract(n) PROVE OcrInv'
  <2>1. Pages' = {} /\ Asking' = {} /\ IsFiniteSet(Pages')
    BY <1>3, FS_EmptySet DEF ExtractTesseract, Pages, Asking
  <2>2. reading # "gemini" /\ reading' # "gemini" /\ UNCHANGED ocrSem
    BY <1>3 DEF ExtractTesseract
  <2>. QED
    BY <2>1, <2>2 DEF OcrInv, PagesTyped, StartFirst, SlotsInPairs
<1>. QED BY <1>1, <1>2, <1>3

\* Every step keeps the invariant.
LEMMA StepOcrInv == OcrInv /\ [OcrNext]_ocrVars => OcrInv'
<1>. SUFFICES ASSUME OcrInv, [OcrNext]_ocrVars PROVE OcrInv'
  OBVIOUS
<1>1. CASE UNCHANGED ocrVars
  BY <1>1 DEF ocrVars, OcrInv, PagesTyped, StartFirst, SlotsInPairs, Pages, Asking
<1>. QED
  BY <1>1, ExtractGeminiInv, PageStartsInv, PageTurnInv, PageAnsweredInv, BookEndsInv
     DEF OcrNext, OcrStep

\* The inductive invariant, for any number of books that one process extracts.
THEOREM OcrInvariant == OcrSpec => []OcrInv
<1>. QED BY InitOcrInv, StepOcrInv, PTL DEF OcrSpec

\* Nobody ever waits for the semaphore of the process (ocr.py:35), whose two
\* limits are the same: it is never bound to the event loop of one book.
THEOREM NobodyWaits == OcrSpec => []OcrNeverWaits
<1>1. OcrInv => OcrNeverWaits
  BY DEF OcrInv, SlotsInPairs, OcrNeverWaits
<1>. QED BY <1>1, OcrInvariant, PTL

-----------------------------------------------------------------------------
(* The limiter. *)
\* A request under way has come from somewhere, and is somebody's once it has
\* authenticated.
Known ==
    \A l \in Logins :
        /\ login[l].pc # "idle" => login[l].from \in Addresses
        /\ login[l].pc \in {"reset", "issue"} => login[l].as \in Users

Typed == SessionsTypeOK /\ Known

\* Nobody is logged in at first.
LEMMA InitTyped == SessionsInit => Typed
  BY SessionsAssumption
     DEF SessionsInit, Typed, SessionsTypeOK, Known, Login, NoLogin

\* No login is a login with nothing in it.
LEMMA NoLoginTyped == NoLogin \in Login
  BY DEF NoLogin, Login

\* Types are kept, and with them where a request comes from.
LEMMA StepTyped ==
  ASSUME Typed, [SessionsNext]_sessionVars
  PROVE  Typed'
<1>. USE SessionsAssumption DEF Typed, SessionsTypeOK, Known
<1>1. ASSUME NEW l \in Logins, NEW a \in Addresses, LoginBegins(l, a) PROVE Typed'
  BY <1>1 DEF LoginBegins, Login
<1>2. ASSUME NEW l \in Logins, Authenticate(l) PROVE Typed'
  BY <1>2 DEF Authenticate, Login
<1>3. ASSUME NEW l \in Logins, RecordFailure(l) PROVE Typed'
  BY <1>3 DEF RecordFailure, Login, NoLogin
<1>4. ASSUME NEW l \in Logins, SetExpiry(l) PROVE Typed'
  BY <1>4 DEF SetExpiry, Login, NoLogin
<1>5. ASSUME NEW l \in Logins, ResetFailures(l) PROVE Typed'
  BY <1>5 DEF ResetFailures, Forget, Login
<1>6. ASSUME NEW l \in Logins, IssueToken(l) PROVE Typed'
  BY <1>6, NoLoginTyped DEF IssueToken, NoLogin
<1>7. ASSUME NEW l \in Logins, LoginDies(l) PROVE Typed'
  BY <1>7, NoLoginTyped DEF LoginDies, NoLogin
<1>8. ASSUME NEW a \in Addresses, KeyExpires(a) PROVE Typed'
  BY <1>8 DEF KeyExpires, Forget
<1>9. ASSUME NEW u \in Users, Logout(u) \/ UpdateUser(u) PROVE Typed'
  BY <1>9 DEF Logout, UpdateUser
<1>10. CASE UNCHANGED sessionVars
  BY <1>10 DEF sessionVars
<1>. QED
  BY <1>1, <1>2, <1>3, <1>4, <1>5, <1>6, <1>7, <1>8, <1>9, <1>10 DEF SessionsNext, LoginStep

-----------------------------------------------------------------------------
(* The failures counted, and the logins that may still add one. *)

\* The logins that were admitted are finitely many, at most all.
LEMMA AdmittedFinite ==
  ASSUME NEW a
  PROVE  /\ IsFiniteSet(Admitted(a))
         /\ Cardinality(Admitted(a)) \in Nat
         /\ Cardinality(Admitted(a)) <= Cardinality(Logins)
<1>1. Admitted(a) \in SUBSET Logins
  BY DEF Admitted
<1>2. IsFiniteSet(Admitted(a)) /\ Cardinality(Admitted(a)) <= Cardinality(Logins)
  BY <1>1, FS_Subset, SessionsAssumption DEF SessionsAssumption
<1>. QED BY <1>2, FS_CardinalityType

\* Where nobody is admitted anew and nothing is counted, the bound is kept.
LEMMA BoundKept ==
  ASSUME Typed, Typed', FailuresBounded, NEW a \in Addresses,
         failures'[a] <= failures[a], Admitted(a)' \subseteq Admitted(a)
  PROVE  failures'[a] + Cardinality(Admitted(a)')
            <= LOGIN_MAX_FAILURES - 1 + Cardinality(Logins)
<1>1. Cardinality(Admitted(a)') <= Cardinality(Admitted(a))
      /\ Cardinality(Admitted(a)') \in Nat
  BY AdmittedFinite, FS_Subset, FS_CardinalityType
<1>2. Cardinality(Admitted(a)) \in Nat /\ Cardinality(Logins) \in Nat
  BY AdmittedFinite, FS_CardinalityType, SessionsAssumption DEF SessionsAssumption
<1>3. failures[a] \in Nat /\ failures'[a] \in Nat
  BY DEF Typed, SessionsTypeOK
<1>4. failures[a] + Cardinality(Admitted(a))
        <= LOGIN_MAX_FAILURES - 1 + Cardinality(Logins)
  BY DEF FailuresBounded
<1>. QED BY <1>1, <1>2, <1>3, <1>4, SessionsAssumption DEF SessionsAssumption

\* The bound is inductive.
LEMMA StepBounded ==
  ASSUME Typed, Typed', FailuresBounded, [SessionsNext]_sessionVars
  PROVE  FailuresBounded'
<1>. SUFFICES ASSUME NEW a \in Addresses
              PROVE  failures'[a] + Cardinality(Admitted(a)')
                        <= LOGIN_MAX_FAILURES - 1 + Cardinality(Logins)
  BY DEF FailuresBounded, Admitted
<1>. USE DEF Typed, SessionsTypeOK
<1>1. ASSUME NEW l \in Logins, NEW b \in Addresses, LoginBegins(l, b), a = b
      PROVE  failures'[a] + Cardinality(Admitted(a)')
                <= LOGIN_MAX_FAILURES - 1 + Cardinality(Logins)
  <2>1. failures'[a] \in Nat /\ ~ (failures'[a] >= LOGIN_MAX_FAILURES)
    BY <1>1 DEF LoginBegins, Blocked
  <2>2. Admitted(a)' \in SUBSET Logins
    BY DEF Admitted
  <2>3. Cardinality(Admitted(a)') <= Cardinality(Logins) /\ Cardinality(Admitted(a)') \in Nat
    BY <2>2, FS_Subset, FS_CardinalityType, SessionsAssumption DEF SessionsAssumption
  <2>4. Cardinality(Logins) \in Nat
    BY FS_CardinalityType, SessionsAssumption DEF SessionsAssumption
  <2>. QED BY <2>1, <2>3, <2>4, SessionsAssumption DEF SessionsAssumption
<1>2. ASSUME NEW l \in Logins, RecordFailure(l), login[l].from = a
      PROVE  failures'[a] + Cardinality(Admitted(a)')
                <= LOGIN_MAX_FAILURES - 1 + Cardinality(Logins)
  <2>1. failures'[a] = failures[a] + 1 /\ failures[a] \in Nat
    BY <1>2 DEF RecordFailure
  <2>2. l \in Admitted(a)
    BY <1>2 DEF RecordFailure, Admitted
  <2>3. Admitted(a)' = Admitted(a) \ {l}
    BY <1>2 DEF RecordFailure, Admitted, NoLogin, Login
  <2>4. Cardinality(Admitted(a)') = Cardinality(Admitted(a)) - 1
    BY ZenonT(40), <2>2, <2>3, AdmittedFinite, FS_RemoveElement
  <2>5. Cardinality(Admitted(a)) \in Nat /\ Cardinality(Logins) \in Nat
    BY AdmittedFinite, FS_CardinalityType, SessionsAssumption DEF SessionsAssumption
  <2>6. failures[a] + Cardinality(Admitted(a))
          <= LOGIN_MAX_FAILURES - 1 + Cardinality(Logins)
    BY DEF FailuresBounded
  <2>. QED BY <2>1, <2>4, <2>5, <2>6, SessionsAssumption DEF SessionsAssumption
<1>3. ASSUME NEW l \in Logins, NEW b \in Addresses, LoginBegins(l, b), a # b
      PROVE  failures'[a] <= failures[a] /\ Admitted(a)' \subseteq Admitted(a)
  BY <1>3 DEF LoginBegins, Admitted, Login
<1>4. ASSUME NEW l \in Logins, RecordFailure(l), login[l].from # a
      PROVE  failures'[a] <= failures[a] /\ Admitted(a)' \subseteq Admitted(a)
  BY <1>4 DEF RecordFailure, Admitted, Login, NoLogin
<1>5. ASSUME NEW l \in Logins, Authenticate(l)
      PROVE  failures'[a] <= failures[a] /\ Admitted(a)' \subseteq Admitted(a)
  BY <1>5 DEF Authenticate, Admitted, Login
<1>6. ASSUME NEW l \in Logins, SetExpiry(l) \/ IssueToken(l) \/ LoginDies(l)
      PROVE  failures'[a] <= failures[a] /\ Admitted(a)' \subseteq Admitted(a)
  BY <1>6 DEF SetExpiry, IssueToken, LoginDies, Admitted, Login, NoLogin
<1>7. ASSUME NEW l \in Logins, ResetFailures(l)
      PROVE  failures'[a] <= failures[a] /\ Admitted(a)' \subseteq Admitted(a)
  BY <1>7 DEF ResetFailures, Forget, Admitted, Login
<1>8. ASSUME NEW b \in Addresses, KeyExpires(b)
      PROVE  failures'[a] <= failures[a] /\ Admitted(a)' \subseteq Admitted(a)
  BY <1>8 DEF KeyExpires, Forget, Admitted
<1>9. ASSUME NEW u \in Users, Logout(u) \/ UpdateUser(u)
      PROVE  failures'[a] <= failures[a] /\ Admitted(a)' \subseteq Admitted(a)
  BY <1>9 DEF Logout, UpdateUser, Admitted
<1>10. ASSUME UNCHANGED sessionVars
       PROVE  failures'[a] <= failures[a] /\ Admitted(a)' \subseteq Admitted(a)
  BY <1>10 DEF sessionVars, Admitted
<1>. QED
  BY <1>1, <1>2, <1>3, <1>4, <1>5, <1>6, <1>7, <1>8, <1>9, <1>10, BoundKept
     DEF SessionsNext, LoginStep

-----------------------------------------------------------------------------
(* Keys and their time to live. *)

\* That every key is timed, about to be, or abandoned is inductive.
LEMMA StepTimed ==
  ASSUME Typed, Typed', BlocksAreTimed, [SessionsNext]_sessionVars
  PROVE  BlocksAreTimed'
<1>. USE DEF Typed, SessionsTypeOK, Known, BlocksAreTimed
<1>1. ASSUME NEW l \in Logins, NEW b \in Addresses, LoginBegins(l, b) PROVE BlocksAreTimed'
  BY <1>1 DEF LoginBegins, Login
<1>2. ASSUME NEW l \in Logins, Authenticate(l) PROVE BlocksAreTimed'
  BY <1>2 DEF Authenticate, Login
<1>3. ASSUME NEW l \in Logins, RecordFailure(l) PROVE BlocksAreTimed'
  BY <1>3 DEF RecordFailure, Login, NoLogin
<1>4. ASSUME NEW l \in Logins, SetExpiry(l) PROVE BlocksAreTimed'
  BY <1>4 DEF SetExpiry, Login, NoLogin
<1>5. ASSUME NEW l \in Logins, ResetFailures(l) PROVE BlocksAreTimed'
  BY <1>5 DEF ResetFailures, Forget, Login
<1>6. ASSUME NEW l \in Logins, IssueToken(l) PROVE BlocksAreTimed'
  BY <1>6 DEF IssueToken, NoLogin
<1>7. ASSUME NEW l \in Logins, LoginDies(l) PROVE BlocksAreTimed'
  BY <1>7 DEF LoginDies, NoLogin
<1>8. ASSUME NEW b \in Addresses, KeyExpires(b) PROVE BlocksAreTimed'
  BY <1>8 DEF KeyExpires, Forget
<1>9. ASSUME NEW u \in Users, Logout(u) \/ UpdateUser(u) PROVE BlocksAreTimed'
  BY <1>9 DEF Logout, UpdateUser
<1>10. CASE UNCHANGED sessionVars
  BY <1>10 DEF sessionVars
<1>. QED
  BY <1>1, <1>2, <1>3, <1>4, <1>5, <1>6, <1>7, <1>8, <1>9, <1>10 DEF SessionsNext, LoginStep

-----------------------------------------------------------------------------
SessionsInv == Typed /\ FailuresBounded /\ BlocksAreTimed

\* At the start nothing is counted and nobody is admitted.
LEMMA InitInv == SessionsInit => SessionsInv
<1>. SUFFICES ASSUME SessionsInit PROVE SessionsInv
  OBVIOUS
<1>1. Typed
  BY InitTyped
<1>2. ASSUME NEW a \in Addresses
      PROVE  /\ failures[a] = 0
             /\ Cardinality(Admitted(a)) \in Nat
             /\ Cardinality(Admitted(a)) <= Cardinality(Logins)
  BY AdmittedFinite DEF SessionsInit
<1>3. Cardinality(Logins) \in Nat
  BY FS_CardinalityType, SessionsAssumption DEF SessionsAssumption
<1>4. FailuresBounded
  BY <1>2, <1>3, SessionsAssumption DEF SessionsAssumption, FailuresBounded
<1>5. BlocksAreTimed
  BY <1>2 DEF BlocksAreTimed
<1>. QED BY <1>1, <1>4, <1>5 DEF SessionsInv

\* Every step keeps the three.
LEMMA StepInv == SessionsInv /\ [SessionsNext]_sessionVars => SessionsInv'
  BY StepTyped, StepBounded, StepTimed DEF SessionsInv

\* The login limiter (rate_limit.py:17-33), whatever requests interleave or die:
\* types, the bound on the failures beyond the limit, and the keys' lives.
THEOREM LimiterInvariant == SessionsSpec => []SessionsInv
<1>. QED BY InitInv, StepInv, PTL DEF SessionsSpec

\* Requests that passed the check together may count past the limit, but never by
\* more than there are of them.
THEOREM LimitHolds == SessionsSpec => []FailuresBounded
<1>1. SessionsInv => FailuresBounded
  BY DEF SessionsInv
<1>. QED BY <1>1, LimiterInvariant, PTL

\* A key that counts is timed unless the login that made it died too soon.
THEOREM KeysAreTimed == SessionsSpec => []BlocksAreTimed
<1>1. SessionsInv => BlocksAreTimed
  BY DEF SessionsInv
<1>. QED BY <1>1, LimiterInvariant, PTL
=============================================================================

--------------------------- MODULE AsyncSemaphore ---------------------------
(* asyncio.Semaphore of Python 3.12, which the clients of the model services   *)
(* share among the tasks of an event loop.  "value" is the number of free      *)
(* slots; "waiting" holds the tasks whose future is pending, first come first  *)
(* served; "woken" those whose future was set and who have not had their turn: *)
(* their slot is already taken off the value.  The first task that has to wait *)
(* binds the semaphore to its event loop.                                      *)
EXTENDS Naturals, Sequences

CONSTANT NoLoop

NewSemaphore(n) == [value |-> n, waiting |-> <<>>, woken |-> {}, loop |-> NoLoop]

Locked(s) == s.value = 0 \/ s.waiting # <<>> \/ s.woken # {}

\* Waiting in another loop than the semaphore's raises RuntimeError.
Bindable(s, loop) == s.loop \in {NoLoop, loop}

Acquire(s) == [s EXCEPT !.value = @ - 1]
Wait(s, tasks, loop) == [s EXCEPT !.waiting = @ \o tasks, !.loop = loop]

\* The slot goes to the first who waits.
Release(s) ==
    IF s.waiting = <<>>
    THEN [s EXCEPT !.value = @ + 1]
    ELSE [s EXCEPT !.waiting = Tail(@), !.woken = @ \cup {Head(s.waiting)}]

\* The turn of a task that was woken; it passes on what slots are left.
Resume(s, task) ==
    LET r == [s EXCEPT !.woken = @ \ {task}] IN
    IF r.value = 0 \/ r.waiting = <<>>
    THEN r
    ELSE [r EXCEPT !.value = @ - 1, !.waiting = Tail(@), !.woken = @ \cup {Head(r.waiting)}]

\* Every task of the loop is cancelled: those that hold or were given a slot
\* give it back, and nobody waits any more.
CancelAll(s, held) ==
    [s EXCEPT !.value = @ + held, !.waiting = <<>>, !.woken = {}]
=============================================================================

---------------------------- MODULE AnswerService ----------------------------
(***************************************************************************)
(* What a client sees of the ask endpoints: each request is answered once, *)
(* or refused with an error, and an answer comes from the book that was    *)
(* asked.  No cache, no agent, no provider.                                *)
(***************************************************************************)
CONSTANTS Requests, Books, NoBook, Silence, Failure

VARIABLES
    wanted,  \* the book each request asks about, NoBook for any
    answer   \* what each client has got

Answer == [answer: {"text", "fallback", "refusal", "outage"},
           no_result: BOOLEAN, sources: SUBSET Books]

\* A text, or the note that it could not be written, comes with the sources it
\* was or would have been written from; the note that the search is down comes
\* with none; no_result tells these from the others.
WellFormed(a) ==
    /\ a.no_result <=> a.answer \in {"refusal", "outage"}
    /\ a.answer \in {"text", "fallback"} => a.sources # {}
    /\ a.answer = "outage" => a.sources = {}
Honest(r, a) ==
    /\ WellFormed(a)
    /\ wanted[r] # NoBook => a.sources \subseteq {wanted[r]}

Init ==
    /\ wanted \in [Requests -> Books \cup {NoBook}]
    /\ answer = [r \in Requests |-> Silence]

\* The next answer is the witness: a set of all answers would be enumerated.
Reply(r) ==
    /\ answer[r] = Silence
    /\ answer'[r] \in Answer /\ Honest(r, answer'[r])
    /\ answer' = [answer EXCEPT ![r] = answer'[r]]
    /\ UNCHANGED wanted

Fail(r) ==
    /\ answer[r] = Silence
    /\ answer' = [answer EXCEPT ![r] = Failure]
    /\ UNCHANGED wanted

Next == \E r \in Requests : Reply(r) \/ Fail(r)

Spec == Init /\ [][Next]_<<wanted, answer>>
=============================================================================

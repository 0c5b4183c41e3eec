----------------------------- MODULE PageNumbers -----------------------------
(***************************************************************************)
(* The printed page numbers of a book: what is read at the foot and the    *)
(* head of each page, what is imputed for the pages where nothing is read, *)
(* and the verdict of the validator.                                       *)
(***************************************************************************)
EXTENDS Integers, Sequences, FiniteSets, SequencesExt, FiniteSetsExt

CONSTANTS
    None,
    TrueShift,   \* printed - physical page number in the book itself
    Leaves       \* the books: what stands on their pages' first and last lines

ASSUME PageNumbersAssumption ==
    /\ TrueShift \in Int /\ None \notin Int
    /\ \A book \in Leaves : book \in Seq([foot : Seq(Nat), head : Seq(Nat)]) /\ book # <<>>

VARIABLES
    leaves,    \* for each page the numbers in its last five and first two lines
    footer,    \* the number read on each page, or None
    printed,   \* the number each page goes by, or None
    verdict    \* how far the book has come, at last what the validator says

pageVars == <<leaves, footer, printed, verdict>>

PageInit ==
    /\ leaves \in Leaves
    /\ footer = [p \in DOMAIN leaves |-> None]
    /\ printed = footer
    /\ verdict = "none"

-----------------------------------------------------------------------------
Count(seq, x) == Cardinality({k \in DOMAIN seq : seq[k] = x})
\* Counter.most_common(1): of those that occur most the one that came first.
MostCommon(seq) ==
    LET most == {k \in DOMAIN seq : \A m \in DOMAIN seq : Count(seq, seq[k]) >= Count(seq, seq[m])}
    IN seq[Min(most)]

\* A number that stands twice is preferred, else the last that was found.
FooterNumber(leaf) ==
    LET candidates == leaf.foot \o leaf.head
    IN CASE candidates = <<>> -> None
         [] Count(candidates, MostCommon(candidates)) > 1 -> MostCommon(candidates)
         [] OTHER -> Last(candidates)

\* The pages are read by concurrent tasks, each into its own place.
ReadPages ==
    /\ verdict = "none"
    /\ footer' = [p \in DOMAIN leaves |-> FooterNumber(leaves[p])]
    /\ printed' = footer'
    /\ verdict' = "read"
    /\ UNCHANGED leaves

Read == {p \in DOMAIN footer : footer[p] # None}
Agreeing(p) == {q \in Read : footer[q] - q = footer[p] - p}
\* Again the first page of those whose offset occurs most.
Modal ==
    Min({p \in Read : \A q \in Read : Cardinality(Agreeing(p)) >= Cardinality(Agreeing(q))})

\* The first page that was read stands for all.
MutantModalOffset == IF Read = {} THEN None ELSE footer[Min(Read)] - Min(Read)
\* _modal_print_offset: reliable if int(0.8 * n) of the n offsets agree.
ModalOffset ==
    IF \/ Read = {}
       \/ Cardinality(Agreeing(Modal)) < Max({1, (8 * Cardinality(Read)) \div 10})
    THEN None ELSE footer[Modal] - Modal

\* Fewer than half of the pages, or offsets that disagree, leave things as they are.
Impute ==
    /\ verdict = "read"
    /\ verdict' = "imputed"
    /\ printed' = IF 2 * Cardinality(Read) < Len(footer) \/ ModalOffset = None
                  THEN printed
                  ELSE [p \in DOMAIN footer |->
                          IF p \in Read THEN footer[p] ELSE p + ModalOffset]
    /\ UNCHANGED <<leaves, footer>>

-----------------------------------------------------------------------------
\* _check_monotone: the pages whose number is smaller than the one before it.
Known == {p \in DOMAIN printed : printed[p] # None}
Violations ==
    {p \in Known : \E q \in Known :
        q < p /\ Known \cap ((q + 1)..(p - 1)) = {} /\ printed[p] < printed[q]}

\* A rate that reaches the maximum is too much.
MutantTooMany == 10 * Cardinality(Violations) >= 2 * Max({Cardinality(Read), 1})
TooMany == 10 * Cardinality(Violations) > 2 * Max({Cardinality(Read), 1})
TooFew == 10 * Cardinality(Read) < 5 * Len(footer)

\* validate_ingestion_page_numbers; the worker logs a rejection and goes on.
Validate ==
    /\ verdict = "imputed"
    /\ verdict' = IF TooFew \/ TooMany THEN "rejected" ELSE "accepted"
    /\ UNCHANGED <<leaves, footer, printed>>

PageSpec == PageInit /\ [][ReadPages \/ Impute \/ Validate]_pageVars

-----------------------------------------------------------------------------
(* Properties. *)
Misread == {p \in Read : footer[p] # p + TrueShift}
\* Half of the pages are read, at most a fifth of those wrongly.
WellRead ==
    verdict # "none" /\ 2 * Cardinality(Read) >= Len(leaves)
                     /\ 5 * Cardinality(Misread) <= Cardinality(Read)

\* In a well read book every page without a number gets its true one, whichever
\* pages were misread.
ImputedRight ==
    WellRead /\ verdict # "read" =>
        \A p \in DOMAIN printed \ Read : printed[p] = p + TrueShift

\* The validator rejects no well read book: a run of misread pages, together
\* with what was imputed around it, makes no more violations than misreadings.
WellReadAccepted == WellRead => verdict # "rejected"
=============================================================================

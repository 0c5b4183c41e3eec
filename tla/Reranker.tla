------------------------------- MODULE Reranker -------------------------------
(***************************************************************************)
(* rerank (app/rag/reranker.py): the hits of the vector and of the keyword *)
(* search are fused, scored, cut at the relevance floor, sorted, stripped  *)
(* of chunks that repeat a better one, and cut to top_k.                   *)
(*                                                                         *)
(* A text is a sequence of tokens.  What the question's terms and names    *)
(* make of it is given: overlap[text] and boost[text].  Scores are counted *)
(* in millionths.                                                          *)
(***************************************************************************)
EXTENDS Integers, SequencesExt, FiniteSetsExt

CONSTANTS
    NGRAM,      \* ngram of _contiguous_coverage
    TOP_K,
    MaxHits,    \* how many passages each search finds at most
    Passages,   \* what the searches may find: [text, book, first, last]
    Overlaps, Boosts,
    NoBookId,   \* the book of a chunk that has none
    Unranked

ASSUME RerankerAssumption ==
    /\ TOP_K \in Nat /\ MaxHits \in Nat
    /\ Overlaps \subseteq Int /\ Boosts \subseteq Int

VARIABLES
    hits,       \* [vector, keyword]: the two searches' lists, best first
    overlap, boost,
    reranked    \* what rerank returned

rerankVars == <<hits, overlap, boost, reranked>>

Texts == {p.text : p \in Passages}
MinScore == 100000
HasBook(p) == p.book # NoBookId

RankedLists == {s \in UNION {[1..k -> Passages] : k \in 0..MaxHits} : IsInjective(s)}

RerankInit ==
    /\ hits \in [vector: RankedLists, keyword: RankedLists]
    /\ overlap \in [Texts -> Overlaps]
    /\ boost \in [Texts -> Boosts]
    /\ reranked = Unranked

-----------------------------------------------------------------------------
\* The sum of 1 / (i + 60) over the places of the list at which the text stands.
Reciprocals(list, text) ==
    LET sum[i \in 0..Len(list)] ==
            IF i = 0 THEN 0
            ELSE sum[i - 1] + IF list[i].text = text THEN 1000000 \div (i + 59) ELSE 0
    IN sum[Len(list)]

\* round(rrf + 0.5 * overlap + entity, 4)
Score(p) ==
    LET sum == Reciprocals(hits.vector, p.text) + Reciprocals(hits.keyword, p.text)
                 + overlap[p.text] \div 2 + boost[p.text]
    IN ((sum + 50) \div 100) * 100

Results == hits.vector \o hits.keyword

\* One place per text, the first in the two lists together.
Deduped == {i \in DOMAIN Results : \A k \in 1..(i - 1) : Results[k].text # Results[i].text}

\* The floor before the slice.
Relevant(p) == overlap[p.text] > 0 /\ Score(p) >= MinScore
Kept == {i \in Deduped : Relevant(Results[i])}

MutantOrder == {ik \in Kept \X Kept : ik[1] < ik[2]}
\* Which of what was kept comes before which: by score, and sort is stable.
ByScore ==
    LET score == [i \in Kept |-> Score(Results[i])]
    IN {ik \in Kept \X Kept :
          score[ik[1]] > score[ik[2]] \/ (score[ik[1]] = score[ik[2]] /\ ik[1] < ik[2])}

PagesOverlap(p, q) == p.first <= q.last /\ q.first <= p.last

NGrams(text) == {SubSeq(text, i, i + NGRAM - 1) : i \in 1..(Len(text) - NGRAM + 1)}

\* At least 12 per cent of the places of text begin an n-gram of the other one.
Covered(text, other) ==
    LET places == 1..(Len(text) - NGRAM + 1)
        shared == {i \in places : SubSeq(text, i, i + NGRAM - 1) \in NGrams(other)}
    IN places # {} /\ 100 * Cardinality(shared) >= 12 * Cardinality(places)

\* p repeats q, which is ranked above it.
Repeats(p, q) ==
    /\ HasBook(p)
    /\ p.book = q.book
    /\ PagesOverlap(p, q)
    /\ Covered(p.text, q.text)

\* What repeats nothing that came before it and was accepted.
SuppressOverlap(order) ==
    LET accepted[i \in Kept] ==
            ~\E k \in Kept : <<k, i>> \in order /\ accepted[k] /\ Repeats(Results[i], Results[k])
    IN {i \in Kept : accepted[i]}

\* The first top_k of them in their order.
FirstOf(places, order) ==
    LET Place(i) == Cardinality({k \in places : <<k, i>> \in order}) + 1
    IN [n \in 1..Min({TOP_K, Cardinality(places)}) |->
          Results[CHOOSE i \in places : Place(i) = n]]

\* Repeats are dropped before the passages are in their order.
MutantReranking == FirstOf(SuppressOverlap(MutantOrder), ByScore)
Reranking == FirstOf(SuppressOverlap(ByScore), ByScore)

Rerank ==
    /\ reranked = Unranked
    /\ reranked' = Reranking
    /\ UNCHANGED <<hits, overlap, boost>>

RerankSpec == RerankInit /\ [][Rerank]_rerankVars

-----------------------------------------------------------------------------
(* Properties. *)
\* "Keep only the highest-ranked chunk per overlapping page range; its text
\* already contains the shared passage": a relevant hit is missing from the
\* evidence only if at least as good a passage in it has the hit's text, or is
\* repeated by it (or by the copy of its text that stands for it), or if top_k as
\* good ones are there.
DroppedForBetter ==
    reranked # Unranked =>
        \A p \in Range(Results) \ Range(reranked) : Relevant(p) =>
            LET better == {k \in DOMAIN reranked : Score(reranked[k]) >= Score(p)}
                copies == {Results[i] : i \in {i \in Deduped : Results[i].text = p.text}}
            IN \/ \E k \in better, q \in copies :
                     reranked[k].text = p.text \/ Repeats(q, reranked[k])
               \/ better = 1..TOP_K
=============================================================================

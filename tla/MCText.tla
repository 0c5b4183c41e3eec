-------------------------------- MODULE MCText --------------------------------
(* Instances of the modules about texts for TLC.  They share no variable: a    *)
(* behaviour chunks a book, resolves a citation, numbers pages or ranks        *)
(* passages.                                                                   *)
EXTENDS Chunker, Citation, PageNumbers, Reranker

CONSTANTS ta, tb, tc, k1, k2

\* Tokens that occur in the cited passage, and one that is a prefix of one.
MCAlike == {{tb, tc}}
MCTokens == {ta, tb, tc, PageWord} \cup 11..14
MCClaims == {<<ta, tb>>, <<ta, tc, tb>>, <<11, ta, tb>>, <<12, ta, tb>>}

\* A text that turns the page at most once, after so many words.
OnPages(text, first, turn) ==
    <<[page |-> first, words |-> SubSeq(text, 1, turn)]>>
        \o (IF turn < Len(text)
            THEN <<[page |-> first + 1, words |-> SubSeq(text, turn + 1, Len(text))]>>
            ELSE <<>>)

\* The cited passage and a neighbour, of the same book or of another, that
\* shares its second page; each is on one page or on two.  The cited passage may
\* begin with a number, which may be that of its second page.
MCShown ==
    LET plain == [1..4 -> {ta, tb}]
        withNumber == {<<number, ta, tb, x, y>> : number \in {11, 12}, x, y \in {ta, tb}}
        Cited(text) == {[book |-> k1, pages |-> OnPages(text, 11, turn)] : turn \in {3, Len(text)}}
    IN {<<first, [book |-> book, pages |-> OnPages(second, 12, next)]>> :
            first \in UNION {Cited(text) : text \in plain \cup withNumber},
            second \in {w \in [1..3 -> {ta, tb, tc}] : w[1] # tc}, next \in {1, 3},
            book \in CiteBooks}

\* Books of two and of six pages.  A page has its number, none or a wrong one at
\* its foot, or its number once or twice and a wrong one.
MCLeaves ==
    LET Leaf(kind, p) ==
            LET own == p + TrueShift IN
            CASE kind = "none"   -> [foot |-> <<>>, head |-> <<>>]
              [] kind = "foot"   -> [foot |-> <<own>>, head |-> <<>>]
              [] kind = "noisy"  -> [foot |-> <<own>>, head |-> <<99>>]
              [] kind = "twice"  -> [foot |-> <<own, 1>>, head |-> <<own>>]
              [] kind = "low"    -> [foot |-> <<1>>, head |-> <<>>]
        Printings(n, Kinds) == {[p \in 1..n |-> Leaf(kinds[p], p)] : kinds \in [1..n -> Kinds]}
    IN Printings(2, {"none", "foot", "noisy", "twice", "low"})
       \cup Printings(6, {"none", "foot", "noisy", "low"})

\* Neighbours that share two tokens, one of them on other pages; the same text in
\* another book; a long chunk of which two shared tokens are less than 12 per
\* cent; a chunk without a book.
MCPassages ==
    LET long == [n \in 1..10 |-> IF n < 3 THEN ta ELSE tc] IN
    {[text |-> <<ta, ta, tb>>, book |-> k1, first |-> 1, last |-> 2],
     [text |-> <<tb, ta, ta>>, book |-> k1, first |-> 2, last |-> 3],
     [text |-> <<tb, ta, ta>>, book |-> k2, first |-> 2, last |-> 3],
     [text |-> <<ta, tb>>, book |-> k1, first |-> 3, last |-> 4],
     [text |-> long, book |-> k1, first |-> 1, last |-> 3],
     [text |-> <<tb, tb>>, book |-> NoBookId, first |-> 1, last |-> 1]}

NoRanking ==
    hits = [vector |-> <<>>, keyword |-> <<>>] /\ overlap = <<>> /\ boost = <<>>
        /\ reranked = Unranked
NoPages == leaves = <<>> /\ footer = <<>> /\ printed = <<>> /\ verdict = "idle"
NoCitation == shown = <<>> /\ numbered = {} /\ tag = <<>> /\ cited = NoPage
NoText ==
    /\ words = <<>> /\ bounds = {1} /\ strategy = "paragraphs" /\ pc = "done"
    /\ i = 1 /\ chunks = <<>> /\ start = 0 /\ pieces = <<>>
    /\ merged = <<>> /\ passages = <<>>

OtherTexts == <<citeVars, pageVars, rerankVars>>

TextInit ==
    \/ ChunkerInit /\ NoCitation /\ NoPages /\ NoRanking
    \/ CiteInit /\ NoText /\ NoPages /\ NoRanking
    \/ PageInit /\ NoText /\ NoCitation /\ NoRanking
    \/ RerankInit /\ NoText /\ NoCitation /\ NoPages

TextNext ==
    \/ TakeUnit /\ UNCHANGED OtherTexts
    \/ Absorb /\ UNCHANGED OtherTexts
    \/ Oversized /\ UNCHANGED OtherTexts
    \/ CutPiece /\ UNCHANGED OtherTexts
    \/ NextPass /\ UNCHANGED OtherTexts
    \/ EnforceCeiling /\ UNCHANGED OtherTexts
    \/ Merge /\ UNCHANGED OtherTexts
    \/ Build /\ UNCHANGED OtherTexts
    \/ Resolve /\ UNCHANGED <<chunkVars, pageVars, rerankVars>>
    \/ ReadPages /\ UNCHANGED <<chunkVars, citeVars, rerankVars>>
    \/ Impute /\ UNCHANGED <<chunkVars, citeVars, rerankVars>>
    \/ Validate /\ UNCHANGED <<chunkVars, citeVars, rerankVars>>
    \/ overlap # <<>> /\ Rerank /\ UNCHANGED <<chunkVars, citeVars, pageVars>>

TextVars == <<chunkVars, citeVars, pageVars, rerankVars>>

TextSpec == TextInit /\ [][TextNext]_TextVars
=============================================================================

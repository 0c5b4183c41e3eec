------------------------------- MODULE Citation -------------------------------
(***************************************************************************)
(* Which page a citation names.  The model tags a sentence with a passage  *)
(* and perhaps a page; _claim_page looks for the sentence in every passage *)
(* of the same book and corrects the page.                                 *)
(*                                                                         *)
(* Texts and claims are sequences of normalised tokens, and a number is a  *)
(* token of its own.  A passage has its pages, each with what it has of    *)
(* the text, and is short enough to be shown in full.                      *)
(***************************************************************************)
EXTENDS Integers, Sequences, FiniteSets, SequencesExt, FiniteSetsExt

CONSTANTS
    Tokens,
    PageWord,     \* the token of the word "Page" in a marker
    Alike,        \* the pairs of tokens of which one is a prefix of the other
    CiteBooks,
    Shift,        \* printed page - physical page
    NoPage,
    Shown,        \* the sequences of passages, the claims and the pages written
    Claims,       \* by the model to look at
    WrittenPages

ASSUME CitationAssumption ==
    /\ \A pair \in Alike : pair \subseteq Tokens /\ Cardinality(pair) = 2
    /\ PageWord \in Tokens /\ Shift \in Int /\ NoPage \notin Int
    /\ Claims \subseteq Seq(Tokens) /\ WrittenPages \subseteq Int
    /\ \A passages \in Shown :
         /\ passages \in Seq([book : CiteBooks, pages : Seq([page : Int, words : Seq(Tokens)])])
         /\ \A i \in DOMAIN passages :
              /\ passages[i].pages # <<>>
              /\ \A k \in DOMAIN passages[i].pages :
                   LET page == passages[i].pages[k].page
                   IN page > 0 /\ page + Shift > 0 /\ {page, page + Shift} \subseteq Tokens

VARIABLES
    shown,     \* the passages, each with its book and its pages
    numbered,  \* the books whose printed page numbers are known
    tag,       \* what the model has written: a passage, a page and the claim
    cited      \* the page the citation gets

citeVars == <<shown, numbered, tag, cited>>

-----------------------------------------------------------------------------
Number(book, page) == IF book \in numbered THEN page + Shift ELSE page

PagesOf(p) == {p.pages[k].page : k \in DOMAIN p.pages}
NumberOf(p, k) == Number(p.book, p.pages[k].page)
Numbers(p) == {NumberOf(p, k) : k \in DOMAIN p.pages}

\* _annotate_pages: only a passage on several pages is given markers.
Marked(p) == Len(p.pages) > 1
Marker(p, k) == IF Marked(p) THEN <<PageWord, NumberOf(p, k)>> ELSE <<>>

\* The words of a page and the marker before them, each token with the number of
\* the page.
Pieces(tokens, number, marker) ==
    [m \in DOMAIN tokens |-> [token |-> tokens[m], number |-> number, marker |-> marker]]
Segment(p, k) ==
    Pieces(Marker(p, k), NumberOf(p, k), TRUE)
        \o Pieces(p.pages[k].words, NumberOf(p, k), FALSE)

\* _annotation_for: the text that is searched, with the tokens of the markers.
Annotated(p) ==
    LET upTo[k \in 0..Len(p.pages)] ==
            IF k = 0 THEN <<>> ELSE upTo[k - 1] \o Segment(p, k)
    IN upTo[Len(p.pages)]

TokensOf(text) == [k \in DOMAIN text |-> text[k].token]
PlacesOn(text, number) == {k \in DOMAIN text : text[k].number = number}

TokenMatch(a, b) == a = b \/ {a, b} \in Alike

\* What Python's comparison of tuples calls greater.
Beats(a, b) == \E k \in DOMAIN a :
    a[k] > b[k] /\ \A m \in 1..(k - 1) : a[m] = b[m]

-----------------------------------------------------------------------------
(* The longest common subsequence. *)
Zeros(claim) == [j \in 0..Len(claim) |-> 0]

\* The best of the row before, without what is already matched in this row.
MutantNextRow(above, token, claim) ==
    [j \in 0..Len(claim) |->
        IF j > 0 /\ TokenMatch(token, claim[j]) /\ above[j - 1] + 1 > above[j]
        THEN above[j - 1] + 1 ELSE above[j]]
\* The row of the table for one more token of the text: the largest of what is
\* above, to the left, and one more than diagonal where the tokens match.
NextRow(above, token, claim) ==
    [j \in 0..Len(claim) |->
        Max({above[j]} \cup
            {above[k - 1] + 1 : k \in {k \in 1..j : TokenMatch(token, claim[k])}})]

\* The table for the tokens that stand at the given places of the text.
Table(claim, text, places) ==
    LET row[i \in 0..Len(text)] ==
            IF i = 0 THEN Zeros(claim)
            ELSE IF i \in places THEN NextRow(row[i - 1], text[i], claim)
            ELSE row[i - 1]
    IN row

LcsLen(claim, text, places) == Table(claim, text, places)[Len(text)][Len(claim)]

\* _locate_claim: the way back through the table, with the matched tokens in the
\* order of the text.
Back(claim, text) ==
    LET dp == Table(claim, text, DOMAIN text)
        back[ij \in (0..Len(text)) \X (0..Len(claim))] ==
            LET i == ij[1]
                j == ij[2]
                Taken == TokenMatch(text[i], claim[j]) /\ dp[i][j] = dp[i - 1][j - 1] + 1
            IN IF i = 0 \/ j = 0 THEN <<>>
               ELSE IF Taken THEN Append(back[<<i - 1, j - 1>>], [at |-> i, claim |-> j])
               ELSE IF dp[i - 1][j] >= dp[i][j - 1] THEN back[<<i - 1, j>>]
               ELSE back[<<i, j - 1>>]
    IN back

\* Nothing if the match is too weak.
Located(claim, text) ==
    LET best == LcsLen(claim, text, DOMAIN text)
    IN IF best >= 2 /\ (best = Len(claim) \/ 2 * best >= Len(claim))
       THEN Back(claim, text)[<<Len(text), Len(claim)>>] ELSE <<>>

-----------------------------------------------------------------------------
(* _dense_page *)
Weight(freq) == CASE freq \in {0, 1} -> 3 [] freq = 2 -> 2 [] OTHER -> 1

\* The places of the match that a page has.
MatchedOn(text, matched, page) == {k \in DOMAIN matched : text[matched[k].at].number = page}
Touched(text, matched) == {text[matched[k].at].number : k \in DOMAIN matched}

\* The sum of the weights of what the match took from a page.
Share(text, claim, matched, freq, page) ==
    Cardinality({kw \in MatchedOn(text, matched, page) \X (1..3) :
                   kw[2] <= Weight(freq[claim[matched[kw[1]].claim]])})

\* The pages are compared by the tokens that the match took from each.
MutantPageScore(text, claim, matched, freq, page) ==
    <<Share(text, claim, matched, freq, page), -Min(MatchedOn(text, matched, page)), 0>>
\* Among the pages the match touches: the one that holds most of the claim on
\* its own, then the one with the rarer tokens, then the first.
PageScore(text, claim, matched, freq, page) ==
    <<LcsLen(claim, TokensOf(text), PlacesOn(text, page)),
      Share(text, claim, matched, freq, page),
      -Min(MatchedOn(text, matched, page))>>

DensePage(text, claim, matched, freq) ==
    CHOOSE page \in Touched(text, matched) :
        \A q \in Touched(text, matched) :
            ~Beats(PageScore(text, claim, matched, freq, q),
                   PageScore(text, claim, matched, freq, page))

-----------------------------------------------------------------------------
(* _claim_page *)
\* The passages to look in, and their order: the cited one first.
MutantCandidates(idx) == DOMAIN shown
Candidates(idx) == {i \in DOMAIN shown : shown[i].book = shown[idx].book}
NotAfter(i, k, idx) == i = idx \/ (k # idx /\ i <= k)

\* In how many of the candidates a token occurs.
Frequency(idx) == [t \in Tokens |->
    Cardinality({i \in Candidates(idx) : t \in Range(TokensOf(Annotated(shown[i])))})]

\* Number of matched tokens, of equal ones and of those no other passage has.
Strength(text, claim, matched, freq) ==
    <<Len(matched),
      Cardinality({k \in DOMAIN matched :
                     text[matched[k].at].token = claim[matched[k].claim]}),
      Cardinality({k \in DOMAIN matched : freq[claim[matched[k].claim]] = 1})>>

\* What each candidate with markers has of the claim.
Finding(i, claim) ==
    LET text == Annotated(shown[i])
    IN [at |-> i, text |-> text, matched |-> Located(claim, TokensOf(text))]
Findings(idx, claim) ==
    {f \in {Finding(i, claim) : i \in {i \in Candidates(idx) : Marked(shown[i])}} :
        f.matched # <<>>}

\* Where the claim is found: the first of the strongest matches.
Found(idx, claim) ==
    LET freq == Frequency(idx)
        findings == Findings(idx, claim)
        S(f) == Strength(f.text, claim, f.matched, freq)
    IN {[page |-> DensePage(f.text, claim, f.matched, freq), total |-> Len(f.matched)] :
          f \in {f \in findings : \A g \in findings :
                    ~Beats(S(g), S(f)) /\ (Beats(S(f), S(g)) \/ NotAfter(f.at, g.at, idx))}}

\* Inside the cited passage half of the claim is enough.  The page that was
\* found is a marker's number, those of the passage are physical ones.
Accepted(idx, claim, found) ==
    IF found.page \in PagesOf(shown[idx])
    THEN 2 * found.total >= Len(claim)
    ELSE found.total >= Max({3, (3 * Len(claim)) \div 4 + 1})

\* The model's page if the passage has it, else the passage's first.
Fallback(idx, page) ==
    IF page \in Numbers(shown[idx]) THEN page ELSE NumberOf(shown[idx], 1)

ClaimPage(idx, page, claim) ==
    LET accepted == {f \in Found(idx, claim) : Accepted(idx, claim, f)}
    IN IF claim # <<>> /\ accepted # {}
       THEN (CHOOSE f \in accepted : TRUE).page
       ELSE Fallback(idx, page)

-----------------------------------------------------------------------------
CiteInit ==
    /\ shown \in Shown
    /\ numbered \in {{}, CiteBooks}
    /\ tag \in [idx : DOMAIN shown, page : WrittenPages, claim : Claims]
    /\ cited = NoPage

\* _resolve_citations
Resolve ==
    /\ shown # <<>> /\ cited = NoPage
    /\ cited' = ClaimPage(tag.idx, tag.page, tag.claim)
    /\ UNCHANGED <<shown, numbered, tag>>

CiteSpec == CiteInit /\ [][Resolve]_citeVars

-----------------------------------------------------------------------------
(* Properties. *)
\* A citation never names a page of the model's making: it is the number of a
\* page that was shown of the cited book.
PageIsShown ==
    cited # NoPage => \E i \in DOMAIN shown :
        shown[i].book = shown[tag.idx].book /\ cited \in Numbers(shown[i])

\* The reference: the parts of the claim that the text has, in order, at the places.
Aligned(f, claim, text) ==
    /\ \A j \in DOMAIN f : TokenMatch(text[f[j]], claim[j])
    /\ \A j, k \in DOMAIN f : j < k => f[j] < f[k]
PartsIn(claim, text, places) ==
    {J \in SUBSET DOMAIN claim : \E f \in [J -> places] : Aligned(f, claim, text)}
Holds(claim, text, places) == DOMAIN claim \in PartsIn(claim, text, places)
Longest(claim, text, places) == Max({Cardinality(J) : J \in PartsIn(claim, text, places)})

\* The table finds the longest common subsequence of the claim and a passage, or
\* what a page has of it, and the way back through it matches that many tokens in
\* the order of both.
LongestMatch ==
    cited # NoPage => \A i \in DOMAIN shown :
        LET annotated == Annotated(shown[i])
            text == TokensOf(annotated)
            matched == Located(tag.claim, text)
        IN /\ \A places \in {DOMAIN text} \cup {PlacesOn(annotated, n) : n \in Numbers(shown[i])} :
                LcsLen(tag.claim, text, places) = Longest(tag.claim, text, places)
           /\ Len(matched) \in {0, Longest(tag.claim, text, DOMAIN text)}
           /\ \A k \in DOMAIN matched :
                /\ TokenMatch(text[matched[k].at], tag.claim[matched[k].claim])
                /\ k > 1 => /\ matched[k - 1].at < matched[k].at
                            /\ matched[k - 1].claim < matched[k].claim

\* The words of a page, without its marker.
WordsOn(text, number) == {k \in PlacesOn(text, number) : ~text[k].marker}
HoldsOn(text, claim, number) == Holds(claim, TokensOf(text), WordsOn(text, number))

\* A claim that stands on one of the two pages of the cited passage and in no other
\* passage of the book is given a page whose own words hold all of it, whatever the
\* model wrote.  Two things the code needs: no token of the claim is the word or a
\* number of the markers, which are searched too; and the claim has three tokens,
\* or two if the book's pages have no printed numbers, since the number of a marker
\* is looked up among the physical pages of the passage and what is not among them
\* has to have three.
WholeClaimFound ==
    LET p == shown[tag.idx]
        text == Annotated(p)
    IN /\ cited # NoPage
       /\ Len(p.pages) = 2
       /\ Len(tag.claim) >= (IF p.book \in numbered THEN 3 ELSE 2)
       /\ \A k \in DOMAIN text, j \in DOMAIN tag.claim :
            text[k].marker => ~TokenMatch(text[k].token, tag.claim[j])
       /\ \E n \in Numbers(p) : HoldsOn(text, tag.claim, n)
       /\ \A i \in Candidates(tag.idx) \ {tag.idx} :
            LET other == TokensOf(Annotated(shown[i]))
            IN ~Holds(tag.claim, other, DOMAIN other)
       => HoldsOn(text, tag.claim, cited)
=============================================================================

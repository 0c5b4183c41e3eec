------------------------------- MODULE Chunker -------------------------------
(***************************************************************************)
(* How the text of a book becomes chunks: the loop of chunk() over units   *)
(* of text, the hard ceiling, the merging of short neighbours and the page *)
(* offsets that citations rely on.                                         *)
(*                                                                         *)
(* A book is a sequence of lines; what makes a line begin a new paragraph  *)
(* (a blank line, a heading, a gap) or matter to hadith and Quran books (a *)
(* hadith's number, an ayah's end) is its mark.  A word is its place in    *)
(* the text.  All words have WORD_LENGTH characters.                       *)
(***************************************************************************)
EXTENDS Integers, Sequences, FiniteSets, SequencesExt, FiniteSetsExt

CONSTANTS
    TARGET_MAX, MIN_TARGET, HARD_CEILING, CROSS_PAGE_MERGE_THRESHOLD,
    OVERLAP_BUDGET,  \* round(TARGET_MAX * OVERLAP_FRACTION), at least 1
    WORD_LENGTH,
    LineSizes, MaxLines  \* the bounds of the books

ASSUME ChunkerAssumption ==
    /\ {TARGET_MAX, HARD_CEILING, OVERLAP_BUDGET, WORD_LENGTH} \subseteq Nat \ {0}
    /\ {MIN_TARGET, CROSS_PAGE_MERGE_THRESHOLD, MaxLines} \subseteq Nat
    /\ LineSizes \subseteq Nat \ {0}
    /\ TARGET_MAX <= HARD_CEILING

VARIABLES
    words,     \* the text: page and line of each word, whether a sentence ends
    bounds,    \* where a unit of text starts, and one past the end
    strategy,
    pc, i,
    chunks,    \* what the loop has made
    start,     \* how many words of a chunk the hard ceiling has dealt with
    pieces,    \* what the hard ceiling leaves
    merged,    \* what has been merged
    passages   \* the page_offsets of each chunk, when all is done

chunkVars ==
    <<words, bounds, strategy, pc, i, chunks, start, pieces, merged, passages>>

-----------------------------------------------------------------------------
(* The book. *)
Line == [size: LineSizes, mark: BOOLEAN, ends: BOOLEAN, turns: BOOLEAN]
Books == SeqOf(Line, MaxLines)

\* turns says that a line is the first of the next page.
PageOf(lines, l) == 1 + Cardinality({m \in 2..l : lines[m].turns})

\* How many words the first l lines have.
UpTo(lines, l) == Cardinality(UNION {{m} \X (1..lines[m].size) : m \in 1..l})

\* The words of the lines, one line after another.
Flatten(lines) ==
    LET upTo == [l \in 0..Len(lines) |-> UpTo(lines, l)]
        Word(k, l) == [page |-> PageOf(lines, l), line |-> l,
                       ends |-> lines[l].ends /\ k = upTo[l]]
    IN [k \in 1..upTo[Len(lines)] |->
           Word(k, 1 + Cardinality({m \in DOMAIN lines : upTo[m] < k}))]

\* Whether a unit starts with line l > 1.
Breaks(how, lines, l) ==
    CASE how = "paragraphs" -> lines[l].mark
      [] how = "hadith" -> lines[l].mark /\ \E m \in 1..(l - 1) : lines[m].mark
      [] how = "quran" -> lines[l - 1].mark

Bounds(how, lines, text) ==
    {Len(text) + 1} \cup
    {k \in DOMAIN text :
        \/ k = 1
        \/ /\ text[k].line # text[k - 1].line
           /\ Breaks(how, lines, text[k].line)}

\* The text has been taken apart into units; the loops begin.
ChunkerInit ==
    \E lines \in Books :
        /\ words = Flatten(lines)
        /\ strategy \in {"paragraphs", "hadith", "quran"}
        /\ bounds = Bounds(strategy, lines, words)
        /\ pc = "split" /\ i = 1 /\ chunks = <<>> /\ start = 0
        /\ pieces = <<>> /\ merged = <<>> /\ passages = <<>>

Span(from, to) == [k \in 1..(to - from + 1) |-> from + k - 1]
Sentence(k) == words[k].ends
AtEnd == i = Len(words) + 1

-----------------------------------------------------------------------------
(* _split_chunks *)
After(k) == Min({b \in bounds : b > k})
Before(k) == Max({b \in bounds : b < k})

\* Hadith and Quran books: a unit is a chunk.
TakeUnit ==
    /\ pc = "split" /\ ~AtEnd /\ strategy # "paragraphs"
    /\ chunks' = Append(chunks, Span(i, After(i) - 1))
    /\ i' = After(i)
    /\ UNCHANGED <<words, bounds, strategy, pc, start, pieces, merged, passages>>

\* The end of the run of paragraphs from i that fits into one chunk.
Reach == Max({b \in bounds : b > i /\ b - i <= TARGET_MAX})

\* The walk back may reach the first paragraph of the chunk.
MutantOverlapStart(end) ==
    LET far == {b \in bounds : i < b /\ b < end /\ end - b >= OVERLAP_BUDGET}
    IN IF far = {} THEN i ELSE Before(Max(far))
\* _overlap_start: paragraphs are walked back from the end until they make the
\* overlap; one more is taken, but never the chunk's first.
OverlapStart(end) ==
    LET far == {b \in bounds : i < b /\ b < end /\ end - b >= OVERLAP_BUDGET}
    IN IF far = {} THEN After(i) ELSE Max({After(i), Before(Max(far))})

\* Paragraphs are absorbed while they fit; a chunk worth it is overlapped.
Absorb ==
    /\ pc = "split" /\ ~AtEnd /\ strategy = "paragraphs"
    /\ After(i) - i <= TARGET_MAX
    /\ chunks' = Append(chunks, Span(i, Reach - 1))
    /\ i' = IF Reach # Len(words) + 1 /\ Reach - i >= MIN_TARGET
            THEN OverlapStart(Reach) ELSE Reach
    /\ UNCHANGED <<words, bounds, strategy, pc, start, pieces, merged, passages>>

\* A paragraph too large is cut at sentence ends.
Oversized ==
    /\ pc = "split" /\ ~AtEnd /\ strategy = "paragraphs"
    /\ After(i) - i > TARGET_MAX
    /\ pc' = "cut"
    /\ UNCHANGED <<words, bounds, strategy, i, chunks, start, pieces, merged, passages>>

\* A piece ends as soon as it is full.
MutantCutPiece ==
    LET end == Min({After(i), i + TARGET_MAX})
    IN /\ pc = "cut"
       /\ chunks' = Append(chunks, Span(i, end - 1))
       /\ i' = end
       /\ pc' = IF end = After(i) THEN "split" ELSE "cut"
       /\ UNCHANGED <<words, bounds, strategy, start, pieces, merged, passages>>
\* What remains after the last full piece is forgotten.
MutantCutRest ==
    LET full == {k \in i..(After(i) - 1) : k - i + 1 >= TARGET_MAX /\ Sentence(k)}
        end  == IF full = {} THEN After(i) ELSE Min(full) + 1
    IN /\ pc = "cut"
       /\ chunks' = IF full = {} THEN chunks ELSE Append(chunks, Span(i, end - 1))
       /\ i' = end
       /\ pc' = IF end = After(i) THEN "split" ELSE "cut"
       /\ UNCHANGED <<words, bounds, strategy, start, pieces, merged, passages>>
\* _split_oversized_paragraph: one piece, or what remains.
CutPiece ==
    LET full == {k \in i..(After(i) - 1) : k - i + 1 >= TARGET_MAX /\ Sentence(k)}
        end  == IF full = {} THEN After(i) ELSE Min(full) + 1
    IN /\ pc = "cut"
       /\ chunks' = Append(chunks, Span(i, end - 1))
       /\ i' = end
       /\ pc' = IF end = After(i) THEN "split" ELSE "cut"
       /\ UNCHANGED <<words, bounds, strategy, start, pieces, merged, passages>>

-----------------------------------------------------------------------------
(* _enforce_hard_ceiling and _merge_cross_page_chunks *)
\* One pass over all chunks is followed by the next.
NextPass ==
    /\ \/ pc = "split" /\ AtEnd /\ pc' = "ceiling"
       \/ pc = "ceiling" /\ i > Len(chunks) /\ pc' = "merge"
    /\ i' = 1
    /\ UNCHANGED <<words, bounds, strategy, chunks, start, pieces, merged, passages>>

\* _enforce_hard_ceiling: one piece, which is the whole chunk if that is short
\* enough.
EnforceCeiling ==
    LET chunk == chunks[i]
        end   == Min({start + HARD_CEILING, Len(chunk)})
    IN /\ pc = "ceiling" /\ i <= Len(chunks)
       /\ pieces' = Append(pieces, SubSeq(chunk, start + 1, end))
       /\ IF end = Len(chunk) THEN i' = i + 1 /\ start' = 0
                              ELSE i' = i /\ start' = end
       /\ UNCHANGED <<words, bounds, strategy, pc, chunks, merged, passages>>

\* Whatever the length that comes of it.
MutantJoins(c, next) ==
    Len(c) < CROSS_PAGE_MERGE_THRESHOLD \/ ~Sentence(Last(c))
\* A chunk takes up its successor if both fit into one and it is short or ends
\* inside a sentence.
Joins(c, next) ==
    /\ Len(c) + Len(next) <= TARGET_MAX
    /\ Len(c) < CROSS_PAGE_MERGE_THRESHOLD \/ ~Sentence(Last(c))

Merge ==
    /\ pc = "merge" /\ i <= Len(pieces)
    /\ merged' = IF merged # <<>> /\ Joins(Last(merged), pieces[i])
                 THEN Append(Front(merged), Last(merged) \o pieces[i])
                 ELSE Append(merged, pieces[i])
    /\ i' = i + 1
    /\ UNCHANGED <<words, bounds, strategy, pc, chunks, start, pieces, passages>>

-----------------------------------------------------------------------------
(* _build_chunk: which characters of a chunk's text are on which page. *)
Page(k) == words[k].page
CharOf(x) == (x - 1) * (WORD_LENGTH + 1)  \* where the chunk's x-th word begins
Turns(c) == {x \in DOMAIN c : x = 1 \/ Page(c[x]) # Page(c[x - 1])}
\* In order: so many turns are not after the n-th one.
RunStarts(c) ==
    [n \in 1..Cardinality(Turns(c)) |->
        CHOOSE x \in Turns(c) : Cardinality({y \in Turns(c) : y <= x}) = n]

\* The pages' lengths are added up without the blanks between the words.
MutantPageOffsets(c) ==
    LET from == RunStarts(c) IN
    [n \in DOMAIN from |->
        [page |-> Page(c[from[n]]),
         start_char |-> (from[n] - 1) * WORD_LENGTH,
         end_char |-> IF n = Len(from) THEN Len(c) * WORD_LENGTH - 1
                                       ELSE (from[n + 1] - 1) * WORD_LENGTH - 1]]
\* _compute_page_offsets: a run ends at the blank before the next one, the last
\* one at the last character.
PageOffsets(c) ==
    LET from == RunStarts(c) IN
    [n \in DOMAIN from |->
        [page |-> Page(c[from[n]]),
         start_char |-> CharOf(from[n]),
         end_char |-> IF n = Len(from) THEN CharOf(Len(c) + 1) - 2
                                       ELSE CharOf(from[n + 1]) - 1]]

\* Without the breaks the search for the first run's number uses up all the words.
MutantStamped(c, offsets) == [n \in DOMAIN offsets |-> n = 1]
\* _annotate_offsets_with_printed: one pass over the words, which stops at the
\* first word of each run's page, or of a later one.  Whether the run got its
\* printed number.
Stamped(c, offsets) ==
    LET Seen(n, after) == {x \in DOMAIN c : x > after /\ Page(c[x]) >= offsets[n].page}
        at[n \in 0..Len(offsets)] ==
            IF n = 0 THEN 0
            ELSE IF Seen(n, at[n - 1]) = {} THEN Len(c) ELSE Min(Seen(n, at[n - 1]))
    IN [n \in DOMAIN offsets |->
            /\ Seen(n, at[n - 1]) # {}
            /\ Page(c[at[n]]) = offsets[n].page]

Build ==
    /\ pc = "merge" /\ i > Len(pieces)
    /\ passages' = [n \in DOMAIN merged |->
                        [page_offsets |-> PageOffsets(merged[n]),
                         printed |-> Stamped(merged[n], PageOffsets(merged[n]))]]
    /\ pc' = "done"
    /\ UNCHANGED <<words, bounds, strategy, i, chunks, start, pieces, merged>>

ChunkerNext ==
    \/ TakeUnit \/ Absorb \/ Oversized \/ CutPiece
    \/ NextPass \/ EnforceCeiling \/ Merge \/ Build

ChunkerSpec == ChunkerInit /\ [][ChunkerNext]_chunkVars

-----------------------------------------------------------------------------
(* Properties. *)
\* No word of the book is lost on the way into the chunks, whatever is
\* overlapped, cut and merged, and the chunks keep the order of the text.
NothingLost ==
    pc = "done" =>
        /\ UNION {Range(merged[n]) : n \in DOMAIN merged} = DOMAIN words
        /\ \A n \in 2..Len(merged) : Head(merged[n - 1]) < Head(merged[n])

\* The loop over the paragraphs always gets on: _overlap_start never goes back
\* to where the chunk began ("would loop forever").
Progress == [][chunks' # chunks => i' > i]_chunkVars

\* "overlapping regions never cut a sentence in half": a chunk of paragraphs
\* begins and ends with a paragraph or a sentence, unless the hard ceiling cut.
Clean(k) == k \in bounds \/ (k > 1 /\ Sentence(k - 1))
SentencesWhole ==
    strategy = "paragraphs" => \A n \in DOMAIN merged :
        /\ \/ Clean(Head(merged[n]))
           \/ n > 1 /\ Len(merged[n - 1]) = HARD_CEILING
        /\ Clean(Last(merged[n]) + 1) \/ Len(merged[n]) = HARD_CEILING

\* Merging never undoes what the hard ceiling has cut.
CeilingKept == \A n \in DOMAIN merged : Len(merged[n]) <= HARD_CEILING

\* The page offsets tell every word's page: a word lies in one range only, in
\* the range of its page, and no range leaves the text of the chunk.
PagesKnown ==
    \A n \in DOMAIN passages : LET c == merged[n]
                                   offsets == passages[n].page_offsets IN
        \A x \in DOMAIN c, o \in DOMAIN offsets :
            LET inside == /\ offsets[o].start_char <= CharOf(x)
                          /\ CharOf(x) + WORD_LENGTH - 1 <= offsets[o].end_char
            IN /\ offsets[o].end_char < CharOf(Len(c) + 1) - 1
               /\ inside => offsets[o].page = Page(c[x])
               /\ \E p \in DOMAIN offsets :
                    /\ offsets[p].start_char <= CharOf(x)
                    /\ CharOf(x) + WORD_LENGTH - 1 <= offsets[p].end_char

\* Every page of a chunk that is one stretch of the book gets its printed number.
PrintedKept ==
    \A n \in DOMAIN passages :
        merged[n] = Span(Head(merged[n]), Last(merged[n])) =>
            \A o \in DOMAIN passages[n].printed : passages[n].printed[o]
=============================================================================
